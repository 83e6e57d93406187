-------------------------- MODULE DownloaderProofs --------------------------
(* Theorems of the download engine, for any number of workers, requests,     *)
(* keys, versions and jobs, and any set of faults.                           *)
EXTENDS Downloader, FiniteSetTheorems, SequenceTheorems, TLAPS

\* NextIds gives ids that are naturals and not in the table yet.
LEMMA NextIdsFresh ==
    ASSUME NEW table, \A r \in table : r.id \in Nat,
           NEW n \in NextIds(table)
    PROVE  n \in Nat /\ \A r \in table : r.id # n
  BY DEF NextIds

LEMMA InitTypeOK == Init => TypeOK
<1> SUFFICES ASSUME Init PROVE TypeOK
  OBVIOUS
<1>1. Idle \in WorkType
  BY DEF Idle, WorkType, PCs
<1>2. queue \in Seq(Tasks) /\ Len(queue) <= QueueSize
  BY BoundsAssumption DEF Init
<1>3. work \in [Workers -> WorkType]
  BY <1>1 DEF Init
<1>4. \A w \in Workers : work[w].pc = "idle" /\ work[w].task = None
  BY DEF Init, Idle
<1>5. jobs \in Seq(Jobs)
  BY DEF Init
<1> QED
  BY <1>2, <1>3, <1>4, <1>5 DEF Init, TypeOK

\* The conjuncts of TypeOK that a step of a worker may disturb: one for its own
\* stack, whatever the step, stated for a new value of that stack.
LEMMA WorkerTypeOK ==
    ASSUME TypeOK, NEW w \in Workers, NEW s \in WorkType,
           s.pc = "idle" <=> s.task = None,
           s.pc \in {"volume", "persist"} => s.archive # None,
           work' = [work EXCEPT ![w] = s]
    PROVE  /\ work' \in [Workers -> WorkType]
           /\ \A v \in Workers :
                 /\ work'[v].pc = "idle" <=> work'[v].task = None
                 /\ work'[v].pc \in {"volume", "persist"} => work'[v].archive # None
<1>1. work' \in [Workers -> WorkType]
  BY DEF TypeOK
<1>2. \A v \in Workers : work'[v] = IF v = w THEN s ELSE work[v]
  BY DEF TypeOK
<1> QED
  BY <1>1, <1>2 DEF TypeOK

LEMMA SnapshotType ==
    ASSUME TypeOK, NEW row \in chapters
    PROVE  Snapshot(row) \in Snapshots
  BY DEF TypeOK, Snapshot, Snapshots, PagesOf, PageRows

LEMMA ExistingType ==
    ASSUME TypeOK, NEW key
    PROVE  Existing(key) \in Snapshots \cup {None}
<1>1. CASE key \in StoredKeys
  <2>1. RowOf(key) \in chapters
    BY <1>1 DEF StoredKeys, RowOf
  <2> QED
    BY <1>1, <2>1, SnapshotType DEF Existing
<1>2. CASE key \notin StoredKeys
  BY <1>2 DEF Existing
<1> QED
  BY <1>1, <1>2

LEMMA HeldTask ==
    ASSUME TypeOK, NEW w \in Workers, work[w].pc # "idle"
    PROVE  work[w].task \in Tasks /\ work[w].task.key \in Keys
  BY DEF TypeOK, WorkType, Tasks

\* A step that only moves a worker on, to a place that asks no more of its stack.
LEMMA GotoTypeOK ==
    ASSUME TypeOK, NEW w \in Workers, NEW pc \in PCs \ {"idle"},
           work[w].pc # "idle", Goto(w, pc),
           pc \in {"volume", "persist"} => work[w].archive # None
    PROVE  /\ work' \in [Workers -> WorkType]
           /\ \A v \in Workers :
                 /\ work'[v].pc = "idle" <=> work'[v].task = None
                 /\ work'[v].pc \in {"volume", "persist"} => work'[v].archive # None
<1> DEFINE s == [work[w] EXCEPT !.pc = pc]
<1>1. s \in WorkType /\ s.pc = pc /\ s.task = work[w].task /\ s.archive = work[w].archive
  BY DEF TypeOK, WorkType
<1>2. work' = [work EXCEPT ![w] = s]
  BY DEF Goto
<1>3. work[w].task # None
  BY DEF TypeOK
<1> HIDE DEF s
<1> QED
  BY <1>1, <1>2, <1>3, WorkerTypeOK

LEMMA IdleTypeOK ==
    ASSUME TypeOK, NEW w \in Workers, work' = [work EXCEPT ![w] = Idle]
    PROVE  /\ work' \in [Workers -> WorkType]
           /\ \A v \in Workers :
                 /\ work'[v].pc = "idle" <=> work'[v].task = None
                 /\ work'[v].pc \in {"volume", "persist"} => work'[v].archive # None
<1>1. Idle \in WorkType /\ Idle.pc = "idle" /\ Idle.task = None
  BY DEF Idle, WorkType, PCs
<1> QED
  BY <1>1, WorkerTypeOK

LEMMA SetStatusType ==
    ASSUME TypeOK, NEW j, NEW status \in {"done", "error"}
    PROVE  [jobs EXCEPT ![j].status = status] \in Seq(Jobs)
<1>1. CASE j \in DOMAIN jobs
  <2>1. j \in 1..Len(jobs) /\ jobs[j] \in Jobs
    BY <1>1 DEF TypeOK
  <2>2. [jobs[j] EXCEPT !.status = status] \in Jobs
    BY <2>1 DEF Jobs
  <2> QED
    BY <2>1, <2>2, ExceptSeq DEF TypeOK
<1>2. CASE j \notin DOMAIN jobs
  <2>1. [jobs EXCEPT ![j].status = status] = jobs
    BY <1>2 DEF TypeOK
  <2> QED
    BY <2>1 DEF TypeOK
<1> QED
  BY <1>1, <1>2

LEMMA OwnersType ==
    ASSUME TypeOK, NEW ids
    PROVE  Owners(ids) \subseteq Nat
  BY DEF TypeOK, Owners, PageRows

LEMMA WorkerStepTypeOK ==
    ASSUME TypeOK, NEW w \in Workers, WorkerStep(w)
    PROVE  TypeOK'
<1> DEFINE t == work[w].task
<1>1. CASE Take(w)
  <2> DEFINE s == [work[w] EXCEPT !.pc = "create", !.task = Head(queue)]
  <2>1. Head(queue) \in Tasks /\ queue' \in Seq(Tasks) /\ Len(queue') <= QueueSize
    BY <1>1, BoundsAssumption DEF Take, TypeOK
  <2>2. s \in WorkType /\ s.pc = "create" /\ s.task # None
    BY <2>1, NoneAssumption DEF TypeOK, WorkType, PCs
  <2>3. work' = [work EXCEPT ![w] = s]
    BY <1>1 DEF Take
  <2> HIDE DEF s
  <2> QED
    BY <1>1, <2>1, <2>2, <2>3, WorkerTypeOK, ZenonT(60) DEF Take, TypeOK, tables, history
<1>2. CASE CreateJob(w)
  <2> DEFINE s == [work[w] EXCEPT !.pc = "load", !.job = Len(jobs) + 1]
  <2>0. Len(jobs) + 1 \in Nat
    BY DEF TypeOK
  <2>1. s \in WorkType /\ s.pc = "load" /\ s.task # None
    BY <1>2, <2>0 DEF CreateJob, TypeOK, WorkType, PCs
  <2>2. work' = [work EXCEPT ![w] = s]
    BY <1>2 DEF CreateJob
  <2>3. jobs' \in Seq(Jobs)
    BY <1>2, HeldTask DEF CreateJob, TypeOK, Jobs
  <2> HIDE DEF s
  <2> QED
    BY <1>2, <2>1, <2>2, <2>3, WorkerTypeOK DEF CreateJob, TypeOK, history
<1>3. CASE CreateJobFails(w)
  BY <1>3, IdleTypeOK DEF CreateJobFails, TypeOK, tables, history
<1>4. CASE SkipExisting(w) \/ NoPages(w)
  <2>1. Goto(w, "set_done") /\ work[w].pc # "idle"
    BY <1>4 DEF SkipExisting, NoPages
  <2> QED
    BY <1>4, <2>1, GotoTypeOK DEF SkipExisting, NoPages, TypeOK, tables, history, PCs
<1>5. CASE LoadExisting(w)
  <2> DEFINE s == [work[w] EXCEPT !.pc = "fetch", !.seen = Existing(t.key)]
  <2>1. s \in WorkType /\ s.pc = "fetch" /\ s.task # None
    BY <1>5, ExistingType DEF LoadExisting, TypeOK, WorkType, PCs
  <2>2. work' = [work EXCEPT ![w] = s]
    BY <1>5 DEF LoadExisting
  <2>3. overlapped' \subseteq Keys
    BY <1>5, HeldTask DEF LoadExisting, TypeOK
  <2> HIDE DEF s
  <2> QED
    BY <1>5, <2>1, <2>2, <2>3, WorkerTypeOK DEF LoadExisting, TypeOK, tables, history
<1>6. CASE SourceFails(w) \/ PersistRejected(w) \/ PersistFails(w) \/ SetDoneFails(w)
  <2>1. Goto(w, "set_error") /\ work[w].pc # "idle"
    BY <1>6 DEF SourceFails, PersistRejected, PersistFails, SetDoneFails
  <2> QED
    BY <1>6, <2>1, GotoTypeOK
       DEF SourceFails, PersistRejected, PersistFails, SetDoneFails, TypeOK, tables, history, PCs
<1>7. CASE Pack(w)
  <2>1. PICK version \in Versions :
          LET cbz == [key |-> t.key, version |-> version]
          IN  /\ disk' = [disk EXCEPT ![PathOf[t.key]] = cbz]
              /\ work' = [work EXCEPT ![w].pc = "volume", ![w].archive = cbz]
    BY <1>7 DEF Pack
  <2> DEFINE cbz == [key |-> t.key, version |-> version]
             s == [work[w] EXCEPT !.pc = "volume", !.archive = cbz]
  <2>2. cbz \in Archives /\ cbz # None
    BY <1>7, HeldTask, NoneAssumption DEF Pack, Archives
  <2>3. disk' \in [Paths -> Archives \cup {None}]
    BY <2>1, <2>2 DEF TypeOK
  <2>4. s \in WorkType /\ s.pc = "volume" /\ s.task # None /\ s.archive # None
    <3>1. work[w].pc # "idle"
      BY <1>7 DEF Pack
    <3> HIDE DEF cbz
    <3> QED
      BY <2>2, <3>1 DEF TypeOK, WorkType, PCs
  <2>5. work' = [work EXCEPT ![w] = s]
    BY <2>1
  <2> HIDE DEF s, cbz
  <2> QED
    BY <1>7, <2>3, <2>4, <2>5, WorkerTypeOK DEF Pack, TypeOK, tables, history
<1>8. CASE FindVolume(w)
  <2> DEFINE found == VolumeOf[t.key] \in volumes
             s == [work[w] EXCEPT !.pc = "persist", !.hasVolume = found]
  <2>0. found \in BOOLEAN
    OBVIOUS
  <2>1. s \in WorkType /\ s.pc = "persist" /\ s.task # None /\ s.archive # None
    <3> HIDE DEF found
    <3> QED BY <1>8, <2>0 DEF FindVolume, TypeOK, WorkType, PCs
  <2>2. work' = [work EXCEPT ![w] = s]
    BY <1>8 DEF FindVolume
  <2> HIDE DEF s
  <2> QED
    BY <1>8, <2>1, <2>2, WorkerTypeOK DEF FindVolume, TypeOK, tables, history
<1>9. CASE InsertChapter(w)
  <2>1. work[w].archive \in Archives /\ t.key \in Keys /\ VolumeOf[t.key] \in Volumes
    BY <1>9, HeldTask, KeysAssumption DEF InsertChapter, TypeOK, WorkType
  <2>2. chapters' \subseteq Rows /\ pages' \subseteq PageRows
    BY <1>9, <2>1, NextIdsFresh DEF InsertChapter, TypeOK, Rows, PageRows
  <2>3. volumes' \subseteq Volumes
    BY <1>9, <2>1 DEF InsertChapter, TypeOK
  <2>4. overlapped' \subseteq Keys /\ robbed' \subseteq Nat
    BY <1>9, <2>1 DEF InsertChapter, TypeOK
  <2> QED
    BY <1>9, <2>2, <2>3, <2>4, GotoTypeOK DEF InsertChapter, TypeOK, PCs
<1>10. CASE RewriteChapter(w)
  <2>1. work[w].archive \in Archives /\ t.key \in Keys /\ VolumeOf[t.key] \in Volumes
    BY <1>10, HeldTask, KeysAssumption DEF RewriteChapter, TypeOK, WorkType
  <2>2. work[w].seen.row.id \in Nat
    BY <1>10 DEF RewriteChapter, TypeOK, WorkType, Snapshots, Rows
  <2>3. chapters' \subseteq Rows
    BY <1>10, <2>1 DEF RewriteChapter, Rewritten, TypeOK, Rows
  <2>4. pages' \subseteq PageRows
    BY <1>10, <2>1, <2>2, NextIdsFresh DEF RewriteChapter, OtherPages, TypeOK, PageRows
  <2>5. volumes' \subseteq Volumes
    BY <1>10, <2>1 DEF RewriteChapter, TypeOK
  <2>6. robbed' \subseteq Nat
    BY <1>10, OwnersType DEF RewriteChapter, TypeOK
  <2> QED
    BY <1>10, <2>6, <2>3, <2>4, <2>5, GotoTypeOK DEF RewriteChapter, TypeOK, PCs
<1>11. CASE SetDone(w)
  <2>1. jobs' \in Seq(Jobs)
    BY <1>11, SetStatusType DEF SetDone
  <2> QED
    BY <1>11, <2>1, IdleTypeOK DEF SetDone, TypeOK, history
<1>12. CASE SetError(w)
  <2>1. jobs' \in Seq(Jobs)
    BY <1>12, SetStatusType DEF SetError
  <2> QED
    BY <1>12, <2>1, IdleTypeOK DEF SetError, TypeOK, history
<1>13. CASE SetErrorFails(w)
  BY <1>13, IdleTypeOK DEF SetErrorFails, TypeOK, tables, history
<1> QED
  BY <1>1, <1>2, <1>3, <1>4, <1>5, <1>6, <1>7, <1>8, <1>9, <1>10, <1>11, <1>12, <1>13
     DEF WorkerStep

LEMMA DeleterStepTypeOK ==
    ASSUME TypeOK, NEW d \in Deleters, DeleterStep(d)
    PROVE  TypeOK'
<1>1. ASSUME NEW row \in chapters, BeginDelete(d, row) PROVE TypeOK'
  <2>1. requests' \in [Deleters -> Snapshots \cup {None}]
    BY <1>1, SnapshotType DEF BeginDelete, TypeOK
  <2>2. disk' \in [Paths -> Archives \cup {None}]
    BY <1>1 DEF BeginDelete, TypeOK
  <2> QED
    BY <1>1, <2>1, <2>2 DEF BeginDelete, TypeOK, tables, history
<1>2. CASE CommitDelete(d)
  BY <1>2, OwnersType DEF CommitDelete, TypeOK
<1>3. CASE DeleteFails(d)
  BY <1>3 DEF DeleteFails, TypeOK, tables, history
<1> QED
  BY <1>1, <1>2, <1>3 DEF DeleterStep

LEMMA TypeOKStep == TypeOK /\ [Next]_vars => TypeOK'
<1> SUFFICES ASSUME TypeOK, [Next]_vars PROVE TypeOK'
  OBVIOUS
<1>1. ASSUME NEW task \in Tasks, Enqueue(task) PROVE TypeOK'
  <2>1. queue' \in Seq(Tasks) /\ Len(queue') <= QueueSize
    BY <1>1, BoundsAssumption DEF Enqueue, TypeOK
  <2> QED
    BY <1>1, <2>1 DEF Enqueue, TypeOK, tables, history
<1>2. ASSUME NEW path \in Paths, FileLost(path) PROVE TypeOK'
  BY <1>2 DEF FileLost, TypeOK, tables, history
<1>3. ASSUME StopWorkers, requests' \in [Deleters -> Snapshots \cup {None}]
      PROVE  TypeOK'
  <2>1. Idle \in WorkType /\ Idle.pc = "idle" /\ Idle.task = None
    BY DEF Idle, WorkType, PCs
  <2>2. /\ work' \in [Workers -> WorkType]
        /\ \A w \in Workers : work'[w] = Idle
    BY <1>3, <2>1 DEF StopWorkers
  <2>3. queue' \in Seq(Tasks) /\ Len(queue') <= QueueSize
    BY <1>3, BoundsAssumption DEF StopWorkers
  <2> QED
    BY <1>3, <2>1, <2>2, <2>3 DEF StopWorkers, TypeOK, tables, history
<1>4. CASE Start
  BY <1>4 DEF Start, TypeOK, tables, history
<1>5. CASE UNCHANGED vars
  BY <1>5 DEF vars, tables, history, TypeOK
<1>6. CASE \E key \in Keys : EnqueueMissing(key)
  BY <1>1, <1>6 DEF EnqueueMissing, Tasks
<1>7. CASE \E row \in chapters : Redownload(row)
  BY <1>1, <1>7 DEF Redownload, Tasks, Rows, TypeOK
<1>8. CASE Shutdown \/ Crash
  BY <1>3, <1>8 DEF Shutdown, Crash, TypeOK
<1> QED
  BY <1>2, <1>4, <1>5, <1>6, <1>7, <1>8, WorkerStepTypeOK, DeleterStepTypeOK DEF Next

\* Every variable of the engine keeps its shape, and the queue its bound.
THEOREM TypeCorrect == Spec => []TypeOK
<1> QED
  BY InitTypeOK, TypeOKStep, PTL DEF Spec

-----------------------------------------------------------------------------
(* One row per key.  UniqueRows is inductive given TypeOK: ids are fresh in *)
(* NextIds, a key is inserted only if no row has it when the transaction    *)
(* commits, and an UPDATE assigns neither.                                  *)

LEMMA UniqueRowsStep == TypeOK /\ UniqueRows /\ [Next]_vars => UniqueRows'
<1> SUFFICES ASSUME TypeOK, UniqueRows, [Next]_vars PROVE UniqueRows'
  OBVIOUS
<1>1. CASE UNCHANGED chapters
  BY <1>1 DEF UniqueRows
<1>2. ASSUME NEW w \in Workers, InsertChapter(w) PROVE UniqueRows'
  <2>1. PICK id \in NextIds(chapters) :
          chapters' = chapters \cup
            {[id |-> id, key |-> work[w].task.key, sha |-> work[w].archive]}
    BY <1>2 DEF InsertChapter
  <2>2. \A r \in chapters : r.id # id
    BY NextIdsFresh DEF TypeOK, Rows
  <2>3. \A r \in chapters : r.key # work[w].task.key
    BY <1>2 DEF InsertChapter, KeyTaken, StoredKeys
  <2> QED
    BY <2>1, <2>2, <2>3 DEF UniqueRows
<1>3. ASSUME NEW w \in Workers, RewriteChapter(w) PROVE UniqueRows'
  <2>1. \A r \in chapters : Rewritten(w, r).id = r.id /\ Rewritten(w, r).key = r.key
    BY DEF Rewritten, TypeOK, Rows
  <2> QED
    BY <1>3, <2>1 DEF RewriteChapter, UniqueRows
<1>4. ASSUME NEW d \in Deleters, CommitDelete(d) PROVE UniqueRows'
  BY <1>4 DEF CommitDelete, UniqueRows
<1>5. ASSUME NEW w \in Workers, WorkerStep(w),
             ~InsertChapter(w), ~RewriteChapter(w)
      PROVE  UNCHANGED chapters
  BY <1>5 DEF WorkerStep, Take, CreateJob, CreateJobFails, SkipExisting, LoadExisting,
       NoPages, SourceFails, Pack, FindVolume, PersistRejected, PersistFails,
       SetDone, SetDoneFails, SetError, SetErrorFails, tables
<1>6. ASSUME NEW d \in Deleters, DeleterStep(d), ~CommitDelete(d)
      PROVE  UNCHANGED chapters
  BY <1>6 DEF DeleterStep, BeginDelete, DeleteFails, tables
<1>7. ASSUME \/ \E key \in Keys : EnqueueMissing(key)
             \/ \E row \in chapters : Redownload(row)
             \/ \E path \in Paths : FileLost(path)
             \/ Shutdown \/ Crash \/ Start \/ UNCHANGED vars
      PROVE  UNCHANGED chapters
  BY <1>7 DEF EnqueueMissing, Redownload, Enqueue, FileLost, Shutdown, Crash,
       StopWorkers, Start, vars, tables
<1> QED
  BY <1>1, <1>2, <1>3, <1>4, <1>5, <1>6, <1>7 DEF Next

\* "A chapter downloaded twice is the same row", for any number of workers,
\* overwrites, deletes and failures between them.
THEOREM OneRowPerKey == Spec => []UniqueRows
<1>1. Init => UniqueRows
  BY DEF Init, UniqueRows
<1> QED
  BY <1>1, UniqueRowsStep, TypeCorrect, PTL DEF Spec

-----------------------------------------------------------------------------
(* Each worker holds a job of its own.                                      *)

\* A step that leaves the jobs alone keeps HeldJobs if every worker keeps the
\* job and the task it had, or is left with no job.
LEMMA HeldJobsKept ==
    ASSUME HeldJobs, UNCHANGED jobs,
           \A v \in Workers : HoldsJob(v)' =>
              /\ HoldsJob(v)
              /\ work'[v].job = work[v].job
              /\ work'[v].task = work[v].task
    PROVE  HeldJobs'
<1>1. ASSUME NEW w \in Workers, HoldsJob(w)'
      PROVE  /\ work'[w].job \in DOMAIN jobs'
             /\ jobs'[work'[w].job] = [key |-> work'[w].task.key, status |-> "running"]
  BY <1>1 DEF HeldJobs
<1>2. ASSUME NEW v \in Workers, NEW w \in Workers, HoldsJob(v)', HoldsJob(w)',
             work'[v].job = work'[w].job
      PROVE  v = w
  BY <1>2 DEF HeldJobs
<1> QED
  BY <1>1, <1>2 DEF HeldJobs

\* HeldJobs from what each worker holds after a step.
LEMMA HeldJobsFrom ==
    ASSUME \A w \in Workers : HoldsJob(w)' =>
              /\ work'[w].job \in DOMAIN jobs'
              /\ jobs'[work'[w].job] = [key |-> work'[w].task.key, status |-> "running"],
           \A v, w \in Workers :
              HoldsJob(v)' /\ HoldsJob(w)' /\ work'[v].job = work'[w].job => v = w
    PROVE  HeldJobs'
  BY DEF HeldJobs

\* The worker w moves on inside its task, or lets go of it.
LEMMA WorkerMoves ==
    ASSUME TypeOK, NEW w \in Workers, HoldsJob(w),
           \/ \E pc \in PCs : Goto(w, pc)
           \/ LoadExisting(w) \/ Pack(w) \/ FindVolume(w)
    PROVE  \A v \in Workers : HoldsJob(v)' =>
              /\ HoldsJob(v)
              /\ work'[v].job = work[v].job
              /\ work'[v].task = work[v].task
<1> DEFINE Kept == \A v \in Workers :
              /\ v # w => work'[v] = work[v]
              /\ work'[v].job = work[v].job /\ work'[v].task = work[v].task
<1>1. ASSUME NEW pc \in PCs, Goto(w, pc) PROVE Kept
  BY <1>1 DEF TypeOK, WorkType, Goto
<1>2. ASSUME LoadExisting(w) PROVE Kept
  BY <1>2 DEF TypeOK, WorkType, LoadExisting
<1>3. ASSUME Pack(w) PROVE Kept
  <2>1. PICK cbz : work' = [work EXCEPT ![w].pc = "volume", ![w].archive = cbz]
    BY <1>3 DEF Pack
  <2> QED
    BY <2>1 DEF TypeOK, WorkType
<1>4. ASSUME FindVolume(w) PROVE Kept
  <2> DEFINE found == VolumeOf[work[w].task.key] \in volumes
  <2>1. work' = [work EXCEPT ![w].pc = "persist", ![w].hasVolume = found]
    BY <1>4 DEF FindVolume
  <2> HIDE DEF found
  <2> QED
    BY <2>1 DEF TypeOK, WorkType
<1> QED
  BY <1>1, <1>2, <1>3, <1>4 DEF HoldsJob

LEMMA WorkerLetsGo ==
    ASSUME TypeOK, NEW w \in Workers, work' = [work EXCEPT ![w] = Idle]
    PROVE  \A v \in Workers : HoldsJob(v)' => v # w /\ work'[v] = work[v] /\ HoldsJob(v)
  BY DEF TypeOK, HoldsJob, Idle

LEMMA HeldJobsStep == TypeOK /\ HeldJobs /\ [Next]_vars => HeldJobs'
<1> SUFFICES ASSUME TypeOK, HeldJobs, [Next]_vars PROVE HeldJobs'
  OBVIOUS
<1>1. CASE UNCHANGED <<work, jobs>>
  BY <1>1 DEF HeldJobs, HoldsJob
<1>2. CASE StopWorkers
  BY <1>2, HeldJobsKept DEF StopWorkers, HoldsJob, Idle, tables
<1>3. ASSUME NEW w \in Workers, WorkerStep(w) PROVE HeldJobs'
  <2>1. CASE Take(w)
    <3>1. \A v \in Workers : HoldsJob(v)' => v # w /\ work'[v] = work[v]
      BY <2>1 DEF Take, HoldsJob, TypeOK
    <3> QED
      BY <2>1, <3>1, HeldJobsKept DEF Take, HoldsJob, tables
  <2>2. CASE CreateJob(w)
    <3> DEFINE new == [key |-> work[w].task.key, status |-> "running"]
    <3>1. /\ DOMAIN jobs' = DOMAIN jobs \cup {Len(jobs) + 1}
          /\ Len(jobs) + 1 \notin DOMAIN jobs
          /\ \A j \in DOMAIN jobs : jobs'[j] = jobs[j]
          /\ jobs'[Len(jobs) + 1] = new
      <4>1. new \in Jobs
        BY <2>2, HeldTask DEF CreateJob, Jobs
      <4>2. jobs \in Seq(Jobs) /\ jobs' = Append(jobs, new)
        BY <2>2 DEF CreateJob, TypeOK
      <4> HIDE DEF new
      <4> QED
        BY <4>1, <4>2
    <3>2. \A v \in Workers : HoldsJob(v)' =>
             \/ v # w /\ work'[v] = work[v] /\ HoldsJob(v)
             \/ v = w /\ work'[v].job = Len(jobs) + 1 /\ work'[v].task = work[v].task
      BY <2>2 DEF CreateJob, HoldsJob, TypeOK, WorkType
    <3>3. \A v \in Workers : HoldsJob(v)' =>
             /\ work'[v].job \in DOMAIN jobs'
             /\ jobs'[work'[v].job] = [key |-> work'[v].task.key, status |-> "running"]
      BY <3>1, <3>2 DEF HeldJobs
    <3>4. ASSUME NEW u \in Workers, NEW v \in Workers,
                 HoldsJob(u)', HoldsJob(v)', work'[u].job = work'[v].job
          PROVE  u = v
      <4>1. \A x \in Workers : HoldsJob(x)' /\ x # w =>
               HoldsJob(x) /\ work'[x].job = work[x].job /\ work[x].job \in DOMAIN jobs
        BY <3>2 DEF HeldJobs
      <4>2. CASE u = w \/ v = w
        BY <3>1, <3>2, <3>4, <4>1, <4>2
      <4>3. CASE u # w /\ v # w
        BY <3>4, <4>1, <4>3 DEF HeldJobs
      <4> QED
        BY <4>2, <4>3
    <3> QED
      BY <3>3, <3>4, HeldJobsFrom
  <2>3. CASE CreateJobFails(w) \/ SetErrorFails(w)
    BY <2>3, WorkerLetsGo, HeldJobsKept DEF CreateJobFails, SetErrorFails, tables
  <2>4. CASE \/ SkipExisting(w) \/ LoadExisting(w) \/ NoPages(w) \/ SourceFails(w)
             \/ Pack(w) \/ FindVolume(w) \/ InsertChapter(w) \/ RewriteChapter(w)
             \/ PersistRejected(w) \/ PersistFails(w) \/ SetDoneFails(w)
    <3>1. HoldsJob(w) /\ UNCHANGED jobs
      BY <2>4 DEF HoldsJob, SkipExisting, LoadExisting, NoPages, SourceFails, Pack,
           FindVolume, InsertChapter, RewriteChapter, PersistRejected, PersistFails,
           SetDoneFails, tables
    <3>2. \/ Goto(w, "set_done") \/ Goto(w, "set_error")
          \/ LoadExisting(w) \/ Pack(w) \/ FindVolume(w)
      BY <2>4 DEF SkipExisting, NoPages, SourceFails, InsertChapter, RewriteChapter,
           PersistRejected, PersistFails, SetDoneFails
    <3> QED
      BY <3>1, <3>2, WorkerMoves, HeldJobsKept DEF PCs
  <2>5. CASE SetDone(w) \/ SetError(w)
    <3>1. HoldsJob(w) /\ work' = [work EXCEPT ![w] = Idle]
      BY <2>5 DEF SetDone, SetError, HoldsJob
    <3>2. DOMAIN jobs' = DOMAIN jobs /\ \A j \in DOMAIN jobs : j # work[w].job => jobs'[j] = jobs[j]
      BY <2>5 DEF SetDone, SetError, TypeOK
    <3>3. \A v \in Workers : HoldsJob(v)' => v # w /\ work'[v] = work[v] /\ HoldsJob(v)
      BY <3>1, WorkerLetsGo
    <3>4. \A v \in Workers : HoldsJob(v)' =>
             /\ work'[v].job \in DOMAIN jobs'
             /\ jobs'[work'[v].job] = [key |-> work'[v].task.key, status |-> "running"]
      BY <3>1, <3>2, <3>3 DEF HeldJobs
    <3>5. \A u, v \in Workers :
             HoldsJob(u)' /\ HoldsJob(v)' /\ work'[u].job = work'[v].job => u = v
      BY <3>3 DEF HeldJobs
    <3> QED
      BY <3>4, <3>5, HeldJobsFrom
  <2> QED
    BY <1>3, <2>1, <2>2, <2>3, <2>4, <2>5 DEF WorkerStep
<1>4. ASSUME \/ \E key \in Keys : EnqueueMissing(key)
             \/ \E row \in chapters : Redownload(row)
             \/ \E d \in Deleters : DeleterStep(d)
             \/ \E path \in Paths : FileLost(path)
             \/ Start \/ UNCHANGED vars
      PROVE  UNCHANGED <<work, jobs>>
  BY <1>4 DEF EnqueueMissing, Redownload, Enqueue, FileLost, Start, DeleterStep,
       BeginDelete, CommitDelete, DeleteFails, vars, tables
<1> QED
  BY <1>1, <1>2, <1>3, <1>4 DEF Next, Shutdown, Crash

\* No two workers ever hold the same job, and the job a worker holds is
\* "running" for its chapter, through failures, crashes and restarts.
THEOREM JobsAreHeldOnce == Spec => []HeldJobs
<1>1. Init => HeldJobs
  BY DEF Init, HeldJobs, HoldsJob, Idle
<1> QED
  BY <1>1, HeldJobsStep, TypeCorrect, PTL DEF Spec

\* The table of jobs is written by three steps of a worker only.
LEMMA JobSteps ==
    ASSUME [Next]_vars
    PROVE  \/ UNCHANGED jobs
           \/ \E w \in Workers : CreateJob(w) \/ SetDone(w) \/ SetError(w)
<1>1. ASSUME NEW w \in Workers, WorkerStep(w), ~CreateJob(w), ~SetDone(w), ~SetError(w)
      PROVE  UNCHANGED jobs
  BY <1>1 DEF WorkerStep, Take, CreateJobFails, SkipExisting, LoadExisting, NoPages,
       SourceFails, Pack, FindVolume, InsertChapter, RewriteChapter, PersistRejected,
       PersistFails, SetDoneFails, SetErrorFails, tables
<1>2. ASSUME \/ \E key \in Keys : EnqueueMissing(key)
             \/ \E row \in chapters : Redownload(row)
             \/ \E d \in Deleters : DeleterStep(d)
             \/ \E path \in Paths : FileLost(path)
             \/ Shutdown \/ Crash \/ Start \/ UNCHANGED vars
      PROVE  UNCHANGED jobs
  BY <1>2 DEF EnqueueMissing, Redownload, Enqueue, FileLost, Start, DeleterStep,
       BeginDelete, CommitDelete, DeleteFails, Shutdown, Crash, StopWorkers, vars, tables
<1> QED
  BY <1>1, <1>2 DEF Next

\* A job that ended keeps its status: only the worker that holds a job sets it,
\* and a held job is "running".
THEOREM EndedJobsKeepStatus == Spec => EndedJobsStay
<1> DEFINE Stay == \A j \in DOMAIN jobs :
              jobs[j].status # "running" => j \in DOMAIN jobs' /\ jobs'[j] = jobs[j]
<1>1. ASSUME TypeOK, HeldJobs, [Next]_vars PROVE Stay
  <2>1. ASSUME UNCHANGED jobs PROVE Stay
    BY <2>1
  <2>2. ASSUME NEW w \in Workers, CreateJob(w) PROVE Stay
    BY <1>1, <2>2 DEF CreateJob, TypeOK
  <2>3. ASSUME NEW w \in Workers, SetDone(w) \/ SetError(w) PROVE Stay
    <3>1. HoldsJob(w)
      BY <2>3 DEF SetDone, SetError, HoldsJob
    <3>2. jobs[work[w].job].status = "running"
      <4>1. jobs[work[w].job] = [key |-> work[w].task.key, status |-> "running"]
        BY <1>1, <3>1 DEF HeldJobs
      <4> QED
        BY <4>1
    <3> QED
      BY <1>1, <2>3, <3>2 DEF SetDone, SetError, TypeOK
  <2> HIDE DEF Stay
  <2> QED
    BY <1>1, <2>1, <2>2, <2>3, JobSteps
<1>2. TypeOK /\ HeldJobs /\ [Next]_vars => [Stay]_vars
  BY <1>1
<1> HIDE DEF Stay
<1>3. Spec => [][Stay]_vars
  BY <1>2, TypeCorrect, JobsAreHeldOnce, PTL DEF Spec
<1> QED
  BY <1>3 DEF EndedJobsStay, Stay

-----------------------------------------------------------------------------
(* The file comes before the row.  RowsHaveFiles alone is not inductive: a  *)
(* worker about to commit must have put its file in place, and one that     *)
(* rewrites must find its chapter's row, which nothing has removed.         *)

FilesOf(w) ==
    /\ work[w].pc \in {"volume", "persist"} => FileOf(work[w].task.key) # None
    /\ work[w].pc \in {"fetch", "volume", "persist"} /\ work[w].seen # None =>
          work[w].task.key \in StoredKeys
    /\ work[w].pc = "set_done" =>
          work[w].task.key \in StoredKeys

FilesInv == RowsHaveFiles /\ \A w \in Workers : FilesOf(w)

NothingRemoved == Deleters = {} /\ "file_lost" \notin Faults /\ "empty" \notin Faults

\* Where nothing is removed a step keeps the stored keys and the files there.
LEMMA NothingRemovedStep ==
    ASSUME TypeOK, NothingRemoved, [Next]_vars
    PROVE  /\ StoredKeys \subseteq StoredKeys'
           /\ \A key \in Keys : FileOf(key) # None => FileOf(key)' # None
<1>1. ASSUME NEW w \in Workers, InsertChapter(w) PROVE StoredKeys \subseteq StoredKeys'
  BY <1>1 DEF InsertChapter, StoredKeys
<1>2. ASSUME NEW w \in Workers, RewriteChapter(w) PROVE StoredKeys \subseteq StoredKeys'
  <2>1. \A r \in chapters : Rewritten(w, r) \in chapters' /\ Rewritten(w, r).key = r.key
    BY <1>2 DEF RewriteChapter, Rewritten, TypeOK, Rows
  <2> QED
    BY <2>1 DEF StoredKeys
<1>3. ASSUME NEW w \in Workers, Pack(w)
      PROVE  \A key \in Keys : FileOf(key) # None => FileOf(key)' # None
  <2>1. PICK version \in Versions :
          disk' = [disk EXCEPT ![PathOf[work[w].task.key]] =
                     [key |-> work[w].task.key, version |-> version]]
    BY <1>3 DEF Pack
  <2>2. [key |-> work[w].task.key, version |-> version] # None
    BY <1>3, HeldTask, NoneAssumption DEF Pack, Archives
  <2> QED
    BY <2>1, <2>2, KeysAssumption DEF FileOf, TypeOK
<1>4. ASSUME UNCHANGED disk
      PROVE  \A key \in Keys : FileOf(key) # None => FileOf(key)' # None
  BY <1>4 DEF FileOf
<1>5. ASSUME UNCHANGED chapters PROVE StoredKeys \subseteq StoredKeys'
  BY <1>5, SMTT(40) DEF StoredKeys
<1>6. ASSUME NEW w \in Workers, WorkerStep(w)
      PROVE  /\ InsertChapter(w) \/ RewriteChapter(w) \/ UNCHANGED chapters
             /\ Pack(w) \/ UNCHANGED disk
  BY <1>6 DEF WorkerStep, Take, CreateJob, CreateJobFails, SkipExisting, LoadExisting,
       NoPages, SourceFails, Pack, FindVolume, InsertChapter, RewriteChapter,
       PersistRejected, PersistFails, SetDone, SetDoneFails, SetError, SetErrorFails, tables
<1>7. ASSUME \/ \E key \in Keys : EnqueueMissing(key)
             \/ \E row \in chapters : Redownload(row)
             \/ \E d \in Deleters : DeleterStep(d)
             \/ \E path \in Paths : FileLost(path)
             \/ Shutdown \/ Crash \/ Start \/ UNCHANGED vars
      PROVE  UNCHANGED <<chapters, disk>>
  BY <1>7 DEF NothingRemoved, EnqueueMissing, Redownload, Enqueue, FileLost, Start,
       Shutdown, Crash, StopWorkers, vars, tables
<1> QED
  BY <1>1, <1>2, <1>3, <1>4, <1>5, <1>6, <1>7 DEF Next

LEMMA FilesInvStep ==
    TypeOK /\ FilesInv /\ NothingRemoved /\ [Next]_vars => FilesInv'
<1> SUFFICES ASSUME TypeOK, FilesInv, NothingRemoved, [Next]_vars PROVE FilesInv'
  OBVIOUS
<1>1. ASSUME NEW r \in chapters' PROVE FileOf(r.key)' # None
  <2>1. r.key \in StoredKeys => FileOf(r.key)' # None
    <3>1. ASSUME NEW q \in chapters, q.key = r.key PROVE FileOf(r.key)' # None
      <4>1. q.key \in Keys /\ FileOf(q.key) # None
        BY DEF FilesInv, RowsHaveFiles, TypeOK, Rows
      <4> QED
        BY <3>1, <4>1, NothingRemovedStep
    <3> QED
      BY <3>1 DEF StoredKeys
  <2>2. ASSUME NEW w \in Workers, InsertChapter(w) PROVE FileOf(r.key)' # None
    <3>1. r \in chapters \/ r.key = work[w].task.key
      BY <2>2 DEF InsertChapter
    <3>2. work[w].task.key \in Keys /\ FileOf(work[w].task.key) # None
      BY <2>2, HeldTask DEF InsertChapter, FilesInv, FilesOf
    <3> QED
      BY <2>1, <3>1, <3>2, NothingRemovedStep DEF StoredKeys
  <2>3. ASSUME NEW w \in Workers, RewriteChapter(w) PROVE r.key \in StoredKeys
    <3>1. PICK q \in chapters : r = Rewritten(w, q)
      BY <2>3 DEF RewriteChapter
    <3>2. r.key = q.key
      BY <3>1 DEF Rewritten, TypeOK, Rows
    <3> QED
      BY <3>2 DEF StoredKeys
  <2>4. ASSUME \A w \in Workers : ~InsertChapter(w) /\ ~RewriteChapter(w)
        PROVE  r.key \in StoredKeys
    <3>1. chapters' = chapters
      BY <2>4 DEF NothingRemoved, Next, EnqueueMissing, Redownload, Enqueue, FileLost,
           Start, Shutdown, Crash, StopWorkers, WorkerStep, Take, CreateJob,
           CreateJobFails, SkipExisting, LoadExisting, NoPages, SourceFails, Pack,
           FindVolume, PersistRejected, PersistFails, SetDone, SetDoneFails, SetError,
           SetErrorFails, vars, tables
    <3> QED
      BY <3>1, SMTT(40) DEF StoredKeys
  <2> QED
    BY <2>1, <2>2, <2>3, <2>4
<1>2. ASSUME NEW v \in Workers, work'[v] = work[v] PROVE FilesOf(v)'
  <2>1. work[v].pc # "idle" => work[v].task.key \in Keys
    BY HeldTask
  <2>2. FilesOf(v)
    BY DEF FilesInv
  <2> QED
    BY <1>2, <2>1, <2>2, NothingRemovedStep DEF FilesOf
<1>3. ASSUME NEW v \in Workers, work'[v].pc \in {"idle", "create", "load", "set_error"}
      PROVE  FilesOf(v)'
  BY <1>3 DEF FilesOf
<1>4. ASSUME NEW w \in Workers, WorkerStep(w) PROVE FilesOf(w)'
  <2> DEFINE key == work[w].task.key
  <2>1. CASE SkipExisting(w)
    BY <2>1, NothingRemovedStep DEF SkipExisting, UpToDate, Goto, FilesOf, TypeOK, WorkType
  <2>2. CASE LoadExisting(w)
    <3>1. work'[w].pc = "fetch" /\ work'[w].seen = Existing(key) /\ work'[w].task = work[w].task
      BY <2>2 DEF LoadExisting, TypeOK, WorkType
    <3>2. Existing(key) # None => key \in StoredKeys
      BY DEF Existing
    <3> QED
      BY <3>1, <3>2, NothingRemovedStep DEF FilesOf
  <2>3. CASE Pack(w)
    <3>1. PICK version \in Versions :
            LET cbz == [key |-> key, version |-> version]
            IN  /\ disk' = [disk EXCEPT ![PathOf[key]] = cbz]
                /\ work' = [work EXCEPT ![w].pc = "volume", ![w].archive = cbz]
      BY <2>3 DEF Pack
    <3>2. key \in Keys /\ [key |-> key, version |-> version] # None
      BY <2>3, HeldTask, NoneAssumption DEF Pack, Archives
    <3>3. disk'[PathOf[key]] # None
      BY <3>1, <3>2, KeysAssumption DEF TypeOK
    <3>4. /\ work'[w].pc = "volume" /\ work'[w].task = work[w].task
          /\ work'[w].seen = work[w].seen /\ work[w].pc = "fetch"
      BY <2>3, <3>1 DEF Pack, TypeOK, WorkType
    <3> QED
      BY <3>3, <3>4, NothingRemovedStep DEF FilesInv, FilesOf, FileOf
  <2>4. CASE FindVolume(w)
    <3> DEFINE found == VolumeOf[key] \in volumes
    <3>1. work' = [work EXCEPT ![w].pc = "persist", ![w].hasVolume = found]
      BY <2>4 DEF FindVolume
    <3> HIDE DEF found
    <3>2. /\ work'[w].pc = "persist" /\ work'[w].task = work[w].task
          /\ work'[w].seen = work[w].seen
      BY <3>1 DEF TypeOK, WorkType
    <3>3. work[w].pc = "volume" /\ key \in Keys
      BY <2>4, HeldTask DEF FindVolume
    <3> QED
      BY <3>2, <3>3, NothingRemovedStep DEF FilesInv, FilesOf
  <2>5. CASE InsertChapter(w)
    <3>1. work'[w].pc = "set_done" /\ work'[w].task = work[w].task
      BY <2>5 DEF InsertChapter, Goto, TypeOK, WorkType
    <3>2. key \in StoredKeys'
      <4>1. PICK id \in NextIds(chapters) : chapters' = chapters \cup
               {[id |-> id, key |-> key, sha |-> work[w].archive]}
        BY <2>5 DEF InsertChapter
      <4> DEFINE row == [id |-> id, key |-> key, sha |-> work[w].archive]
      <4>2. row \in chapters' /\ row.key = key
        BY <4>1
      <4> HIDE DEF row, key
      <4> QED
        BY <4>2 DEF StoredKeys
    <3> QED
      BY <3>1, <3>2 DEF FilesOf
  <2>6. CASE RewriteChapter(w)
    <3>1. work'[w].pc = "set_done" /\ work'[w].task = work[w].task
      BY <2>6 DEF RewriteChapter, Goto, TypeOK, WorkType
    <3>2. key \in StoredKeys
      BY <2>6 DEF RewriteChapter, FilesInv, FilesOf
    <3> QED
      BY <3>1, <3>2, NothingRemovedStep DEF FilesOf
  <2>7. ASSUME \/ Take(w) \/ CreateJob(w) \/ CreateJobFails(w) \/ SourceFails(w)
               \/ PersistRejected(w) \/ PersistFails(w) \/ SetDone(w) \/ SetDoneFails(w)
               \/ SetError(w) \/ SetErrorFails(w)
        PROVE  work'[w].pc \in {"idle", "create", "load", "set_error"}
    BY <2>7, SMTT(40) DEF Take, CreateJob, CreateJobFails, SourceFails, PersistRejected,
         PersistFails, SetDone, SetDoneFails, SetError, SetErrorFails, Goto, Idle,
         TypeOK, WorkType
  <2>8. ~NoPages(w)
    BY DEF NothingRemoved, NoPages
  <2> QED
    BY <1>3, <1>4, <2>1, <2>2, <2>3, <2>4, <2>5, <2>6, <2>7, <2>8 DEF WorkerStep
<1>5. ASSUME NEW w \in Workers, WorkerStep(w), NEW v \in Workers \ {w}
      PROVE  work'[v] = work[v]
  BY <1>5 DEF WorkerStep, Goto, Take, CreateJob, CreateJobFails, SkipExisting,
       LoadExisting, NoPages, SourceFails, Pack, FindVolume, InsertChapter,
       RewriteChapter, PersistRejected, PersistFails, SetDone, SetDoneFails, SetError,
       SetErrorFails, TypeOK
<1>6. ASSUME StopWorkers, NEW v \in Workers PROVE work'[v].pc = "idle"
  BY <1>6 DEF StopWorkers, Idle
<1>7. ASSUME \/ \E key \in Keys : EnqueueMissing(key)
             \/ \E row \in chapters : Redownload(row)
             \/ \E d \in Deleters : DeleterStep(d)
             \/ \E path \in Paths : FileLost(path)
             \/ Start \/ UNCHANGED vars
      PROVE  work' = work
  BY <1>7 DEF EnqueueMissing, Redownload, Enqueue, FileLost, Start, DeleterStep,
       BeginDelete, CommitDelete, DeleteFails, vars
<1>8. \A v \in Workers : FilesOf(v)'
  BY <1>2, <1>3, <1>4, <1>5, <1>6, <1>7 DEF Next, Shutdown, Crash
<1> QED
  BY <1>1, <1>8 DEF FilesInv, RowsHaveFiles

LEMMA FilesInvariant ==
    ASSUME NothingRemoved
    PROVE  Spec => []FilesInv
<1>1. Init => FilesInv
  BY DEF Init, FilesInv, FilesOf, RowsHaveFiles, Idle
<1>2. TypeOK /\ FilesInv /\ [Next]_vars => FilesInv'
  BY FilesInvStep
<1> QED
  BY <1>1, <1>2, TypeCorrect, PTL DEF Spec

\* A chapter's row is never committed before its CBZ is in place: where nothing
\* removes chapters or files, every row has its file, through every failure,
\* crash and restart.
THEOREM FileBeforeRow ==
    ASSUME NothingRemoved
    PROVE  Spec => []RowsHaveFiles
<1>1. FilesInv => RowsHaveFiles
  BY DEF FilesInv
<1> QED
  BY <1>1, FilesInvariant, PTL

\* A job turns "done" only when its chapter is stored with its file.
THEOREM DoneJobsAreStored ==
    ASSUME NothingRemoved
    PROVE  Spec => DoneMeansStored
<1> DEFINE Done == \A j \in DOMAIN jobs :
              jobs[j].status = "running" /\ jobs'[j].status = "done" =>
                 jobs[j].key \in StoredKeys /\ FileOf(jobs[j].key) # None
<1>1. ASSUME TypeOK, HeldJobs, FilesInv, [Next]_vars PROVE Done
  <2>1. ASSUME UNCHANGED jobs PROVE Done
    BY <2>1
  <2>2. ASSUME NEW w \in Workers, CreateJob(w) PROVE Done
    BY <1>1, <2>2 DEF CreateJob, TypeOK
  <2>3. ASSUME NEW w \in Workers, SetError(w) PROVE Done
    BY <1>1, <2>3 DEF SetError, TypeOK
  <2>4. ASSUME NEW w \in Workers, SetDone(w), NEW j \in DOMAIN jobs,
               jobs[j].status = "running", jobs'[j].status = "done"
        PROVE  jobs[j].key \in StoredKeys /\ FileOf(jobs[j].key) # None
    <3>1. j = work[w].job
      BY <1>1, <2>4 DEF SetDone, TypeOK
    <3>2. HoldsJob(w)
      BY <2>4 DEF SetDone, HoldsJob
    <3>3. jobs[work[w].job] = [key |-> work[w].task.key, status |-> "running"]
      BY <1>1, <3>2 DEF HeldJobs
    <3>4. work[w].task.key \in StoredKeys
      BY <1>1, <2>4 DEF SetDone, FilesInv, FilesOf
    <3>5. FileOf(work[w].task.key) # None
      BY <1>1, <3>4 DEF StoredKeys, FilesInv, RowsHaveFiles
    <3> QED
      BY <3>1, <3>3, <3>4, <3>5
  <2>5. ASSUME NEW w \in Workers, SetDone(w) PROVE Done
    BY <2>4, <2>5
  <2> HIDE DEF Done
  <2> QED
    BY <1>1, <2>1, <2>2, <2>3, <2>5, JobSteps
<1>2. TypeOK /\ HeldJobs /\ FilesInv /\ [Next]_vars => [Done]_vars
  BY <1>1
<1> HIDE DEF Done
<1>3. Spec => [][Done]_vars
  BY <1>2, TypeCorrect, JobsAreHeldOnce, FilesInvariant, PTL DEF Spec
<1> QED
  BY <1>3 DEF DoneMeansStored, Done

-----------------------------------------------------------------------------
(* Pages follow their rows.  PagesMatchRows is inductive given UniqueRows:  *)
(* the ids a transaction gives out are fresh when it commits, and a page    *)
(* that goes without its row has an id the writer had read.                 *)

\* The steps that write chapters, their pages, or what was taken of them.
LEMMA RowSteps ==
    ASSUME [Next]_vars
    PROVE  \/ UNCHANGED <<chapters, pages, robbed>>
           \/ \E w \in Workers : InsertChapter(w) \/ RewriteChapter(w)
           \/ \E d \in Deleters : CommitDelete(d)
<1>1. ASSUME NEW w \in Workers, WorkerStep(w), ~InsertChapter(w), ~RewriteChapter(w)
      PROVE  UNCHANGED <<chapters, pages, robbed>>
  BY <1>1 DEF WorkerStep, Take, CreateJob, CreateJobFails, SkipExisting, LoadExisting,
       NoPages, SourceFails, Pack, FindVolume, PersistRejected, PersistFails,
       SetDone, SetDoneFails, SetError, SetErrorFails, tables, history
<1>2. ASSUME NEW d \in Deleters, DeleterStep(d), ~CommitDelete(d)
      PROVE  UNCHANGED <<chapters, pages, robbed>>
  BY <1>2 DEF DeleterStep, BeginDelete, DeleteFails, tables, history
<1>3. ASSUME \/ \E key \in Keys : EnqueueMissing(key)
             \/ \E row \in chapters : Redownload(row)
             \/ \E path \in Paths : FileLost(path)
             \/ Shutdown \/ Crash \/ Start \/ UNCHANGED vars
      PROVE  UNCHANGED <<chapters, pages, robbed>>
  BY <1>3 DEF EnqueueMissing, Redownload, Enqueue, FileLost, Shutdown, Crash,
       StopWorkers, Start, vars, tables, history
<1> QED
  BY <1>1, <1>2, <1>3 DEF Next

\* Given new pages for one row, whose former pages are all gone, in a table of
\* some of the others.
LEMMA PagesReplaced ==
    ASSUME NEW old, NEW kept \in SUBSET old, NEW page,
           \A p, q \in old : p.id = q.id \/ p.chapter = q.chapter => p = q,
           \A p \in kept : p.id # page.id /\ p.chapter # page.chapter
    PROVE  \A p, q \in kept \cup {page} : p.id = q.id \/ p.chapter = q.chapter => p = q
  OBVIOUS

LEMMA PagesMatchRowsStep ==
    TypeOK /\ UniqueRows /\ PagesMatchRows /\ [Next]_vars => PagesMatchRows'
<1> SUFFICES ASSUME TypeOK, UniqueRows, PagesMatchRows, [Next]_vars PROVE PagesMatchRows'
  OBVIOUS
<1> DEFINE Ids(table) == {r.id : r \in table}
           Owned(table) == {p.chapter : p \in table}
<1>1. CASE UNCHANGED <<chapters, pages, robbed>>
  BY <1>1 DEF PagesMatchRows
<1>2. ASSUME NEW w \in Workers, InsertChapter(w) PROVE PagesMatchRows'
  <2>1. PICK id \in NextIds(chapters), page \in NextIds(pages) :
          /\ chapters' = chapters \cup
                {[id |-> id, key |-> work[w].task.key, sha |-> work[w].archive]}
          /\ pages' = pages \cup {[id |-> page, chapter |-> id, of |-> work[w].archive]}
          /\ robbed' = robbed \ {id}
    BY <1>2 DEF InsertChapter
  <2> DEFINE row == [id |-> id, key |-> work[w].task.key, sha |-> work[w].archive]
             new == [id |-> page, chapter |-> id, of |-> work[w].archive]
  <2>2. \A r \in chapters : r.id # id
    BY NextIdsFresh DEF TypeOK, Rows
  <2>3. \A p \in pages : p.id # page
    BY NextIdsFresh DEF TypeOK, PageRows
  <2>4. \A p \in pages : p.chapter # id
    BY <2>2 DEF PagesMatchRows
  <2>5. row.id = id /\ new.id = page /\ new.chapter = id
    OBVIOUS
  <2>6. chapters' = chapters \cup {row} /\ pages' = pages \cup {new}
    BY <2>1
  <2> HIDE DEF row, new
  <2>7. Ids(chapters') = Ids(chapters) \cup {id} /\ Owned(pages') = Owned(pages) \cup {id}
    BY <2>5, <2>6
  <2>8. Owned(pages') = Ids(chapters') \ robbed'
    BY <2>1, <2>2, <2>7 DEF PagesMatchRows
  <2> QED
    BY <2>3, <2>4, <2>5, <2>6, <2>8, PagesReplaced DEF PagesMatchRows
<1>3. ASSUME NEW w \in Workers, RewriteChapter(w) PROVE PagesMatchRows'
  <2> DEFINE id == work[w].seen.row.id
             kept == OtherPages(w)
  <2>1. PICK page \in NextIds(kept) :
          pages' = kept \cup {[id |-> page, chapter |-> id, of |-> work[w].archive]}
    BY <1>3 DEF RewriteChapter
  <2> DEFINE new == [id |-> page, chapter |-> id, of |-> work[w].archive]
  <2>2. kept \subseteq pages
    BY DEF OtherPages
  <2>3. \A p \in kept : p.id # page /\ p.chapter # id
    BY <1>3, <2>2, NextIdsFresh DEF RewriteChapter, CanRewrite, TypeOK, PageRows
  <2>4. new.id = page /\ new.chapter = id /\ pages' = kept \cup {new}
    BY <2>1
  <2> HIDE DEF new
  <2>5. Owned(pages') = Owned(kept) \cup {id}
    BY <2>4
  <2>6. Owned(kept) = Owned(pages) \ Owners(work[w].seen.pages)
    BY DEF OtherPages, Owners, PagesMatchRows
  <2>7. id \in Ids(chapters)
    BY <1>3 DEF RewriteChapter, CanRewrite
  <2>8. Ids(chapters') = Ids(chapters)
    <3>1. \A r \in chapters : Rewritten(w, r).id = r.id
      BY DEF Rewritten, TypeOK, Rows
    <3> QED
      BY <1>3, <3>1 DEF RewriteChapter
  <2>9. Owned(pages') = Ids(chapters') \ robbed'
    BY <1>3, <2>5, <2>6, <2>7, <2>8 DEF RewriteChapter, PagesMatchRows
  <2> QED
    BY <2>2, <2>3, <2>4, <2>9, PagesReplaced DEF PagesMatchRows
<1>4. ASSUME NEW d \in Deleters, CommitDelete(d) PROVE PagesMatchRows'
  <2> DEFINE id == requests[d].row.id
  <2>1. Ids(chapters') = Ids(chapters) \ {id}
    BY <1>4 DEF CommitDelete
  <2>2. Owned(pages') = Owned(pages) \ (Owners(requests[d].pages) \cup {id})
    BY <1>4 DEF CommitDelete, Owners, PagesMatchRows
  <2>3. Owned(pages') = Ids(chapters') \ robbed'
    BY <1>4, <2>1, <2>2 DEF CommitDelete, PagesMatchRows
  <2> QED
    BY <1>4, <2>3 DEF CommitDelete, PagesMatchRows
<1> QED
  BY <1>1, <1>2, <1>3, <1>4, RowSteps

\* No step moves a stored key to another id or a live id to another key, although an
\* overwrite updates by the id it read before its fetch (download_chapter): it writes no key.
THEOREM RowsKeepTheirIds == Spec => SameRow
<1> DEFINE Same == \A r \in chapters, s \in chapters' : r.key = s.key <=> r.id = s.id
<1>1. ASSUME TypeOK, UniqueRows, [Next]_vars PROVE Same
  <2>1. ASSUME chapters' \subseteq chapters PROVE Same
    BY <1>1, <2>1 DEF UniqueRows
  <2>2. ASSUME NEW w \in Workers, InsertChapter(w) PROVE Same
    <3>1. PICK id \in NextIds(chapters) :
            chapters' = chapters \cup
              {[id |-> id, key |-> work[w].task.key, sha |-> work[w].archive]}
      BY <2>2 DEF InsertChapter
    <3>2. \A r \in chapters : r.id # id
      BY <1>1, NextIdsFresh DEF TypeOK, Rows
    <3>3. \A r \in chapters : r.key # work[w].task.key
      BY <2>2 DEF InsertChapter, KeyTaken, StoredKeys
    <3> QED
      BY <1>1, <3>1, <3>2, <3>3 DEF UniqueRows
  <2>3. ASSUME NEW w \in Workers, RewriteChapter(w) PROVE Same
    <3>1. \A r \in chapters : Rewritten(w, r).id = r.id /\ Rewritten(w, r).key = r.key
      BY <1>1 DEF Rewritten, TypeOK, Rows
    <3> QED
      BY <1>1, <2>3, <3>1 DEF RewriteChapter, UniqueRows
  <2>4. ASSUME NEW d \in Deleters, CommitDelete(d) PROVE chapters' \subseteq chapters
    BY <2>4 DEF CommitDelete
  <2> QED
    BY <1>1, <2>1, <2>2, <2>3, <2>4, RowSteps
<1>2. TypeOK /\ UniqueRows /\ [Next]_vars => [Same]_vars
  BY <1>1
<1> QED
  BY <1>2, TypeCorrect, OneRowPerKey, PTL DEF Spec, SameRow

\* However overwrites, deletes and downloads interleave, and whatever ids SQLite gives
\* out again, no page is without its row and no row has its pages twice.
THEOREM PagesFollowRows == Spec => []PagesMatchRows
<1>1. Init => PagesMatchRows
  BY DEF Init, PagesMatchRows
<1> QED
  BY <1>1, PagesMatchRowsStep, TypeCorrect, OneRowPerKey, PTL DEF Spec
-----------------------------------------------------------------------------
(* The hash of a stored chapter.  DoneRowDescribesFile is not inductive: a  *)
(* download must not have replaced the file it packed, nor the row it read, *)
(* behind the back of another, and only a job that no worker will set       *)
(* "done" before it rewrites the row excuses a hash of an older file.       *)

\* Two downloads under way of one chapter are known to overlap.
DownloadsApart ==
    \A v, w \in Workers :
        Downloads(v) /\ Downloads(w) /\ work[v].task.key = work[w].task.key =>
            v = w \/ work[w].task.key \in overlapped

\* The row a download has read is still the row of its chapter, and of no other.
SeenRow(w) ==
    LET seen == work[w].seen.row
        key  == work[w].task.key
    IN  \A r \in chapters :
           /\ r.key = key => key \in overlapped \/ (r.id = seen.id /\ r.sha = seen.sha)
           /\ r.key # key /\ r.id = seen.id => r.key \in overlapped

DownloadOK(w) ==
    /\ Downloads(w) /\ work[w].seen # None => SeenRow(w)
    /\ work[w].pc \in {"volume", "persist"} =>
          \/ FileOf(work[w].task.key) \in {None, work[w].archive}
          \/ work[w].task.key \in overlapped

\* A worker whose job ends "done" only after the row is written, if at all.
Unfinished(w) == work[w].pc \in {"volume", "persist", "set_error"}

\* A job that says the file of the key may be newer than its row.
Excuses(j, key) ==
    /\ jobs[j].key = key /\ jobs[j].status # "done"
    /\ \A w \in Workers : HoldsJob(w) /\ work[w].job = j => Unfinished(w)

Excused(key) == \E j \in DOMAIN jobs : Excuses(j, key)

RowsExcused ==
    \A r \in chapters :
        FileOf(r.key) \in {None, r.sha} \/ Excused(r.key) \/ r.key \in overlapped

HashInv == DownloadsApart /\ (\A w \in Workers : DownloadOK(w)) /\ RowsExcused

\* Where folder_strategy gives every chapter a path of its own.
OwnPaths == \A k, l \in Keys : PathOf[k] = PathOf[l] => k = l

\* What a step does to the stack of a worker.
KeepsTask(w) == work'[w].task = work[w].task /\ work'[w].job = work[w].job
Writes(w) == InsertChapter(w) \/ RewriteChapter(w)

Moves(w) ==
    \/ work'[w] = work[w]
    \/ work'[w] = Idle
    \/ work[w].pc = "idle" /\ work'[w].pc = "create"
    \/ /\ work[w].pc = "create" /\ work'[w].pc = "load" /\ work'[w].job = Len(jobs) + 1
       /\ work'[w].task = work[w].task
    \/ /\ LoadExisting(w) /\ KeepsTask(w)
       /\ work[w].pc = "load" /\ work'[w].pc = "fetch"
    \/ /\ Pack(w) /\ KeepsTask(w)
       /\ work[w].pc = "fetch" /\ work'[w].pc = "volume" /\ work'[w].seen = work[w].seen
       /\ disk'[PathOf[work[w].task.key]] = work'[w].archive
    \/ /\ KeepsTask(w)
       /\ work[w].pc = "volume" /\ work'[w].pc = "persist"
       /\ work'[w].seen = work[w].seen /\ work'[w].archive = work[w].archive
    \/ /\ KeepsTask(w) /\ work'[w].pc = "set_done"
       /\ work[w].pc \in {"load", "fetch"} \/ (work[w].pc = "persist" /\ Writes(w))
    \/ /\ KeepsTask(w) /\ work'[w].pc = "set_error"
       /\ work[w].pc \in {"load", "fetch", "volume", "persist", "set_done"}

LEMMA LoadBegins ==
    ASSUME TypeOK, NEW w \in Workers, LoadExisting(w)
    PROVE  /\ work[w].pc = "load" /\ work'[w].pc = "fetch" /\ KeepsTask(w)
           /\ work'[w].seen = Existing(work[w].task.key)
           /\ \A v \in Workers \ {w} : work'[v] = work[v]
<1> DEFINE seen == Existing(work[w].task.key)
<1>1. work' = [work EXCEPT ![w].pc = "fetch", ![w].seen = seen] /\ work[w].pc = "load"
  BY DEF LoadExisting
<1> HIDE DEF seen
<1>2. /\ work[w].pc = "load" /\ work'[w].pc = "fetch" /\ KeepsTask(w)
      /\ work'[w].seen = seen
      /\ \A v \in Workers \ {w} : work'[v] = work[v]
  BY <1>1 DEF KeepsTask, TypeOK, WorkType
<1> QED
  BY <1>2 DEF seen

LEMMA Packs ==
    ASSUME TypeOK, NEW w \in Workers, Pack(w)
    PROVE  /\ work[w].pc = "fetch" /\ work'[w].pc = "volume" /\ KeepsTask(w)
           /\ work'[w].seen = work[w].seen
           /\ work'[w].archive.key = work[w].task.key
           /\ disk'[PathOf[work[w].task.key]] = work'[w].archive
           /\ \A v \in Workers \ {w} : work'[v] = work[v]
<1> DEFINE key == work[w].task.key
<1>1. PICK version \in Versions :
        LET cbz == [key |-> key, version |-> version]
        IN  /\ disk' = [disk EXCEPT ![PathOf[key]] = cbz]
            /\ work' = [work EXCEPT ![w].pc = "volume", ![w].archive = cbz]
  BY DEF Pack
<1> DEFINE cbz == [key |-> key, version |-> version]
<1>2. /\ disk' = [disk EXCEPT ![PathOf[key]] = cbz]
      /\ work' = [work EXCEPT ![w].pc = "volume", ![w].archive = cbz]
  BY <1>1
<1> HIDE DEF cbz
<1>3. work[w].pc = "fetch" /\ key \in Keys
  BY HeldTask DEF Pack
<1>4. disk'[PathOf[key]] = cbz
  BY <1>2, <1>3, KeysAssumption DEF TypeOK
<1>5. /\ work'[w].pc = "volume" /\ work'[w].archive = cbz /\ KeepsTask(w)
      /\ work'[w].seen = work[w].seen
      /\ \A v \in Workers \ {w} : work'[v] = work[v]
  BY <1>2 DEF KeepsTask, TypeOK, WorkType
<1>6. cbz.key = key
  BY DEF cbz
<1> QED
  BY <1>3, <1>4, <1>5, <1>6

LEMMA WorkerStepMoves ==
    ASSUME TypeOK, NEW w \in Workers, WorkerStep(w)
    PROVE  Moves(w) /\ \A v \in Workers \ {w} : work'[v] = work[v]
<1>1. CASE Take(w)
  BY <1>1 DEF Take, Moves, TypeOK, WorkType
<1>2. CASE CreateJob(w)
  BY <1>2 DEF CreateJob, Moves, TypeOK, WorkType
<1>3. CASE LoadExisting(w)
  BY <1>3, LoadBegins DEF Moves
<1>4. CASE Pack(w)
  BY <1>4, Packs DEF Moves
<1>5. CASE FindVolume(w)
  <2> DEFINE found == VolumeOf[work[w].task.key] \in volumes
  <2>1. work' = [work EXCEPT ![w].pc = "persist", ![w].hasVolume = found] /\ work[w].pc = "volume"
    BY <1>5 DEF FindVolume
  <2> HIDE DEF found
  <2>2. /\ work'[w].pc = "persist" /\ KeepsTask(w)
        /\ work'[w].seen = work[w].seen /\ work'[w].archive = work[w].archive
        /\ \A v \in Workers \ {w} : work'[v] = work[v]
    BY <2>1 DEF KeepsTask, TypeOK, WorkType
  <2> QED
    BY <1>5, <2>1, <2>2 DEF Moves
<1>6. CASE SkipExisting(w) \/ NoPages(w) \/ Writes(w)
  <2>1. /\ Goto(w, "set_done")
        /\ work[w].pc \in {"load", "fetch"} \/ (work[w].pc = "persist" /\ Writes(w))
    BY <1>6 DEF SkipExisting, NoPages, Writes, InsertChapter, RewriteChapter
  <2>2. /\ work'[w].pc = "set_done" /\ KeepsTask(w)
        /\ \A v \in Workers \ {w} : work'[v] = work[v]
    BY <2>1 DEF Goto, KeepsTask, TypeOK, WorkType
  <2> QED
    BY <2>1, <2>2 DEF Moves
<1>7. CASE SourceFails(w) \/ PersistRejected(w) \/ PersistFails(w) \/ SetDoneFails(w)
  <2>1. /\ Goto(w, "set_error")
        /\ work[w].pc \in {"load", "fetch", "volume", "persist", "set_done"}
    BY <1>7 DEF SourceFails, PersistRejected, PersistFails, SetDoneFails
  <2>2. /\ work'[w].pc = "set_error" /\ KeepsTask(w)
        /\ \A v \in Workers \ {w} : work'[v] = work[v]
    BY <2>1 DEF Goto, KeepsTask, TypeOK, WorkType
  <2> QED
    BY <2>1, <2>2 DEF Moves
<1>8. CASE CreateJobFails(w) \/ SetDone(w) \/ SetError(w) \/ SetErrorFails(w)
  <2>1. work' = [work EXCEPT ![w] = Idle]
    BY <1>8 DEF CreateJobFails, SetDone, SetError, SetErrorFails
  <2> QED
    BY <2>1 DEF Moves, TypeOK
<1> QED
  BY <1>1, <1>2, <1>3, <1>4, <1>5, <1>6, <1>7, <1>8 DEF WorkerStep, Writes

\* Every step moves every worker in one of these ways, and at most one by a step of its own.
LEMMA AllMove ==
    ASSUME TypeOK, [Next]_vars
    PROVE  /\ \A v \in Workers : Moves(v)
           /\ \A w \in Workers : WorkerStep(w) =>
                 \A v \in Workers \ {w} : work'[v] = work[v]
<1>1. ASSUME NEW w \in Workers, WorkerStep(w) PROVE \A v \in Workers : Moves(v)
  BY <1>1, WorkerStepMoves DEF Moves
<1>2. ASSUME StopWorkers PROVE \A v \in Workers : Moves(v)
  BY <1>2 DEF StopWorkers, Moves
<1>3. ASSUME \/ \E key \in Keys : EnqueueMissing(key)
             \/ \E row \in chapters : Redownload(row)
             \/ \E d \in Deleters : DeleterStep(d)
             \/ \E path \in Paths : FileLost(path)
             \/ Start \/ UNCHANGED vars
      PROVE  \A v \in Workers : Moves(v)
  <2>1. work' = work
    BY <1>3 DEF EnqueueMissing, Redownload, Enqueue, FileLost, Start, DeleterStep,
         BeginDelete, CommitDelete, DeleteFails, vars
  <2> QED
    BY <2>1 DEF Moves
<1> QED
  BY <1>1, <1>2, <1>3, WorkerStepMoves DEF Next, Shutdown, Crash

\* How the rows of the next state come about.
RowKept(r) == r \in chapters
RowInserted(r, w) ==
    /\ InsertChapter(w) /\ work[w].seen = None
    /\ r.key = work[w].task.key /\ r.sha = work[w].archive
    /\ r.key \notin StoredKeys /\ \A q \in chapters : q.id # r.id
    /\ Remembered(r.id) => r.key \in overlapped'
RowRewritten(r, w) ==
    /\ RewriteChapter(w) /\ work[w].seen # None
    /\ \E q \in chapters :
          /\ q.id = work[w].seen.row.id /\ r.id = q.id /\ r.key = q.key
          /\ r.sha = work[w].archive \/ q.sha # work[w].seen.row.sha

LEMMA RowSources ==
    ASSUME TypeOK, [Next]_vars, NEW r \in chapters'
    PROVE  \/ RowKept(r)
           \/ \E w \in Workers : RowInserted(r, w) \/ RowRewritten(r, w)
<1>1. CASE UNCHANGED chapters
  BY <1>1 DEF RowKept
<1>2. ASSUME NEW w \in Workers, InsertChapter(w) PROVE RowKept(r) \/ RowInserted(r, w)
  <2>1. PICK id \in NextIds(chapters) :
          /\ chapters' = chapters \cup
                {[id |-> id, key |-> work[w].task.key, sha |-> work[w].archive]}
          /\ overlapped' = IF Remembered(id) THEN overlapped \cup {work[w].task.key}
                           ELSE overlapped
    BY <1>2 DEF InsertChapter
  <2>2. CASE r \in chapters
    BY <2>2 DEF RowKept
  <2>3. CASE r \notin chapters
    <3>1. r.id = id /\ r.key = work[w].task.key /\ r.sha = work[w].archive
      BY <2>1, <2>3
    <3>2. Remembered(id) => work[w].task.key \in overlapped'
      BY <2>1
    <3>3. work[w].seen = None /\ work[w].task.key \notin StoredKeys
      BY <1>2 DEF InsertChapter, KeyTaken
    <3>4. \A q \in chapters : q.id # id
      BY NextIdsFresh DEF TypeOK, Rows
    <3> QED
      BY <1>2, <3>1, <3>2, <3>3, <3>4 DEF RowInserted
  <2> QED
    BY <2>2, <2>3
<1>3. ASSUME NEW w \in Workers, RewriteChapter(w) PROVE RowKept(r) \/ RowRewritten(r, w)
  <2>1. PICK q \in chapters : r = Rewritten(w, q)
    BY <1>3 DEF RewriteChapter
  <2>2. q.id = work[w].seen.row.id \/ r = q
    BY <2>1 DEF Rewritten
  <2>3. r.id = q.id /\ r.key = q.key
    BY <2>1 DEF Rewritten, TypeOK, Rows
  <2>4. q.id = work[w].seen.row.id =>
           r.sha = work[w].archive \/ q.sha # work[w].seen.row.sha
    BY <2>1 DEF Rewritten, TypeOK, Rows
  <2>5. work[w].seen # None
    BY <1>3 DEF RewriteChapter
  <2> QED
    BY <1>3, <2>2, <2>3, <2>4, <2>5 DEF RowKept, RowRewritten
<1>4. ASSUME NEW d \in Deleters, CommitDelete(d) PROVE RowKept(r)
  BY <1>4 DEF CommitDelete, RowKept
<1> QED
  BY <1>1, <1>2, <1>3, <1>4, RowSteps

\* A file is as it was, gone, or packed for its path.
LEMMA FileSources ==
    ASSUME TypeOK, [Next]_vars, OwnPaths, NEW key \in Keys
    PROVE  \/ FileOf(key)' \in {FileOf(key), None}
           \/ \E w \in Workers : Pack(w) /\ work[w].task.key = key
<1>1. ASSUME NEW w \in Workers, Pack(w), work[w].task.key # key
      PROVE  FileOf(key)' = FileOf(key)
  <2>1. PICK cbz : disk' = [disk EXCEPT ![PathOf[work[w].task.key]] = cbz]
    BY <1>1 DEF Pack
  <2>2. PathOf[work[w].task.key] # PathOf[key]
    BY <1>1, HeldTask DEF Pack, OwnPaths
  <2> QED
    BY <2>1, <2>2, KeysAssumption DEF FileOf, TypeOK
<1>2. ASSUME NEW w \in Workers, WorkerStep(w), ~Pack(w) PROVE UNCHANGED disk
  BY <1>2 DEF WorkerStep, Take, CreateJob, CreateJobFails, SkipExisting, LoadExisting,
       NoPages, SourceFails, FindVolume, InsertChapter, RewriteChapter,
       PersistRejected, PersistFails, SetDone, SetDoneFails, SetError, SetErrorFails
<1>3. ASSUME NEW path \in Paths, disk' = [disk EXCEPT ![path] = None]
      PROVE  FileOf(key)' \in {FileOf(key), None}
  BY <1>3, KeysAssumption DEF FileOf, TypeOK
<1>4. ASSUME NEW path \in Paths, FileLost(path) PROVE FileOf(key)' \in {FileOf(key), None}
  BY <1>3, <1>4 DEF FileLost
<1>5. ASSUME NEW d \in Deleters, NEW row \in chapters, BeginDelete(d, row)
      PROVE  FileOf(key)' \in {FileOf(key), None}
  <2>1. PathOf[row.key] \in Paths
    BY KeysAssumption DEF TypeOK, Rows
  <2> QED
    BY <1>3, <1>5, <2>1 DEF BeginDelete, FileOf
<1>6. ASSUME \/ \E k \in Keys : EnqueueMissing(k)
             \/ \E row \in chapters : Redownload(row)
             \/ \E d \in Deleters : CommitDelete(d) \/ DeleteFails(d)
             \/ Shutdown \/ Crash \/ Start \/ UNCHANGED vars
      PROVE  UNCHANGED disk
  BY <1>6 DEF EnqueueMissing, Redownload, Enqueue, CommitDelete, DeleteFails, Shutdown,
       Crash, StopWorkers, Start, vars
<1>7. UNCHANGED disk => FileOf(key)' = FileOf(key)
  BY DEF FileOf
<1> QED
  BY <1>1, <1>2, <1>4, <1>5, <1>6, <1>7 DEF Next, DeleterStep

LEMMA OverlapsStay ==
    ASSUME [Next]_vars
    PROVE  overlapped \subseteq overlapped'
<1>1. ASSUME NEW w \in Workers, WorkerStep(w) PROVE overlapped \subseteq overlapped'
  BY <1>1 DEF WorkerStep, Take, CreateJob, CreateJobFails, SkipExisting, LoadExisting,
       NoPages, SourceFails, Pack, FindVolume, InsertChapter, RewriteChapter,
       PersistRejected, PersistFails, SetDone, SetDoneFails, SetError, SetErrorFails,
       history
<1>2. ASSUME NEW d \in Deleters, DeleterStep(d) PROVE UNCHANGED overlapped
  BY <1>2 DEF DeleterStep, BeginDelete, CommitDelete, DeleteFails, history
<1>3. ASSUME \/ \E key \in Keys : EnqueueMissing(key)
             \/ \E row \in chapters : Redownload(row)
             \/ \E path \in Paths : FileLost(path)
             \/ Shutdown \/ Crash \/ Start \/ UNCHANGED vars
      PROVE  UNCHANGED overlapped
  BY <1>3 DEF EnqueueMissing, Redownload, Enqueue, FileLost, Shutdown, Crash,
       StopWorkers, Start, vars, history
<1> QED
  BY <1>1, <1>2, <1>3 DEF Next

\* A download after a step was one before it, of the same task and row, or begins.
LEMMA DownloadsGoOn ==
    ASSUME NEW v \in Workers, Moves(v), Downloads(v)', ~LoadExisting(v)
    PROVE  Downloads(v) /\ KeepsTask(v) /\ work'[v].seen = work[v].seen
  BY DEF Moves, Downloads, KeepsTask, Idle

LEMMA DownloadsApartStep ==
    ASSUME TypeOK, DownloadsApart, [Next]_vars
    PROVE  DownloadsApart'
<1>1. \A v \in Workers : Moves(v)
  BY AllMove
<1>2. ASSUME NEW v \in Workers, NEW w \in Workers, Downloads(v)', Downloads(w)',
             work'[v].task.key = work'[w].task.key, v # w, LoadExisting(w)
      PROVE  work'[w].task.key \in overlapped'
  <2>1. WorkerStep(w) /\ KeepsTask(w)
    BY <1>2, LoadBegins DEF WorkerStep
  <2>2. work'[v] = work[v]
    BY <1>2, <2>1, AllMove
  <2>3. Downloads(v) /\ work[v].task.key = work[w].task.key
    BY <1>2, <2>1, <2>2 DEF Downloads, KeepsTask
  <2>4. work[w].task.key \in overlapped'
    BY <1>2, <2>3 DEF LoadExisting
  <2> QED
    BY <2>1, <2>4 DEF KeepsTask
<1>3. ASSUME NEW v \in Workers, NEW w \in Workers, Downloads(v)', Downloads(w)',
             work'[v].task.key = work'[w].task.key, v # w,
             ~LoadExisting(v), ~LoadExisting(w)
      PROVE  work'[w].task.key \in overlapped'
  <2>1. /\ Downloads(v) /\ Downloads(w)
        /\ work[v].task.key = work[w].task.key /\ work'[w].task.key = work[w].task.key
    BY <1>1, <1>3, DownloadsGoOn DEF KeepsTask
  <2>2. work[w].task.key \in overlapped
    BY <1>3, <2>1 DEF DownloadsApart
  <2> QED
    BY <2>1, <2>2, OverlapsStay
<1>4. ASSUME NEW v \in Workers, NEW w \in Workers, Downloads(v)', Downloads(w)',
             work'[v].task.key = work'[w].task.key, v # w
      PROVE  work'[w].task.key \in overlapped'
  BY <1>2, <1>3, <1>4
<1> QED
  BY <1>4 DEF DownloadsApart

\* A download under way keeps to its row.
LEMMA SeenRowStep ==
    ASSUME TypeOK, UniqueRows, HashInv, [Next]_vars,
           NEW v \in Workers, Downloads(v)', work'[v].seen # None
    PROVE  SeenRow(v)'
<1> DEFINE key == work[v].task.key
<1>1. Moves(v)
  BY AllMove
<1>2. CASE LoadExisting(v)
  <2>1. KeepsTask(v) /\ work'[v].seen = Existing(key) /\ chapters' = chapters
    BY <1>2, LoadBegins DEF LoadExisting, tables
  <2>2. key \in StoredKeys /\ Existing(key).row = RowOf(key)
    BY <2>1 DEF Existing, Snapshot
  <2>3. RowOf(key) \in chapters /\ RowOf(key).key = key
    BY <2>2 DEF StoredKeys, RowOf
  <2>4. \A r \in chapters : r.key = key \/ r.id = RowOf(key).id => r = RowOf(key)
    BY <2>3 DEF UniqueRows
  <2> QED
    BY <2>1, <2>2, <2>3, <2>4 DEF SeenRow, KeepsTask
<1>3. CASE ~LoadExisting(v)
  <2> DEFINE seen == work[v].seen.row
  <2>1. Downloads(v) /\ KeepsTask(v) /\ work'[v].seen = work[v].seen
    BY <1>1, <1>3, DownloadsGoOn
  <2>2. SeenRow(v)
    BY <2>1 DEF HashInv, DownloadOK
  <2>3. ASSUME NEW r \in chapters'
        PROVE  /\ r.key = key => key \in overlapped' \/ (r.id = seen.id /\ r.sha = seen.sha)
               /\ r.key # key /\ r.id = seen.id => r.key \in overlapped'
    <3>1. CASE RowKept(r)
      BY <2>2, <3>1, OverlapsStay DEF RowKept, SeenRow
    <3>2. ASSUME NEW w \in Workers, RowInserted(r, w), r.key = key PROVE key \in overlapped'
      <4>1. v # w /\ Downloads(w) /\ work[w].task.key = key
        BY <2>1, <3>2 DEF RowInserted, InsertChapter, Downloads
      <4> QED
        BY <2>1, <4>1, OverlapsStay DEF HashInv, DownloadsApart
    <3>3. ASSUME NEW w \in Workers, RowInserted(r, w), r.id = seen.id PROVE r.key \in overlapped'
      <4>1. Remembered(r.id)
        BY <2>1, <3>3 DEF Remembered
      <4> QED
        BY <3>3, <4>1 DEF RowInserted
    <3>4. ASSUME NEW w \in Workers, RowRewritten(r, w)
          PROVE  /\ r.key = key => key \in overlapped'
                 /\ r.key # key /\ r.id = seen.id => r.key \in overlapped'
      <4>1. PICK q \in chapters : q.id = work[w].seen.row.id /\ r.id = q.id /\ r.key = q.key
        BY <3>4 DEF RowRewritten
      <4>2. Downloads(w) /\ work[w].seen # None /\ work'[w].pc = "set_done"
        BY <3>4 DEF RowRewritten, RewriteChapter, Downloads, Goto, TypeOK, WorkType
      <4>3. v # w
        BY <4>2 DEF Downloads
      <4>4. SeenRow(w)
        BY <4>2 DEF HashInv, DownloadOK
      <4>5. r.key = work[w].task.key \/ r.key \in overlapped
        BY <4>1, <4>4 DEF SeenRow
      <4>6. work[w].task.key = key => key \in overlapped
        BY <2>1, <4>2, <4>3 DEF HashInv, DownloadsApart
      <4>7. r.key # key /\ r.id = seen.id => r.key \in overlapped
        BY <2>2, <4>1 DEF SeenRow
      <4> QED
        BY <4>5, <4>6, <4>7, OverlapsStay
    <3> QED
      BY <3>1, <3>2, <3>3, <3>4, RowSources
  <2> QED
    BY <2>1, <2>3 DEF SeenRow, KeepsTask
<1> QED
  BY <1>2, <1>3

\* A packed file stays in place unless it goes or another download overlaps.
LEMMA DownloadOKStep ==
    ASSUME TypeOK, UniqueRows, HashInv, OwnPaths, [Next]_vars, NEW v \in Workers
    PROVE  DownloadOK(v)'
<1> DEFINE key == work[v].task.key
<1>1. Moves(v)
  BY AllMove
<1>2. Downloads(v)' /\ work'[v].seen # None => SeenRow(v)'
  BY SeenRowStep
<1>3. ASSUME work'[v].pc \in {"volume", "persist"}
      PROVE  \/ disk'[PathOf[work'[v].task.key]] \in {None, work'[v].archive}
             \/ work'[v].task.key \in overlapped'
  <2>1. CASE Pack(v) /\ KeepsTask(v) /\ disk'[PathOf[key]] = work'[v].archive
    BY <2>1 DEF KeepsTask
  <2>2. CASE /\ work[v].pc \in {"volume", "persist"} /\ KeepsTask(v)
             /\ work'[v].archive = work[v].archive
    <3>1. key \in Keys /\ Downloads(v)
      BY <2>2, HeldTask DEF Downloads
    <3>2. FileOf(key) \in {None, work[v].archive} \/ key \in overlapped
      BY <2>2 DEF HashInv, DownloadOK
    <3>3. ASSUME NEW w \in Workers, Pack(w), work[w].task.key = key PROVE key \in overlapped
      <4>1. v # w /\ Downloads(w)
        BY <2>2, <3>3 DEF Pack, Downloads
      <4> QED
        BY <3>1, <3>3, <4>1 DEF HashInv, DownloadsApart
    <3>4. PICK k \in Keys : k = key
      BY <3>1
    <3>5. FileOf(k)' \in {FileOf(k), None} \/ k \in overlapped
      BY <3>3, <3>4, FileSources
    <3>6. disk'[PathOf[key]] \in {None, work[v].archive} \/ key \in overlapped
      BY <3>2, <3>4, <3>5 DEF FileOf
    <3> QED
      BY <2>2, <3>6, OverlapsStay DEF KeepsTask
  <2> QED
    BY <1>1, <1>3, <2>1, <2>2 DEF Moves, Idle, KeepsTask
<1> QED
  BY <1>2, <1>3 DEF DownloadOK, FileOf

\* What excused a key goes on excusing it, unless its row is written.
LEMMA ExcuseKept ==
    ASSUME TypeOK, HeldJobs, [Next]_vars, NEW key, Excused(key),
           \A w \in Workers : Writes(w) => work[w].task.key # key
    PROVE  Excused(key)'
<1>1. PICK j \in DOMAIN jobs : Excuses(j, key)
  BY DEF Excused
<1>2. \A v \in Workers : Moves(v)
  BY AllMove
<1>3. ASSUME NEW v \in Workers, HoldsJob(v)', work'[v].job = j PROVE Unfinished(v)'
  <2>1. CASE work'[v].job = Len(jobs) + 1
    BY <1>3, <2>1 DEF TypeOK
  <2>2. CASE HoldsJob(v) /\ KeepsTask(v)
    <3>0. work[v].job = j /\ jobs[j] = [key |-> work[v].task.key, status |-> "running"]
      BY <1>3, <2>2 DEF HeldJobs, KeepsTask
    <3>1. Unfinished(v) /\ work[v].task.key = key
      BY <1>1, <2>2, <3>0 DEF Excuses
    <3>2. ~Writes(v)
      BY <3>1
    <3> QED
      BY <1>2, <1>3, <3>1, <3>2 DEF Moves, Unfinished, HoldsJob, Idle
  <2> QED
    BY <1>2, <1>3, <2>1, <2>2 DEF Moves, HoldsJob, KeepsTask, Idle
<1>4. j \in DOMAIN jobs' /\ jobs'[j].key = key /\ jobs'[j].status # "done"
  <2>1. jobs[j].key = key /\ jobs[j].status # "done" /\ jobs[j] \in Jobs
    BY <1>1 DEF Excuses, TypeOK
  <2>2. ASSUME NEW w \in Workers, CreateJob(w)
        PROVE  j \in DOMAIN jobs' /\ jobs'[j] = jobs[j]
    BY <2>2 DEF CreateJob, TypeOK
  <2>3. ASSUME NEW w \in Workers, SetDone(w)
        PROVE  j \in DOMAIN jobs' /\ jobs'[j] = jobs[j]
    <3>1. HoldsJob(w) /\ ~Unfinished(w)
      BY <2>3 DEF SetDone, HoldsJob, Unfinished
    <3>2. work[w].job # j
      BY <1>1, <3>1 DEF Excuses
    <3> QED
      BY <2>3, <3>2 DEF SetDone, TypeOK
  <2>4. ASSUME NEW w \in Workers, SetError(w)
        PROVE  j \in DOMAIN jobs' /\ jobs'[j].key = key /\ jobs'[j].status # "done"
    BY <2>1, <2>4 DEF SetError, TypeOK, Jobs
  <2> QED
    BY <2>1, <2>2, <2>3, <2>4, JobSteps
<1> QED
  BY <1>3, <1>4 DEF Excused, Excuses

LEMMA RowsExcusedStep ==
    ASSUME TypeOK, UniqueRows, HeldJobs, HashInv, OwnPaths, [Next]_vars
    PROVE  RowsExcused'
<1> SUFFICES ASSUME NEW r \in chapters'
             PROVE  \/ FileOf(r.key)' \in {None, r.sha}
                    \/ Excused(r.key)' \/ r.key \in overlapped'
  BY DEF RowsExcused
<1>1. ASSUME NEW w \in Workers, Writes(w)
      PROVE  \A key : FileOf(key)' = FileOf(key)
  BY <1>1 DEF Writes, InsertChapter, RewriteChapter, FileOf
<1>2. ASSUME NEW w \in Workers, Writes(w), work[w].task.key = r.key
      PROVE  FileOf(r.key)' \in {None, work[w].archive} \/ r.key \in overlapped
  <2>1. work[w].pc = "persist"
    BY <1>2 DEF Writes, InsertChapter, RewriteChapter
  <2> QED
    BY <1>1, <1>2, <2>1 DEF HashInv, DownloadOK
<1>3. ASSUME NEW w \in Workers, Pack(w), work[w].task.key = r.key PROVE Excused(r.key)'
  <2>1. HoldsJob(w) /\ work'[w].pc = "volume" /\ KeepsTask(w) /\ UNCHANGED jobs
    BY <1>3, Packs DEF Pack, HoldsJob, tables
  <2>2. /\ work[w].job \in DOMAIN jobs
        /\ jobs[work[w].job] = [key |-> r.key, status |-> "running"]
    BY <1>3, <2>1 DEF HeldJobs
  <2>3. ASSUME NEW v \in Workers, HoldsJob(v)', work'[v].job = work[w].job PROVE v = w
    <3>1. CASE v # w
      <4>1. work'[v] = work[v]
        BY <1>3, <3>1, AllMove DEF WorkerStep
      <4> QED
        BY <2>1, <2>3, <4>1 DEF HeldJobs, HoldsJob
    <3> QED
      BY <3>1
  <2> QED
    BY <2>1, <2>2, <2>3 DEF Excused, Excuses, Unfinished
<1>4. CASE RowKept(r) /\ \A w \in Workers : Writes(w) => work[w].task.key # r.key
  <2>1. FileOf(r.key) \in {None, r.sha} \/ Excused(r.key) \/ r.key \in overlapped
    BY <1>4 DEF HashInv, RowsExcused, RowKept
  <2>2. Excused(r.key) => Excused(r.key)'
    BY <1>4, ExcuseKept
  <2>3. r.key \in Keys
    BY <1>4 DEF RowKept, TypeOK, Rows
  <2> QED
    BY <1>3, <2>1, <2>2, <2>3, FileSources, OverlapsStay
<1>5. ASSUME NEW w \in Workers, InsertChapter(w), work[w].task.key = r.key
      PROVE  r.sha = work[w].archive
  <2>1. r \notin chapters
    BY <1>5 DEF InsertChapter, KeyTaken, StoredKeys
  <2>2. PICK id : chapters' = chapters \cup
          {[id |-> id, key |-> work[w].task.key, sha |-> work[w].archive]}
    BY <1>5 DEF InsertChapter
  <2> QED
    BY <2>1, <2>2
<1>6. ASSUME NEW w \in Workers, RewriteChapter(w), work[w].task.key = r.key
      PROVE  r.key \in overlapped \/ r.sha = work[w].archive
  <2>1. PICK q \in chapters : r = Rewritten(w, q)
    BY <1>6 DEF RewriteChapter
  <2>2. r.id = q.id /\ r.key = q.key
    BY <2>1 DEF Rewritten, TypeOK, Rows
  <2>3. SeenRow(w)
    BY <1>6 DEF RewriteChapter, Downloads, HashInv, DownloadOK
  <2>4. r.key \in overlapped \/ (q.id = work[w].seen.row.id /\ q.sha = work[w].seen.row.sha)
    BY <1>6, <2>2, <2>3 DEF SeenRow
  <2>5. q.id = work[w].seen.row.id /\ q.sha = work[w].seen.row.sha => r.sha = work[w].archive
    BY <2>1 DEF Rewritten, TypeOK, Rows
  <2> QED
    BY <2>4, <2>5
<1>7. ASSUME NEW w \in Workers, RowRewritten(r, w), work[w].task.key # r.key
      PROVE  r.key \in overlapped
  <2>1. PICK q \in chapters : q.id = work[w].seen.row.id /\ r.key = q.key
    BY <1>7 DEF RowRewritten
  <2>2. SeenRow(w)
    BY <1>7 DEF RowRewritten, RewriteChapter, Downloads, HashInv, DownloadOK
  <2> QED
    BY <1>7, <2>1, <2>2 DEF SeenRow
<1>8. ASSUME NEW w \in Workers, Writes(w), work[w].task.key = r.key
      PROVE  FileOf(r.key)' \in {None, r.sha} \/ r.key \in overlapped
  BY <1>2, <1>5, <1>6, <1>8 DEF Writes
<1> QED
  BY <1>4, <1>7, <1>8, RowSources, OverlapsStay DEF RowInserted, RowRewritten, Writes

LEMMA HashInvariant ==
    ASSUME OwnPaths
    PROVE  Spec => []HashInv
<1>1. Init => HashInv
  BY DEF Init, HashInv, DownloadsApart, DownloadOK, RowsExcused, Downloads, Idle
<1>2. TypeOK /\ UniqueRows /\ HeldJobs /\ HashInv /\ [Next]_vars => HashInv'
  <2> SUFFICES ASSUME TypeOK, UniqueRows, HeldJobs, HashInv, [Next]_vars PROVE HashInv'
    OBVIOUS
  <2>1. DownloadsApart'
    BY DownloadsApartStep DEF HashInv
  <2>2. \A w \in Workers : DownloadOK(w)'
    BY DownloadOKStep
  <2>3. RowsExcused'
    BY RowsExcusedStep
  <2> QED
    BY <2>1, <2>2, <2>3 DEF HashInv
<1> QED
  BY <1>1, <1>2, TypeCorrect, OneRowPerKey, JobsAreHeldOnce, PTL DEF Spec

\* Where paths do not collide, the hash of a row is that of its file, or a job of the
\* chapter has not ended "done", or downloads of it overlapped: for any number of workers,
\* deletes, versions and faults.
THEOREM DoneRowsDescribeFiles ==
    ASSUME OwnPaths
    PROVE  Spec => []DoneRowDescribesFile
<1>1. HashInv => DoneRowDescribesFile
  BY DEF HashInv, RowsExcused, Excused, Excuses, DoneRowDescribesFile
<1> QED
  BY <1>1, HashInvariant, PTL
-----------------------------------------------------------------------------
(* The engine implements ChapterStore.  The tasks that wait are counted in  *)
(* two parts, those in the queue and those a worker has taken.              *)

QueuedAt(tasks, key) == {i \in DOMAIN tasks : tasks[i].key = key}

Settling(w) == work[w].pc \in {"create", "load", "fetch", "volume", "persist"}
Taken(key) == {w \in Workers : Settling(w) /\ work[w].task.key = key}

Pending == [k \in Keys |-> Waiting(k)]
Stored  == [k \in Keys |-> IF k \in StoredKeys THEN RowOf(k).sha ELSE None]

LEMMA WaitingParts ==
    \A k : Waiting(k) = Cardinality(QueuedAt(queue, k)) + Cardinality(Taken(k))
BY DEF Waiting, QueuedAt, Taken, Settling

LEMMA QueuedFinite ==
    ASSUME NEW tasks \in Seq(Tasks), NEW k
    PROVE  IsFiniteSet(QueuedAt(tasks, k)) /\ Cardinality(QueuedAt(tasks, k)) \in Nat
<1>1. IsFiniteSet(1..Len(tasks))
  BY FS_Interval
<1>2. QueuedAt(tasks, k) \subseteq 1..Len(tasks)
  BY DEF QueuedAt
<1> QED
  BY <1>1, <1>2, FS_Subset, FS_CardinalityType

LEMMA TakenFinite ==
    \A k : IsFiniteSet(Taken(k)) /\ Cardinality(Taken(k)) \in Nat
<1> TAKE k
<1>1. Taken(k) \subseteq Workers
  BY DEF Taken
<1> QED
  BY <1>1, WorkersAssumption, FS_Subset, FS_CardinalityType

LEMMA AppendCounts ==
    ASSUME NEW tasks \in Seq(Tasks), NEW t \in Tasks, NEW k
    PROVE  Cardinality(QueuedAt(Append(tasks, t), k)) =
              Cardinality(QueuedAt(tasks, k)) + IF k = t.key THEN 1 ELSE 0
<1> DEFINE n == Len(tasks) + 1
           more == Append(tasks, t)
<1>1. /\ DOMAIN more = DOMAIN tasks \cup {n} /\ n \notin DOMAIN tasks
      /\ more[n] = t /\ \A i \in DOMAIN tasks : more[i] = tasks[i]
  OBVIOUS
<1> HIDE DEF n, more
<1>2. CASE k = t.key
  <2>1. QueuedAt(more, k) = QueuedAt(tasks, k) \cup {n} /\ n \notin QueuedAt(tasks, k)
    BY <1>1, <1>2 DEF QueuedAt
  <2> QED
    BY <1>2, <2>1, QueuedFinite, FS_AddElement DEF more
<1>3. CASE k # t.key
  <2>1. QueuedAt(more, k) = QueuedAt(tasks, k)
    BY <1>1, <1>3 DEF QueuedAt
  <2> QED
    BY <1>3, <2>1, QueuedFinite DEF more
<1> QED
  BY <1>2, <1>3

LEMMA TailCounts ==
    ASSUME NEW tasks \in Seq(Tasks), tasks # <<>>, NEW k
    PROVE  Cardinality(QueuedAt(tasks, k)) =
              Cardinality(QueuedAt(Tail(tasks), k)) + IF k = Head(tasks).key THEN 1 ELSE 0
<1> DEFINE rest == Tail(tasks)
           S == QueuedAt(rest, k)
           T == QueuedAt(tasks, k) \ {1}
           f == [i \in S |-> i + 1]
<1>1. /\ rest \in Seq(Tasks) /\ Len(rest) = Len(tasks) - 1
      /\ \A i \in 1..Len(rest) : rest[i] = tasks[i + 1]
  BY HeadTailProperties
<1>2. Head(tasks) = tasks[1] /\ 1 \in DOMAIN tasks
  OBVIOUS
<1>3. f \in Bijection(S, T)
  <2>1. S \subseteq Nat \ {0}
    BY <1>1 DEF QueuedAt
  <2>2. \A i \in S : i + 1 \in T
    BY <1>1 DEF QueuedAt
  <2>3. \A j \in T : j - 1 \in S /\ j = (j - 1) + 1
    BY <1>1 DEF QueuedAt
  <2> HIDE DEF S, T
  <2>4. f \in [S -> T] /\ \A i \in S : f[i] = i + 1
    BY <2>2
  <2>5. \A i, j \in S : f[i] = f[j] => i = j
    BY <2>1, <2>4
  <2>6. \A j \in T : \E i \in S : f[i] = j
    BY <2>3, <2>4
  <2> HIDE DEF f
  <2> QED
    BY <2>4, <2>5, <2>6 DEF Bijection, Injection, IsInjective, Surjection
<1>4. Cardinality(T) = Cardinality(S)
  <2>1. IsFiniteSet(S) /\ ExistsBijection(S, T)
    BY <1>1, <1>3, QueuedFinite DEF ExistsBijection
  <2> HIDE DEF S, T
  <2> QED
    BY <2>1, FS_Bijection
<1>5. Cardinality(T) = IF 1 \in QueuedAt(tasks, k) THEN Cardinality(QueuedAt(tasks, k)) - 1
                                                   ELSE Cardinality(QueuedAt(tasks, k))
  BY QueuedFinite, FS_RemoveElement
<1>6. 1 \in QueuedAt(tasks, k) <=> k = Head(tasks).key
  BY <1>2 DEF QueuedAt
<1> HIDE DEF T, S
<1> QED
  BY <1>1, <1>4, <1>5, <1>6, QueuedFinite DEF S

\* A step that leaves the queue and who has taken what.
LEMMA PendingSame ==
    ASSUME UNCHANGED queue, \A k : Taken(k)' = Taken(k)
    PROVE  Pending' = Pending
BY WaitingParts DEF Pending, Waiting, Taken, Settling

\* A worker is done with its task.
LEMMA PendingDown ==
    ASSUME TypeOK, UNCHANGED queue, NEW w \in Workers, Settling(w), ~Settling(w)',
           \A v \in Workers \ {w} : work'[v] = work[v]
    PROVE  /\ Pending[work[w].task.key] > 0
           /\ Pending' = [Pending EXCEPT ![work[w].task.key] = @ - 1]
<1> DEFINE key == work[w].task.key
<1>1. key \in Keys
  BY HeldTask DEF Settling
<1>2. \A k : Taken(k)' = IF k = key THEN Taken(k) \ {w} ELSE Taken(k)
  BY DEF Taken, Settling
<1>3. w \in Taken(key)
  BY DEF Taken
<1>4. \A k : Cardinality(Taken(k)') = IF k = key THEN Cardinality(Taken(k)) - 1
                                                 ELSE Cardinality(Taken(k))
  BY <1>2, <1>3, TakenFinite, FS_RemoveElement
<1>5. Cardinality(Taken(key)) > 0
  BY <1>3, TakenFinite, FS_EmptySet
<1>6. \A k : Waiting(k)' = Cardinality(QueuedAt(queue, k)) + Cardinality(Taken(k)')
  BY DEF Waiting, QueuedAt, Taken, Settling
<1>7. \A k : Cardinality(QueuedAt(queue, k)) \in Nat /\ Cardinality(Taken(k)) \in Nat
  BY QueuedFinite, TakenFinite DEF TypeOK
<1> HIDE DEF key
<1>8. \A k : Waiting(k)' = IF k = key THEN Waiting(k) - 1 ELSE Waiting(k)
  BY <1>4, <1>6, <1>7, WaitingParts
<1>9. Waiting(key) > 0
  BY <1>5, <1>7, WaitingParts
<1>10. Pending' = [Pending EXCEPT ![key] = @ - 1]
  BY <1>1, <1>8 DEF Pending
<1> QED
  BY <1>1, <1>9, <1>10 DEF Pending, key

\* A request is accepted.
LEMMA PendingUp ==
    ASSUME TypeOK, UNCHANGED work, NEW t \in Tasks, queue' = Append(queue, t)
    PROVE  t.key \in Keys /\ Pending' = [Pending EXCEPT ![t.key] = @ + 1]
<1>1. t.key \in Keys
  BY DEF Tasks
<1>2. \A k : Waiting(k)' = Cardinality(QueuedAt(Append(queue, t), k)) + Cardinality(Taken(k))
  BY DEF Waiting, QueuedAt, Taken, Settling
<1>3. \A k : Cardinality(QueuedAt(queue, k)) \in Nat /\ Cardinality(Taken(k)) \in Nat
  BY QueuedFinite, TakenFinite DEF TypeOK
<1>4. \A k : Cardinality(QueuedAt(Append(queue, t), k)) =
              Cardinality(QueuedAt(queue, k)) + IF k = t.key THEN 1 ELSE 0
  BY AppendCounts DEF TypeOK
<1>5. \A k : Waiting(k)' = IF k = t.key THEN Waiting(k) + 1 ELSE Waiting(k)
  BY <1>2, <1>3, <1>4, WaitingParts
<1> QED
  BY <1>1, <1>5 DEF Pending

\* A worker takes the task that has waited longest.
LEMMA PendingTaken ==
    ASSUME TypeOK, NEW w \in Workers, Take(w)
    PROVE  Pending' = Pending
<1> DEFINE t == Head(queue)
<1>1. queue \in Seq(Tasks) /\ queue # <<>> /\ queue' = Tail(queue)
  BY DEF Take, TypeOK
<1>2. /\ work'[w].pc = "create" /\ work'[w].task = t /\ work[w].pc = "idle"
      /\ \A v \in Workers \ {w} : work'[v] = work[v]
  BY DEF Take, TypeOK, WorkType
<1>3. \A k : Taken(k)' = IF k = t.key THEN Taken(k) \cup {w} ELSE Taken(k)
  BY <1>2 DEF Taken, Settling
<1>4. \A k : w \notin Taken(k)
  BY <1>2 DEF Taken, Settling
<1>5. \A k : Cardinality(Taken(k)') = Cardinality(Taken(k)) + IF k = t.key THEN 1 ELSE 0
  BY <1>3, <1>4, TakenFinite, FS_AddElement
<1>6. \A k : Waiting(k)' = Cardinality(QueuedAt(Tail(queue), k)) + Cardinality(Taken(k)')
  BY <1>1 DEF Waiting, QueuedAt, Taken, Settling
<1>7. \A k : Cardinality(QueuedAt(queue, k)) =
              Cardinality(QueuedAt(Tail(queue), k)) + IF k = t.key THEN 1 ELSE 0
  BY <1>1, TailCounts
<1>8. /\ \A k : Cardinality(QueuedAt(Tail(queue), k)) \in Nat
      /\ \A k : Cardinality(Taken(k)) \in Nat
  <2>1. Tail(queue) \in Seq(Tasks)
    BY <1>1, HeadTailProperties
  <2> QED
    BY <2>1, QueuedFinite, TakenFinite
<1> HIDE DEF t
<1>9. \A k : Waiting(k)' = Waiting(k)
  BY <1>5, <1>6, <1>7, <1>8, WaitingParts
<1> QED
  BY <1>9 DEF Pending

\* Nothing is queued or taken once the workers have stopped.
LEMMA PendingNone ==
    ASSUME queue = <<>>, \A w \in Workers : ~Settling(w)
    PROVE  Pending = [k \in Keys |-> 0]
<1>1. \A k : QueuedAt(queue, k) = {} /\ Taken(k) = {}
  BY DEF QueuedAt, Taken
<1>2. \A k : Waiting(k) = Cardinality({}) + Cardinality({})
  BY <1>1, WaitingParts
<1>3. Cardinality({}) = 0
  BY FS_EmptySet
<1>4. \A k : Waiting(k) = 0
  BY <1>2, <1>3
<1> QED
  BY <1>4 DEF Pending

-----------------------------------------------------------------------------
(* What is stored.                                                          *)

LEMMA StoredNow ==
    ASSUME UniqueRows, NEW k \in Keys
    PROVE  /\ \A r \in chapters : r.key = k => Stored[k] = r.sha
           /\ (\A r \in chapters : r.key # k) => Stored[k] = None
<1>1. ASSUME NEW r \in chapters, r.key = k PROVE Stored[k] = r.sha
  <2>1. RowOf(k) \in chapters /\ RowOf(k).key = k
    BY <1>1 DEF RowOf
  <2>2. RowOf(k) = r /\ k \in StoredKeys
    BY <1>1, <2>1 DEF UniqueRows, StoredKeys
  <2> QED
    BY <2>2 DEF Stored
<1> QED
  BY <1>1 DEF Stored, StoredKeys

LEMMA StoredThen ==
    ASSUME UniqueRows', NEW k \in Keys
    PROVE  /\ \A r \in chapters' : r.key = k => Stored'[k] = r.sha
           /\ (\A r \in chapters' : r.key # k) => Stored'[k] = None
<1>1. ASSUME NEW r \in chapters', r.key = k PROVE Stored'[k] = r.sha
  <2>1. RowOf(k)' \in chapters' /\ RowOf(k)'.key = k
    BY <1>1 DEF RowOf
  <2>2. RowOf(k)' = r /\ k \in StoredKeys'
    BY <1>1, <2>1 DEF UniqueRows, StoredKeys
  <2> QED
    BY <2>2 DEF Stored
<1> QED
  BY <1>1 DEF Stored, StoredKeys

\* Where the rows of at most one key differ in the next state.
LEMMA StoredBut ==
    ASSUME UniqueRows, UniqueRows', NEW key,
           \A r : r.key # key => (r \in chapters <=> r \in chapters'),
           NEW sha, \/ sha = None /\ \A r \in chapters' : r.key # key
                    \/ \E r \in chapters' : r.key = key /\ r.sha = sha
    PROVE  Stored' = [Stored EXCEPT ![key] = sha]
<1>1. ASSUME NEW k \in Keys, k # key PROVE Stored'[k] = Stored[k]
  <2>1. ASSUME NEW r \in chapters, r.key = k PROVE Stored'[k] = Stored[k]
    <3>1. r \in chapters'
      BY <1>1, <2>1
    <3> QED
      BY <2>1, <3>1, StoredNow, StoredThen
  <2>2. ASSUME \A r \in chapters : r.key # k PROVE Stored'[k] = Stored[k]
    <3>1. \A r \in chapters' : r.key # k
      BY <1>1, <2>2
    <3> QED
      BY <2>2, <3>1, StoredNow, StoredThen
  <2> QED
    BY <2>1, <2>2
<1>2. key \in Keys => Stored'[key] = sha
  BY StoredThen
<1>3. Stored = [k \in Keys |-> Stored[k]] /\ Stored' = [k \in Keys |-> Stored'[k]]
  BY DEF Stored
<1> QED
  BY <1>1, <1>2, <1>3

-----------------------------------------------------------------------------
(* An overwrite finds its own row, unless the row has been deleted and its   *)
(* id given to another while the chapter was downloaded again: the code does *)
(* not exclude it, so it is a hypothesis on behaviours, and what keeps it is *)
(* said: no DELETE that commits under a download, none at all, or one worker.*)

\* A row is inserted under an id that a download under way has read.
IdReused ==
    \E r \in chapters' : Remembered(r.id) /\ \A q \in chapters : q.id # r.id

IdsNotReused == [][~IdReused]_vars

\* No DELETE commits while its chapter is downloaded again.
DeletesApart ==
    [][\A d \in Deleters : CommitDelete(d) => ~Remembered(requests[d].row.id)]_vars

NoStaleRows == Deleters = {} \/ \A v, w \in Workers : v = w

OwnRow(w) ==
    Downloads(w) /\ work[w].seen # None =>
        \A r \in chapters : r.id = work[w].seen.row.id => r.key = work[w].task.key

OwnRows == \A w \in Workers : OwnRow(w)

OwnArchive(w) ==
    work[w].pc \in {"volume", "persist"} => work[w].archive.key = work[w].task.key

OwnArchives == \A w \in Workers : OwnArchive(w)

\* The row that a download has read is still there.
SeenRowStays(w) ==
    Downloads(w) /\ work[w].seen # None =>
        \E r \in chapters : r.id = work[w].seen.row.id

SeenRowsStay == \A w \in Workers : SeenRowStays(w)

\* A row goes by a DELETE of its id only, and its id and key stay while it is there.
LEMMA RowStays ==
    ASSUME TypeOK, [Next]_vars, NEW r \in chapters,
           \A d \in Deleters : CommitDelete(d) => requests[d].row.id # r.id
    PROVE  \E q \in chapters' : q.id = r.id /\ q.key = r.key
<1>1. ASSUME NEW w \in Workers, InsertChapter(w) PROVE r \in chapters'
  BY <1>1 DEF InsertChapter
<1>2. ASSUME NEW w \in Workers, RewriteChapter(w)
      PROVE  \E q \in chapters' : q.id = r.id /\ q.key = r.key
  <2>1. /\ Rewritten(w, r) \in chapters'
        /\ Rewritten(w, r).id = r.id /\ Rewritten(w, r).key = r.key
    BY <1>2 DEF RewriteChapter, Rewritten, TypeOK, Rows
  <2> QED
    BY <2>1
<1>3. ASSUME NEW d \in Deleters, CommitDelete(d) PROVE r \in chapters'
  BY <1>3 DEF CommitDelete
<1> QED
  BY <1>1, <1>2, <1>3, RowSteps

\* What a download that goes on has read is the row of its key, as it begins.
LEMMA LoadFindsRow ==
    ASSUME TypeOK, NEW w \in Workers, LoadExisting(w), work'[w].seen # None
    PROVE  /\ chapters' = chapters /\ work'[w].task = work[w].task
           /\ \E r \in chapters : r = work'[w].seen.row /\ r.key = work[w].task.key
<1> DEFINE key == work[w].task.key
<1>1. KeepsTask(w) /\ work'[w].seen = Existing(key) /\ chapters' = chapters
  BY LoadBegins DEF LoadExisting, tables
<1>2. key \in StoredKeys /\ Existing(key).row = RowOf(key)
  BY <1>1 DEF Existing, Snapshot
<1>3. RowOf(key) \in chapters /\ RowOf(key).key = key
  BY <1>2 DEF StoredKeys, RowOf
<1> QED
  BY <1>1, <1>2, <1>3 DEF KeepsTask

LEMMA SeenRowsStayStep ==
    ASSUME TypeOK, SeenRowsStay, [Next]_vars,
           \A d \in Deleters : CommitDelete(d) => ~Remembered(requests[d].row.id)
    PROVE  SeenRowsStay'
<1> SUFFICES ASSUME NEW w \in Workers, Downloads(w)', work'[w].seen # None
             PROVE  \E r \in chapters' : r.id = work'[w].seen.row.id
  BY DEF SeenRowsStay, SeenRowStays
<1>1. CASE LoadExisting(w)
  BY <1>1, LoadFindsRow
<1>2. CASE ~LoadExisting(w)
  <2>1. Downloads(w) /\ work'[w].seen = work[w].seen
    BY <1>2, AllMove, DownloadsGoOn
  <2>2. PICK r \in chapters : r.id = work[w].seen.row.id
    BY <2>1 DEF SeenRowsStay, SeenRowStays
  <2>3. ASSUME NEW d \in Deleters, CommitDelete(d) PROVE requests[d].row.id # r.id
    <3>1. ~Remembered(requests[d].row.id)
      BY <2>3
    <3> QED
      BY <2>1, <2>2, <3>1 DEF Remembered
  <2>4. \E q \in chapters' : q.id = r.id
    BY <2>3, RowStays
  <2> QED
    BY <2>1, <2>2, <2>4
<1> QED
  BY <1>1, <1>2

LEMMA SeenIdsNotReused ==
    ASSUME SeenRowsStay
    PROVE  ~IdReused
BY DEF SeenRowsStay, SeenRowStays, IdReused, Remembered

LEMMA OneWorkerReusesNone ==
    ASSUME \A v, w \in Workers : v = w, TypeOK, [Next]_vars
    PROVE  ~IdReused
<1> SUFFICES ASSUME NEW r \in chapters', Remembered(r.id), \A q \in chapters : q.id # r.id
             PROVE  FALSE
  BY DEF IdReused
<1>1. PICK v \in Workers : work[v].seen # None
  BY DEF Remembered
<1>2. ~RowKept(r) /\ \A w \in Workers : ~RowRewritten(r, w)
  BY DEF RowKept, RowRewritten
<1>3. PICK w \in Workers : RowInserted(r, w)
  BY <1>2, RowSources
<1> QED
  BY <1>1, <1>3 DEF RowInserted

\* Where no DELETE commits under a download of its chapter, no download ever finds the id
\* of its row given to another.
THEOREM DeletesApartKeepIds == Spec /\ DeletesApart => IdsNotReused
<1> DEFINE Apart == \A d \in Deleters : CommitDelete(d) => ~Remembered(requests[d].row.id)
<1>1. Init => SeenRowsStay
  BY DEF Init, SeenRowsStay, SeenRowStays, Downloads, Idle
<1>2. TypeOK /\ SeenRowsStay /\ [Next]_vars /\ [Apart]_vars => SeenRowsStay'
  <2>1. TypeOK /\ SeenRowsStay /\ [Next]_vars /\ Apart => SeenRowsStay'
    BY SeenRowsStayStep
  <2>2. SeenRowsStay /\ UNCHANGED vars => SeenRowsStay'
    BY DEF SeenRowsStay, SeenRowStays, Downloads, vars
  <2> HIDE DEF Apart
  <2> QED
    BY <2>1, <2>2
<1>3. SeenRowsStay => ~IdReused
  BY SeenIdsNotReused
<1> QED
  BY <1>1, <1>2, <1>3, TypeCorrect, PTL DEF Spec, DeletesApart, IdsNotReused

\* Nor is one where nothing is deleted, or where one worker inserts all rows.
THEOREM NoStaleRowsKeepIds ==
    ASSUME NoStaleRows
    PROVE  Spec => IdsNotReused
<1>1. CASE Deleters = {}
  <2>1. [Next]_vars => [\A d \in Deleters : CommitDelete(d) => ~Remembered(requests[d].row.id)]_vars
    BY <1>1
  <2>2. Spec => DeletesApart
    BY <2>1, PTL DEF Spec, DeletesApart
  <2> QED
    BY <2>2, DeletesApartKeepIds
<1>2. CASE \A v, w \in Workers : v = w
  <2>1. TypeOK /\ [Next]_vars => [~IdReused]_vars
    BY <1>2, OneWorkerReusesNone
  <2> QED
    BY <2>1, TypeCorrect, PTL DEF Spec, IdsNotReused
<1> QED
  BY <1>1, <1>2 DEF NoStaleRows

LEMMA OwnRowsStep ==
    ASSUME ~IdReused, TypeOK, UniqueRows, OwnRows, [Next]_vars
    PROVE  OwnRows'
<1> SUFFICES ASSUME NEW v \in Workers, Downloads(v)', work'[v].seen # None,
                    NEW r \in chapters', r.id = work'[v].seen.row.id
             PROVE  r.key = work'[v].task.key
  BY DEF OwnRows, OwnRow
<1>1. CASE LoadExisting(v)
  BY <1>1, LoadFindsRow DEF UniqueRows
<1>2. CASE ~LoadExisting(v)
  <2>1. Downloads(v) /\ KeepsTask(v) /\ work'[v].seen = work[v].seen
    BY <1>2, AllMove, DownloadsGoOn
  <2> DEFINE id == work[v].seen.row.id
             key == work[v].task.key
  <2>2. r.id = id /\ \A q \in chapters : q.id = id => q.key = key
    BY <2>1 DEF OwnRows, OwnRow
  <2>3. CASE RowKept(r)
    BY <2>1, <2>2, <2>3 DEF RowKept, KeepsTask
  <2>4. ASSUME NEW w \in Workers, RowInserted(r, w) PROVE FALSE
    <3>1. Remembered(r.id)
      BY <2>1, <2>2 DEF Remembered
    <3> QED
      BY <2>4, <3>1 DEF RowInserted, IdReused
  <2>5. ASSUME NEW w \in Workers, RowRewritten(r, w) PROVE r.key = key
    BY <2>2, <2>5 DEF RowRewritten
  <2> QED
    BY <2>1, <2>3, <2>4, <2>5, RowSources DEF KeepsTask
<1> QED
  BY <1>1, <1>2

LEMMA OwnArchivesStep ==
    ASSUME TypeOK, OwnArchives, [Next]_vars
    PROVE  OwnArchives'
<1> SUFFICES ASSUME NEW w \in Workers, work'[w].pc \in {"volume", "persist"}
             PROVE  work'[w].archive.key = work'[w].task.key
  BY DEF OwnArchives, OwnArchive
<1>1. CASE Pack(w)
  BY <1>1, Packs DEF KeepsTask
<1>2. CASE ~Pack(w)
  <2>1. /\ work[w].pc \in {"volume", "persist"}
        /\ work'[w].archive = work[w].archive /\ work'[w].task = work[w].task
    BY <1>2, AllMove DEF Moves, KeepsTask, Idle
  <2> QED
    BY <2>1 DEF OwnArchives, OwnArchive
<1> QED
  BY <1>1, <1>2

-----------------------------------------------------------------------------
(* Each step is a step of ChapterStore or changes neither what waits nor    *)
(* what is stored.                                                          *)

Maps == Catalogue!Next \/ (Pending' = Pending /\ Stored' = Stored)

LEMMA StoredSame ==
    ASSUME UNCHANGED chapters
    PROVE  Stored' = Stored
BY DEF Stored, StoredKeys, RowOf

LEMMA WorkerMaps ==
    ASSUME TypeOK, UniqueRows, UniqueRows', OwnArchives, NEW w \in Workers,
           RewriteChapter(w) => OwnRow(w), WorkerStep(w), [Next]_vars
    PROVE  Maps
<1> DEFINE key == work[w].task.key
<1>1. Moves(w) /\ \A v \in Workers \ {w} : work'[v] = work[v]
  BY WorkerStepMoves
<1>2. CASE Take(w)
  BY <1>2, PendingTaken, StoredSame DEF Take, tables, Maps
<1>3. UNCHANGED queue \/ Take(w)
  BY DEF WorkerStep, CreateJob, CreateJobFails, SkipExisting, LoadExisting, NoPages,
     SourceFails, Pack, FindVolume, InsertChapter, RewriteChapter, PersistRejected,
     PersistFails, SetDone, SetDoneFails, SetError, SetErrorFails
<1>4. ~Writes(w) => UNCHANGED chapters
  BY DEF Writes, WorkerStep, Take, CreateJob, CreateJobFails, SkipExisting, LoadExisting,
     NoPages, SourceFails, Pack, FindVolume, PersistRejected, PersistFails, SetDone,
     SetDoneFails, SetError, SetErrorFails, tables
<1>5. ASSUME UNCHANGED queue, Settling(w), ~Settling(w)', NEW sha,
             Stored' = [Stored EXCEPT ![key] = sha], sha \in Archives, sha.key = key
      PROVE  Catalogue!Next
  <2>1. key \in Keys
    BY <1>5, HeldTask DEF Settling
  <2>2. Pending[key] > 0 /\ Pending' = [Pending EXCEPT ![key] = @ - 1]
    BY <1>1, <1>5, PendingDown
  <2>3. PICK k \in Keys : k = key
    BY <2>1
  <2>4. Catalogue!Store(k)
    BY <1>5, <2>2, <2>3 DEF Catalogue!Store, Catalogue!Settle, Pending, Stored
  <2> QED
    BY <2>4 DEF Catalogue!Next
<1>6. ASSUME UNCHANGED queue, Settling(w), ~Settling(w)', Stored' = Stored
      PROVE  Catalogue!Next
  <2>1. key \in Keys
    BY <1>6, HeldTask DEF Settling
  <2>2. Pending[key] > 0 /\ Pending' = [Pending EXCEPT ![key] = @ - 1]
    BY <1>1, <1>6, PendingDown
  <2>3. Catalogue!Drop(key)
    BY <1>6, <2>2 DEF Catalogue!Drop, Catalogue!Settle, Pending, Stored
  <2> QED
    BY <2>1, <2>3 DEF Catalogue!Next
<1>7. CASE InsertChapter(w)
  <2>1. PICK id : chapters' = chapters \cup
                    {[id |-> id, key |-> key, sha |-> work[w].archive]}
    BY <1>7 DEF InsertChapter
  <2>2. work[w].archive \in Archives /\ work[w].archive.key = key
    BY <1>7 DEF InsertChapter, OwnArchives, OwnArchive, TypeOK, WorkType
  <2>3. Settling(w) /\ ~Settling(w)' /\ UNCHANGED queue
    BY <1>1, <1>7, HeldTask DEF InsertChapter, Goto, Settling, TypeOK, WorkType
  <2> DEFINE new == [id |-> id, key |-> key, sha |-> work[w].archive]
  <2>4. chapters' = chapters \cup {new} /\ new.key = key /\ new.sha = work[w].archive
    BY <2>1
  <2> HIDE DEF new, key
  <2>5. Stored' = [Stored EXCEPT ![key] = work[w].archive]
    BY <2>4, StoredBut
  <2> QED
    BY <1>5, <2>2, <2>3, <2>5 DEF Maps
<1>8. CASE RewriteChapter(w)
  <2> DEFINE id == work[w].seen.row.id
  <2>1. Settling(w) /\ ~Settling(w)' /\ UNCHANGED queue
    BY <1>1, <1>8, HeldTask DEF RewriteChapter, Goto, Settling, TypeOK, WorkType
  <2>2. PICK row \in chapters : row.id = id /\ row.key = key
    BY <1>8 DEF RewriteChapter, CanRewrite, OwnRow, Downloads
  <2>3. chapters' = {Rewritten(w, r) : r \in chapters}
    BY <1>8 DEF RewriteChapter
  <2>4. CASE work[w].archive = work[w].seen.row.sha
    <3>1. \A r \in chapters : Rewritten(w, r) = r
      BY <2>4 DEF Rewritten
    <3>2. Stored' = Stored
      BY <2>3, <3>1, StoredSame
    <3> QED
      BY <1>6, <2>1, <3>2 DEF Maps
  <2>5. CASE work[w].archive # work[w].seen.row.sha
    <3>1. \A r \in chapters : r.key # key => Rewritten(w, r) = r
      BY <2>2 DEF Rewritten, UniqueRows
    <3>2. \A r \in chapters : Rewritten(w, r).key = r.key
      BY DEF Rewritten, TypeOK, Rows
    <3>3. Rewritten(w, row).sha = work[w].archive
      BY <2>2, <2>5 DEF Rewritten, TypeOK, Rows
    <3>4. \A r : r.key # key => (r \in chapters <=> r \in chapters')
      BY <2>3, <3>1, <3>2
    <3>5. \E r \in chapters' : r.key = key /\ r.sha = work[w].archive
      BY <2>2, <2>3, <3>2, <3>3
    <3>6. work[w].archive \in Archives /\ work[w].archive.key = key
      BY <1>8 DEF RewriteChapter, OwnArchives, OwnArchive, TypeOK, WorkType
    <3> HIDE DEF key
    <3>7. Stored' = [Stored EXCEPT ![key] = work[w].archive]
      BY <3>4, <3>5, StoredBut
    <3> QED
      BY <1>5, <2>1, <3>6, <3>7 DEF Maps
  <2> QED
    BY <2>4, <2>5
<1>9. CASE ~Take(w) /\ ~Writes(w)
  <2>1. UNCHANGED queue /\ Stored' = Stored
    BY <1>3, <1>4, <1>9, StoredSame
  <2>2. work[w].pc # "idle"
    BY <1>9 DEF Writes, WorkerStep, CreateJob, CreateJobFails, SkipExisting, LoadExisting,
       NoPages, SourceFails, Pack, FindVolume, PersistRejected, PersistFails, SetDone,
       SetDoneFails, SetError, SetErrorFails
  <2>3. CASE Settling(w) /\ ~Settling(w)'
    BY <1>6, <2>1, <2>3 DEF Maps
  <2>4. CASE ~(Settling(w) /\ ~Settling(w)')
    <3>1. (Settling(w) <=> Settling(w)') /\ (Settling(w) => work'[w].task = work[w].task)
      BY <1>1, <2>2, <2>4 DEF Moves, Settling, KeepsTask, Idle
    <3>2. \A v \in Workers : /\ Settling(v) <=> Settling(v)'
                             /\ Settling(v) => work'[v].task = work[v].task
      BY <1>1, <3>1 DEF Settling
    <3>3. \A k : Taken(k)' = Taken(k)
      BY <3>2 DEF Taken
    <3> QED
      BY <2>1, <3>3, PendingSame DEF Maps
  <2> QED
    BY <2>3, <2>4
<1> QED
  BY <1>2, <1>7, <1>8, <1>9 DEF Writes

LEMMA DeleterMaps ==
    ASSUME TypeOK, UniqueRows, UniqueRows', NEW d \in Deleters, DeleterStep(d)
    PROVE  Maps
<1>1. UNCHANGED <<queue, work>>
  BY DEF DeleterStep, BeginDelete, CommitDelete, DeleteFails
<1>2. Pending' = Pending
  BY <1>1, PendingSame DEF Taken, Settling
<1>3. CASE UNCHANGED chapters
  BY <1>2, <1>3, StoredSame DEF Maps
<1>4. CASE CommitDelete(d) /\ chapters' # chapters
  <2>1. chapters' = {r \in chapters : r.id # requests[d].row.id}
    BY <1>4 DEF CommitDelete
  <2>2. PICK row \in chapters : row.id = requests[d].row.id
    BY <1>4, <2>1
  <2>3. row.key \in Keys
    BY DEF TypeOK, Rows
  <2>4. \A r \in chapters' : r.key # row.key
    BY <2>1, <2>2 DEF UniqueRows
  <2>5. \A r : r.key # row.key => (r \in chapters <=> r \in chapters')
    BY <2>1, <2>2 DEF UniqueRows
  <2>6. Stored' = [Stored EXCEPT ![row.key] = None]
    BY <2>4, <2>5, StoredBut
  <2>7. Catalogue!Remove(row.key)
    BY <1>2, <2>6 DEF Catalogue!Remove, Pending, Stored
  <2>8. \E k \in Keys : Catalogue!Remove(k)
    BY <2>3, <2>7
  <2> QED
    BY <2>8 DEF Catalogue!Next, Maps
<1> QED
  BY <1>3, <1>4 DEF DeleterStep, BeginDelete, DeleteFails, tables

LEMMA EnqueueMaps ==
    ASSUME TypeOK, NEW t \in Tasks, Enqueue(t)
    PROVE  Maps
<1>1. t.key \in Keys /\ Pending' = [Pending EXCEPT ![t.key] = @ + 1]
  BY PendingUp DEF Enqueue
<1>2. Stored' = Stored
  BY StoredSame DEF Enqueue, tables
<1>3. Catalogue!Request(t.key)
  BY <1>1, <1>2 DEF Catalogue!Request, Pending, Stored
<1>4. \E k \in Keys : Catalogue!Request(k)
  BY <1>1, <1>3
<1> QED
  BY <1>4 DEF Catalogue!Next, Maps

LEMMA StopMaps ==
    ASSUME StopWorkers
    PROVE  Maps
<1>1. Stored' = Stored
  BY StoredSame DEF StopWorkers, tables
<1>2. \A k : QueuedAt(queue', k) = {} /\ Taken(k)' = {}
  BY DEF StopWorkers, QueuedAt, Taken, Settling, Idle
<1>3. \A k : Waiting(k)' = Cardinality(QueuedAt(queue', k)) + Cardinality(Taken(k)')
  BY DEF Waiting, QueuedAt, Taken, Settling
<1>4. \A k : Waiting(k)' = Cardinality({}) + Cardinality({})
  BY <1>2, <1>3
<1>5. Cardinality({}) = 0
  BY FS_EmptySet
<1>6. \A k : Waiting(k)' = 0
  BY <1>4, <1>5
<1>7. Pending' = [k \in Keys |-> 0]
  BY <1>6 DEF Pending
<1>8. Catalogue!Forget
  BY <1>1, <1>7 DEF Catalogue!Forget, Pending, Stored
<1> QED
  BY <1>8 DEF Catalogue!Next, Maps

LEMMA StepMaps ==
    ASSUME TypeOK, UniqueRows, UniqueRows', OwnArchives, [Next]_vars,
           \A w \in Workers : RewriteChapter(w) => OwnRow(w)
    PROVE  Maps
<1>1. ASSUME NEW key \in Keys, EnqueueMissing(key) PROVE Maps
  <2>1. [key |-> key, overwrite |-> FALSE] \in Tasks
    BY DEF Tasks
  <2> QED
    BY <1>1, <2>1, EnqueueMaps DEF EnqueueMissing
<1>2. ASSUME NEW row \in chapters, Redownload(row) PROVE Maps
  <2>1. [key |-> row.key, overwrite |-> TRUE] \in Tasks
    BY DEF Tasks, TypeOK, Rows
  <2> QED
    BY <1>2, <2>1, EnqueueMaps DEF Redownload
<1>3. ASSUME NEW w \in Workers, WorkerStep(w) PROVE Maps
  BY <1>3, WorkerMaps
<1>4. ASSUME NEW d \in Deleters, DeleterStep(d) PROVE Maps
  BY <1>4, DeleterMaps
<1>5. ASSUME (\E path \in Paths : FileLost(path)) \/ Start \/ UNCHANGED vars PROVE Maps
  <2>1. UNCHANGED <<queue, work, chapters>>
    BY <1>5 DEF FileLost, Start, vars, tables
  <2> QED
    BY <2>1, PendingSame, StoredSame DEF Taken, Settling, Maps
<1>6. CASE Shutdown \/ Crash
  BY <1>6, StopMaps DEF Shutdown, Crash
<1> QED
  BY <1>1, <1>2, <1>3, <1>4, <1>5, <1>6 DEF Next

LEMMA OwnArchivesHold == Spec => []OwnArchives
<1>1. Init => OwnArchives
  BY DEF Init, OwnArchives, OwnArchive, Idle
<1>2. TypeOK /\ OwnArchives /\ [Next]_vars => OwnArchives'
  BY OwnArchivesStep
<1> QED
  BY <1>1, <1>2, TypeCorrect, PTL DEF Spec

LEMMA OwnRowsHold == Spec /\ IdsNotReused => []OwnRows
<1>1. Init => OwnRows
  BY DEF Init, OwnRows, OwnRow, Downloads, Idle
<1>2. TypeOK /\ UniqueRows /\ OwnRows /\ [Next]_vars /\ [~IdReused]_vars => OwnRows'
  <2>1. TypeOK /\ UniqueRows /\ OwnRows /\ [Next]_vars /\ ~IdReused => OwnRows'
    BY OwnRowsStep
  <2>2. OwnRows /\ UNCHANGED vars => OwnRows'
    BY DEF OwnRows, OwnRow, Downloads, vars
  <2> QED
    BY <2>1, <2>2
<1> QED
  BY <1>1, <1>2, TypeCorrect, OneRowPerKey, PTL DEF Spec, IdsNotReused

\* Whatever the workers, the deletes and the faults, each step of the engine is a step of
\* ChapterStore or changes neither what waits nor what is stored, but for one: an overwrite
\* whose row was deleted and its id given to another chapter, which it then writes.
THEOREM OnlyStrayRewritesDiffer ==
    Spec => [][Maps \/ \E w \in Workers : RewriteChapter(w) /\ ~OwnRow(w)]_vars
<1> DEFINE Stray == \E w \in Workers : RewriteChapter(w) /\ ~OwnRow(w)
<1>1. TypeOK /\ UniqueRows /\ UniqueRows' /\ OwnArchives /\ [Next]_vars => [Maps \/ Stray]_vars
  <2>1. ~Stray => \A w \in Workers : RewriteChapter(w) => OwnRow(w)
    OBVIOUS
  <2> HIDE DEF Stray
  <2> QED
    BY <2>1, StepMaps
<1> HIDE DEF Stray
<1>2. Spec => [][Maps \/ Stray]_vars
  BY <1>1, TypeCorrect, OneRowPerKey, OwnArchivesHold, PTL DEF Spec
<1> QED
  BY <1>2 DEF Stray

\* The engine implements ChapterStore: every accepted task stores its own chapter at most
\* once, no step stores or changes a chapter that no task waits for, and a step removes one
\* chapter at most.  For a pool of any size and any deletes, as long as no row is inserted
\* under an id that a download under way has read.
THEOREM EngineImplementsCatalogue == Spec /\ IdsNotReused => ImplementsCatalogue
<1>1. Init => Catalogue!Init
  <2> SUFFICES ASSUME Init PROVE Catalogue!Init
    OBVIOUS
  <2>1. Pending = [k \in Keys |-> 0]
    BY PendingNone DEF Init, Settling, Idle
  <2>2. Stored = [k \in Keys |-> None]
    BY DEF Init, Stored, StoredKeys
  <2> QED
    BY <2>1, <2>2 DEF Catalogue!Init, Pending, Stored
<1>2. TypeOK /\ UniqueRows /\ UniqueRows' /\ OwnRows /\ OwnArchives /\ [Next]_vars
        => [Catalogue!Next]_Catalogue!vars
  <2>1. OwnRows => \A w \in Workers : RewriteChapter(w) => OwnRow(w)
    BY DEF OwnRows
  <2> QED
    BY <2>1, StepMaps DEF Maps, Catalogue!vars, Pending, Stored
<1> QED
  BY <1>1, <1>2, TypeCorrect, OneRowPerKey, OwnRowsHold, OwnArchivesHold, PTL
     DEF Spec, ImplementsCatalogue, Catalogue!Spec

\* So it does for a pool of any size where nothing is deleted, and for one worker whatever
\* is deleted meanwhile.
THEOREM EngineImplementsAlone ==
    ASSUME NoStaleRows
    PROVE  Spec => ImplementsCatalogue
BY EngineImplementsCatalogue, NoStaleRowsKeepIds

\* So it does for a pool of any size and any deletes, where no DELETE commits while its
\* chapter is downloaded again: the one way in which the code loses the row it read.
THEOREM EngineImplementsApart == Spec /\ DeletesApart => ImplementsCatalogue
BY EngineImplementsCatalogue, DeletesApartKeepIds

-----------------------------------------------------------------------------
(* Whose pages a row has, and whose row a DELETE removes.                   *)

LEMMA OwnPagesStep ==
    ASSUME TypeOK, UniqueRows, PagesMatchRows, OwnRows, OwnArchives, OwnPages, [Next]_vars
    PROVE  OwnPages'
<1>1. CASE UNCHANGED <<chapters, pages, robbed>>
  BY <1>1 DEF OwnPages
<1>2. ASSUME NEW w \in Workers, InsertChapter(w) PROVE OwnPages'
  <2> DEFINE key == work[w].task.key
             archive == work[w].archive
  <2>1. PICK id \in NextIds(chapters), page \in NextIds(pages) :
          /\ chapters' = chapters \cup {[id |-> id, key |-> key, sha |-> archive]}
          /\ pages' = pages \cup {[id |-> page, chapter |-> id, of |-> archive]}
    BY <1>2 DEF InsertChapter
  <2>2. archive.key = key
    BY <1>2 DEF InsertChapter, OwnArchives, OwnArchive
  <2>3. \A r \in chapters : r.id # id
    BY NextIdsFresh DEF TypeOK, Rows
  <2>4. \A p \in pages : p.chapter # id
    BY <2>3 DEF PagesMatchRows
  <2> HIDE DEF key, archive
  <2> QED
    BY <2>1, <2>2, <2>3, <2>4 DEF OwnPages
<1>3. ASSUME NEW w \in Workers, RewriteChapter(w) PROVE OwnPages'
  <2> DEFINE id == work[w].seen.row.id
             archive == work[w].archive
             key == work[w].task.key
  <2>1. PICK page : pages' = OtherPages(w) \cup {[id |-> page, chapter |-> id, of |-> archive]}
    BY <1>3 DEF RewriteChapter
  <2>2. archive.key = key
    BY <1>3 DEF RewriteChapter, OwnArchives, OwnArchive
  <2>3. \A r \in chapters : r.id = id => r.key = key
    BY <1>3 DEF RewriteChapter, OwnRows, OwnRow, Downloads
  <2>4. \A r \in chapters' : \E q \in chapters : r.id = q.id /\ r.key = q.key
    <3>1. \A q \in chapters : Rewritten(w, q).id = q.id /\ Rewritten(w, q).key = q.key
      BY DEF Rewritten, TypeOK, Rows
    <3> QED
      BY <1>3, <3>1 DEF RewriteChapter
  <2>5. OtherPages(w) \subseteq pages
    BY DEF OtherPages
  <2> HIDE DEF id, key, archive
  <2> QED
    BY <2>1, <2>2, <2>3, <2>4, <2>5 DEF OwnPages
<1>4. ASSUME NEW d \in Deleters, CommitDelete(d) PROVE OwnPages'
  BY <1>4 DEF CommitDelete, OwnPages
<1> QED
  BY <1>1, <1>2, <1>3, <1>4, RowSteps

\* The pages of a row were downloaded for its own key, for any pool and any deletes, as
\* long as no row is inserted under an id that a download under way has read.
THEOREM PagesAreOwn == Spec /\ IdsNotReused => []OwnPages
<1>1. Init => OwnPages
  BY DEF Init, OwnPages
<1>2. /\ TypeOK /\ UniqueRows /\ PagesMatchRows /\ OwnRows /\ OwnArchives
      /\ OwnPages /\ [Next]_vars
      => OwnPages'
  BY OwnPagesStep
<1> QED
  BY <1>1, <1>2, TypeCorrect, OneRowPerKey, PagesFollowRows, OwnRowsHold, OwnArchivesHold, PTL
     DEF Spec

\* No two DELETEs are under way for one chapter when either commits.
DeletesDiffer ==
    [][\A d, e \in Deleters :
          CommitDelete(d) /\ requests[e] # None /\ requests[e].row.id = requests[d].row.id
              => e = d]_vars

\* What a DELETE has loaded is still there.
AskedRow(d) ==
    requests[d] # None =>
        \E r \in chapters : r.id = requests[d].row.id /\ r.key = requests[d].row.key

AskedRows == \A d \in Deleters : AskedRow(d)

\* A request is as it was, done with, or begins.
LEMMA RequestMoves ==
    ASSUME TypeOK, [Next]_vars, NEW d \in Deleters
    PROVE  \/ requests'[d] = requests[d] /\ ~CommitDelete(d)
           \/ requests'[d] = None
           \/ \E row \in chapters : requests'[d] = Snapshot(row) /\ chapters' = chapters
<1>1. ASSUME NEW e \in Deleters, NEW row \in chapters, BeginDelete(e, row)
      PROVE  \/ requests'[d] = requests[d] /\ ~CommitDelete(d)
             \/ requests'[d] = Snapshot(row) /\ chapters' = chapters
  <2>1. requests' = [requests EXCEPT ![e] = Snapshot(row)] /\ chapters' = chapters
    BY <1>1 DEF BeginDelete, tables
  <2>2. requests[e] = None
    BY <1>1 DEF BeginDelete
  <2>3. CommitDelete(d) => requests[d] # None /\ requests'[d] = None
    BY DEF CommitDelete, TypeOK
  <2>4. CASE d # e
    BY <2>1, <2>3, <2>4 DEF TypeOK
  <2>5. CASE d = e
    BY <2>1, <2>5 DEF TypeOK
  <2> QED
    BY <2>4, <2>5
<1>2. CommitDelete(d) => requests[d] # None /\ requests'[d] = None
  BY DEF CommitDelete, TypeOK
<1>3. ASSUME NEW e \in Deleters, CommitDelete(e) \/ DeleteFails(e)
      PROVE  requests'[d] = requests[d] \/ requests'[d] = None
  BY <1>3, SMTT(40) DEF CommitDelete, DeleteFails, TypeOK
<1>4. ASSUME NEW w \in Workers, WorkerStep(w) PROVE UNCHANGED requests
  BY <1>4 DEF WorkerStep, Take, CreateJob, CreateJobFails, SkipExisting, LoadExisting,
       NoPages, SourceFails, Pack, FindVolume, InsertChapter, RewriteChapter,
       PersistRejected, PersistFails, SetDone, SetDoneFails, SetError, SetErrorFails
<1>5. Crash => requests'[d] = None
  BY DEF Crash
<1>6. ASSUME \/ \E key \in Keys : EnqueueMissing(key)
             \/ \E row \in chapters : Redownload(row)
             \/ \E path \in Paths : FileLost(path)
             \/ Shutdown \/ Start \/ UNCHANGED vars
      PROVE  UNCHANGED requests
  BY <1>6 DEF EnqueueMissing, Redownload, Enqueue, FileLost, Shutdown, Start, vars
<1> QED
  BY <1>1, <1>2, <1>3, <1>4, <1>5, <1>6 DEF Next, DeleterStep

LEMMA AskedRowsStep ==
    ASSUME TypeOK, AskedRows, [Next]_vars,
           \A d, e \in Deleters :
               CommitDelete(d) /\ requests[e] # None /\ requests[e].row.id = requests[d].row.id
                   => e = d
    PROVE  AskedRows'
<1> SUFFICES ASSUME NEW e \in Deleters, requests'[e] # None
             PROVE  \E r \in chapters' : /\ r.id = requests'[e].row.id
                                         /\ r.key = requests'[e].row.key
  BY DEF AskedRows, AskedRow
<1>1. ASSUME NEW row \in chapters, requests'[e] = Snapshot(row), chapters' = chapters
      PROVE  \E r \in chapters' : /\ r.id = requests'[e].row.id
                                  /\ r.key = requests'[e].row.key
  BY <1>1 DEF Snapshot
<1>2. CASE requests'[e] = requests[e] /\ ~CommitDelete(e)
  <2>1. PICK r \in chapters : r.id = requests[e].row.id /\ r.key = requests[e].row.key
    BY <1>2 DEF AskedRows, AskedRow
  <2>2. \A d \in Deleters : CommitDelete(d) => requests[d].row.id # r.id
    BY <1>2, <2>1
  <2> QED
    BY <1>2, <2>1, <2>2, RowStays
<1> QED
  BY <1>1, <1>2, RequestMoves

\* What a DELETE removes is the chapter it was asked for, although the id it deletes by was
\* read before its commit: for any pool of workers, as long as no two DELETEs of one chapter
\* are under way when one commits.
THEOREM DeletesRemoveAsked == Spec /\ DeletesDiffer => DeletesAskedChapter
<1> DEFINE Differ == \A d, e \in Deleters :
               CommitDelete(d) /\ requests[e] # None /\ requests[e].row.id = requests[d].row.id
                   => e = d
           Asked == \A d \in Deleters : CommitDelete(d) =>
                       \A r \in chapters \ chapters' : r.key = requests[d].row.key
<1>1. Init => AskedRows
  BY DEF Init, AskedRows, AskedRow
<1>2. TypeOK /\ AskedRows /\ [Next]_vars /\ [Differ]_vars => AskedRows'
  <2>1. TypeOK /\ AskedRows /\ [Next]_vars /\ Differ => AskedRows'
    BY AskedRowsStep
  <2>2. AskedRows /\ UNCHANGED vars => AskedRows'
    BY DEF AskedRows, AskedRow, vars
  <2> HIDE DEF Differ
  <2> QED
    BY <2>1, <2>2
<1>3. UniqueRows /\ AskedRows => Asked
  <2> SUFFICES ASSUME UniqueRows, AskedRows, NEW d \in Deleters, CommitDelete(d),
                      NEW r \in chapters \ chapters'
               PROVE  r.key = requests[d].row.key
    OBVIOUS
  <2>1. requests[d] # None /\ r.id = requests[d].row.id
    BY DEF CommitDelete
  <2> QED
    BY <2>1 DEF AskedRows, AskedRow, UniqueRows
<1> HIDE DEF Asked
<1>4. Spec /\ DeletesDiffer => [][Asked]_vars
  BY <1>1, <1>2, <1>3, TypeCorrect, OneRowPerKey, PTL DEF Spec, DeletesDiffer
<1> QED
  BY <1>4 DEF DeletesAskedChapter, Asked

\* So it does where DELETEs come one at a time.
THEOREM OneDeleteRemovesAsked ==
    ASSUME \A d, e \in Deleters : d = e
    PROVE  Spec => DeletesAskedChapter
<1>1. Spec => DeletesDiffer
  <2>1. [Next]_vars =>
          [\A d, e \in Deleters :
             CommitDelete(d) /\ requests[e] # None /\ requests[e].row.id = requests[d].row.id
                 => e = d]_vars
    OBVIOUS
  <2> QED
    BY <2>1, PTL DEF Spec, DeletesDiffer
<1> QED
  BY <1>1, DeletesRemoveAsked
=============================================================================
