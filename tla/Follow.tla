------------------------------- MODULE Follow -------------------------------
(***************************************************************************)
(* Following: the cron's sweep over the series that are due, an admin's    *)
(* check of one series, a backfill, and the download queue they feed.      *)
(*                                                                         *)
(* A sweep checks its series one after another in one session: the         *)
(* FollowLog and last_checked_at of each wait for the commit at its end,   *)
(* while the tasks go to the queue at once.  The engine behind the queue   *)
(* is ChapterStore: a task stores its chapter or comes to nothing.         *)
(***************************************************************************)
EXTENDS LanguagePicker

CONSTANTS
    Series,      \* the followed series
    SeriesOf,    \* the series an upload belongs to
    Crons,       \* _run_follow_check, one at a time (max_instances=1)
    Requests,    \* POST /api/follow/{id}/check, POST /api/series/{id}/backfill
    Priorities,  \* language_priority a backfill may ask for
    Counts,      \* count a backfill may ask for, 0 for none
    Deletable,   \* series the user may delete
    QueueSize,   \* download_queue_size
    MaxFaults,   \* bound: failures a behaviour may have
    None

ASSUME FollowAssumption ==
    /\ SeriesOf \in [Uploads -> Series]
    /\ Priorities \subseteq Seq(ToSet(Alphabet))
    /\ Counts \subseteq Nat
    /\ Deletable \subseteq Series
    /\ QueueSize \in Nat \ {0}
    /\ MaxFaults \in Nat
    /\ None \notin Series \cup Nat

Callers == Crons \cup Requests

VARIABLES
    listing,   \* what the source lists for each series
    deleted,   \* the series with series.deleted set
    due,       \* those whose check interval has passed
    stored,    \* the uploads that have a chapter row
    queue,     \* DownloadQueue._queue
    call,      \* the stack of each sweep and request
    unlogged,  \* history: tasks that checks enqueued and no FollowLog counts yet
    faults     \* failures so far

vars == <<listing, deleted, due, stored, queue, call, unlogged, faults>>
world == <<listing, deleted, due, stored>>

CallType ==
    [pc : {"idle", "load", "list", "diff", "commit"},
     kind : {"sweep", "check", "backfill"},
     first : SUBSET Series,               \* due_ids
     left : SUBSET Series,                \* those not loaded yet
     series : Series \cup {None},
     found : Seq(Uploads),                \* selected
     priority : Seq(ToSet(Alphabet)),
     count : Nat,
     logs : [Series -> Nat \cup {None}],  \* new_chapters_count, in the session
     errors : SUBSET Series]

NoLogs == [s \in Series |-> None]

Resting ==
    [pc |-> "idle", kind |-> "check", first |-> {}, left |-> {}, series |-> None,
     found |-> <<>>, priority |-> DEFAULT_PRIORITY, count |-> 0,
     logs |-> NoLogs, errors |-> {}]

Init ==
    /\ listing = [s \in Series |-> <<>>]
    /\ deleted = {}
    /\ due = Series
    /\ stored = {}
    /\ queue = <<>>
    /\ call = [c \in Callers |-> Resting]
    /\ unlogged = [s \in Series |-> 0]
    /\ faults = 0

-----------------------------------------------------------------------------
(* The start of a sweep, a check and a backfill.  A sweep whose SELECT of  *)
(* the series that are due fails has done nothing yet: it is none.         *)

Begin(c, kind, first, priority, count) ==
    /\ call[c].pc = "idle"
    /\ call' = [call EXCEPT ![c] = [Resting EXCEPT
          !.pc = IF first = {} THEN "commit" ELSE "load",
          !.kind = kind, !.first = first, !.left = first,
          !.priority = priority, !.count = count]]
    /\ UNCHANGED <<world, queue, unlogged, faults>>

DueSeries == due \ deleted

Sweep(c) == Begin(c, "sweep", DueSeries, DEFAULT_PRIORITY, 0)
Check(r, s) == Begin(r, "check", {s}, DEFAULT_PRIORITY, 0)
Backfill(r, s, priority, count) == Begin(r, "backfill", {s}, priority, count)

\* The call once a series is done: a sweep goes on to the next, a check commits,
\* and a backfill has nothing to commit.
After(c, left) ==
    IF call[c].kind = "backfill" THEN Resting
    ELSE [call[c] EXCEPT !.pc = IF left = {} THEN "commit" ELSE "load",
                         !.left = left, !.series = None, !.found = <<>>]

-----------------------------------------------------------------------------
(* One series.                                                             *)

Load(c, s) ==
    /\ call[c].pc = "load"
    /\ s \in call[c].left
    /\ s \notin deleted
    /\ call' = [call EXCEPT ![c].pc = "list", ![c].series = s,
                            ![c].left = @ \ {s}]
    /\ UNCHANGED <<world, queue, unlogged, faults>>

\* Mutant: the exception ends the sweep, which commits what it has.
NotLoadedEnds(c, s) ==
    IF call[c].kind # "sweep" THEN Resting
    ELSE [After(c, {}) EXCEPT !.errors = call[c].errors \cup {s}]

\* The call when _load_series raises, before the try of check_series: a request ends, a
\* sweep counts an error and goes on.
NotLoaded(c, s) ==
    IF call[c].kind # "sweep" THEN Resting
    ELSE [After(c, call[c].left \ {s}) EXCEPT !.errors = call[c].errors \cup {s}]

\* Deleted since the request, or since the sweep listed what is due.
SeriesNotFound(c, s) ==
    /\ call[c].pc = "load"
    /\ s \in call[c].left
    /\ s \in deleted
    /\ call' = [call EXCEPT ![c] = NotLoaded(c, s)]
    /\ UNCHANGED <<world, queue, unlogged, faults>>

\* A database error: the series may be there all the same.
LoadFails(c, s) ==
    /\ call[c].pc = "load"
    /\ s \in call[c].left
    /\ faults < MaxFaults
    /\ faults' = faults + 1
    /\ call' = [call EXCEPT ![c] = NotLoaded(c, s)]
    /\ UNCHANGED <<world, queue, unlogged>>

List(c) ==
    /\ call[c].pc = "list"
    /\ call' = [call EXCEPT
          ![c].pc = "diff",
          ![c].found = list_selected(listing[call[c].series], call[c].priority)]
    /\ UNCHANGED <<world, queue, unlogged, faults>>

\* The call with a check's log added to its session.
Logged(c, n) ==
    IF call[c].kind = "backfill" THEN Resting
    ELSE [After(c, call[c].left) EXCEPT !.logs[call[c].series] = n]

\* No usable provider, a source that fails, a database error: a check logs it.
ListFails(c) ==
    /\ call[c].pc \in {"list", "diff"}
    /\ faults < MaxFaults
    /\ faults' = faults + 1
    /\ call' = [call EXCEPT ![c] = Logged(c, 0)]
    /\ UNCHANGED <<world, queue, unlogged>>

\* The highest numbers first, a stable sort.
Higher(seq) ==
    [i \in DOMAIN seq |-> {j \in DOMAIN seq :
        \/ NumberOf[seq[j]] > NumberOf[seq[i]]
        \/ NumberOf[seq[j]] = NumberOf[seq[i]] /\ j < i}]

\* Mutant: the count keeps the first of the list.
CutUnsorted(c, seq) == IF call[c].count = 0 THEN seq ELSE Upto(seq, call[c].count)

\* A backfill may keep the missing chapters of the highest numbers only.
Cut(c, seq) ==
    IF call[c].count = 0 THEN seq
    ELSE Upto(Through(seq, InOrder(Higher(seq))), call[c].count)

\* Mutant: the first chapter that is stored ends the search for new ones.
MissingUntilKnown(c) ==
    LET found == call[c].found
    IN  Cut(c, Picked(found, {n \in DOMAIN found : \A m \in 1..n : found[m] \notin stored}))

Missing(c) ==
    LET found == call[c].found
    IN  Cut(c, Picked(found, {n \in DOMAIN found : found[n] \notin stored}))

Room == QueueSize - Len(queue)

\* Mutant: the queue is not bounded.
AcceptedAll(c) == Missing(c)

\* The missing chapters go to the queue until it is full; DownloadQueueFull ends
\* a check with what was enqueued, and fails a backfill.
Accepted(c) == Upto(Missing(c), Room)

\* Mutant: the log counts the missing chapters, not those enqueued.
EnqueueMissingCountsAll(c) ==
    /\ call[c].pc = "diff"
    /\ queue' = queue \o Accepted(c)
    /\ call' = [call EXCEPT ![c] = Logged(c, Len(Missing(c)))]
    /\ unlogged' = IF call[c].kind = "backfill" THEN unlogged
                   ELSE [unlogged EXCEPT ![call[c].series] = @ + Len(Accepted(c))]
    /\ UNCHANGED <<world, faults>>

EnqueueMissing(c) ==
    /\ call[c].pc = "diff"
    /\ queue' = queue \o Accepted(c)
    /\ call' = [call EXCEPT ![c] = Logged(c, Len(Accepted(c)))]
    /\ unlogged' = IF call[c].kind = "backfill" THEN unlogged
                   ELSE [unlogged EXCEPT ![call[c].series] = @ + Len(Accepted(c))]
    /\ UNCHANGED <<world, faults>>
-----------------------------------------------------------------------------
(* The end of a sweep or a check: one transaction for all its series.      *)

Counted(c, s) == IF call[c].logs[s] = None THEN 0 ELSE call[c].logs[s]

Commit(c) ==
    /\ call[c].pc = "commit"
    /\ due' = {s \in due : call[c].logs[s] = None}
    /\ unlogged' = [s \in Series |-> unlogged[s] - Counted(c, s)]
    /\ call' = [call EXCEPT ![c] = Resting]
    /\ UNCHANGED <<listing, deleted, stored, queue, faults>>

\* The logs and last_checked_at of every series are rolled back; the tasks are
\* in the queue all the same.
CommitFails(c) ==
    /\ call[c].pc = "commit"
    /\ faults < MaxFaults
    /\ faults' = faults + 1
    /\ unlogged' = [s \in Series |-> unlogged[s] - Counted(c, s)]
    /\ call' = [call EXCEPT ![c] = Resting]
    /\ UNCHANGED <<world, queue>>

-----------------------------------------------------------------------------
(* The engine, the process, the user, the source and the clock.            *)

Download ==
    /\ queue # <<>>
    /\ queue' = Tail(queue)
    /\ stored' = stored \cup {Head(queue)}
    /\ UNCHANGED <<listing, deleted, due, call, unlogged, faults>>

DownloadFails ==
    /\ queue # <<>>
    /\ faults < MaxFaults
    /\ faults' = faults + 1
    /\ queue' = Tail(queue)
    /\ UNCHANGED <<world, call, unlogged>>

Restart ==
    /\ faults < MaxFaults
    /\ faults' = faults + 1
    /\ queue' = <<>>
    /\ call' = [c \in Callers |-> Resting]
    /\ unlogged' = [s \in Series |-> 0]
    /\ UNCHANGED world

Delete(s) ==
    /\ s \notin deleted
    /\ deleted' = deleted \cup {s}
    /\ UNCHANGED <<listing, due, stored, queue, call, unlogged, faults>>

\* A source lists the oldest chapters first or last.
Publish(u) ==
    /\ \A s \in Series : u \notin ToSet(listing[s])
    /\ \E more \in {Append(listing[SeriesOf[u]], u), <<u>> \o listing[SeriesOf[u]]} :
          listing' = [listing EXCEPT ![SeriesOf[u]] = more]
    /\ UNCHANGED <<deleted, due, stored, queue, call, unlogged, faults>>

ComeDue(s) ==
    /\ s \notin due
    /\ due' = due \cup {s}
    /\ UNCHANGED <<listing, deleted, stored, queue, call, unlogged, faults>>

-----------------------------------------------------------------------------
CallStep(c) ==
    \/ \E s \in Series : Load(c, s) \/ SeriesNotFound(c, s) \/ LoadFails(c, s)
    \/ List(c) \/ ListFails(c) \/ EnqueueMissing(c)
    \/ Commit(c) \/ CommitFails(c)

Next ==
    \/ \E c \in Crons : Sweep(c)
    \/ \E r \in Requests, s \in Series :
          \/ Check(r, s)
          \/ \E priority \in Priorities, count \in Counts : Backfill(r, s, priority, count)
    \/ \E c \in Callers : CallStep(c)
    \/ Download \/ DownloadFails \/ Restart
    \/ \E s \in Deletable : Delete(s)
    \/ \E u \in Uploads : Publish(u)
    \/ \E s \in Series : ComeDue(s)

Spec == Init /\ [][Next]_vars

\* WF_vars(CallStep(c)): a step is enabled as long as the call is under way.
GoesOn(c) == []<>(call[c].pc = "idle") \/ []<><<CallStep(c)>>_vars

\* The interval trigger fires for ever, a call under way goes on, a worker takes
\* the next task (Downloader's WorkersReturn), and time passes.
Fairness ==
    /\ \A c \in Crons : WF_vars(Sweep(c))
    /\ \A c \in Callers : GoesOn(c)
    /\ WF_vars(Download \/ DownloadFails)
    /\ \A s \in Series : WF_vars(ComeDue(s))

LiveSpec == Spec /\ Fairness

-----------------------------------------------------------------------------
(* Properties.                                                             *)

\* Every variable keeps its shape, the queue its bound.
TypeOK ==
    /\ listing \in [Series -> Seq(Uploads)]
    /\ deleted \subseteq Series
    /\ due \subseteq Series
    /\ stored \subseteq Uploads
    /\ queue \in Seq(Uploads) /\ Len(queue) <= QueueSize
    /\ call \in [Callers -> CallType]
    /\ unlogged \in [Series -> Nat]
    /\ faults \in 0..MaxFaults

\* "Keep exactly ONE entry per number" (list_selected), Italian first: what a call
\* takes from the source has one upload of each number the library allows, in
\* the best language listed, however the source orders its list.
SelectsBest ==
    [][\A c \in Callers : List(c) =>
          LET listed == listing[call[c].series]
              found == call'[c].found
          IN  /\ \A i, j \in DOMAIN found : NumberOf[found[i]] = NumberOf[found[j]] => i = j
              /\ ToSet(found) \subseteq Wanted(listed, call[c].priority)
              /\ {NumberOf[u] : u \in ToSet(found)}
                 = {NumberOf[u] : u \in {v \in ToSet(listed) : Allowed(v)}}]_vars

\* "A single bad series must not abort the whole scheduled run" (check_due_series): when a
\* sweep commits, each series that was due has its log or is one of the errors, and not
\* both; an error was deleted meanwhile or met a database error, of which each costs one
\* series at most.
SweepsCheckAll ==
    \A c \in Callers : call[c].pc = "commit" =>
        /\ call[c].first = {s \in Series : call[c].logs[s] # None} \cup call[c].errors
        /\ \A s \in call[c].errors : call[c].logs[s] = None
        /\ Cardinality(call[c].errors \ deleted) <= faults

\* new_chapters_count is the number of tasks that were accepted, also when the
\* queue fills up midway, a failure follows or checks of one series overlap.
LoggedTasks(s) == UNION {{c} \X (1..Counted(c, s)) : c \in Callers}

LogsCountTasks == \A s \in Series : unlogged[s] = Cardinality(LoggedTasks(s))

\* "Enqueue (latest `count`) missing chapters" (docs/api.md): what a backfill with a count
\* leaves out, be it for the count or for a queue that fills up midway, is stored or has no
\* higher number than anything it enqueues, whatever was stored since it read the list.
BackfillsLatest ==
    [][\A c \in Callers : EnqueueMissing(c) /\ call[c].count > 0 =>
          LET enqueued == {queue'[n] : n \in DOMAIN queue' \ DOMAIN queue}
          IN  \A u \in enqueued, v \in ToSet(call[c].found) \ (stored \cup enqueued) :
                 NumberOf[u] >= NumberOf[v]]_vars

\* An upload that stays the best of its number in a followed series is stored in
\* the end, though checks, commits and downloads may fail, the process restart,
\* the queue be full, and other series be deleted under the sweep.
Expected(u) ==
    LET s == SeriesOf[u]
    IN  s \notin deleted /\ u \in Wanted(listing[s], DEFAULT_PRIORITY)

FollowCatchesUp == \A u \in Uploads : <>[]Expected(u) => <>(u \in stored)

\* "For a chapter available in both it and en, it wins (one CBZ per number)"
\* (docs/architecture.md).
OneCBZPerNumber ==
    \A u, v \in stored :
        SeriesOf[u] = SeriesOf[v] /\ NumberOf[u] = NumberOf[v] => u = v
=============================================================================
