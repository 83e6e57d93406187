------------------------------- MODULE JobFeed -------------------------------
(***************************************************************************)
(* The live list of jobs: the download workers commit a job's status and   *)
(* publish it; JobEventBus puts the event on the queue of each subscriber; *)
(* job_event_stream forwards the queue to the browser; the store of the    *)
(* jobs view merges the frames into a list that load() replaces by what    *)
(* GET /api/jobs answered.                                                 *)
(*                                                                         *)
(* One browser.  A load reads the table at one moment and replaces the     *)
(* list at a later one; frames are applied in between.                     *)
(***************************************************************************)
EXTENDS Naturals, Sequences, FiniteSets

CONSTANTS
    Loads,       \* GET /api/jobs requests that may be under way together
    MaxFeedJobs, \* bound: jobs created
    MaxBacklog,  \* _MAX_SUBSCRIBER_BACKLOG
    MaxWire,     \* frames the connection holds before the server must wait
    LoadLimit,   \* the limit load() asks for
    MaxItems     \* MAX_ITEMS

ASSUME FeedAssumption ==
    /\ {MaxFeedJobs, MaxBacklog, MaxWire, LoadLimit, MaxItems} \subseteq Nat \ {0}
    /\ LoadLimit <= MaxItems

VARIABLES
    feedTable,   \* provider_jobs: the status of the job with each id
    unpublished, \* jobs whose worker has committed a status and not yet published it
    stream,      \* the store's reader: "off", "opening" (no answer yet), "open"
    backlog,     \* the subscriber's asyncio.Queue
    wire,        \* frames sent and not yet read
    items,       \* the store's list
    loads,       \* per load: "idle", "asked", or the answer on its way
    overtaken,   \* history: jobs that changed after the answer of a load was computed
    missed       \* history: jobs whose last event this browser will never apply, or
                 \* has applied and then undone by an older answer

feedVars == <<feedTable, unpublished, stream, backlog, wire, items, loads, overtaken, missed>>

FeedIds == 1..MaxFeedJobs
Statuses == {"running", "done", "error"}
Events == [id : FeedIds, status : Statuses]
Requests == {"idle", "asked", "answered"}
LoadType == [pc : Requests, rows : Seq(Events)]
Unasked == [pc |-> "idle", rows |-> <<>>]

FeedInit ==
    /\ feedTable = <<>>
    /\ unpublished = {}
    /\ stream = "off"
    /\ backlog = <<>>
    /\ wire = <<>>
    /\ items = <<>>
    /\ loads = [l \in Loads |-> Unasked]
    /\ overtaken = [l \in Loads |-> {}]
    /\ missed = {}

-----------------------------------------------------------------------------
(* Helpers.                                                                *)

IdsOf(events) == {events[i].id : i \in DOMAIN events}
UnderWay == IdsOf(backlog) \cup IdsOf(wire)
Prefix(s, n) == SubSeq(s, 1, IF Len(s) < n THEN Len(s) ELSE n)

\* list_jobs: the newest LoadLimit rows, newest first.
Newest ==
    LET n == Len(feedTable)
        k == IF n < LoadLimit THEN n ELSE LoadLimit
    IN [i \in 1..k |-> [id |-> n + 1 - i, status |-> feedTable[n + 1 - i]]]

\* Mutant: the list is not cut.
UpsertUncut(list, e) ==
    IF e.id \in IdsOf(list)
    THEN [i \in DOMAIN list |-> IF list[i].id = e.id THEN e ELSE list[i]]
    ELSE <<e>> \o list

\* _upsert: the entry is changed in place, or put in front of a list cut to MAX_ITEMS.
Upsert(list, e) ==
    IF e.id \in IdsOf(list)
    THEN [i \in DOMAIN list |-> IF list[i].id = e.id THEN e ELSE list[i]]
    ELSE Prefix(<<e>> \o list, MaxItems)

Changed(j) == overtaken' = [l \in Loads |-> IF loads[l].pc = "answered" THEN overtaken[l] \cup {j}
                                            ELSE overtaken[l]]

-----------------------------------------------------------------------------
(* The workers: _create_job and _set_job, each followed by _publish.       *)

FeedCreate ==
    /\ Len(feedTable) < MaxFeedJobs
    /\ feedTable' = Append(feedTable, "running")
    /\ unpublished' = unpublished \cup {Len(feedTable) + 1}
    /\ Changed(Len(feedTable) + 1)
    /\ UNCHANGED <<stream, backlog, wire, items, loads, missed>>

FeedEnd(j) ==
    /\ j \in DOMAIN feedTable \ unpublished
    /\ feedTable[j] = "running"
    /\ \E s \in {"done", "error"} : feedTable' = [feedTable EXCEPT ![j] = s]
    /\ unpublished' = unpublished \cup {j}
    /\ Changed(j)
    /\ UNCHANGED <<stream, backlog, wire, items, loads, missed>>

\* Mutant: a full backlog loses its oldest event without a trace, as a ring buffer would.
FeedPublishRing(j) ==
    /\ j \in unpublished
    /\ unpublished' = unpublished \ {j}
    /\ LET e == [id |-> j, status |-> feedTable[j]]
       IN IF stream = "open"
          THEN /\ backlog' = Append(IF Len(backlog) = MaxBacklog THEN Tail(backlog) ELSE backlog, e)
               /\ missed' = missed \ {j}
          ELSE missed' = missed \cup {j} /\ UNCHANGED backlog
    /\ UNCHANGED <<feedTable, stream, wire, items, loads, overtaken>>

\* publish: the event is dropped for a subscriber whose backlog is full.
FeedPublish(j) ==
    /\ j \in unpublished
    /\ unpublished' = unpublished \ {j}
    /\ IF stream = "open" /\ Len(backlog) < MaxBacklog
       THEN /\ backlog' = Append(backlog, [id |-> j, status |-> feedTable[j]])
            /\ missed' = missed \ {j}
       ELSE missed' = missed \cup {j} /\ UNCHANGED backlog
    /\ UNCHANGED <<feedTable, stream, wire, items, loads, overtaken>>

-----------------------------------------------------------------------------
(* The stream.                                                             *)

\* connect() returns at once while a reader is there.
Connect ==
    /\ stream = "off"
    /\ stream' = "opening"
    /\ UNCHANGED <<feedTable, unpublished, backlog, wire, items, loads, overtaken, missed>>

\* job_event_stream subscribes before its first frame, ": connected".
Subscribe ==
    /\ stream = "opening"
    /\ stream' = "open"
    /\ UNCHANGED <<feedTable, unpublished, backlog, wire, items, loads, overtaken, missed>>

\* The generator waits while the connection takes no more.
SendFrame ==
    /\ backlog # <<>> /\ Len(wire) < MaxWire
    /\ wire' = Append(wire, Head(backlog))
    /\ backlog' = Tail(backlog)
    /\ UNCHANGED <<feedTable, unpublished, stream, items, loads, overtaken, missed>>

ReadFrame ==
    /\ wire # <<>>
    /\ items' = Upsert(items, Head(wire))
    /\ wire' = Tail(wire)
    /\ UNCHANGED <<feedTable, unpublished, stream, backlog, loads, overtaken, missed>>

\* disconnect() when the view is left, a network drop, a failed fetch: the reader
\* ends, and the subscriber's queue with it.  Nothing reconnects by itself.
Disconnect ==
    /\ stream # "off"
    /\ stream' = "off"
    /\ missed' = missed \cup UnderWay
    /\ backlog' = <<>>
    /\ wire' = <<>>
    /\ UNCHANGED <<feedTable, unpublished, items, loads, overtaken>>

-----------------------------------------------------------------------------
(* load().                                                                 *)

Ask(l) ==
    /\ loads[l].pc = "idle"
    /\ loads' = [loads EXCEPT ![l].pc = "asked"]
    /\ UNCHANGED <<feedTable, unpublished, stream, backlog, wire, items, overtaken, missed>>

ListJobs(l) ==
    /\ loads[l].pc = "asked"
    /\ loads' = [loads EXCEPT ![l] = [pc |-> "answered", rows |-> Newest]]
    /\ overtaken' = [overtaken EXCEPT ![l] = {}]
    /\ UNCHANGED <<feedTable, unpublished, stream, backlog, wire, items, missed>>

\* The jobs an answer brings up to date for good: unchanged since it was computed and
\* with no older event queued, which would undo it; or with its newest event queued.
Settled(l) ==
    ((IdsOf(loads[l].rows) \ overtaken[l]) \ UnderWay) \cup (UnderWay \ missed)

\* Mutant: load() keeps the entries it already has.
ShowKeepsItems(l) ==
    /\ loads[l].pc = "answered"
    /\ items' = Prefix(items \o SelectSeq(loads[l].rows, LAMBDA e : e.id \notin IdsOf(items)), MaxItems)
    /\ loads' = [loads EXCEPT ![l] = Unasked]
    /\ missed' = (missed \cup overtaken[l]) \ Settled(l)
    /\ overtaken' = [overtaken EXCEPT ![l] = {}]
    /\ UNCHANGED <<feedTable, unpublished, stream, backlog, wire>>

\* items.value = data, whatever frames were applied since the server answered.
Show(l) ==
    /\ loads[l].pc = "answered"
    /\ items' = loads[l].rows
    /\ loads' = [loads EXCEPT ![l] = Unasked]
    /\ missed' = (missed \cup overtaken[l]) \ Settled(l)
    /\ overtaken' = [overtaken EXCEPT ![l] = {}]
    /\ UNCHANGED <<feedTable, unpublished, stream, backlog, wire>>

\* An error leaves the list as it was.
LoadFails(l) ==
    /\ loads[l].pc = "asked"
    /\ loads' = [loads EXCEPT ![l] = Unasked]
    /\ UNCHANGED <<feedTable, unpublished, stream, backlog, wire, items, overtaken, missed>>

-----------------------------------------------------------------------------
FeedNext ==
    \/ FeedCreate
    \/ \E j \in FeedIds : FeedEnd(j) \/ FeedPublish(j)
    \/ Connect \/ Subscribe \/ SendFrame \/ ReadFrame \/ Disconnect
    \/ \E l \in Loads : Ask(l) \/ ListJobs(l) \/ Show(l) \/ LoadFails(l)

FeedSpec == FeedInit /\ [][FeedNext]_feedVars

\* A worker goes on after its commit, the connection delivers while it lasts, an
\* answer computed reaches the browser.
FeedFairness ==
    /\ WF_feedVars(SendFrame \/ ReadFrame)
    /\ \A j \in FeedIds : WF_feedVars(FeedPublish(j))
    /\ \A l \in Loads : WF_feedVars(Show(l))

-----------------------------------------------------------------------------
(* Properties.                                                             *)

\* Every variable keeps its shape, and the list and the queues their bounds.
FeedTypeOK ==
    /\ feedTable \in Seq(Statuses) /\ Len(feedTable) <= MaxFeedJobs
    /\ unpublished \subseteq DOMAIN feedTable
    /\ stream \in {"off", "opening", "open"}
    /\ backlog \in Seq(Events) /\ Len(backlog) <= MaxBacklog
    /\ wire \in Seq(Events) /\ Len(wire) <= MaxWire
    /\ stream # "open" => backlog = <<>> /\ wire = <<>>
    /\ items \in Seq(Events) /\ Len(items) <= MaxItems
    /\ Cardinality(IdsOf(items)) = Len(items)
    /\ loads \in [Loads -> LoadType]
    /\ overtaken \in [Loads -> SUBSET FeedIds]
    /\ missed \subseteq FeedIds

\* A job the view shows with another status than its row has one of two excuses:
\* its event is still to come, or it was lost in a way the code accepts (nobody
\* subscribed, a full backlog, a dropped connection) or undone by the answer of a
\* load computed before the job changed.  No order of commits, frames and answers
\* adds a third.
ShownUnlessMissed ==
    \A i \in DOMAIN items :
        \/ items[i].status = feedTable[items[i].id]
        \/ items[i].id \in UnderWay \cup unpublished \cup missed

\* What the list should be after a load: the newest rows as they are, and nothing
\* else with a wrong status.
Agrees ==
    /\ IdsOf(Newest) \subseteq IdsOf(items)
    /\ \A i \in DOMAIN items : items[i].status = feedTable[items[i].id]

\* Refreshing heals: in whatever order answers and frames arrive, and whatever was
\* dropped, a view that keeps being loaded ends up with what the table says.
RefreshHeals == []<><<\E l \in Loads : Show(l)>>_feedVars => <>[]Agrees
=============================================================================
