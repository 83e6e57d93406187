---------------------------- MODULE DomainHealth ----------------------------
(***************************************************************************)
(* The health of the domains of one source: table domain_health, the       *)
(* sweeps that ping every domain and record the outcome, the admin request *)
(* that clears a source's failures, and the domain pick_domain resolves.   *)
(*                                                                         *)
(* DomainRegistry._update reads a row, awaits, and commits the columns it  *)
(* changed: the read and the commit are two steps, and what another sweep  *)
(* or the admin commits between them is not looked at again.               *)
(***************************************************************************)
EXTENDS Naturals, Sequences

CONSTANTS
    Domains,    \* the domains of the source
    Primary,    \* the first of them
    Order,      \* primary and alternates, as all_domains_for lists them
    Sweeps,     \* runs of check_all_domains: the cron's, an admin's "check now"
    Admins,     \* POST /api/settings/providers/{source}/reset requests
    MaxFails,   \* bound: failures beyond this many are not counted apart
    MaxFaults,  \* bound: database errors a behaviour may have
    None

FlipAt == 3

ASSUME DomainsAssumption ==
    /\ Order \in Seq(Domains)
    /\ Order # <<>>
    /\ Primary \in Domains
ASSUME CountsAssumption ==
    /\ MaxFails \in Nat /\ MaxFails >= FlipAt
    /\ MaxFaults \in Nat

Row == [healthy : BOOLEAN, fails : 0..MaxFails]
Seen == Row \cup {None}

ASSUME NoneAssumption == None \notin Row /\ None \notin [Domains -> Seen]

VARIABLES
    alive,   \* the domains that answer
    table,   \* domain_health: the row of each domain, or None
    streak,  \* history: failures committed for a domain since its last success
    raced,   \* history: domains a row of which was read while another sweep or
             \* request was between its own read and its commit
    sweep,   \* the stack of each sweep
    admin,   \* the rows each admin request has read
    faults   \* database errors so far

vars == <<alive, table, streak, raced, sweep, admin, faults>>

Outcomes == {"up", "down", "error"}
SweepType ==
    [pc : {"idle", "ping", "read", "commit"}, left : Seq(Domains),
     outcome : Outcomes, seen : Seen]

Resting == [pc |-> "idle", left |-> <<>>, outcome |-> "up", seen |-> None]

Fresh == [healthy |-> TRUE, fails |-> 0]

\* init_db has seeded a row for each domain, unless it failed or the domain was
\* added to sources.yaml since.
Init ==
    /\ alive \in SUBSET Domains
    /\ table \in [Domains -> {None, Fresh}]
    /\ streak = [d \in Domains |-> 0]
    /\ raced = {}
    /\ sweep = [s \in Sweeps |-> Resting]
    /\ admin = [a \in Admins |-> None]
    /\ faults = 0

-----------------------------------------------------------------------------
(* What a recording computes from the row it read.                         *)

OneMore(n) == IF n < MaxFails THEN n + 1 ELSE n

\* Mutant: fail_count survives a success.
SucceededKeepsCount(row) == [row EXCEPT !.healthy = TRUE]

Succeeded(row) == [row EXCEPT !.healthy = TRUE, !.fails = 0]

\* Mutant: the flag flips one failure late.
FailedLate(row) ==
    [fails |-> OneMore(row.fails),
     healthy |-> row.healthy /\ OneMore(row.fails) <= FlipAt]

Failed(row) ==
    [fails |-> OneMore(row.fails),
     healthy |-> row.healthy /\ OneMore(row.fails) < FlipAt]

Recorded(outcome, row) == IF outcome = "up" THEN Succeeded(row) ELSE Failed(row)

\* UPDATE writes the columns whose value differs from the one that was read.
Updated(row, seen, new) ==
    [healthy |-> IF new.healthy = seen.healthy THEN row.healthy ELSE new.healthy,
     fails |-> IF new.fails = seen.fails THEN row.fails ELSE new.fails]

NewStreak(outcome, n) == IF outcome = "up" THEN 0 ELSE OneMore(n)

-----------------------------------------------------------------------------
(* check_all_domains.                                                      *)

Domain(s) == Head(sweep[s].left)

\* The domains whose row somebody has read and not yet committed.
Held ==
    {Domain(s) : s \in {t \in Sweeps : sweep[t].pc = "commit"}}
    \cup {d \in Domains : \E a \in Admins : admin[a] # None}

Begin(s) ==
    /\ sweep[s].pc = "idle"
    /\ sweep' = [sweep EXCEPT ![s] = [Resting EXCEPT !.pc = "ping", !.left = Order]]
    /\ UNCHANGED <<alive, table, streak, raced, admin, faults>>

\* A domain that is down answers with an error status, or not at all.
Ping(s) ==
    /\ sweep[s].pc = "ping"
    /\ \E outcome \in Outcomes :
          /\ outcome = "up" <=> Domain(s) \in alive
          /\ sweep' = [sweep EXCEPT ![s].pc = "read", ![s].outcome = outcome]
    /\ UNCHANGED <<alive, table, streak, raced, admin, faults>>

Read(s) ==
    /\ sweep[s].pc = "read"
    /\ raced' = raced \cup (Held \cap {Domain(s)})
    /\ sweep' = [sweep EXCEPT ![s].pc = "commit", ![s].seen = table[Domain(s)]]
    /\ UNCHANGED <<alive, table, streak, admin, faults>>

\* Mutant: the loop does not end with the last domain.
AdvancedPastEnd(s) ==
    [Resting EXCEPT !.pc = "ping", !.left = Tail(sweep[s].left)]

\* The sweep with its first domain done.
Advanced(s) ==
    IF Len(sweep[s].left) = 1 THEN Resting
    ELSE [Resting EXCEPT !.pc = "ping", !.left = Tail(sweep[s].left)]

Commit(s, row) ==
    /\ table' = [table EXCEPT ![Domain(s)] = row]
    /\ streak' = [streak EXCEPT ![Domain(s)] = NewStreak(sweep[s].outcome, @)]
    /\ sweep' = [sweep EXCEPT ![s] = Advanced(s)]
    /\ UNCHANGED <<alive, raced, admin, faults>>

InsertRow(s) ==
    /\ sweep[s].pc = "commit"
    /\ sweep[s].seen = None
    /\ table[Domain(s)] = None
    /\ Commit(s, Recorded(sweep[s].outcome, Fresh))

UpdateRow(s) ==
    /\ sweep[s].pc = "commit"
    /\ sweep[s].seen # None
    /\ Commit(s, Updated(table[Domain(s)], sweep[s].seen,
                         Recorded(sweep[s].outcome, sweep[s].seen)))

\* An error of record_success or record_failure inside the try is taken for a
\* failure of the domain and recorded as such; an error of that recording is
\* outside the try and ends the sweep.
RecordingRaises(s) ==
    /\ sweep' = [sweep EXCEPT ![s] =
          IF @.outcome = "error" THEN Resting
          ELSE [@ EXCEPT !.pc = "read", !.outcome = "error", !.seen = None]]
    /\ UNCHANGED <<alive, table, streak, raced, admin>>

\* The primary key of domain_health: another sweep inserted the row.
RowTaken(s) ==
    /\ sweep[s].pc = "commit"
    /\ sweep[s].seen = None
    /\ table[Domain(s)] # None
    /\ RecordingRaises(s)
    /\ UNCHANGED faults

DatabaseError(s) ==
    /\ sweep[s].pc \in {"read", "commit"}
    /\ faults < MaxFaults
    /\ faults' = faults + 1
    /\ RecordingRaises(s)

-----------------------------------------------------------------------------
(* reset_provider_health.                                                  *)

LoadRows(a) ==
    /\ admin[a] = None
    /\ raced' = raced \cup Held
    /\ admin' = [admin EXCEPT ![a] = table]
    /\ UNCHANGED <<alive, table, streak, sweep, faults>>

Reset(a) ==
    /\ admin[a] # None
    /\ table' = [d \in Domains |->
          IF admin[a][d] = None THEN table[d]
          ELSE Updated(table[d], admin[a][d], Succeeded(admin[a][d]))]
    /\ streak' = [d \in Domains |-> IF admin[a][d] = None THEN streak[d] ELSE 0]
    /\ admin' = [admin EXCEPT ![a] = None]
    /\ UNCHANGED <<alive, raced, sweep, faults>>

ResetFails(a) ==
    /\ admin[a] # None
    /\ faults < MaxFaults
    /\ faults' = faults + 1
    /\ admin' = [admin EXCEPT ![a] = None]
    /\ UNCHANGED <<alive, table, streak, raced, sweep>>

-----------------------------------------------------------------------------
\* A domain goes up or down.
Turn(d) ==
    /\ alive' = IF d \in alive THEN alive \ {d} ELSE alive \cup {d}
    /\ UNCHANGED <<table, streak, raced, sweep, admin, faults>>

SweepStep(s) ==
    \/ Ping(s) \/ Read(s)
    \/ InsertRow(s) \/ UpdateRow(s) \/ RowTaken(s)
    \/ DatabaseError(s)

AdminStep(a) == LoadRows(a) \/ Reset(a) \/ ResetFails(a)

Next ==
    \/ \E s \in Sweeps : Begin(s) \/ SweepStep(s)
    \/ \E a \in Admins : AdminStep(a)
    \/ \E d \in Domains : Turn(d)

Spec == Init /\ [][Next]_vars

\* A ping has a timeout and a statement a busy timeout, so a sweep under way
\* goes on; a request under way is answered; the cron starts sweeps for ever.
Fairness ==
    /\ \A s \in Sweeps : WF_vars(SweepStep(s)) /\ WF_vars(Begin(s))
    /\ \A a \in Admins : WF_vars(Reset(a) \/ ResetFails(a))

LiveSpec == Spec /\ Fairness

-----------------------------------------------------------------------------
(* pick_domain.                                                            *)

Listed == {d \in Domains : table[d] # None /\ \E i \in DOMAIN Order : Order[i] = d}

\* The sort key up to last_fail: an unhealthy row, then more failures.
Better(d, e) ==
    \/ table[d].healthy /\ ~table[e].healthy
    \/ table[d].healthy = table[e].healthy /\ table[d].fails < table[e].fails

\* The domains the call may return; among equals last_fail, not modelled, decides.
Picks ==
    IF table[Primary] = None \/ table[Primary] = Fresh THEN {Primary}
    ELSE {d \in Listed : \A e \in Listed : ~Better(e, d)}

-----------------------------------------------------------------------------
(* Properties.                                                             *)

\* Every variable keeps its shape; a sweep has a domain to work on until it ends.
TypeOK ==
    /\ alive \subseteq Domains
    /\ table \in [Domains -> Seen]
    /\ streak \in [Domains -> 0..MaxFails]
    /\ raced \subseteq Domains
    /\ sweep \in [Sweeps -> SweepType]
    /\ \A s \in Sweeps : sweep[s].pc = "idle" <=> sweep[s].left = <<>>
    /\ admin \in [Admins -> [Domains -> Seen] \cup {None}]
    /\ faults \in 0..MaxFaults

\* "After 3 consecutive failures a domain flips healthy=False"
\* (docs/architecture.md), and not before: the flag of a row agrees with the
\* failures committed one after another, whichever sweep recorded them.
FlagAgrees(d) == table[d] # None => (table[d].healthy <=> streak[d] < FlipAt)

FlipsAfterThree == \A d \in Domains : FlagAgrees(d)

\* It does for every domain whose row was never read while another sweep or
\* reset was about to commit it, through conflicts, database errors, failures
\* recorded in place of a success, and resets.
FlipsUnlessRaced == \A d \in Domains \ raced : FlagAgrees(d)

\* "The cron may flip back later": once the primary answers for good, what is
\* picked becomes the primary and stays so, whatever was recorded before,
\* whatever the other domains do and after any finite number of database errors.
PrimaryReturns == <>[](Primary \in alive) => <>[](Picks = {Primary})
=============================================================================
