----------------------------- MODULE RunHistory -----------------------------
(***************************************************************************)
(* GET /agent-runs: the list of agent runs, newest first, page by page.    *)
(*                                                                         *)
(* The list is ordered by started_at and, within the same instant, by      *)
(* identifier; the cursor of the next page names the last run of the page  *)
(* before.  Every page is a query of its own, and between two of them runs *)
(* are started, stored and finished, by the generation worker and by       *)
(* execute_agent_run.  started_at is taken before the row is committed, so *)
(* a run may appear behind the cursor of a reader who is past its time.    *)
(*                                                                         *)
(* Left out: what a run consists of (AgentRuns, Outreach) and the filter   *)
(* by lead, which never changes for a run.                                 *)
(***************************************************************************)
EXTENDS Integers, FiniteSets, Sequences

CONSTANTS
    ListedRuns,       \* identifiers of runs, as the database orders them
    Outcomes,   \* terminal statuses of a run
    Limit,      \* runs on a page
    MaxTime,    \* bound on the clock
    Unset

ASSUME RunsAreOrdered == ListedRuns \subseteq Int /\ Unset \notin ListedRuns
ASSUME LimitPositive == Limit \in Nat \ {0}
ASSUME TimeIsBounded == MaxTime \in Nat
ASSUME RunningIsNoOutcome == Unset \notin Outcomes \cup {"running"} /\ "running" \notin Outcomes

VARIABLES
    now,        \* the clock started_at is read from
    begun,      \* runs whose started_at has been read
    started,    \* started_at
    stored,     \* status of each committed run, or Unset
    reading,    \* "no", "paging" or "done"
    filter,     \* the status asked for, or Unset for every run
    cursor,     \* the last run of the previous page
    listed,     \* the pages read
    since       \* the matching runs when the reader began

runs == <<now, begun, started, stored>>
walk == <<reading, filter, cursor, listed, since>>
historyVars == <<runs, walk>>

HistoryInit ==
    /\ now = 0 /\ begun = {}
    /\ started = [r \in ListedRuns |-> 0]
    /\ stored = [r \in ListedRuns |-> Unset]
    /\ reading = "no" /\ filter = Unset /\ cursor = Unset /\ listed = <<>> /\ since = {}

Tick == now < MaxTime /\ now' = now + 1 /\ UNCHANGED <<begun, started, stored, walk>>

(***************************************************************************)
(* A run.                                                                  *)
(***************************************************************************)
Begins(r) ==
    /\ r \notin begun
    /\ begun' = begun \cup {r}
    /\ started' = [started EXCEPT ![r] = now]
    /\ UNCHANGED <<now, stored, walk>>

Appears(r) ==
    /\ r \in begun /\ stored[r] = Unset
    /\ stored' = [stored EXCEPT ![r] = "running"]
    /\ UNCHANGED <<now, begun, started, walk>>

EndsAs(r, outcome) ==
    /\ stored[r] = "running"
    /\ stored' = [stored EXCEPT ![r] = outcome]
    /\ UNCHANGED <<now, begun, started, walk>>

(***************************************************************************)
(* The reader.  ORDER BY started_at DESC, id DESC LIMIT limit + 1.         *)
(***************************************************************************)
Newer(q, r) == started[q] > started[r] \/ (started[q] = started[r] /\ q > r)

Shows(st, r) == stored[r] # Unset /\ (st # Unset => stored[r] = st)

\* Mutant of Follows: the cursor compares the time alone.
FollowsByTime(r) == cursor # Unset => started[r] < started[cursor]
\* Mutant of Follows: the run the cursor names is not left out.
FollowsOrIs(r) == cursor # Unset => r = cursor \/ Newer(cursor, r)
Follows(r) == cursor # Unset => Newer(cursor, r)

Remaining == {r \in ListedRuns : Shows(filter, r) /\ Follows(r)}

HasMore == Cardinality(Remaining) > Limit

IsPage(items) ==
    /\ \A r \in items : \A q \in Remaining \ items : Newer(r, q)
    /\ IF HasMore THEN Cardinality(items) = Limit ELSE items = Remaining

IsLast(r, items) == r \in items /\ \A q \in items \ {r} : Newer(q, r)

BeginReading(st) ==
    /\ reading # "paging" /\ reading' = "paging"
    /\ filter' = st
    /\ cursor' = Unset
    /\ listed' = <<>>
    /\ since' = {r \in ListedRuns : Shows(st, r)}
    /\ UNCHANGED runs

NextPage ==
    /\ reading = "paging"
    /\ \E items \in SUBSET Remaining :
         /\ IsPage(items)
         /\ listed' = Append(listed, items)
         /\ \/ /\ HasMore
               /\ \E r \in items : IsLast(r, items) /\ cursor' = r
               /\ UNCHANGED reading
            \/ ~HasMore /\ reading' = "done" /\ UNCHANGED cursor
    /\ UNCHANGED <<runs, filter, since>>

HistoryNext ==
    \/ Tick
    \/ \E r \in ListedRuns : Begins(r) \/ Appears(r) \/ \E outcome \in Outcomes : EndsAs(r, outcome)
    \/ \E st \in Outcomes \cup {"running", Unset} : BeginReading(st)
    \/ NextPage

HistorySpec == HistoryInit /\ [][HistoryNext]_historyVars

(***************************************************************************)
(* Properties.                                                             *)
(***************************************************************************)
HistoryTypeOK ==
    /\ now \in 0..MaxTime
    /\ begun \subseteq ListedRuns
    /\ started \in [ListedRuns -> 0..MaxTime]
    /\ stored \in [ListedRuns -> Outcomes \cup {"running", Unset}]
    /\ filter \in Outcomes \cup {"running", Unset}
    /\ reading \in {"no", "paging", "done"}
    /\ cursor \in ListedRuns \cup {Unset}
    /\ listed \in Seq(SUBSET ListedRuns)
    /\ since \subseteq ListedRuns

(* Pages are in order and disjoint: whatever is started or ends while they *)
(* are read, no run is listed twice, and none after an older one.          *)
NewestFirst ==
    \A i, j \in DOMAIN listed : i < j =>
        \A q \in listed[i], r \in listed[j] : Newer(q, r)

(* A reader that has come to the end has seen every run that was there     *)
(* when it began and still has the status it asked for.                    *)
NothingMissed ==
    reading = "done" =>
        \A r \in since : Shows(filter, r) => \E i \in DOMAIN listed : r \in listed[i]

(* Reading the list page by page gives every run once and in order.        *)
PagesAreComplete == HistoryTypeOK /\ NewestFirst /\ NothingMissed
=============================================================================
