------------------------------ MODULE RowLocks ------------------------------
(***************************************************************************)
(* The statements of the transactions that the other modules treat as      *)
(* atomic: which rows they lock, in which mode and in which order.         *)
(*                                                                         *)
(* PostgreSQL keeps a row lock to the end of its transaction.  Three modes *)
(* occur here: "U" (SELECT ... FOR UPDATE), "NK" (an UPDATE that leaves    *)
(* the keys alone) and "KS" (the FOR KEY SHARE of a foreign key check).    *)
(* When transactions wait for each other in a cycle the database aborts    *)
(* one of them, which is rolled back; nothing in the code prevents or      *)
(* retries that at the level of the statement.                             *)
(*                                                                         *)
(* A lead stands for its rows: the lead, its newest generation job, its    *)
(* current email and that email's delivery job, of which there is at most  *)
(* one here.  The advisory lock of a feed's scope is held to the end of    *)
(* the transaction too, and counts as one more row.  Left out:             *)
(* transactions that lock a single row and wait for nothing else           *)
(* (heartbeats, recoveries, failures), rows that one transaction only can  *)
(* lock (agent runs, audit events, the mailbox row), leads that a feed     *)
(* inserts, for which only other feeds wait, and the order in which the    *)
(* database serves the waiters of one row.                                 *)
(***************************************************************************)
EXTENDS Integers, Sequences, FiniteSets, SequencesExt

CONSTANTS
    Lead,         \* leads that exist
    Ingestions,   \* the daily sync, manual syncs and uploads under way
    ScopeOf,      \* the scope of the feed each of them brings
    Background,   \* the other background processes that run
    Requests,     \* API requests being served at the same time
    MaxMessages   \* messages in a page of Graph results

(* One process at a time holds the mailbox.  One generation and one        *)
(* delivery worker; feeds of any scopes, which may name the same leads.    *)
Roles == {"generation", "delivery", "replies"}
ProcessesAndBounds ==
    /\ Background \subseteq Roles
    /\ Requests \cap Roles = {} /\ Ingestions \cap (Roles \cup Requests) = {}
    /\ DOMAIN ScopeOf = Ingestions
    /\ IsFiniteSet(Lead) /\ MaxMessages \in Nat
Procs == Background \cup Ingestions \cup Requests

Row(table, key) == [table |-> table, key |-> key]
Rows == {Row(t, l) : t \in {"lead", "gen", "email", "del"}, l \in Lead}
            \cup {Row("scope", ScopeOf[f]) : f \in Ingestions}
Modes == {"U", "NK", "KS"}
Lock(table, key, mode) == [row |-> Row(table, key), mode |-> mode]

VARIABLES
    gen,    \* committed status of the lead's newest generation job
    del,    \* committed status of the lead's newest delivery job
    task,   \* what each process is doing, and for which leads
    todo,   \* the locks its transaction still has to take, in order
    held    \* the locks it holds

lockVars == <<gen, del, task, todo, held>>

JobStatus == {"none", "queued", "running", "done"}
NoTask == [kind |-> "idle", leads |-> {}]

LocksInit ==
    /\ gen \in [Lead -> {"queued", "running", "done"}]
    /\ del \in [Lead -> {"none", "queued", "running", "done"}]
    /\ \A l \in Lead : gen[l] = "done" \/ del[l] \in {"none", "done"}
    /\ task = [p \in Procs |-> NoTask]
    /\ todo = [p \in Procs |-> <<>>]
    /\ held = [p \in Procs |-> {}]

(***************************************************************************)
(* Locks.                                                                  *)
(***************************************************************************)
Conflict(m, n) ==
    \/ "U" \in {m, n}
    \/ m = "NK" /\ n = "NK"

Holders(p, lock) ==
    {q \in Procs \ {p} : \E h \in held[q] :
        h.row = lock.row /\ Conflict(h.mode, lock.mode)}

(* A statement of the feed that looks for queued jobs passes over a row    *)
(* whose committed status is another.                                      *)
Passes(p) ==
    /\ todo[p] # <<>> /\ p \in Ingestions
    /\ \/ todo[p][1].row.table = "gen" /\ gen[todo[p][1].row.key] # "queued"
       \/ todo[p][1].row.table = "del" /\ del[todo[p][1].row.key] # "queued"

WaitsFor(p) ==
    IF todo[p] = <<>> \/ Passes(p) THEN {} ELSE Holders(p, todo[p][1])

Begin(p, kind, leads, locks) ==
    /\ task[p] = NoTask
    /\ task' = [task EXCEPT ![p] = [kind |-> kind, leads |-> leads]]
    /\ todo' = [todo EXCEPT ![p] = locks]
    /\ UNCHANGED <<gen, del, held>>

Acquire(p) ==
    /\ todo[p] # <<>> /\ ~Passes(p) /\ WaitsFor(p) = {}
    /\ held' = [held EXCEPT ![p] = @ \cup {todo[p][1]}]
    /\ todo' = [todo EXCEPT ![p] = Tail(@)]
    /\ UNCHANGED <<gen, del, task>>

PassOver(p) ==
    /\ Passes(p)
    /\ todo' = [todo EXCEPT ![p] = Tail(@)]
    /\ UNCHANGED <<gen, del, task, held>>

Release(p) ==
    /\ task' = [task EXCEPT ![p] = NoTask]
    /\ todo' = [todo EXCEPT ![p] = <<>>]
    /\ held' = [held EXCEPT ![p] = {}]

(***************************************************************************)
(* The transactions.                                                       *)
(***************************************************************************)

(* upsert_feed_rows: the scope's advisory lock, then by one statement the  *)
(* leads of the feed that exist, in any order, then, for one dismissed     *)
(* lead after the other, its queued jobs.                                  *)
ScopeLock(f) == Lock("scope", ScopeOf[f], "U")
QueuedJobsOf(l) == <<Lock("gen", l, "U"), Lock("del", l, "U")>>

LeadsAndJobs(order, later) ==
    [i \in DOMAIN order |-> Lock("lead", order[i], "U")]
        \o FlattenSeq([i \in DOMAIN later |-> QueuedJobsOf(later[i])])

\* Mutant of FeedLocks: the feeds of one scope are not serialized.
UnserializedLocks(f, order, later) == LeadsAndJobs(order, later)
FeedLocks(f, order, later) == <<ScopeLock(f)>> \o LeadsAndJobs(order, later)

Feed(f) ==
    /\ task[f] = NoTask
    /\ \E named \in SUBSET Lead : \E dismissed \in SUBSET named :
        \E order \in SetToSeqs(named), later \in SetToSeqs(dismissed) :
            Begin(f, "feed", dismissed, FeedLocks(f, order, later))

(* claim_next_job of generation: the queued job, if no other transaction   *)
(* has it (SKIP LOCKED), and by the agent run's foreign key the lead.      *)
ClaimGeneration(l) ==
    /\ "generation" \in Background
    /\ task["generation"] = NoTask
    /\ gen[l] = "queued"
    /\ Holders("generation", Lock("gen", l, "U")) = {}
    /\ task' = [task EXCEPT !["generation"] = [kind |-> "claim", leads |-> {l}]]
    /\ held' = [held EXCEPT !["generation"] = {Lock("gen", l, "U")}]
    /\ todo' = [todo EXCEPT !["generation"] = <<Lock("lead", l, "KS")>>]
    /\ UNCHANGED <<gen, del>>

(* _finalize_result: the running job, then the lead.                       *)
FinishGeneration(l) ==
    /\ "generation" \in Background
    /\ gen[l] = "running"
    /\ Begin("generation", "finish", {l},
             <<Lock("gen", l, "U"), Lock("lead", l, "U")>>)

(* claim_next_job of delivery locks the queued job and nothing else.       *)
ClaimDelivery(l) ==
    /\ "delivery" \in Background
    /\ del[l] = "queued"
    /\ Holders("delivery", Lock("del", l, "U")) = {}
    /\ Begin("delivery", "claim", {l}, <<Lock("del", l, "U")>>)

(* _finalize_success: the running job, then its email.                     *)
FinishDelivery(l) ==
    /\ "delivery" \in Background
    /\ del[l] = "running"
    /\ Begin("delivery", "finish", {l},
             <<Lock("del", l, "U"), Lock("email", l, "U")>>)

(* enqueue_delivery, enqueue_generation, edit_email and update_status, and *)
(* update_lead_contact.                                                    *)
LeadThenEmail(l) == <<Lock("lead", l, "U"), Lock("email", l, "U")>>

\* Mutant of RequestSend: the email is read for update before the lead.
RequestSendEmailFirst(r, l) ==
    Begin(r, "send", {l}, <<Lock("email", l, "U"), Lock("lead", l, "U")>>)
RequestSend(r, l) == Begin(r, "send", {l}, LeadThenEmail(l))
RequestGeneration(r, l) == Begin(r, "generate", {l}, <<Lock("lead", l, "U")>>)
Review(r, l) == Begin(r, "edit", {l}, LeadThenEmail(l))
EditContact(r, l) == Begin(r, "edit", {l}, <<Lock("lead", l, "U")>>)

(* A page of Graph results is one transaction.  A message seen in the sent *)
(* items updates its delivery job and then the replies it explains; a      *)
(* reply checks the foreign keys that its insert or its new match changed, *)
(* in the order the constraints were created.                              *)
ReplyLocks(l) ==
    {<<Lock("lead", l, "KS"), Lock("email", l, "KS"), Lock("del", l, "KS")>>,
     <<Lock("email", l, "KS"), Lock("del", l, "KS")>>}
SentLocks(l) == {<<Lock("del", l, "NK")>>} \cup
                {<<Lock("del", l, "NK")>> \o s : s \in ReplyLocks(l)}

Observed(l) == del[l] \in {"running", "done"}

(* The locks of a page are those of its messages, one after the other.     *)
MessageLocks == UNION {ReplyLocks(l) \cup SentLocks(l) : l \in {k \in Lead : Observed(k)}}
LeadsOf(locks) == {locks[i].row.key : i \in DOMAIN locks}

Page ==
    /\ "replies" \in Background
    /\ task["replies"] = NoTask
    /\ \E n \in 1..MaxMessages : \E messages \in [1..n -> MessageLocks] :
        LET locks == FlattenSeq(messages)
        IN  Begin("replies", "page", LeadsOf(locks), locks)

(* The effects become visible at the commit.                               *)
GenActive(l) == gen[l] \in {"queued", "running"}
DelActive(l) == del[l] \in {"queued", "running"}

GenAfter(p, l) ==
    IF l \notin task[p].leads THEN gen[l] ELSE
    CASE p \in Ingestions /\ gen[l] = "queued" -> "done"
      [] p = "generation" -> IF task[p].kind = "claim" THEN "running" ELSE "done"
      [] task[p].kind = "generate" /\ ~GenActive(l) /\ ~DelActive(l) -> "queued"
      [] OTHER -> gen[l]

DelAfter(p, l) ==
    IF l \notin task[p].leads THEN del[l] ELSE
    CASE p \in Ingestions /\ del[l] = "queued" -> "done"
      [] p = "delivery" -> IF task[p].kind = "claim" THEN "running" ELSE "done"
      [] task[p].kind = "send" /\ ~GenActive(l) /\ del[l] = "none" -> "queued"
      [] OTHER -> del[l]

Commits(p) ==
    /\ task[p] # NoTask /\ todo[p] = <<>>
    /\ gen' = [l \in Lead |-> GenAfter(p, l)]
    /\ del' = [l \in Lead |-> DelAfter(p, l)]
    /\ Release(p)

(***************************************************************************)
(* Deadlocks.                                                              *)
(***************************************************************************)

(* Sets of processes in which everybody waits for somebody of the set, and *)
(* the smallest of them: the cycles.                                       *)
Stuck(S, waits) == S # {} /\ \A p \in S : waits[p] \cap S # {}
CyclesOf(waits) ==
    LET stuck == {S \in SUBSET {p \in Procs : waits[p] # {}} : Stuck(S, waits)}
    IN  {S \in stuck : \A T \in stuck : T \subseteq S => T = S}
Cycles == CyclesOf([p \in Procs |-> WaitsFor(p)])

(* The database aborts a transaction of a cycle.  A job stays what it was; *)
(* the worker loop or the caller may try again.                            *)
\* Mutant of Abort: a request that was aborted is run again.
AbortAndRetry(p) ==
    /\ \E S \in Cycles : p \in S
    /\ held' = [held EXCEPT ![p] = {}]
    /\ todo' = [todo EXCEPT ![p] = SetToSeq(held[p]) \o @]
    /\ UNCHANGED <<gen, del, task>>
Abort(p) ==
    /\ \E S \in Cycles : p \in S
    /\ UNCHANGED <<gen, del>>
    /\ Release(p)

(* The cycle in which p waits is resolved, whoever the victim is.          *)
Resolve(p) == \E S \in Cycles : p \in S /\ \E q \in S : Abort(q)

WorkersBegin ==
    \E l \in Lead :
        \/ ClaimGeneration(l) \/ FinishGeneration(l)
        \/ ClaimDelivery(l) \/ FinishDelivery(l)
RequestsBegin ==
    \E r \in Requests, l \in Lead :
        RequestSend(r, l) \/ RequestGeneration(r, l) \/ Review(r, l) \/ EditContact(r, l)

LocksNext ==
    \/ \E f \in Ingestions : Feed(f)
    \/ Page
    \/ WorkersBegin
    \/ RequestsBegin
    \/ \E p \in Procs : Acquire(p) \/ PassOver(p) \/ Commits(p)
    \/ \E p \in Procs : Abort(p)

(* The database serves the waiters of a lock in turn and resolves every    *)
(* cycle; a transaction that waits for nothing goes on.                    *)
LocksFairness ==
    /\ \A p \in Procs : SF_lockVars(Acquire(p))
    /\ \A p \in Procs : WF_lockVars(PassOver(p) \/ Commits(p))
    /\ \A p \in Procs : WF_lockVars(Resolve(p))

LocksSpec == LocksInit /\ [][LocksNext]_lockVars
FairLocksSpec == LocksSpec /\ LocksFairness

(***************************************************************************)
(* Properties.                                                             *)
(***************************************************************************)

LocksTypeOK ==
    /\ gen \in [Lead -> JobStatus]
    /\ del \in [Lead -> JobStatus]
    /\ \A p \in Procs : held[p] \subseteq [row : Rows, mode : Modes]

(* The locks the code asks for explicitly are ordered but for the leads of *)
(* a feed.  If only these existed, nobody would ever wait in a cycle but   *)
(* feeds of different scopes that name the same leads: neither a worker, a *)
(* request nor a page, and no two feeds of one scope.                      *)
Explicit(h) == h.mode # "KS"
ExplicitWaits(p) ==
    IF todo[p] = <<>> \/ Passes(p) \/ ~Explicit(todo[p][1]) THEN {}
    ELSE {q \in Procs \ {p} : \E h \in held[q] :
             h.row = todo[p][1].row /\ Explicit(h) /\ Conflict(h.mode, todo[p][1].mode)}
OnlyFeedsDeadlockExplicitly ==
    \A S \in CyclesOf([p \in Procs |-> ExplicitWaits(p)]) :
        /\ S \subseteq Ingestions
        /\ \A f, g \in S : ScopeOf[f] = ScopeOf[g] => f = g

(* With the foreign keys, the generation worker joins the feeds.  Only a   *)
(* page of replies can take anybody else into a cycle: without one, an API *)
(* request or a delivery is never the victim of a deadlock.                *)
OthersDeadlockOnlyWithReplies ==
    \A S \in Cycles : "replies" \in S \/ S \subseteq Ingestions \cup {"generation"}

(* Who may be aborted by a deadlock, and by whom.                          *)
DeadlocksAreConfined ==
    LocksTypeOK /\ OnlyFeedsDeadlockExplicitly /\ OthersDeadlockOnlyWithReplies

(* Every request ends, by its commit or as the victim of a deadlock.       *)
RequestsEnd ==
    \A r \in Requests : task[r] # NoTask ~> task[r] = NoTask
=============================================================================
