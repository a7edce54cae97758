---------------------------- MODULE EarlyBidSync ----------------------------
(***************************************************************************)
(* The daily EarlyBid synchronization of one feed: one durable run per     *)
(* calendar day, claimed by scheduler processes that poll, fetch the feed  *)
(* with no transaction open, and apply it to the leads in one transaction  *)
(* together with the run's success.  The manual sync and the CSV upload    *)
(* apply a feed without a run (LeadFeed); here they are not modelled.      *)
(*                                                                         *)
(* A poll takes one clock reading and uses it in four transactions: ensure *)
(* the day's run exists, supersede older runs, recover an expired lease,   *)
(* claim.  The transaction that applies a feed is modelled in four steps,  *)
(* because it holds locks while the clock and the other processes go on:   *)
(* lock and check the run, stage the leads once the feed's lock is free,   *)
(* check the schedule again, commit.                                       *)
(*                                                                         *)
(* today     the local calendar day.                                       *)
(* upstream  the version of the feed EarlyBid serves.                      *)
(* run       earlybid_sync_runs rows of the feed, one per day.             *)
(* worker    what each scheduler process is doing.                         *)
(* applied   the last scheduled run that was applied to the leads, and the *)
(*           feed version it brought.                                      *)
(***************************************************************************)
EXTENDS Naturals

CONSTANTS
    LastDay,      \* bound: the days 0..LastDay are modelled
    LastVersion,  \* bound: the feed changes at most this often
    Workers,      \* scheduler processes
    MaxAttempts,  \* MAX_ATTEMPTS; RETRY_DELAYS has one entry less
    Null

ASSUME EarlyBidSyncAssumption ==
    /\ LastDay \in Nat
    /\ LastVersion \in Nat
    /\ MaxAttempts \in Nat \ {0}
    /\ Null \notin Workers \cup Nat

VARIABLES today, upstream, run, worker, applied

vars == <<today, upstream, run, worker, applied>>

Days     == 0..LastDay
Versions == 0..LastVersion

RunActive   == {"queued", "running", "retry_wait"}
RunTerminal == {"succeeded", "failed"}

NoRun == [status |-> "none", attempts |-> 0, by |-> Null, lease |-> "none",
          due |-> FALSE]

\* lease is the age of heartbeat_at against the stale threshold, due says
\* that next_attempt_at has passed.
RunRow == [status: {"none"} \cup RunActive \cup RunTerminal,
           attempts: 0..MaxAttempts,
           by: Workers \cup {Null},
           lease: {"none", "fresh", "stale"},
           due: BOOLEAN]

Polling   == {"polled", "ensured", "cleaned", "recovered"}
Applying  == {"owned", "staged", "checked"}
Executing == {"fetching", "fetched", "late", "failing"} \cup Applying

Idle == [phase |-> "idle", day |-> 0, attempt |-> 0, rows |-> Null,
         retry |-> FALSE]

Worker == [phase: {"idle"} \cup Polling \cup Executing,
           day: Days,
           attempt: 0..MaxAttempts,
           rows: Versions \cup {Null},
           retry: BOOLEAN]

TypeOK ==
    /\ today \in Days
    /\ upstream \in Versions
    /\ run \in [Days -> RunRow]
    /\ worker \in [Workers -> Worker]
    /\ applied \in [day: Days \cup {Null}, rows: Versions]

Init ==
    /\ today = 0
    /\ upstream = 0
    /\ run = [d \in Days |-> NoRun]
    /\ worker = [w \in Workers |-> Idle]
    /\ applied = [day |-> Null, rows |-> 0]

-----------------------------------------------------------------------------
(* The world: midnight, a new feed, time for leases and retries.           *)

Midnight ==
    /\ today < LastDay
    /\ today' = today + 1
    /\ UNCHANGED <<upstream, run, worker, applied>>

Publish ==
    /\ upstream < LastVersion
    /\ upstream' = upstream + 1
    /\ UNCHANGED <<today, run, worker, applied>>

ExpireLease(d) ==
    /\ run[d].status = "running" /\ run[d].lease = "fresh"
    /\ run' = [run EXCEPT ![d].lease = "stale"]
    /\ UNCHANGED <<today, upstream, worker, applied>>

RetryDue(d) ==
    /\ run[d].status = "retry_wait" /\ ~run[d].due
    /\ run' = [run EXCEPT ![d].due = TRUE]
    /\ UNCHANGED <<today, upstream, worker, applied>>

-----------------------------------------------------------------------------
(* Helpers.                                                                *)

Go(w, phase) == worker' = [worker EXCEPT ![w].phase = phase]
Rest(w)      == worker' = [worker EXCEPT ![w] = Idle]

\* Mutant of Locked: a commit in the middle, before the schedule is checked.
LockedUntilStaged(d) ==
    \E w \in Workers : worker[w].day = d /\ worker[w].phase \in {"owned", "staged"}

\* The transaction that applies a feed holds the row of its run throughout,
\* and from staging on the advisory lock of the feed's scope.
Locked(d) == \E w \in Workers : worker[w].day = d /\ worker[w].phase \in Applying

\* Mutant of ScopeLocked: the feeds of two runs are applied side by side.
NoScopeLock == FALSE

ScopeLocked == \E w \in Workers : worker[w].phase \in {"staged", "checked"}

\* Mutant of ClaimOwns: the status is forgotten, which a terminalized run
\* still needs.
OwnsAttempt(w) ==
    LET r == run[worker[w].day]
    IN  r.by = w /\ r.attempts = worker[w].attempt

\* _claim_owns
ClaimOwns(w) ==
    LET r == run[worker[w].day]
    IN  /\ r.status = "running"
        /\ r.by = w
        /\ r.attempts = worker[w].attempt

\* _run_is_superseded, with the clock read again.
Superseded(d) ==
    \/ d < today
    \/ \E e \in Days : e > d /\ run[e].status # "none"

\* Mutant of AfterFailure: one attempt too many.
RetriedOnceMore(r, retryable) ==
    IF retryable /\ r.attempts <= MaxAttempts
    THEN [r EXCEPT !.status = "retry_wait", !.due = FALSE, !.lease = "none"]
    ELSE [r EXCEPT !.status = "failed", !.due = FALSE, !.lease = "none"]

\* Mutant of AfterFailure: the last attempt of the budget is lost.
RetriedOnceLess(r, retryable) ==
    IF retryable /\ r.attempts + 1 < MaxAttempts
    THEN [r EXCEPT !.status = "retry_wait", !.due = FALSE, !.lease = "none"]
    ELSE [r EXCEPT !.status = "failed", !.due = FALSE, !.lease = "none"]

\* _transition_after_failure
AfterFailure(r, retryable) ==
    IF retryable /\ r.attempts < MaxAttempts
    THEN [r EXCEPT !.status = "retry_wait", !.due = FALSE, !.lease = "none"]
    ELSE [r EXCEPT !.status = "failed", !.due = FALSE, !.lease = "none"]

\* _terminalize_superseded_run
Terminalized(r) ==
    [r EXCEPT !.status = "failed", !.due = FALSE, !.lease = "none"]

-----------------------------------------------------------------------------
(* One polling iteration, _schedule_recover_and_claim.                     *)

Poll(w) ==
    /\ worker[w].phase = "idle"
    /\ worker' = [worker EXCEPT ![w] = [Idle EXCEPT !.phase = "polled",
                                                    !.day = today]]
    /\ UNCHANGED <<today, upstream, run, applied>>

(* ensure_current_daily_run; the loser of the unique slot reads it again.  *)
EnsureRun(w) ==
    LET d == worker[w].day
    IN  /\ worker[w].phase = "polled"
        /\ run' = IF run[d].status = "none"
                  THEN [run EXCEPT ![d].status = "queued"]
                  ELSE run
        /\ Go(w, "ensured")
        /\ UNCHANGED <<today, upstream, applied>>

\* Mutant of SupersedeOlder: a run somebody once claimed is left to recovery.
SupersedeWaiting(w, skipped) ==
    /\ worker[w].phase = "ensured"
    /\ \A d \in Days : Locked(d) => d \in skipped
    /\ run' = [d \in Days |->
                 IF /\ d < worker[w].day /\ d \notin skipped
                    /\ run[d].status \in {"queued", "retry_wait"}
                 THEN Terminalized(run[d])
                 ELSE run[d]]
    /\ Go(w, "cleaned")
    /\ UNCHANGED <<today, upstream, applied>>

(* supersede_historical_active_runs; rows somebody has locked are skipped. *)
SupersedeOlder(w, skipped) ==
    /\ worker[w].phase = "ensured"
    /\ \A d \in Days : Locked(d) => d \in skipped
    /\ run' = [d \in Days |->
                 IF /\ d < worker[w].day /\ d \notin skipped
                    /\ run[d].status \in RunActive
                 THEN Terminalized(run[d])
                 ELSE run[d]]
    /\ Go(w, "cleaned")
    /\ UNCHANGED <<today, upstream, applied>>

(* recover_stale_runs for the day of the poll; a locked row is skipped.    *)
RecoverRun(w) ==
    LET d == worker[w].day
    IN  /\ worker[w].phase = "cleaned"
        /\ Go(w, "recovered")
        /\ \/ /\ run[d].status = "running" /\ run[d].lease = "stale"
              /\ ~Locked(d)
              /\ run' = [run EXCEPT ![d] = AfterFailure(run[d], TRUE)]
           \/ /\ ~(run[d].status = "running" /\ run[d].lease = "stale")
                 \/ Locked(d)
              /\ UNCHANGED run
        /\ UNCHANGED <<today, upstream, applied>>

\* Mutant of Claimable: a retry that became due is not picked up.
OnlyQueued(d) == run[d].status = "queued"

Claimable(d) ==
    \/ run[d].status = "queued"
    \/ run[d].status = "retry_wait" /\ run[d].due

(* claim_next_run for the day of the poll.                                 *)
ClaimRun(w) ==
    LET d == worker[w].day
    IN  /\ worker[w].phase = "recovered"
        /\ Claimable(d)
        /\ run' = [run EXCEPT ![d] = [status |-> "running",
                                      attempts |-> run[d].attempts + 1,
                                      by |-> w, lease |-> "fresh",
                                      due |-> FALSE]]
        /\ worker' = [worker EXCEPT ![w].phase = "fetching",
                                    ![w].attempt = run[d].attempts + 1]
        /\ UNCHANGED <<today, upstream, applied>>

NothingToClaim(w) ==
    /\ worker[w].phase = "recovered"
    /\ ~Claimable(worker[w].day)
    /\ Rest(w)
    /\ UNCHANGED <<today, upstream, run, applied>>

-----------------------------------------------------------------------------
(* Executing a claim, _execute_claim.                                      *)

(* The heartbeat thread; while its worker's own transaction holds the row  *)
(* it waits.                                                               *)
Heartbeat(w) ==
    /\ worker[w].phase \in {"fetching", "fetched", "late", "failing"}
    /\ ClaimOwns(w)
    /\ run' = [run EXCEPT ![worker[w].day].lease = "fresh"]
    /\ UNCHANGED <<today, upstream, worker, applied>>

FetchFeed(w) ==
    /\ worker[w].phase = "fetching"
    /\ worker' = [worker EXCEPT ![w].phase = "fetched", ![w].rows = upstream]
    /\ UNCHANGED <<today, upstream, run, applied>>

(* classify_feed_error: whether the failure may be retried.                *)
FetchFails(w, retryable) ==
    /\ worker[w].phase = "fetching"
    /\ worker' = [worker EXCEPT ![w].phase = "failing", ![w].retry = retryable]
    /\ UNCHANGED <<today, upstream, run, applied>>

(* finalize_success: ownership, which locks the row, and the schedule.     *)
EnterApply(w) ==
    /\ worker[w].phase = "fetched"
    /\ ClaimOwns(w)
    /\ ~Superseded(worker[w].day)
    /\ Go(w, "owned")
    /\ UNCHANGED <<today, upstream, run, applied>>

(* stage_feed_sync: the upsert waits for the scope lock.                   *)
StageFeed(w) ==
    /\ worker[w].phase = "owned"
    /\ ~ScopeLocked
    /\ Go(w, "staged")
    /\ UNCHANGED <<today, upstream, run, applied>>

\* Mutant of CheckSchedule: the check before staging is trusted.
CheckNothing(w) ==
    /\ worker[w].phase = "staged"
    /\ Go(w, "checked")
    /\ UNCHANGED <<today, upstream, run, applied>>

(* The schedule again, after staging.  A run that is too late rolls back,  *)
(* which releases its locks before it is terminalized.                     *)
CheckSchedule(w) ==
    /\ worker[w].phase = "staged"
    /\ \/ Superseded(worker[w].day) /\ Go(w, "late")
       \/ ~Superseded(worker[w].day) /\ Go(w, "checked")
    /\ UNCHANGED <<today, upstream, run, applied>>

(* The commit: leads, first-draft jobs and the run's success together.     *)
CommitFeed(w) ==
    LET d == worker[w].day
    IN  /\ worker[w].phase = "checked"
        /\ run' = [run EXCEPT ![d].status = "succeeded", ![d].lease = "none"]
        /\ applied' = [day |-> d, rows |-> worker[w].rows]
        /\ Rest(w)
        /\ UNCHANGED <<today, upstream>>

(* _commit_claim_as_superseded, from the first check or after a rollback.  *)
CommitSuperseded(w) ==
    LET d == worker[w].day
    IN  /\ \/ worker[w].phase = "fetched" /\ Superseded(d)
           \/ worker[w].phase = "late"
        /\ ClaimOwns(w)
        /\ run' = [run EXCEPT ![d] = Terminalized(run[d])]
        /\ Rest(w)
        /\ UNCHANGED <<today, upstream, applied>>

(* An invalid feed (not retried) or a persistence error (retried) rolls    *)
(* the whole application back.                                             *)
ApplyFails(w, retryable) ==
    /\ worker[w].phase \in {"fetched", "late"} \cup Applying
    /\ worker[w].phase = "fetched" => ClaimOwns(w)
    /\ worker' = [worker EXCEPT ![w].phase = "failing", ![w].retry = retryable]
    /\ UNCHANGED <<today, upstream, run, applied>>

(* record_attempt_failure                                                  *)
RecordFailure(w) ==
    LET d == worker[w].day
    IN  /\ worker[w].phase = "failing"
        /\ ClaimOwns(w)
        /\ run' = [run EXCEPT ![d] = AfterFailure(run[d], worker[w].retry)]
        /\ Rest(w)
        /\ UNCHANGED <<today, upstream, applied>>

(* EarlyBidSyncLeaseLostError: a late result or failure is ignored.        *)
LeaseLost(w) ==
    /\ worker[w].phase \in {"fetched", "late", "failing"}
    /\ ~ClaimOwns(w)
    /\ Rest(w)
    /\ UNCHANGED <<today, upstream, run, applied>>

(* The process dies, or gives up because the database cannot be reached;   *)
(* an open transaction is rolled back.                                     *)
LoseWorker(w) ==
    /\ worker[w].phase # "idle"
    /\ Rest(w)
    /\ UNCHANGED <<today, upstream, run, applied>>

-----------------------------------------------------------------------------
WorkerNext(w) ==
    \/ Poll(w)
    \/ EnsureRun(w)
    \/ \E skipped \in SUBSET Days : SupersedeOlder(w, skipped)
    \/ RecoverRun(w)
    \/ ClaimRun(w)
    \/ NothingToClaim(w)
    \/ Heartbeat(w)
    \/ FetchFeed(w)
    \/ \E retryable \in BOOLEAN : FetchFails(w, retryable)
    \/ EnterApply(w)
    \/ StageFeed(w)
    \/ CheckSchedule(w)
    \/ CommitFeed(w)
    \/ CommitSuperseded(w)
    \/ \E retryable \in BOOLEAN : ApplyFails(w, retryable)
    \/ RecordFailure(w)
    \/ LeaseLost(w)
    \/ LoseWorker(w)

Next ==
    \/ Midnight
    \/ Publish
    \/ \E d \in Days : ExpireLease(d) \/ RetryDue(d)
    \/ \E w \in Workers : WorkerNext(w)

Spec == Init /\ [][Next]_vars

(***************************************************************************)
(* Fairness.  The loop of a process that lives goes on: it polls, and a    *)
(* fetch or a transaction it started returns one way or the other.         *)
(* Processes may crash again and again, but not always at the same step of *)
(* a poll, and not every poll finds a row locked.  Leases age and retries  *)
(* become due.                                                             *)
(***************************************************************************)
Fairness ==
    /\ \A w \in Workers :
         /\ WF_vars(Poll(w))
         /\ SF_vars(EnsureRun(w))
         /\ SF_vars(SupersedeOlder(w, {d \in Days : Locked(d)}))
         /\ SF_vars(RecoverRun(w))
         /\ SF_vars(ClaimRun(w))
         /\ WF_vars(NothingToClaim(w))
         /\ WF_vars(FetchFeed(w) \/ EnterApply(w) \/ StageFeed(w)
                    \/ CheckSchedule(w) \/ CommitFeed(w) \/ CommitSuperseded(w)
                    \/ RecordFailure(w) \/ LeaseLost(w))
    /\ \A d \in Days : WF_vars(ExpireLease(d)) /\ WF_vars(RetryDue(d))

FairSpec == Spec /\ Fairness

-----------------------------------------------------------------------------
(* Properties.                                                             *)

\* What is about to be committed is still owned: nothing recovers,
\* supersedes or finishes a run while its feed is being applied.
ApplyingIsOwned ==
    \A w \in Workers :
      worker[w].phase \in Applying => ClaimOwns(w)

\* An attempt is left for every run that can still be claimed.
AttemptsLeft ==
    \A d \in Days :
      /\ run[d].status \in {"none", "queued"} => run[d].attempts = 0
      /\ run[d].status = "retry_wait" => run[d].attempts < MaxAttempts

\* A process executes a run that exists, and holds rows once it fetched them.
ExecutesARun ==
    \A w \in Workers :
      /\ worker[w].phase \in Executing => run[worker[w].day].status # "none"
      /\ worker[w].phase \in {"fetched", "late"} \cup Applying
           => worker[w].rows # Null
      /\ worker[w].rows # Null => worker[w].phase \in Executing

\* The feed's lock admits one process, and what it is about to commit is
\* later than everything that was applied.
OneApplies ==
    \A v \in Workers :
      /\ worker[v].phase \in {"staged", "checked"} =>
           \A w \in Workers : worker[w].phase \in {"staged", "checked"} => v = w
      /\ worker[v].phase = "checked" =>
           applied.day = Null \/ applied.day < worker[v].day

\* What was applied comes from a run that succeeded.
AppliedSucceeded ==
    IF applied.day = Null THEN applied.rows = 0
                          ELSE run[applied.day].status = "succeeded"

\* Feeds grow with the day: nobody holds a newer feed than EarlyBid serves,
\* nor an older one than an earlier day's that is, or is being, applied.
FeedsGrow ==
    /\ applied.rows <= upstream
    /\ \A w \in Workers : worker[w].rows # Null =>
         /\ worker[w].rows <= upstream
         /\ applied.day # Null /\ applied.day < worker[w].day
              => applied.rows <= worker[w].rows
         /\ \A v \in Workers :
              /\ worker[v].phase \in Applying
              /\ worker[v].day < worker[w].day
              => worker[v].rows <= worker[w].rows

\* What makes AppliedInOrder inductive: row lock, feed lock and the second
\* look at the schedule together, and that fetches only see newer feeds.
SyncInv ==
    /\ TypeOK
    /\ AttemptsLeft
    /\ ExecutesARun
    /\ ApplyingIsOwned
    /\ OneApplies
    /\ AppliedSucceeded
    /\ FeedsGrow

\* Scheduled feeds reach the leads in calendar order, at most one per day,
\* and never bring an older feed than the one before: a late prior-date
\* result cannot overwrite the current projection.
AppliedInOrder ==
    [][applied' # applied =>
         /\ applied.day = Null \/ applied.day < applied'.day
         /\ applied.rows <= applied'.rows]_vars

\* A day that ended, in success or failure, is never run again.
DayIsFinal ==
    [][\A d \in Days : run[d].status \in RunTerminal => run'[d] = run[d]]_vars

\* A day fails only when its budget is used up, when it is over, or when the
\* process that owns its attempt met a failure that must not be retried: no
\* crash, lost lease or late answer of another process ends it before.
BudgetIsUsed ==
    [][\A d \in Days :
         run[d].status \in RunActive /\ run'[d].status = "failed" =>
           \/ run[d].attempts = MaxAttempts
           \/ d < today
           \/ \E w \in Workers :
                /\ worker[w].phase = "failing" /\ ~worker[w].retry
                /\ worker[w].day = d /\ ClaimOwns(w)]_vars

\* What the README says of prior dates: once a later day's run exists they
\* are terminalized "without calling EarlyBid".  A poll that read the clock
\* before midnight may still claim its day afterwards.
PriorDatesAreNotFetched ==
    [][\A d \in Days :
         run[d].status # "running" /\ run'[d].status = "running"
         => \A e \in Days : e > d => run[e].status = "none"]_vars

\* Every run ends within its attempt budget, whatever crashes or fails.
EveryRunEnds ==
    \A d \in Days : run[d].status \in RunActive ~> run[d].status \in RunTerminal

\* Every day that does not pass gets its run: a process started late in the
\* day catches up, and the work of older days never keeps it from doing so.
EveryDayIsScheduled ==
    \A d \in Days : today = d ~> today > d \/ run[d].status \in RunTerminal
=============================================================================
