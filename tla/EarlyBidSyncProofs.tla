------------------------ MODULE EarlyBidSyncProofs ------------------------
(***************************************************************************)
(* Proofs about the daily synchronization for every number of days, feed   *)
(* versions, attempts and scheduler processes.                             *)
(***************************************************************************)
EXTENDS EarlyBidSync, TLAPS

-----------------------------------------------------------------------------
(* Facts about the rows and the processes.                                 *)

\* An attempt is left for a row that can still be claimed.
RowLeft(r) ==
    /\ r.status \in {"none", "queued"} => r.attempts = 0
    /\ r.status = "retry_wait" => r.attempts < MaxAttempts

GoodRow(r) == r \in RunRow /\ RowLeft(r)

\* AttemptsLeft speaks of every row on its own.
LEMMA GoodRows ==
    ASSUME run \in [Days -> RunRow]
    PROVE  AttemptsLeft <=> \A d \in Days : GoodRow(run[d])
  BY DEF AttemptsLeft, GoodRow, RowLeft

\* How a run ends an attempt: the status it gets, and what it keeps.
LEMMA EndedRows ==
    ASSUME NEW r, GoodRow(r), NEW b \in BOOLEAN
    PROVE  /\ GoodRow(AfterFailure(r, b))
           /\ AfterFailure(r, b).status \in {"retry_wait", "failed"}
           /\ AfterFailure(r, b).status = "failed" => ~(b /\ r.attempts < MaxAttempts)
           /\ GoodRow(Terminalized(r))
           /\ Terminalized(r).status = "failed"
  <1>1. CASE b /\ r.attempts < MaxAttempts
    BY <1>1 DEF GoodRow, RowLeft, RunRow, AfterFailure, Terminalized, RunActive, RunTerminal
  <1>2. CASE ~(b /\ r.attempts < MaxAttempts)
    BY <1>2 DEF GoodRow, RowLeft, RunRow, AfterFailure, Terminalized, RunActive, RunTerminal
  <1> QED  BY <1>1, <1>2

\* How a run is queued, claimed and finished, and how time passes for it.
LEMMA LivelyRows ==
    ASSUME NEW r, GoodRow(r)
    PROVE  /\ r.status = "none" => GoodRow([r EXCEPT !.status = "queued"])
           /\ GoodRow([r EXCEPT !.status = "succeeded", !.lease = "none"])
           /\ GoodRow([r EXCEPT !.lease = "stale"])
           /\ GoodRow([r EXCEPT !.lease = "fresh"])
           /\ GoodRow([r EXCEPT !.due = TRUE])
  BY DEF GoodRow, RowLeft, RunRow, RunActive, RunTerminal

\* A claim uses one of the attempts that are left.
LEMMA ClaimedRows ==
    ASSUME NEW r, GoodRow(r), r.status \in {"queued", "retry_wait"},
           NEW w \in Workers
    PROVE  /\ r.attempts + 1 \in 0..MaxAttempts
           /\ GoodRow([status |-> "running", attempts |-> r.attempts + 1,
                       by |-> w, lease |-> "fresh", due |-> FALSE])
  <1>1. r.attempts \in 0..MaxAttempts /\ r.attempts < MaxAttempts
    BY EarlyBidSyncAssumption DEF GoodRow, RowLeft, RunRow
  <1>2. r.attempts + 1 \in 0..MaxAttempts
    BY <1>1, EarlyBidSyncAssumption
  <1> QED  BY <1>2 DEF GoodRow, RowLeft, RunRow, RunActive

Phases == {"idle"} \cup Polling \cup Executing

\* What a process may become in a step.
LEMMA WorkerRows ==
    ASSUME NEW r \in Worker
    PROVE  /\ \A p \in Phases : [r EXCEPT !.phase = p] \in Worker
           /\ \A b \in BOOLEAN :
                [r EXCEPT !.phase = "failing", !.retry = b] \in Worker
           /\ \A n \in 0..MaxAttempts :
                [r EXCEPT !.phase = "fetching", !.attempt = n] \in Worker
           /\ \A x \in Versions :
                [r EXCEPT !.phase = "fetched", !.rows = x] \in Worker
           /\ \A d \in Days : [Idle EXCEPT !.phase = "polled", !.day = d] \in Worker
           /\ Idle \in Worker
  <1>1. \A p \in Phases : [r EXCEPT !.phase = p] \in Worker
    BY DEF Worker, Phases
  <1>2. \A b \in BOOLEAN :
          [r EXCEPT !.phase = "failing", !.retry = b] \in Worker
    BY DEF Worker, Executing
  <1>3. \A n \in 0..MaxAttempts :
          [r EXCEPT !.phase = "fetching", !.attempt = n] \in Worker
    BY DEF Worker, Executing
  <1>4. \A x \in Versions :
          [r EXCEPT !.phase = "fetched", !.rows = x] \in Worker
    BY DEF Worker, Executing
  <1>5. 0 \in Days /\ 0 \in 0..MaxAttempts
    BY EarlyBidSyncAssumption DEF Days
  <1>6. \A d \in Days : [Idle EXCEPT !.phase = "polled", !.day = d] \in Worker
    BY <1>5 DEF Worker, Idle, Polling
  <1>7. Idle \in Worker
    BY <1>5 DEF Worker, Idle
  <1> QED  BY <1>1, <1>2, <1>3, <1>4, <1>6, <1>7

-----------------------------------------------------------------------------
(* Type correctness.                                                       *)

\* The steps that leave the runs alone.
RunsUnchanged(w) ==
    \/ Poll(w) \/ NothingToClaim(w) \/ FetchFeed(w)
    \/ \E retryable \in BOOLEAN : FetchFails(w, retryable) \/ ApplyFails(w, retryable)
    \/ EnterApply(w) \/ StageFeed(w) \/ CheckSchedule(w)
    \/ LeaseLost(w) \/ LoseWorker(w)

\* A poll that finds nothing, a fetch, a failure on the way and a lost
\* lease write no run.
LEMMA RunsUnchangedFacts ==
    ASSUME NEW w \in Workers, RunsUnchanged(w)
    PROVE  run' = run
  BY DEF RunsUnchanged, Poll, NothingToClaim, FetchFeed, FetchFails, ApplyFails,
         EnterApply, StageFeed, CheckSchedule, LeaseLost, LoseWorker

\* One run changes: to a row a step is allowed to leave behind.
LEMMA OneRow ==
    ASSUME run \in [Days -> RunRow], AttemptsLeft,
           NEW d \in Days, NEW r, GoodRow(r), run' = [run EXCEPT ![d] = r]
    PROVE  run' \in [Days -> RunRow] /\ AttemptsLeft'
  BY DEF AttemptsLeft, GoodRow, RowLeft

\* Every step leaves runs of their type, with an attempt left for those
\* that can still be claimed.
LEMMA RunTyping ==
    ASSUME TypeOK, AttemptsLeft, Next
    PROVE  run' \in [Days -> RunRow] /\ AttemptsLeft'
  <1> DEFINE Good == run' \in [Days -> RunRow] /\ AttemptsLeft'
  <1>a. /\ run \in [Days -> RunRow]
        /\ \A d \in Days : GoodRow(run[d])
        /\ \A w \in Workers : worker[w].day \in Days
    BY GoodRows DEF TypeOK, Worker
  <1>b. ASSUME run' = run PROVE Good
    BY <1>b DEF TypeOK, AttemptsLeft
  <1>1. CASE Midnight \/ Publish
    BY <1>1, <1>b DEF Midnight, Publish
  <1>2. ASSUME NEW d \in Days, ExpireLease(d) \/ RetryDue(d) PROVE Good
    <2>1. \/ run' = [run EXCEPT ![d] = [run[d] EXCEPT !.lease = "stale"]]
          \/ run' = [run EXCEPT ![d] = [run[d] EXCEPT !.due = TRUE]]
      BY <1>2 DEF ExpireLease, RetryDue
    <2> QED  BY <2>1, <1>a, LivelyRows, OneRow
  <1>3. ASSUME NEW w \in Workers, RunsUnchanged(w) PROVE Good
    BY <1>3, <1>b, RunsUnchangedFacts
  <1>4. ASSUME NEW w \in Workers, EnsureRun(w) PROVE Good
    <2> DEFINE d == worker[w].day
    <2>1. \/ run' = run
          \/ /\ run[d].status = "none"
             /\ run' = [run EXCEPT ![d] = [run[d] EXCEPT !.status = "queued"]]
      BY <1>4 DEF EnsureRun
    <2> QED  BY <2>1, <1>a, <1>b, LivelyRows, OneRow
  <1>5. ASSUME NEW w \in Workers, NEW skipped \in SUBSET Days,
               SupersedeOlder(w, skipped)
        PROVE  Good
    <2>1. \A d \in Days : run'[d] \in {run[d], Terminalized(run[d])}
      BY <1>5 DEF SupersedeOlder
    <2>2. \A d \in Days : GoodRow(run'[d])
      BY <2>1, <1>a, EndedRows
    <2>3. run' = [d \in Days |-> run'[d]]
      BY <1>5 DEF SupersedeOlder
    <2> QED  BY <2>2, <2>3 DEF GoodRow, RowLeft, AttemptsLeft
  <1>6. ASSUME NEW w \in Workers, RecoverRun(w) PROVE Good
    <2> DEFINE d == worker[w].day
    <2>1. run' = run \/ run' = [run EXCEPT ![d] = AfterFailure(run[d], TRUE)]
      BY <1>6 DEF RecoverRun
    <2> QED  BY <2>1, <1>a, <1>b, EndedRows, OneRow
  <1>7. ASSUME NEW w \in Workers, ClaimRun(w) PROVE Good
    <2> DEFINE d == worker[w].day
    <2>1. /\ run[d].status \in {"queued", "retry_wait"}
          /\ run' = [run EXCEPT ![d] =
                       [status |-> "running", attempts |-> run[d].attempts + 1,
                        by |-> w, lease |-> "fresh", due |-> FALSE]]
      BY <1>7 DEF ClaimRun, Claimable
    <2> QED  BY <2>1, <1>a, ClaimedRows, OneRow
  <1>8. ASSUME NEW w \in Workers, Heartbeat(w) PROVE Good
    <2> DEFINE d == worker[w].day
    <2>1. run' = [run EXCEPT ![d] = [run[d] EXCEPT !.lease = "fresh"]]
      BY <1>8 DEF Heartbeat
    <2> QED  BY <2>1, <1>a, LivelyRows, OneRow
  <1>9. ASSUME NEW w \in Workers, CommitFeed(w) PROVE Good
    <2> DEFINE d == worker[w].day
    <2>1. run' = [run EXCEPT ![d] = [run[d] EXCEPT !.status = "succeeded",
                                                   !.lease = "none"]]
      BY <1>9, <1>a DEF CommitFeed
    <2> QED  BY <2>1, <1>a, LivelyRows, OneRow
  <1>10. ASSUME NEW w \in Workers, CommitSuperseded(w) PROVE Good
    <2> DEFINE d == worker[w].day
    <2>1. run' = [run EXCEPT ![d] = Terminalized(run[d])]
      BY <1>10 DEF CommitSuperseded
    <2> QED  BY <2>1, <1>a, EndedRows, OneRow
  <1>11. ASSUME NEW w \in Workers, RecordFailure(w) PROVE Good
    <2> DEFINE d == worker[w].day
    <2>1. run' = [run EXCEPT ![d] = AfterFailure(run[d], worker[w].retry)]
      BY <1>11 DEF RecordFailure
    <2>2. worker[w].retry \in BOOLEAN
      BY DEF TypeOK, Worker
    <2> QED  BY <2>1, <2>2, <1>a, EndedRows, OneRow
  <1> QED
    BY <1>1, <1>2, <1>3, <1>4, <1>5, <1>6, <1>7, <1>8, <1>9, <1>10, <1>11
    DEF Next, WorkerNext, RunsUnchanged

\* What a step does to the processes: at most one of them moves.
LEMMA WorkerTyping ==
    ASSUME TypeOK, AttemptsLeft, Next
    PROVE  worker' \in [Workers -> Worker]
  <1>a. \A w \in Workers : worker[w] \in Worker
    BY DEF TypeOK
  <1>b. ASSUME worker' = worker PROVE worker' \in [Workers -> Worker]
    BY <1>b DEF TypeOK
  <1>c. ASSUME NEW w \in Workers, NEW r \in Worker, worker' = [worker EXCEPT ![w] = r]
        PROVE  worker' \in [Workers -> Worker]
    BY <1>c DEF TypeOK
  <1>1. ASSUME \/ Midnight \/ Publish
               \/ \E d \in Days : ExpireLease(d) \/ RetryDue(d)
               \/ \E w \in Workers : Heartbeat(w)
        PROVE  worker' \in [Workers -> Worker]
    BY <1>1, <1>b DEF Midnight, Publish, ExpireLease, RetryDue, Heartbeat
  <1>2. ASSUME NEW w \in Workers, NEW p \in Phases, Go(w, p)
        PROVE  worker' \in [Workers -> Worker]
    <2>1. worker' = [worker EXCEPT ![w] = [worker[w] EXCEPT !.phase = p]]
      BY <1>2 DEF Go
    <2> QED  BY <2>1, <1>a, <1>c, WorkerRows
  <1>3. ASSUME NEW w \in Workers, Rest(w) PROVE worker' \in [Workers -> Worker]
    BY <1>3, <1>a, <1>c, WorkerRows DEF Rest
  <1>4. ASSUME NEW w \in Workers,
               \/ EnsureRun(w) \/ \E skipped \in SUBSET Days : SupersedeOlder(w, skipped)
               \/ RecoverRun(w) \/ EnterApply(w) \/ StageFeed(w) \/ CheckSchedule(w)
        PROVE  worker' \in [Workers -> Worker]
    <2>1. \E p \in Phases : Go(w, p)
      BY <1>4 DEF EnsureRun, SupersedeOlder, RecoverRun, EnterApply, StageFeed,
                  CheckSchedule, Phases, Polling, Executing, Applying
    <2> QED  BY <2>1, <1>2
  <1>5. ASSUME NEW w \in Workers,
               \/ NothingToClaim(w) \/ CommitFeed(w) \/ CommitSuperseded(w)
               \/ RecordFailure(w) \/ LeaseLost(w) \/ LoseWorker(w)
        PROVE  worker' \in [Workers -> Worker]
    BY <1>5, <1>3 DEF NothingToClaim, CommitFeed, CommitSuperseded, RecordFailure,
                      LeaseLost, LoseWorker
  <1>6. ASSUME NEW w \in Workers, Poll(w) PROVE worker' \in [Workers -> Worker]
    <2>1. today \in Days
      BY DEF TypeOK
    <2> QED  BY <1>6, <2>1, <1>a, <1>c, WorkerRows DEF Poll
  <1>7. ASSUME NEW w \in Workers, ClaimRun(w) PROVE worker' \in [Workers -> Worker]
    <2> DEFINE n == run[worker[w].day].attempts + 1
    <2>1. worker' = [worker EXCEPT ![w] = [worker[w] EXCEPT !.phase = "fetching",
                                                            !.attempt = n]]
      BY <1>7, <1>a DEF ClaimRun, TypeOK
    <2>2. worker[w].day \in Days
      BY <1>a DEF Worker
    <2>3. n \in 0..MaxAttempts
      BY <1>7, <2>2, GoodRows, ClaimedRows DEF ClaimRun, Claimable, TypeOK
    <2> QED  BY <2>1, <2>3, <1>a, <1>c, WorkerRows
  <1>8. ASSUME NEW w \in Workers, FetchFeed(w) PROVE worker' \in [Workers -> Worker]
    <2>1. worker' = [worker EXCEPT ![w] = [worker[w] EXCEPT !.phase = "fetched",
                                                            !.rows = upstream]]
      BY <1>8, <1>a DEF FetchFeed, TypeOK
    <2> QED  BY <2>1, <1>a, <1>c, WorkerRows DEF TypeOK
  <1>9. ASSUME NEW w \in Workers, NEW retryable \in BOOLEAN,
               FetchFails(w, retryable) \/ ApplyFails(w, retryable)
        PROVE  worker' \in [Workers -> Worker]
    <2>1. worker' = [worker EXCEPT ![w] = [worker[w] EXCEPT !.phase = "failing",
                                                            !.retry = retryable]]
      BY <1>9, <1>a DEF FetchFails, ApplyFails, TypeOK
    <2> QED  BY <2>1, <1>a, <1>c, WorkerRows
  <1> QED
    BY <1>1, <1>4, <1>5, <1>6, <1>7, <1>8, <1>9 DEF Next, WorkerNext

-----------------------------------------------------------------------------
(* What a step can do to one run and to one process.                       *)

\* The fields a claim is recognised by.
SameClaim(r, s) == s.status = r.status /\ s.by = r.by /\ s.attempts = r.attempts

\* Why the owner of a claim fails its run.
GivesUp(w, d) ==
    \/ Superseded(d) \/ worker[w].phase = "late"
    \/ /\ worker[w].phase = "failing"
       /\ ~(worker[w].retry /\ run[d].attempts < MaxAttempts)

\* Nobody but its owner touches a run that is being applied, and a day that
\* ended stays as it is.  A run fails without its owner when no attempt is
\* left or a process polls for a later day.
RunChange(d) ==
    \/ SameClaim(run[d], run'[d]) /\ run[d].status \in RunActive
    \/ /\ run[d].status \in {"none", "queued", "retry_wait"}
       /\ run'[d].status \in {"queued", "running"}
       /\ \E w \in Workers : worker[w].day = d
    \/ /\ ~Locked(d)
       /\ run[d].status \in RunActive
       /\ run'[d].status \in {"retry_wait", "failed"}
       /\ run'[d].status = "failed" =>
             ~(run[d].attempts < MaxAttempts) \/ \E w \in Workers : d < worker[w].day
    \/ \E w \in Workers : /\ worker[w].day = d
                          /\ ClaimOwns(w)
                          /\ worker'[w] = Idle
                          /\ run'[d].status \in {"retry_wait", "failed", "succeeded"}
                          /\ run'[d].status = "failed" => GivesUp(w, d)

\* A run changes in one of the four ways of RunChange only.
LEMMA RunChanges ==
    ASSUME TypeOK, AttemptsLeft, ApplyingIsOwned, Next,
           NEW d \in Days, run'[d] # run[d]
    PROVE  RunChange(d)
  <1>a. /\ run \in [Days -> RunRow]
        /\ \A e \in Days : run[e] \in RunRow /\ GoodRow(run[e])
        /\ worker \in [Workers -> Worker]
        /\ \A w \in Workers : worker[w].day \in Days /\ worker[w].retry \in BOOLEAN
    BY GoodRows DEF TypeOK, Worker
  <1>1. ASSUME \/ Midnight \/ Publish
               \/ \E w \in Workers : RunsUnchanged(w)
        PROVE  FALSE
    BY <1>1, RunsUnchangedFacts DEF Midnight, Publish
  <1>2. ASSUME NEW e \in Days, ExpireLease(e) \/ RetryDue(e) PROVE RunChange(d)
    <2>1. \/ run' = [run EXCEPT ![e].lease = "stale"]
          \/ run' = [run EXCEPT ![e].due = TRUE]
      BY <1>2 DEF ExpireLease, RetryDue
    <2>2. run[e].status \in RunActive
      BY <1>2 DEF ExpireLease, RetryDue, RunActive
    <2>3. d = e
      BY <2>1, <1>a
    <2>4. SameClaim(run[d], run'[d])
      BY <2>1, <2>3, <1>a DEF SameClaim, RunRow
    <2> QED  BY <2>2, <2>3, <2>4 DEF RunChange
  <1>3. ASSUME NEW w \in Workers, EnsureRun(w) PROVE RunChange(d)
    <2>1. /\ run[d].status = "none" /\ worker[w].day = d
          /\ run'[d] = [run[d] EXCEPT !.status = "queued"]
      BY <1>3, <1>a DEF EnsureRun
    <2> QED  BY <2>1, <1>a DEF RunChange, RunRow
  <1>4. ASSUME NEW w \in Workers, NEW skipped \in SUBSET Days,
               SupersedeOlder(w, skipped)
        PROVE  RunChange(d)
    <2>1. /\ ~Locked(d)
          /\ run[d].status \in RunActive /\ d < worker[w].day
          /\ run'[d] = Terminalized(run[d])
      BY <1>4 DEF SupersedeOlder
    <2> QED  BY <2>1, <1>a, EndedRows DEF RunChange
  <1>5. ASSUME NEW w \in Workers, RecoverRun(w) PROVE RunChange(d)
    <2>1. /\ ~Locked(d)
          /\ run[d].status = "running"
          /\ run'[d] = AfterFailure(run[d], TRUE)
      BY <1>5, <1>a DEF RecoverRun
    <2> QED  BY <2>1, <1>a, EndedRows DEF RunChange, RunActive
  <1>6. ASSUME NEW w \in Workers, ClaimRun(w) PROVE RunChange(d)
    <2>1. /\ run[d].status \in {"queued", "retry_wait"} /\ worker[w].day = d
          /\ run'[d].status = "running"
      BY <1>6, <1>a DEF ClaimRun, Claimable
    <2> QED  BY <2>1 DEF RunChange
  <1>7. ASSUME NEW w \in Workers, Heartbeat(w) PROVE RunChange(d)
    <2>1. /\ d = worker[w].day
          /\ run'[d] = [run[d] EXCEPT !.lease = "fresh"]
          /\ run[d].status = "running"
      BY <1>7, <1>a DEF Heartbeat, ClaimOwns
    <2> QED  BY <2>1, <1>a DEF RunChange, SameClaim, RunRow, RunActive
  <1>8. ASSUME NEW w \in Workers, CommitFeed(w) PROVE RunChange(d)
    <2>1. ClaimOwns(w)
      BY <1>8 DEF CommitFeed, ApplyingIsOwned, Applying
    <2>2. /\ d = worker[w].day
          /\ run'[d] = [run[d] EXCEPT !.status = "succeeded", !.lease = "none"]
          /\ worker'[w] = Idle
      BY <1>8, <1>a DEF CommitFeed, Rest
    <2>3. run'[d].status = "succeeded"
      BY <2>2, <1>a DEF RunRow
    <2> QED  BY <2>1, <2>2, <2>3 DEF RunChange
  <1>9. ASSUME NEW w \in Workers, CommitSuperseded(w) PROVE RunChange(d)
    <2>1. /\ d = worker[w].day
          /\ run'[d] = Terminalized(run[d])
          /\ worker'[w] = Idle
          /\ ClaimOwns(w) /\ GivesUp(w, d)
      BY <1>9, <1>a DEF CommitSuperseded, Rest, GivesUp
    <2> QED  BY <2>1, <1>a, EndedRows DEF RunChange
  <1>10. ASSUME NEW w \in Workers, RecordFailure(w) PROVE RunChange(d)
    <2>1. /\ d = worker[w].day
          /\ run'[d] = AfterFailure(run[d], worker[w].retry)
          /\ worker'[w] = Idle
          /\ ClaimOwns(w) /\ worker[w].phase = "failing"
      BY <1>10, <1>a DEF RecordFailure, Rest
    <2>2. run'[d].status = "failed" => GivesUp(w, d)
      BY <2>1, <1>a, EndedRows DEF GivesUp
    <2>3. run'[d].status \in {"retry_wait", "failed"}
      BY <2>1, <1>a, EndedRows
    <2> QED  BY <2>1, <2>2, <2>3 DEF RunChange
  <1> QED
    BY <1>1, <1>2, <1>3, <1>4, <1>5, <1>6, <1>7, <1>8, <1>9, <1>10
    DEF Next, WorkerNext, RunsUnchanged

\* A run that exists goes on existing.
LEMMA RunsStay ==
    ASSUME TypeOK, AttemptsLeft, ApplyingIsOwned, Next,
           NEW d \in Days, run[d].status # "none"
    PROVE  run'[d].status # "none"
  <1>1. CASE run'[d] = run[d]
    BY <1>1
  <1>2. CASE run'[d] # run[d]
    <2>1. RunChange(d)
      BY <1>2, RunChanges
    <2> QED  BY <2>1 DEF RunChange, SameClaim
  <1> QED  BY <1>1, <1>2

\* A day that ended stays as it is.
LEMMA EndedStay ==
    ASSUME TypeOK, AttemptsLeft, ApplyingIsOwned, Next,
           NEW d \in Days, run[d].status \in RunTerminal
    PROVE  run'[d] = run[d]
  <1>1. SUFFICES ASSUME run'[d] # run[d] PROVE FALSE
    OBVIOUS
  <1>2. RunChange(d)
    BY <1>1, RunChanges
  <1> QED  BY <1>2 DEF RunChange, RunActive, RunTerminal, ClaimOwns

\* The steps that move a process.
Moves(v) ==
    \/ Poll(v) \/ EnsureRun(v)
    \/ \E skipped \in SUBSET Days : SupersedeOlder(v, skipped)
    \/ RecoverRun(v) \/ ClaimRun(v) \/ NothingToClaim(v) \/ FetchFeed(v)
    \/ \E retryable \in BOOLEAN : FetchFails(v, retryable) \/ ApplyFails(v, retryable)
    \/ EnterApply(v) \/ StageFeed(v) \/ CheckSchedule(v) \/ CommitFeed(v)
    \/ CommitSuperseded(v) \/ RecordFailure(v) \/ LeaseLost(v) \/ LoseWorker(v)

\* A process moves by a step of its own.
LEMMA Mover ==
    ASSUME TypeOK, Next, NEW v \in Workers, worker'[v] # worker[v]
    PROVE  Moves(v)
  <1>1. CASE \/ Midnight \/ Publish
             \/ \E d \in Days : ExpireLease(d) \/ RetryDue(d)
             \/ \E w \in Workers : Heartbeat(w)
    BY <1>1 DEF Midnight, Publish, ExpireLease, RetryDue, Heartbeat
  <1>2. ASSUME NEW w \in Workers, Moves(w) PROVE w = v
    <2>1. \E r : worker' = [worker EXCEPT ![w] = r]
      BY <1>2
      DEF Moves, Go, Rest, Poll, EnsureRun, SupersedeOlder, RecoverRun, ClaimRun,
          NothingToClaim, FetchFeed, FetchFails, ApplyFails, EnterApply, StageFeed,
          CheckSchedule, CommitFeed, CommitSuperseded, RecordFailure, LeaseLost,
          LoseWorker
    <2> QED  BY <2>1 DEF TypeOK
  <1> QED  BY <1>1, <1>2 DEF Next, WorkerNext, Moves

\* What a process carries from one phase of a claim to the next.
Keeps(v) ==
    /\ worker'[v].day = worker[v].day
    /\ worker'[v].attempt = worker[v].attempt
    /\ worker'[v].rows = worker[v].rows

\* The steps towards a commit leave everything else alone.
Advances(v, from, to) ==
    /\ worker[v].phase = from
    /\ worker'[v].phase = to
    /\ Keeps(v)
    /\ UNCHANGED <<upstream, run, applied>>
    /\ \A w \in Workers \ {v} : worker'[w] = worker[w]

WorkerChange(v) ==
    \/ worker'[v].phase \notin Executing /\ worker'[v].rows = Null
    \/ /\ worker[v].phase \in Executing \/ run'[worker[v].day].status # "none"
       /\ worker'[v].phase \in {"fetching", "failing"}
       /\ worker'[v].day = worker[v].day
       /\ worker'[v].rows = worker[v].rows
    \/ /\ worker[v].phase = "fetching"
       /\ worker'[v].phase = "fetched"
       /\ worker'[v].day = worker[v].day
       /\ worker'[v].rows = upstream
    \/ /\ Advances(v, "fetched", "owned")
       /\ ClaimOwns(v) /\ ~Superseded(worker[v].day)
    \/ Advances(v, "owned", "staged") /\ ~ScopeLocked
    \/ Advances(v, "staged", "late")
    \/ Advances(v, "staged", "checked") /\ ~Superseded(worker[v].day)

\* A process that moves leaves the claim, or takes the next step of it.
LEMMA WorkerChanges ==
    ASSUME TypeOK, ExecutesARun, Next, NEW v \in Workers, worker'[v] # worker[v]
    PROVE  WorkerChange(v)
  <1>a. /\ worker \in [Workers -> Worker]
        /\ worker[v] \in Worker
        /\ worker[v].day \in Days
        /\ run \in [Days -> RunRow]
        /\ worker[v].phase \notin Executing => worker[v].rows = Null
    BY DEF TypeOK, Worker, ExecutesARun
  <1>b. Moves(v)
    BY Mover
  <1>c. ASSUME NEW p, Go(v, p)
        PROVE  /\ worker'[v].phase = p
               /\ Keeps(v)
               /\ \A w \in Workers \ {v} : worker'[w] = worker[w]
    BY <1>a, <1>c DEF Go, Keeps, Worker
  <1>1. CASE \/ NothingToClaim(v) \/ CommitFeed(v) \/ CommitSuperseded(v)
             \/ RecordFailure(v) \/ LeaseLost(v) \/ LoseWorker(v)
    <2>1. worker'[v] = Idle
      BY <1>1, <1>a DEF NothingToClaim, CommitFeed, CommitSuperseded, RecordFailure,
                        LeaseLost, LoseWorker, Rest
    <2> QED  BY <2>1 DEF WorkerChange, Idle, Executing, Applying
  <1>2. CASE Poll(v)
    BY <1>2, <1>a DEF Poll, WorkerChange, Idle, Executing, Applying
  <1>3. CASE \/ EnsureRun(v) \/ \E skipped \in SUBSET Days : SupersedeOlder(v, skipped)
             \/ RecoverRun(v)
    <2>1. /\ worker[v].phase \in Polling
          /\ \E p \in Polling : Go(v, p)
      BY <1>3 DEF EnsureRun, SupersedeOlder, RecoverRun, Polling
    <2>2. \A p \in Polling : p \notin Executing
      BY DEF Polling, Executing, Applying
    <2> QED  BY <2>1, <2>2, <1>a, <1>c DEF WorkerChange, Keeps
  <1>4. CASE ClaimRun(v)
    <2>1. run'[worker[v].day].status = "running"
      BY <1>4, <1>a DEF ClaimRun
    <2>2. /\ worker'[v].phase = "fetching"
          /\ worker'[v].day = worker[v].day
          /\ worker'[v].rows = worker[v].rows
      BY <1>4, <1>a DEF ClaimRun, Worker
    <2> QED  BY <2>1, <2>2 DEF WorkerChange
  <1>5. CASE FetchFeed(v)
    BY <1>5, <1>a DEF FetchFeed, WorkerChange, Worker
  <1>6. CASE \E retryable \in BOOLEAN : FetchFails(v, retryable) \/ ApplyFails(v, retryable)
    <2>1. worker[v].phase \in Executing
      BY <1>6 DEF FetchFails, ApplyFails, Executing
    <2>2. /\ worker'[v].phase = "failing"
          /\ worker'[v].day = worker[v].day
          /\ worker'[v].rows = worker[v].rows
      BY <1>6, <1>a DEF FetchFails, ApplyFails, Worker
    <2> QED  BY <2>1, <2>2 DEF WorkerChange
  <1>7. CASE EnterApply(v)
    BY <1>7, <1>c DEF EnterApply, WorkerChange, Advances
  <1>8. CASE StageFeed(v)
    BY <1>8, <1>c DEF StageFeed, WorkerChange, Advances
  <1>9. CASE CheckSchedule(v)
    <2>1. CASE Superseded(worker[v].day) /\ Go(v, "late")
      BY <2>1, <1>9, <1>c DEF CheckSchedule, WorkerChange, Advances
    <2>2. CASE ~Superseded(worker[v].day) /\ Go(v, "checked")
      BY <2>2, <1>9, <1>c DEF CheckSchedule, WorkerChange, Advances
    <2> QED  BY <2>1, <2>2, <1>9 DEF CheckSchedule
  <1> QED
    BY <1>b, <1>1, <1>2, <1>3, <1>4, <1>5, <1>6, <1>7, <1>8, <1>9 DEF Moves

\* A commit: the last run to be applied changes with its run and its process.
Commits(v) ==
    /\ worker[v].phase = "checked"
    /\ run'[worker[v].day].status = "succeeded"
    /\ applied' = [day |-> worker[v].day, rows |-> worker[v].rows]
    /\ worker'[v] = Idle
    /\ \A w \in Workers \ {v} : worker'[w] = worker[w]

\* Days and feeds only grow, and only a commit changes what was applied.
LEMMA WorldChange ==
    ASSUME TypeOK, Next
    PROVE  /\ today' \in Days
           /\ upstream' \in Versions /\ upstream <= upstream'
           /\ applied' = applied \/ \E v \in Workers : Commits(v)
  <1>a. /\ today \in Days /\ upstream \in Versions
        /\ run \in [Days -> RunRow]
        /\ worker \in [Workers -> Worker]
        /\ \A w \in Workers : worker[w].day \in Days
    BY DEF TypeOK, Worker
  <1>b. upstream <= upstream
    BY <1>a, EarlyBidSyncAssumption DEF Versions
  <1>1. CASE Midnight
    BY <1>1, <1>a, <1>b, EarlyBidSyncAssumption DEF Midnight, Days
  <1>2. CASE Publish
    BY <1>2, <1>a, EarlyBidSyncAssumption DEF Publish, Versions
  <1>3. CASE \E d \in Days : ExpireLease(d) \/ RetryDue(d)
    BY <1>3, <1>a, <1>b DEF ExpireLease, RetryDue
  <1>4. ASSUME NEW v \in Workers, CommitFeed(v) PROVE
             /\ today' = today /\ upstream' = upstream /\ Commits(v)
    BY <1>4, <1>a DEF CommitFeed, Rest, Commits, RunRow
  <1>5. ASSUME NEW w \in Workers, WorkerNext(w), ~CommitFeed(w)
        PROVE  UNCHANGED <<today, upstream, applied>>
    BY <1>5
    DEF WorkerNext, Poll, EnsureRun, SupersedeOlder, RecoverRun, ClaimRun,
        NothingToClaim, Heartbeat, FetchFeed, FetchFails, ApplyFails, EnterApply,
        StageFeed, CheckSchedule, CommitSuperseded, RecordFailure, LeaseLost,
        LoseWorker
  <1> QED  BY <1>1, <1>2, <1>3, <1>4, <1>5, <1>a, <1>b DEF Next

-----------------------------------------------------------------------------
(* The inductive invariant, one conjunct at a time.                        *)

\* Every variable keeps its type.
LEMMA Typing ==
    ASSUME TypeOK, AttemptsLeft, ExecutesARun, Next
    PROVE  TypeOK'
  <1>1. run' \in [Days -> RunRow] /\ worker' \in [Workers -> Worker]
    BY RunTyping, WorkerTyping
  <1>2. today' \in Days /\ upstream' \in Versions
    BY WorldChange
  <1>3. applied' \in [day: Days \cup {Null}, rows: Versions]
    <2>1. CASE applied' = applied
      BY <2>1 DEF TypeOK
    <2>2. ASSUME NEW v \in Workers, Commits(v)
          PROVE  applied' \in [day: Days \cup {Null}, rows: Versions]
      <3>1. worker[v].day \in Days /\ worker[v].rows \in Versions \cup {Null}
        BY DEF TypeOK, Worker
      <3>2. worker[v].rows # Null
        BY <2>2 DEF Commits, ExecutesARun, Applying
      <3> QED  BY <2>2, <3>1, <3>2 DEF Commits
    <2> QED  BY <2>1, <2>2, WorldChange
  <1> QED  BY <1>1, <1>2, <1>3 DEF TypeOK

\* A process goes on executing a run that exists, with the rows it fetched.
LEMMA Executes ==
    ASSUME TypeOK, AttemptsLeft, ApplyingIsOwned, ExecutesARun, Next
    PROVE  ExecutesARun'
  <1> SUFFICES ASSUME NEW v \in Workers
               PROVE  /\ worker'[v].phase \in Executing
                           => run'[worker'[v].day].status # "none"
                      /\ worker'[v].phase \in {"fetched", "late"} \cup Applying
                           => worker'[v].rows # Null
                      /\ worker'[v].rows # Null => worker'[v].phase \in Executing
    BY DEF ExecutesARun
  <1>a. /\ worker[v].day \in Days
        /\ worker[v].phase \in Executing => run[worker[v].day].status # "none"
        /\ worker[v].phase \in {"fetched", "late"} \cup Applying => worker[v].rows # Null
        /\ worker[v].rows # Null => worker[v].phase \in Executing
        /\ upstream # Null
    BY EarlyBidSyncAssumption DEF TypeOK, Worker, ExecutesARun, Versions
  <1>b. worker[v].phase \in Executing => run'[worker[v].day].status # "none"
    BY <1>a, RunsStay
  <1>1. CASE worker'[v] = worker[v]
    BY <1>1, <1>a, <1>b
  <1>2. CASE worker'[v] # worker[v]
    <2>1. WorkerChange(v)
      BY <1>2, WorkerChanges
    <2> QED
      BY <2>1, <1>a, <1>b DEF WorkerChange, Advances, Keeps, Executing, Applying
  <1> QED  BY <1>1, <1>2

\* A run that is being applied stays with its owner: the others respect the
\* row lock, and the owner moves when it changes the run.
LEMMA StaysOwned ==
    ASSUME TypeOK, AttemptsLeft, ApplyingIsOwned, ExecutesARun, Next
    PROVE  ApplyingIsOwned'
  <1> SUFFICES ASSUME NEW v \in Workers, worker'[v].phase \in Applying
               PROVE  ClaimOwns(v)'
    BY DEF ApplyingIsOwned
  <1> DEFINE d == worker[v].day
  <1>a. d \in Days
    BY DEF TypeOK, Worker
  <1>1. CASE worker'[v] = worker[v]
    <2>1. ClaimOwns(v) /\ Locked(d)
      BY <1>1 DEF ApplyingIsOwned, Locked
    <2>2. CASE run'[d] = run[d]
      BY <1>1, <2>1, <2>2 DEF ClaimOwns
    <2>3. CASE RunChange(d)
      <3>1. ASSUME NEW w \in Workers, worker[w].day = d, ClaimOwns(w), worker'[w] = Idle
            PROVE  FALSE
        <4>1. w = v
          BY <2>1, <3>1 DEF ClaimOwns
        <4> QED  BY <4>1, <3>1 DEF Idle, Applying
      <3>2. SameClaim(run[d], run'[d])
        BY <2>1, <2>3, <3>1 DEF RunChange, ClaimOwns
      <3> QED  BY <1>1, <2>1, <3>2 DEF SameClaim, ClaimOwns
    <2> QED  BY <1>a, <2>2, <2>3, RunChanges
  <1>2. CASE worker'[v] # worker[v]
    <2>1. WorkerChange(v)
      BY <1>2, WorkerChanges
    <2>2. ClaimOwns(v) /\ Keeps(v) /\ run' = run
      BY <2>1 DEF WorkerChange, Advances, Applying, Executing, ApplyingIsOwned
    <2> QED  BY <2>2 DEF ClaimOwns, Keeps
  <1> QED  BY <1>1, <1>2

\* The feed's lock keeps the others out, and the second look at the schedule
\* finds no later run, so what was applied before is of an earlier day.
LEMMA StaysAlone ==
    ASSUME TypeOK, ApplyingIsOwned, ExecutesARun, OneApplies, AppliedSucceeded, Next
    PROVE  OneApplies'
  <1> DEFINE InScope(w) == worker[w].phase \in {"staged", "checked"}
             InScopeNext(w) == worker'[w].phase \in {"staged", "checked"}
  <1>a. \A w \in Workers : InScopeNext(w) =>
          \/ InScope(w)
          \/ ~ScopeLocked /\ \A u \in Workers \ {w} : worker'[u] = worker[u]
    <2> SUFFICES ASSUME NEW w \in Workers, InScopeNext(w), ~InScope(w)
                 PROVE  ~ScopeLocked /\ \A u \in Workers \ {w} : worker'[u] = worker[u]
      OBVIOUS
    <2>1. WorkerChange(w)
      BY WorkerChanges
    <2> QED  BY <2>1 DEF WorkerChange, Advances, Executing, Applying
  <1>1. ASSUME NEW v \in Workers, NEW w \in Workers, InScopeNext(v), InScopeNext(w)
        PROVE  v = w
    BY <1>1, <1>a DEF OneApplies, ScopeLocked
  <1>2. ASSUME NEW v \in Workers, worker'[v].phase = "checked"
        PROVE  applied'.day = Null \/ applied'.day < worker'[v].day
    <2>1. InScope(v)
      BY <1>2, WorkerChanges DEF WorkerChange, Advances, Executing, Applying
    <2>2. applied' = applied
      <3> SUFFICES ASSUME NEW w \in Workers, Commits(w) PROVE FALSE
        BY WorldChange
      <3>1. w = v
        BY <2>1 DEF Commits, OneApplies
      <3> QED  BY <1>2, <3>1 DEF Commits, Idle
    <2>3. CASE worker'[v] = worker[v]
      BY <1>2, <2>2, <2>3 DEF OneApplies
    <2>4. CASE worker'[v] # worker[v]
      <3>1. /\ worker[v].phase = "staged" /\ worker'[v].day = worker[v].day
            /\ ~Superseded(worker[v].day)
        BY <1>2, <2>4, WorkerChanges
        DEF WorkerChange, Advances, Keeps, Executing, Applying
      <3>2. run[worker[v].day].status = "running"
        BY <3>1 DEF ApplyingIsOwned, Applying, ClaimOwns
      <3>3. worker[v].day \in Days /\ applied.day \in Days \cup {Null}
        BY DEF TypeOK, Worker
      <3>4. applied.day # Null =>
              applied.day # worker[v].day /\ ~(applied.day > worker[v].day)
        BY <3>1, <3>2, <3>3 DEF AppliedSucceeded, Superseded
      <3> QED  BY <2>2, <3>1, <3>3, <3>4, EarlyBidSyncAssumption DEF Days
    <2> QED  BY <2>3, <2>4
  <1> QED  BY <1>1, <1>2 DEF OneApplies

\* What was applied last comes from a run that ended, and that stays.
LEMMA StaysSucceeded ==
    ASSUME TypeOK, AttemptsLeft, ApplyingIsOwned, AppliedSucceeded, Next
    PROVE  AppliedSucceeded'
  <1>a. /\ applied.day \in Days \cup {Null}
        /\ \A w \in Workers : worker[w].day \in Days /\ worker[w].day # Null
    BY EarlyBidSyncAssumption DEF TypeOK, Worker, Days
  <1>1. CASE applied' = applied
    <2>1. CASE applied.day = Null
      BY <1>1, <2>1 DEF AppliedSucceeded
    <2>2. CASE applied.day # Null
      <3>1. run'[applied.day] = run[applied.day]
        BY <2>2, <1>a, EndedStay DEF AppliedSucceeded, RunTerminal
      <3> QED  BY <1>1, <2>2, <3>1 DEF AppliedSucceeded
    <2> QED  BY <2>1, <2>2
  <1>2. ASSUME NEW v \in Workers, Commits(v) PROVE AppliedSucceeded'
    BY <1>2, <1>a DEF Commits, AppliedSucceeded
  <1> QED  BY <1>1, <1>2, WorldChange

\* A process that fetches sees the newest feed; one that starts to apply is
\* not overtaken by a later day; so feeds keep growing with the day.
LEMMA StaysGrowing ==
    ASSUME TypeOK, ExecutesARun, FeedsGrow, Next
    PROVE  FeedsGrow'
  <1>a. /\ upstream \in Nat /\ upstream' \in Nat /\ applied.rows \in Nat
        /\ upstream <= upstream' /\ applied.rows <= upstream
        /\ \A w \in Workers : /\ worker[w].rows # Null => worker[w].rows \in Nat
                              /\ worker[w].day \in Days
    BY WorldChange, EarlyBidSyncAssumption DEF TypeOK, Worker, Versions, FeedsGrow
  <1>b. Null \notin Nat
    BY EarlyBidSyncAssumption
  <1>c. \A w \in Workers : worker[w].phase \in Applying => worker[w].rows # Null
    BY DEF ExecutesARun
  \* A process that holds rows kept them, or just fetched them.
  <1>d. \A w \in Workers : worker'[w].rows # Null =>
          /\ worker'[w].day = worker[w].day
          /\ \/ worker'[w].rows = worker[w].rows
             \/ worker'[w].phase = "fetched" /\ worker'[w].rows = upstream
    BY WorkerChanges DEF WorkerChange, Advances, Keeps
  \* A process that applies a feed did so before, or enters now.
  <1>e. \A v \in Workers : worker'[v].phase \in Applying =>
          /\ worker'[v].day = worker[v].day /\ worker'[v].rows = worker[v].rows
          /\ worker[v].rows # Null
          /\ \/ worker[v].phase \in Applying
             \/ /\ ~Superseded(worker[v].day)
                /\ \A w \in Workers \ {v} : worker'[w] = worker[w]
    <2> SUFFICES ASSUME NEW v \in Workers, worker'[v].phase \in Applying
                 PROVE  /\ worker'[v].day = worker[v].day /\ worker'[v].rows = worker[v].rows
                        /\ worker[v].rows # Null
                        /\ \/ worker[v].phase \in Applying
                           \/ /\ ~Superseded(worker[v].day)
                              /\ \A w \in Workers \ {v} : worker'[w] = worker[w]
      OBVIOUS
    <2>1. CASE worker'[v] = worker[v]
      BY <2>1, <1>c
    <2>2. CASE worker'[v] # worker[v]
      <3>1. WorkerChange(v)
        BY <2>2, WorkerChanges
      <3> QED
        BY <3>1 DEF WorkerChange, Advances, Keeps, Executing, Applying, ExecutesARun
    <2> QED  BY <2>1, <2>2
  <1>1. applied'.rows <= upstream'
    <2>1. CASE applied' = applied
      BY <2>1, <1>a
    <2>2. ASSUME NEW v \in Workers, Commits(v) PROVE applied'.rows <= upstream'
      <3>1. worker[v].rows # Null /\ applied'.rows = worker[v].rows
        BY <2>2, <1>c DEF Commits, Applying
      <3> QED  BY <3>1, <1>a DEF FeedsGrow
    <2> QED  BY <2>1, <2>2, WorldChange
  <1>2. ASSUME NEW w \in Workers, worker'[w].rows # Null
        PROVE  worker'[w].rows <= upstream'
    <2>1. worker'[w].rows <= upstream
      BY <1>2, <1>a, <1>d DEF FeedsGrow
    <2>2. worker'[w].rows \in Nat
      BY <1>2, <1>a, <1>d
    <2> QED  BY <2>1, <2>2, <1>a
  <1>3. ASSUME NEW w \in Workers, worker'[w].rows # Null,
               applied'.day # Null, applied'.day < worker'[w].day
        PROVE  applied'.rows <= worker'[w].rows
    <2>1. CASE applied' = applied
      BY <1>3, <2>1, <1>a, <1>d DEF FeedsGrow
    <2>2. ASSUME NEW v \in Workers, Commits(v)
          PROVE  applied'.rows <= worker'[w].rows
      <3>1. worker'[w] = worker[w]
        BY <1>3, <2>2 DEF Commits, Idle
      <3>2. /\ worker[v].phase \in Applying /\ worker[v].day < worker[w].day
            /\ applied'.rows = worker[v].rows
        BY <1>3, <2>2, <3>1 DEF Commits, Applying
      <3> QED  BY <1>3, <3>1, <3>2 DEF FeedsGrow
    <2> QED  BY <2>1, <2>2, WorldChange
  <1>4. ASSUME NEW w \in Workers, worker'[w].rows # Null,
               NEW v \in Workers, worker'[v].phase \in Applying,
               worker'[v].day < worker'[w].day
        PROVE  worker'[v].rows <= worker'[w].rows
    <2>1. /\ worker[v].day < worker[w].day
          /\ worker'[v].rows = worker[v].rows
          /\ worker[v].rows <= upstream
      BY <1>4, <1>d, <1>e DEF FeedsGrow
    <2>2. CASE worker'[w].rows = upstream
      BY <2>1, <2>2
    <2>3. CASE worker'[w].rows = worker[w].rows /\ worker[v].phase \in Applying
      BY <1>4, <2>1, <2>3 DEF FeedsGrow
    <2>4. CASE worker'[w].rows = worker[w].rows /\ ~Superseded(worker[v].day)
      <3>1. worker[w].phase \in Executing
        BY <1>4, <2>4 DEF ExecutesARun
      <3>2. run[worker[w].day].status # "none"
        BY <3>1 DEF ExecutesARun
      <3>3. ~(worker[w].day > worker[v].day)
        BY <2>4, <3>2, <1>a DEF Superseded
      <3> QED  BY <2>1, <3>3, <1>a, EarlyBidSyncAssumption DEF Days
    <2> QED  BY <1>4, <1>d, <1>e, <2>2, <2>3, <2>4
  <1> QED  BY <1>1, <1>2, <1>3, <1>4 DEF FeedsGrow

-----------------------------------------------------------------------------
(* The theorems.                                                           *)

\* The invariant holds when the scheduler is deployed.
LEMMA Starts == Init => SyncInv
  <1> SUFFICES ASSUME Init PROVE SyncInv
    OBVIOUS
  <1>1. /\ 0 \in Days /\ 0 \in Versions /\ 0 \in 0..MaxAttempts /\ 0 <= 0
        /\ Null \notin Nat
    BY EarlyBidSyncAssumption DEF Days, Versions
  <1>2. NoRun \in RunRow /\ Idle \in Worker
    BY <1>1 DEF NoRun, RunRow, Idle, Worker
  <1>3. TypeOK
    BY <1>1, <1>2 DEF Init, TypeOK
  <1>4. AttemptsLeft /\ ExecutesARun /\ ApplyingIsOwned /\ OneApplies
    BY DEF Init, AttemptsLeft, ExecutesARun, ApplyingIsOwned, OneApplies, NoRun, Idle,
           Applying, Executing
  <1>5. AppliedSucceeded /\ FeedsGrow
    BY <1>1 DEF Init, AppliedSucceeded, FeedsGrow, Idle
  <1> QED  BY <1>3, <1>4, <1>5 DEF SyncInv

\* Every step keeps it.
LEMMA StepKeepsSyncInv ==
    ASSUME SyncInv, [Next]_vars
    PROVE  SyncInv'
  <1>1. CASE Next
    BY <1>1, Typing, RunTyping, Executes, StaysOwned, StaysAlone, StaysSucceeded,
       StaysGrowing
    DEF SyncInv
  <1>2. CASE UNCHANGED vars
    BY <1>2 DEF vars, SyncInv, TypeOK, AttemptsLeft, ExecutesARun, ApplyingIsOwned,
                ClaimOwns, OneApplies, AppliedSucceeded, FeedsGrow
  <1> QED  BY <1>1, <1>2

\* The inductive invariant of the daily synchronization.
THEOREM SyncInvariant == Spec => []SyncInv
  BY Starts, StepKeepsSyncInv, PTL DEF Spec

\* Runs, processes and attempt counters keep their types; in particular no
\* run is attempted more than MaxAttempts times.
THEOREM SyncTyping == Spec => []TypeOK
  <1>1. SyncInv => TypeOK
    BY DEF SyncInv
  <1> QED  BY <1>1, SyncInvariant, PTL

\* Nothing recovers, supersedes or finishes a run while its feed is applied.
THEOREM Ownership == Spec => []ApplyingIsOwned
  <1>1. SyncInv => ApplyingIsOwned
    BY DEF SyncInv
  <1> QED  BY <1>1, SyncInvariant, PTL

\* Scheduled feeds reach the leads in calendar order, at most one per day,
\* and never bring an older feed than the one before.
THEOREM CalendarOrder == Spec => AppliedInOrder
  <1>1. ASSUME SyncInv, [Next]_vars, applied' # applied
        PROVE  /\ applied.day = Null \/ applied.day < applied'.day
               /\ applied.rows <= applied'.rows
    <2>1. PICK v \in Workers : Commits(v)
      BY <1>1, WorldChange DEF SyncInv, vars
    <2>2. /\ worker[v].phase \in Applying
          /\ applied'.day = worker[v].day /\ applied'.rows = worker[v].rows
          /\ applied.day = Null \/ applied.day < worker[v].day
      BY <1>1, <2>1 DEF Commits, Applying, SyncInv, OneApplies
    <2>3. worker[v].rows # Null
      BY <1>1, <2>2 DEF SyncInv, ExecutesARun
    <2>4. worker[v].rows \in Nat
      BY <1>1, <2>3, EarlyBidSyncAssumption DEF SyncInv, TypeOK, Worker, Versions
    <2>5. applied.rows <= worker[v].rows
      <3>1. CASE applied.day = Null
        BY <1>1, <2>4, <3>1 DEF SyncInv, AppliedSucceeded
      <3>2. CASE applied.day # Null
        BY <1>1, <2>2, <2>3, <3>2 DEF SyncInv, FeedsGrow
      <3> QED  BY <3>1, <3>2
    <2> QED  BY <2>2, <2>5
  <1> QED  BY <1>1, SyncInvariant, PTL DEF Spec, AppliedInOrder

\* A day that ended, in success or failure, is never run again.
THEOREM FinalDays == Spec => DayIsFinal
  <1>1. ASSUME SyncInv, [Next]_vars
        PROVE  \A d \in Days : run[d].status \in RunTerminal => run'[d] = run[d]
    <2>1. CASE Next
      BY <1>1, <2>1, EndedStay DEF SyncInv
    <2>2. CASE UNCHANGED vars
      BY <2>2 DEF vars
    <2> QED  BY <1>1, <2>1, <2>2
  <1> QED  BY <1>1, SyncInvariant, PTL DEF Spec, DayIsFinal

-----------------------------------------------------------------------------
(* The budget.                                                             *)

\* Nobody works on a day that has not come, so a run that is too late is one
\* of a day that is over.
NotAhead ==
    /\ \A w \in Workers : worker[w].day <= today
    /\ \A d \in Days : run[d].status # "none" => d <= today
    /\ \A w \in Workers : worker[w].phase = "late" => worker[w].day < today

LEMMA SupersededIsOver ==
    ASSUME TypeOK, NotAhead, NEW d \in Days, Superseded(d)
    PROVE  d < today
  <1>1. \A e \in Days : e > d /\ run[e].status # "none" => d < today
    BY EarlyBidSyncAssumption DEF TypeOK, NotAhead, Days
  <1> QED  BY <1>1 DEF Superseded

\* A process takes up the day of its clock, and is late by the schedule.
LEMMA DayOfMover ==
    ASSUME TypeOK, Next, NEW v \in Workers, worker'[v] # worker[v]
    PROVE  /\ worker'[v].day \in {worker[v].day, today, 0}
           /\ worker'[v].phase = "late" =>
                 Superseded(worker[v].day) /\ worker'[v].day = worker[v].day
  <1>a. worker \in [Workers -> Worker] /\ worker[v] \in Worker
    BY DEF TypeOK
  <1>b. Moves(v)
    BY Mover
  <1>c. ASSUME NEW p, Go(v, p)
        PROVE  worker'[v].phase = p /\ worker'[v].day = worker[v].day
    BY <1>a, <1>c DEF Go, Worker
  <1>1. CASE \/ NothingToClaim(v) \/ CommitFeed(v) \/ CommitSuperseded(v)
             \/ RecordFailure(v) \/ LeaseLost(v) \/ LoseWorker(v)
    <2>1. worker'[v] = Idle
      BY <1>1, <1>a DEF NothingToClaim, CommitFeed, CommitSuperseded, RecordFailure,
                        LeaseLost, LoseWorker, Rest
    <2> QED  BY <2>1 DEF Idle
  <1>2. CASE Poll(v)
    BY <1>2, <1>a DEF Poll, Idle
  <1>3. CASE \/ EnsureRun(v) \/ \E skipped \in SUBSET Days : SupersedeOlder(v, skipped)
             \/ RecoverRun(v) \/ EnterApply(v) \/ StageFeed(v)
    <2>1. \E p \in Phases \ {"late"} : Go(v, p)
      BY <1>3 DEF EnsureRun, SupersedeOlder, RecoverRun, EnterApply, StageFeed,
                  Phases, Polling, Executing, Applying
    <2> QED  BY <2>1, <1>c
  <1>4. CASE ClaimRun(v) \/ FetchFeed(v)
    BY <1>4, <1>a DEF ClaimRun, FetchFeed, Worker
  <1>5. CASE \E retryable \in BOOLEAN : FetchFails(v, retryable) \/ ApplyFails(v, retryable)
    BY <1>5, <1>a DEF FetchFails, ApplyFails, Worker
  <1>6. CASE CheckSchedule(v)
    <2>1. CASE Superseded(worker[v].day) /\ Go(v, "late")
      BY <2>1, <1>c
    <2>2. CASE Go(v, "checked")
      BY <2>2, <1>c
    <2> QED  BY <2>1, <2>2, <1>6 DEF CheckSchedule
  <1> QED  BY <1>b, <1>1, <1>2, <1>3, <1>4, <1>5, <1>6 DEF Moves

LEMMA TimePasses ==
    ASSUME TypeOK, Next
    PROVE  today <= today' /\ today \in Nat /\ today' \in Nat
  <1>1. today \in Nat
    BY EarlyBidSyncAssumption DEF TypeOK, Days
  <1>2. today' \in {today, today + 1}
    BY DEF Next, Midnight, Publish, ExpireLease, RetryDue, WorkerNext, Poll, EnsureRun,
           SupersedeOlder, RecoverRun, ClaimRun, NothingToClaim, Heartbeat, FetchFeed,
           FetchFails, ApplyFails, EnterApply, StageFeed, CheckSchedule, CommitFeed,
           CommitSuperseded, RecordFailure, LeaseLost, LoseWorker
  <1> QED  BY <1>1, <1>2

LEMMA StaysNotAhead ==
    ASSUME SyncInv, NotAhead, Next
    PROVE  NotAhead'
  <1>a. /\ TypeOK /\ AttemptsLeft /\ ApplyingIsOwned
        /\ today <= today' /\ today \in Nat /\ today' \in Nat /\ Days \subseteq Nat
        /\ \A w \in Workers : worker[w].day \in Days
    BY TimePasses, EarlyBidSyncAssumption DEF SyncInv, TypeOK, Worker, Days
  <1>1. ASSUME NEW v \in Workers
        PROVE  /\ worker'[v].day <= today'
               /\ worker'[v].phase = "late" => worker'[v].day < today'
    <2> DEFINE d == worker[v].day
    <2>a. d \in Days /\ d \in Nat /\ d <= today /\ (worker[v].phase = "late" => d < today)
      BY <1>a DEF SyncInv, TypeOK, Worker, NotAhead
    <2>b. d <= today' /\ today <= today' /\ 0 <= today' /\ (d < today => d < today')
      BY <1>a, <2>a
    <2>1. CASE worker'[v] = worker[v]
      BY <2>1, <2>a, <2>b
    <2>2. CASE worker'[v] # worker[v]
      <3>1. /\ worker'[v].day \in {worker[v].day, today, 0}
            /\ worker'[v].phase = "late" =>
                  Superseded(worker[v].day) /\ worker'[v].day = worker[v].day
        BY <1>a, <2>2, DayOfMover
      <3>2. worker'[v].day <= today'
        BY <2>b, <3>1
      <3>3. worker'[v].phase = "late" => d < today
        BY <1>a, <2>a, <3>1, SupersededIsOver
      <3> QED  BY <2>b, <3>1, <3>2, <3>3
    <2> QED  BY <2>1, <2>2
  <1>2. ASSUME NEW d \in Days, run'[d].status # "none" PROVE d <= today'
    <2>1. CASE run'[d] = run[d] \/ run[d].status # "none"
      BY <1>2, <1>a, <2>1 DEF NotAhead
    <2>2. CASE run'[d] # run[d] /\ run[d].status = "none"
      <3>1. RunChange(d)
        BY <1>a, <2>2, RunChanges
      <3>2. \E w \in Workers : worker[w].day = d
        BY <2>2, <3>1 DEF RunChange, SameClaim, RunActive
      <3> QED  BY <1>a, <3>2 DEF NotAhead
    <2> QED  BY <2>1, <2>2
  <1> QED  BY <1>1, <1>2 DEF NotAhead

\* A day fails only with its budget used up, when it is over, or by its
\* owner's failure that must not be retried: no crash, lost lease or late
\* answer of another process ends it before.
THEOREM Budget == Spec => BudgetIsUsed
  <1>1. Init => NotAhead
    BY EarlyBidSyncAssumption DEF Init, NotAhead, Idle, NoRun, Days
  <1>2. SyncInv /\ NotAhead /\ [Next]_vars => NotAhead'
    <2>1. SyncInv /\ NotAhead /\ UNCHANGED vars => NotAhead'
      BY DEF vars, NotAhead
    <2> QED  BY <2>1, StaysNotAhead
  <1>3. ASSUME SyncInv, NotAhead, [Next]_vars
        PROVE  \A d \in Days :
                 run[d].status \in RunActive /\ run'[d].status = "failed" =>
                   \/ run[d].attempts = MaxAttempts
                   \/ d < today
                   \/ \E w \in Workers :
                        /\ worker[w].phase = "failing" /\ ~worker[w].retry
                        /\ worker[w].day = d /\ ClaimOwns(w)
    <2> SUFFICES ASSUME NEW d \in Days,
                        run[d].status \in RunActive, run'[d].status = "failed"
                 PROVE  \/ run[d].attempts = MaxAttempts
                        \/ d < today
                        \/ \E w \in Workers :
                             /\ worker[w].phase = "failing" /\ ~worker[w].retry
                             /\ worker[w].day = d /\ ClaimOwns(w)
      OBVIOUS
    <2>1. run'[d] # run[d]
      BY DEF RunActive
    <2>2. RunChange(d)
      BY <1>3, <2>1, RunChanges DEF SyncInv, vars
    <2>3. /\ run[d].attempts \in 0..MaxAttempts /\ TypeOK /\ Days \subseteq Nat
          /\ today \in Nat /\ \A w \in Workers : worker[w].day \in Nat
      BY <1>3, EarlyBidSyncAssumption DEF SyncInv, TypeOK, RunRow, Worker, Days
    <2>4. ~(run[d].attempts < MaxAttempts) => run[d].attempts = MaxAttempts
      BY <2>3, EarlyBidSyncAssumption
    <2>5. (\E w \in Workers : d < worker[w].day) => d < today
      BY <1>3, <2>3 DEF NotAhead
    <2>6. ASSUME NEW w \in Workers, worker[w].day = d, ClaimOwns(w), GivesUp(w, d)
          PROVE  \/ run[d].attempts = MaxAttempts
                 \/ d < today
                 \/ worker[w].phase = "failing" /\ ~worker[w].retry
      <3>1. Superseded(d) => d < today
        BY <1>3, <2>3, SupersededIsOver
      <3>2. worker[w].phase = "late" => d < today
        BY <1>3, <2>6 DEF NotAhead
      <3> QED  BY <2>4, <2>6, <3>1, <3>2 DEF GivesUp
    <2> QED  BY <1>3, <2>2, <2>4, <2>5, <2>6 DEF RunChange, SameClaim, RunActive
  <1> QED  BY <1>1, <1>2, <1>3, SyncInvariant, PTL DEF Spec, BudgetIsUsed
=============================================================================
