# A verification project for Accoya-POC

Accoya-POC turns a daily feed of construction opportunities (EarlyBid) into
reviewed outreach emails: a feed fills `leads`, a generation queue drafts an
email per lead, a person reviews it, a delivery queue sends it through
Microsoft Graph, and a synchronizer of the Graph mailbox attributes the replies
to the opportunities. FastAPI routes and four kinds of worker processes share
one PostgreSQL database; what makes the system hard is that their transactions
interleave, that workers crash with a provider call in flight, and that the
outside world (Graph, EarlyBid, a model provider, a person looking at a preview
or at a mailed link) is only ever seen late.

The TLA+ modules here model that shared database and the processes on it, TLC
checks them on small instances, and TLAPS proves the most important facts for
every instance. All paths below are relative to `src/backend/app` unless they
start with `src/` or `agent/`, which is `src/backend/agent`.

## 1. Inventory

| Component | State it keeps | Operations | What is hard | What makes it correct |
| --- | --- | --- | --- | --- |
| Daily EarlyBid sync (`services/earlybid_sync_service.py`, `workers/earlybid_sync.py`) | `earlybid_sync_runs`, one row per feed and local day: status, attempts, claim, heartbeat, next attempt | a poll: ensure today's run, supersede older ones, recover an expired lease, claim; then fetch, apply, or record a failure | several processes, leases, retries, a feed fetched before and applied after midnight | only the owner of an attempt records its result; feeds reach the leads in calendar order; every run ends; every day gets a run |
| Feed ingestion (`services/lead_feed_service.py`, `api/routes/leads.py`, `agent/normalization.py`) | `leads` with identity, scope and the EarlyBid `review_status` | daily sync, manual sync, CSV upload: one transaction that upserts, fails queued work of deleted leads, queues first drafts | rows fetched before the lock is taken; identities spelled differently; two scopes with one identifier; races with claims and finalizations of the same leads | one step in effect; nothing stays queued for a deleted lead; one first draft per lead; older rows are repaired |
| Generation queue (`services/email_generation_service.py`, `workers/email_generation.py`) | `email_generation_jobs` and their `agent_runs` | request, claim, heartbeat, recover, finalize, fail; fallback draft | late results, leases, send versus regenerate | one active workflow per lead; every job ends; results only for active leads |
| Review (`api/routes/emails.py`) | `emails`, `email_status_events` | edit, approve, reject | stale previews, concurrent reviewers, a delivery under way | what is approved was seen; history is read-only; the audit chain is contiguous |
| Delivery queue (`services/email_delivery_service.py`, `services/email_service.py`, `workers/email_delivery.py`) | `email_delivery_jobs` with the content snapshot | request, claim, heartbeat, recover, call Graph, finalize | an effect outside the database whose outcome may stay unknown | no replay, no unacknowledged duplicate, `sent` only when accepted |
| Content hash and signatures (`email_content.py`, `email_signature.py`) | none | hash and render | the default signature depends on the lead, which a feed changes | equal hashes exactly for equal renderings |
| Reply synchronization (`services/email_reply_service.py`, `workers/email_reply_sync.py`, `api/routes/graph_webhooks.py`) | `graph_mailbox_sync_states`, `graph_mail_notifications`, `email_replies` | subscribe, delta page, bounded rescan, notification queue, unread refresh, match, reconcile | leases, checkpoints, a forced rescan, notifications lost, repeated and reordered, replies before the message they answer | no change is skipped; a late page overwrites nothing; a requested rescan happens; attribution does not depend on the order of arrival |
| Accounts (`api/routes/auth.py`, `auth/admin.py`, `services/auth_security.py`, `services/jwt_service.py`) | `users`, `access_requests`, `password_reset_tokens`, session tokens | request and review access, reset a password, sign in by password or Google, sign out, administrator commands | reads without a lock, calls that commit twice, mails after the commit | a link works once and while it is the newest; a revoked session stays revoked; a request is decided once |
| Agent workflow (`agent`, run by `workers/email_generation.py`) | none that lasts | analyse, retrieve, compose, with retries, aliases and fallbacks | providers that answer badly, are overloaded or fail at every call; a deadline | the result says what happened: its pair, its guess, its calls, its warnings |
| Agent runs and their list (`services/agent_run_service.py`, `api/routes/agent_runs.py`) | `agent_runs` | execute, retry, list by cursor | a crash between two commits; runs that start and end while a reader pages | a draft exactly for a generated run; a verdict is final; pages omit and repeat nothing |
| Chat (`api/routes/chat.py`, `services/rag_service.py`) | `chat_messages` | post, delete a session | posts and deletions of one session overlap during the answer | sessions are whole turns, numbered in the order of their commits |
| Strategy documents (`api/routes/documents.py`) | `strategy_documents`, S3 objects | upload, list, delete | S3 and the database are written one after the other | a row without object is the trace of a deletion or a replacement |
| Row locks (all of the above) | PostgreSQL's lock table | the statements of a transaction | foreign keys lock rows nobody named; feeds of two scopes lock shared leads in no order | who can be the victim of a deadlock, and through whom; a request ends |
| Overview, migrations, frontend (`services/overview_service.py`, `alembic`, `src/frontend`) | the browser's copy of previews | read, render, confirm, poll | stale copies, rows of earlier releases | the server refuses what the user did not see |

The pipeline's parts interact through the database only. Feed ingestion writes
generation jobs and fails queued generation and delivery jobs; generation
writes emails; review changes them; delivery requests lock the lead, then the
email, and read the generation queue; generation requests lock the lead and
read the delivery queue; delivery finalization writes emails and their audit
events. Reply synchronization reads and completes delivery jobs (their Graph
identity) and reads leads. Accounts, agent runs outside the queue, chat and
documents share no table with these, except that `execute_agent_run` adds rows
to `agent_runs` and `emails`.

## 2. Modules

| Module | Models | Code |
| --- | --- | --- |
| `OutreachState` | the tables of the pipeline, the helpers that read and write them | `db/models.py`, helpers of the services |
| `LeadFeed` | the ingestion transaction, as the pipeline sees it | `lead_feed_service.py` |
| `EmailGeneration` | the generation queue and its workers | `email_generation_service.py`, `workers/email_generation.py` |
| `EmailReview` | edit, approve, reject | `api/routes/emails.py` |
| `EmailDelivery` | the delivery queue, its workers and the Graph call | `email_delivery_service.py`, `email_service.py`, `workers/email_delivery.py` |
| `Outreach` | the composition of the four, fairness, all properties | - |
| `OutreachLegacy` | the same pipeline started on rows of an earlier release | migration `0010`, `ensure_low_context_fallback_email` |
| `DeliveryContract`, `OutreachContract` | abstract: what delivery promises, without queues or workers; the refinement mapping from `Outreach` | `src/README.md`, "Durable outbound email delivery" |
| `EarlyBidSync` | the daily synchronization and its scheduler processes | `earlybid_sync_service.py`, `workers/earlybid_sync.py` |
| `FeedRows` | the rows of a feed: identity, validation of the whole, the row that counts | `lead_feed_service.py`, `agent/normalization.py` |
| `FeedContract` | abstract: a valid feed is applied in one step, another changes nothing | `src/README.md:540` |
| `FeedIngestion` | the ingestion transaction statement by statement, shown to implement `FeedContract` | `lead_feed_service.py`, `api/routes/leads.py` |
| `MailboxSync` | webhook, lease, subscription, scans, delta links, notification queue | `email_reply_service.py`, `api/routes/graph_webhooks.py`, `workers/email_reply_sync.py` |
| `ReplyMatching` | identity of sent items, attribution and classification of replies, copies, removal, reconciliation | `email_reply_service.py` |
| `Accounts` | access requests and review, password reset, sign-in, sign-out, administrator commands | `api/routes/auth.py`, `auth/`, `services/*_service.py` they use |
| `AgentWorkflow` | one generation attempt: the graph, catalog, aliases, routing rules, retries, deadline | `agent/` |
| `AgentRuns` | runs outside the queue and their retry | `agent_run_service.py` |
| `RunHistory` | the list of runs, page by page, while runs change | `agent_run_service.py`, `api/routes/agent_runs.py` |
| `Chat` | posts and deletions of chat sessions | `api/routes/chat.py` |
| `Documents` | uploads and deletions over S3 and the database | `api/routes/documents.py`, `services/s3_service.py` |
| `RowLocks` | the order in which every transaction takes advisory and row locks, and deadlocks | all services above |
| `OutreachProofs` | TLAPS: types, exclusion, dismissal, keys and history of the pipeline | - |
| `DeliveryProofs` | TLAPS: the delivery queue, and that it implements `DeliveryContract` | - |
| `EarlyBidSyncProofs`, `FeedIngestionProofs`, `MailboxSyncProofs`, `AccountsProofs`, `RowLocksProofs` | TLAPS: the component of that name | - |
| `RecordsProofs` | TLAPS: agent runs and their list, chat, documents, the agent, attribution of replies; one part each | - |
| `MCOutreach`, `MCEarlyBidSync` | symmetry sets; the values of the constants are in the `.cfg` files | - |
| `MCMailboxSync`, `MCServices` with `MCRowLocks`, `MCProgress` | several small instances side by side, see section 3 | - |

### How the pipeline corresponds to the code

*One action is one committed transaction, or one call of the mail provider.*
What a process remembers between two transactions is its local state
(`genWorker`, `delWorker`). Requests that the code answers without writing (a
conflict, a replayed idempotency key, an already active job) are actions that
are not enabled, because they change nothing. A commit that fails has no
effect and is therefore no action either, except where the code reacts to it:
an accepted message whose commit fails is recorded as `delivery_unknown`
(`_record_unknown_after_persistence_error`), which `FinalizeTerminal` includes.

- **Ids.** Jobs are numbered in `queued_at` order, and an inserted row takes
  the smallest unused number. `emails.agent_run_id` is unique and a run belongs
  to one job, so an email carries its job's number. `agent_runs` is part of the
  job row. `retry_of` links, triggers, actors, error codes and timestamps that
  no decision reads are left out, and so is the `draft` status, which no code
  ever writes.
- **Content.** `Texts` stands for recipient, subject, body and stored
  signature together. The rendering adds the *market* of the lead, because the
  default signature is computed from the lead's state at preview, at
  confirmation and at enqueueing, and a feed can change it in between. Two
  renderings have the same hash exactly when they are equal.
- **Leases.** `heartbeat_at` against the stale threshold has two values, fresh
  and stale. `Expire...Lease` may happen at any time and a heartbeat may undo
  it, so a live worker can lose its lease and a dead one is eventually found.
- **`SKIP LOCKED`.** A claim takes the oldest queued row outside a set of
  skipped rows, which is arbitrary: any row may be locked by somebody.
  Recovery likewise recovers any nonempty set of expired rows. Recover and
  claim are separate transactions and separate actions.
- **The lead lock.** Requests, reviews and finalization of a generation hold
  the lead's row lock from their first check to their commit, so each is one
  atomic step. Claims read the lead without locking it, but they hold the job
  row, which a feed that dismisses the lead must lock too; whichever commits
  first, the result is that of one of the two orders.
- **Graph.** `CallProvider` decides what the worker learns and, separately, in
  `mailed`, what the world got. A timeout, a cut connection, 408, 429 and 5xx
  are *ambiguous*: mailed or not. 202 is *accepted*; everything else, the token
  request included, is *refused* and not mailed.
- **Processes that stop.** `LoseGenWorker` and `LoseDelWorker` forget the local
  state at any point: a crash, or an exception that leaves the outcome
  unrecorded. The rows stay behind for recovery.
- **Constraints.** The partial unique indexes and unique keys are not enforced
  in the model. `OneWorkflow` and `KeysUnique` show that they would never fire.
- **`EnsureFallbackDraft`** has a guard no state of `Spec` satisfies: today a
  run that ends in `insufficient_context` always comes with its draft. It fires
  on the rows of `OutreachLegacy`, the ones the function was written for. The
  same holds for the claim of a job whose lead is not active.

### How the daily synchronization corresponds to the code

A process polls, and one clock reading (`worker.day`) serves the four
transactions of the poll, as in `_schedule_recover_and_claim`. A claimed run is
fetched with no transaction open. `finalize_success` is one transaction, but it
is modelled in four steps (`EnterApply`, `StageFeed`, `CheckSchedule`,
`CommitFeed`) because it reads the clock twice and waits for the feed's
advisory lock in between; the run row stays locked throughout (`Locked`), which
is why heartbeats, recovery and superseding leave it alone. Transactions that
roll back end in `late` (terminalize as superseded) or `failing` (record the
failure and perhaps retry). A feed is its version number; an empty feed, which
skips the advisory lock, changes no lead and is not distinguished. Clocks of
different processes agree. Manual syncs and CSV uploads do not touch
`earlybid_sync_runs`; their transaction is `LeadFeed!FeedSync`.

### How feed ingestion corresponds to the code

`FeedIngestion` opens up the transaction that `LeadFeed` takes in one step:
rows are fetched outside of it; it takes the advisory lock of the scope,
selects the known leads `FOR UPDATE` (the statement fixes which leads it has
found before it waits for their locks: `SelectBegins`, `SelectEnds`), flushes
the inserts, which may meet the unique index, and commits. The feed's advisory
lock is per scope, and an explicit identifier is not, so two scopes can name
one lead and only row locks and the unique index are between them. `FeedRows`
gives a row without identifier the identity of its canonical project; of
several rows with one explicit identifier the last one counts, while rows
without identifier must agree. What columns besides
identifier, project and status hold is one opaque value. Jobs are reduced to
the first draft of each lead; their fate is `Outreach`'s subject.

### How reply synchronization corresponds to the code

`MailboxSync` is one mailbox. Every request to Graph is one step and storing
its page is another, which locks the state row and looks at the lease again
(`_lock_current_claim`). Graph is external: time is a counter of changes and
webhook calls, a delta link a position in it, a scan link the number of
messages already listed, a page holds at most one message and a webhook call
one event. The modelled failures are crashes between any two steps, stale
leases, failed requests, expired delta links, subscriptions that are removed,
expire or are about to, and notifications that are lost or repeated.
What is stored of a message is its version; what it *means* is
`ReplyMatching`, where one action is one stored message and messages come in
any order, repeated, as copies, and gone again. `asked`, `begun` and `served`
are history variables that say which rescan a request got.

### How accounts correspond to the code

Every handler is a sequence of steps, one per transaction or per group of
statements that no lock protects; calls run concurrently. A secret is a number
given out once. Where a handler holds a row lock to its commit (review, reset,
logout, the commands) it is one step; where it reads first and commits later
without one (access request, sign-in, Google callback) it is several, and what
it read may be stale. A mail is a step after the commit that issued its token,
and may fail. Expiry of links and tokens is an action of its own.

### How the agent corresponds to the code

One behaviour is one attempt. `node` is the position in the graph, and a call
of a provider may answer usefully, answer badly, be overloaded (and be tried
again up to `MaxAttempts`) or fail. The catalog, the aliases, the routing rules
with their order and the fallbacks are translated; a lead is the set of
patterns its text matches and its stage; a draft is the pair of names it is
about. `requests` is what the providers received, against which the telemetry
is checked. The deadline of the worker may pass at any time before the result
is taken.

### How the smaller components correspond to the code

`AgentRuns` has one action per commit of `execute_agent_run`, with failures
after each, a crash at every stage and the recording of a failed commit.
`RunHistory` takes `started_at` before the row is committed, so that a run may
appear behind the cursor of a reader. `Chat` reads history, asks, computes the
next number and commits in separate steps; posts do not wait for each other.
`Documents` has one step per write to S3 or the database; a deletion whose row
is gone by now answers success, like the code.

### How row locks correspond to the code

`RowLocks` gives each transaction the list of locks it takes, in the order of its
statements and with those that foreign keys take; statements over several rows
take them in any order. Several feeds run at once, each of a scope (`ScopeOf`):
a feed takes the advisory lock of its scope, then the leads it names, which a
feed of another scope may name too, then the queued jobs of those it dismisses.
A process in a cycle is aborted and rolled back. Which transactions are left out
is said in the header.

## 3. Runs

Every run finishes in three to four minutes or less with two TLC workers.
Deadlock is checked in the pipeline, in the daily synchronization and in the
mailbox, where some process can always go on. `services` and `progress` contain
components that do end (an attempt of the agent, a bounded number of posts), so
they do not check it.

| Run (cfg) | Question | Instance |
| --- | --- | --- |
| `duplicates` (`Outreach_duplicates.cfg`) | Can a message go out twice, or be reported wrongly, and is the delivery contract kept? `DuplicateOnlyAcknowledged`, `NoReplay`, `SentMeansAccepted`, `TerminalIsFinal`, `ImplementsContract` | 1 lead, 1 draft, 3 delivery jobs, 2 delivery workers, 2 markets |
| `exclusion` (`Outreach_exclusion.cfg`) | Can two workflows run at once, or something change under a delivery? `OneWorkflow`, `DeliveryFrozen`, `WorkflowInv`, `HistoryIsReadOnly`, `AuditContiguous`, `UnknownBlocksGeneration`, `TypeOK` | 1 lead, 2 generations, 2 deliveries, 2 texts of which 1 is valid |
| `dismissal` (`Outreach_dismissal.cfg`) | What happens when EarlyBid deletes and reopens leads, and does all accepted work end? `DeletedLeadHasNoQueue`, `KeysUnique`, `OnlyActiveLeadsWork`, `TerminalIsFinal`, `EveryGenerationEnds`, `EveryDeliveryEnds` under `FairSpec` | 2 leads in every batch of the feed, 2 generations, 2 generation workers, 1 delivery |
| `legacy` (`Outreach_legacy.cfg`) | Do the rows of an earlier release do harm? `DuplicateOnlyAcknowledged` from `LegacySpec` | 1 lead, 2 generations, 2 deliveries |
| `sync` (`EarlyBidSync_safety.cfg`) | Do scheduled feeds arrive once, in order, from their owner? `ApplyingIsOwned`, `SyncInv`, `AppliedInOrder`, `DayIsFinal`, `BudgetIsUsed`, `TypeOK` | 2 processes, 2 days, 3 feed versions, 2 attempts |
| `mailbox` (`MailboxSync_safety.cfg`) | Can a change of the mailbox, or a rescan, be lost, and can a reply be counted for the wrong lead? `NothingForgotten`, `AttributionIsSound` | `lease`: 2 workers and 1 message; `pages`: a reply and a sent message come in; `rescan`: 2 messages are there already, notifications get lost and requests fail; `renewal`: subscriptions expire and are removed while 1 message lies there; `matching`: 2 jobs, 2 replies, 2 Graph ids |
| `services` (`Services_safety.cfg`) | Safety of the components that share nothing: `RowsAreExplained`, `PagesAreComplete`, `ResultIsHonest`, `IngestionIsSafe`, `RunsAreTruthful`, `TurnsAreKept`, `CredentialsHold`, `DeadlocksAreConfined` | feed: 2 scopes, 1 shared identifier, 3 ingestions; 2 runs outside the queue; a list of 3 runs by pages of 1; 3 posts in 2 sessions; 2 uploads and 2 deletions of 2 names; 3 instances of accounts; 5 leads and 6 answers for the agent; locks: 3 feeds of 2 scopes that name 2 leads; every kind of process for 1 lead; 2 requests and the workers for 1 lead; a feed and pages of 2 messages for 2 leads |
| `progress` (`Progress_liveness.cfg`) | What must happen in the end? `EveryRunEnds`, `EveryDayIsScheduled`, `LeadsSettle`, `RepliesSettle`, `AnswersArrive` | 1 scheduler with the code's 4 attempts; a feed that changes once and one manual sync; 1 message, with one fault of four (a crash, a failed request, an expired delta link, a repeated notification); 2 jobs and 2 replies; the agent with 3 attempts a call; 1 request with the generation worker and either a feed or pages of 2 messages |
| `fallback`, `low_context`, `prior_dates`, `busy` | the four findings of section 6: TLC finds the violation | the smallest instance that has it |

**Components side by side.** `MCServices`, `MCProgress` and `MCMailboxSync`
hold several components that share no variable. `service`, chosen in the initial
state, names the one the behaviour is about; the variables of the others keep
their first value. Each behaviour is therefore a behaviour of one component, and
the state space is the sum, not the product. (`MCRowLocks` does the same inside
one component: its `cast` says which processes of `RowLocks` take part.) A
property of such a run is the conjunction of the component properties it names, each stated (and explained) in
its own module, and liveness is stated as *fairness of that component implies
the property*:

- `NothingForgotten`: `NothingSkipped` (a message whose row is not current can
  be reached from durable state alone), `BacklogIsScanned` (a message that has
  not changed since the mailbox was connected is stored or ahead of a scan that
  has to be made, whatever Graph loses), `NeverOlder`, `QuietRescanServed` and
  the types. `AttributionIsSound`: `CountedIsAttributed`, `AttributionObserved`.
- `IngestionIsSafe`: `AppliedAtOnce` (the refinement of `FeedContract`),
  `DraftsFollowStatus`, `OnlySharedIdsClash`, `FirstDraftOnce`, with the types.
  `RunsAreTruthful`: `DraftIffGenerated` with the types, `TerminalIsFinal`.
  `PagesAreComplete`: `NewestFirst`, `NothingMissed`, with the types. `TurnsAreKept`:
  `SessionsAreTurns`, `HistoryIsTurns`, `AppendsAtEnd`.
- `CredentialsHold`: `ResetIsCurrent`, `ResetIsSingleUse`,
  `RevokedStaysRevoked`, `PasswordOpensOwnSessions`, `IdentityIsPersonal`,
  `DecisionIsFinal`. `ResultIsHonest`: `GeneratedIsCanonical`,
  `GuessIsStrongest`, `TelemetryIsTrue`, `FailureStopsEarly`, `DegradedIsSaid`,
  `BestEffortIsMarked`, with the types.
- `RowsAreExplained`: a document's row without its object is the trace of an
  upload or a deletion of the same name. `DeadlocksAreConfined`:
  `OnlyFeedsDeadlockExplicitly` (with the locks the code asks for alone, only
  feeds of different scopes that name the same leads wait in a cycle) and
  `OthersDeadlockOnlyWithReplies` (with those of foreign keys the generation
  worker joins them; a request or a delivery is in a cycle only with a page of
  replies), with the types.
- `LeadsSettle`: `OneLeadPerProject`, `Repaired`. `RepliesSettle`:
  `EventuallyCurrent`, `NotificationsProcessed`, `FallbackIsSupported`,
  `OrderIndependent`. `AnswersArrive`: `AttemptEnds`, `RequestsEnd`.

**Why these bounds are enough.** Locks and checks are per lead and per email,
so one lead shows every race inside the pipeline; two are needed only for a
batch that dismisses one lead and admits another. A duplicate needs two
deliveries of an email; the third makes the difference between "any earlier
delivery is unknown" and "the newest one is". Two workers of a queue are a late
one and the one that recovers its job. Two generations are a draft and the
regeneration that competes with its delivery. Two texts let an approval and an
edit disagree, two markets let a feed change the rendering without touching
the email. In the synchronization two processes around one midnight are a late
owner and the next day's; two attempts of the same day are a recovered one and
its successor; the liveness run has the code's four attempts.

In the mailbox, a worker that lost its lease and its successor disagree about
one message; a second message is needed for a page that is stored while another
is outstanding and for a scan that is interrupted between two messages. Two
faults are a lost worker whose successor meets an expired link, a lost
notification and a request that fails during the rescan it leads to, or two
ends of a subscription. Attribution depends on the leads
a reply refers to and those of its conversation; two jobs and two replies give
every relation between them (`SomeFacts` says which facts are considered). Two
scopes with one identifier are all that the feed's locks do not order, and a
third ingestion dismisses what the second reopens. Two concurrent calls are the
two readers of one stale row; three or four secrets are a link, its successor
and the passwords they set. Three runs over two instants give the list its
ties. Three posts are two that collide and one that follows. Two leads shared by
two scopes are what a cycle of feeds needs, and two feeds of one scope are what
its advisory lock keeps out of one. One lead with its jobs and email has a row of
every table that is locked; that more leads, feeds and requests change nothing
about who can wait in a cycle is proved.

Symmetry (of leads, workers and the callers of `services`) is used only in
safety runs, and only for sets no definition chooses from. Every property, and every part of a combined one, has a mutant of the
code that violates it (`PROJECT.json`, "mutants"): a forgotten status in a
check, a requeue instead of `delivery_unknown`, a page stored without looking
at the lease again, a checkpoint moved past its page, a link that is not
consumed, an alias that crosses families, and so on. The mutated operators
stand next to the definitions they replace and say so.

## 4. Fairness

*Pipeline.* The workers are supervised loops. A worker whose provider call has
returned (all have timeouts) goes on, and an idle one claims what is queued:
weak fairness of `GenWorkerStep` and `DelWorkerStep`. Some idle worker recovers
expired leases (every poll starts with it), and an unattended heartbeat becomes
stale: weak fairness of both. Workers may crash at any time; nothing is assumed
about reviewers, the feed, or what providers answer.

*Daily synchronization.* A process that lives polls, and what it started
returns. It may crash again and again, but not always at the same step of a
poll, hence strong fairness of the steps of a poll; and not every poll finds
the row of a run locked. Midnight is not fair: `EveryDayIsScheduled` speaks of
days that do not pass first.

*Feed ingestion.* An ingestion under way goes on (weak fairness). The daily
worker syncs again and again; it may stop half way, but not always at the same
step, hence strong fairness of its steps. Manual ingestion is bounded and
nothing is assumed about it.

*Mailbox.* A living worker polls and works on; every poll looks for stale
leases, so what stays stale is recovered (strong fairness, because a heartbeat
may undo staleness); Graph repeats a notification until it is taken; time
passes. Faults are bounded (`MaxFaults`): "once nothing fails any more" is part
of what `EventuallyCurrent` says. Reconciliation runs with every pass, hence
weak fairness of `Reconcile`.

*Agent and locks.* Provider calls return or raise, since all have timeouts.
PostgreSQL serves the waiters of a lock in turn and resolves every cycle;
that is its documented behaviour and the only fairness `RequestsEnd` has.

## 5. Proofs

`OutreachProofs` proves, for any sets of leads, keys, texts, jobs and workers
that satisfy `OutreachAssumption`:

- `Typing`: `Spec => []TypeOK`.
- `Workflow`: `Spec => []WorkflowInv`, the inductive invariant, and from it
  `WorkflowExclusion` (`[]OneWorkflow`) and `Frozen` (`[]DeliveryFrozen`).
- `History`: `Spec => HistoryIsReadOnly`.
- `Rules`: `Spec => []RulesInv`, and from it `NothingQueued`
  (`[]DeletedLeadHasNoQueue`), `UniqueKeys` (`[]KeysUnique`), `Final`
  (`TerminalIsFinal`), `ActiveOnly` (`OnlyActiveLeadsWork`), `Audited`
  (`AuditContiguous`) and `UnknownBlocks` (`UnknownBlocksGeneration`).

The argument is worth knowing, because the code does not spell it out. A
delivery request looks at all generation jobs of the lead. A generation request
looks at the deliveries of the *current* email only, so a delivery of an older
email would be overlooked. There is none: while a delivery is active its email
stays current (`DeliveryFrozen`), since a newer email appears only when a
generation is finalized, and none is active while a delivery is
(`OneWorkflow`). The two halves need each other, which is why `OneWorkflow`
alone is not inductive. `RowsAgree` adds what links a draft to the outcome of
its job and an approval to the reviewed text, `DeliveriesHaveEmails` that a
delivery's email exists, `AbsentHasNoHistory` that a feed queues first drafts
only for leads without jobs. The same argument fails for the fallback draft on
legacy rows (section 6), which is why `Spec` starts from a fresh database; what
is true on legacy rows needs less, and is proved in `DeliveryProofs`.

`RulesInv` adds to `WorkflowInv` the two rules that are invariants themselves
and three facts they and the action properties need. An unknown delivery is one
of the *current* email, and its lead generates nothing (`UnknownIsCurrent`): a
generation request looks at unknown deliveries of the current email only, as at
active ones, and again that is enough because no newer email can appear.
`KeyOfLead` separates the keys of first drafts from those clients send, which
is why reopening a lead cannot violate the unique constraint. `AuditAgrees` ties
the last audit event to the status, without which `AuditContiguous` could break
at the next event.

The module has one lemma per conjunct of the invariant and group of actions;
actions that leave a table alone are dismissed by lemmas about unchanged rows,
and the action properties follow from lemmas that say how one row of a table may
move (`GenMoves`, `DelMoves`, `EmailMoves`, `FeedMoves`).

`DeliveryProofs` proves of the delivery queue, under the same assumptions and,
for legacy rows, `LegacyAssumption` (the ids of those rows exist):

- `DeliveryInvariant`: `Spec => []DeliveryInv`, and from it `NeverReplayed`
  (`[]NoReplay`), `Duplicates` (`[]DuplicateOnlyAcknowledged`) and `SentIsMailed`
  (`[]SentMeansAccepted`).
- `Implementation`: `Spec => ImplementsContract`. The pipeline with its queue,
  leases, workers and recovery implements `DeliveryContract`, which knows only
  confirmations, messages and what is said of them.
- `LegacyInvariant`: `LegacySpec => []DeliveryInv`, the same invariant from the
  rows of an earlier release, and from it `LegacyDuplicates`
  (`[]DuplicateOnlyAcknowledged`), `LegacyMessages` (`[](NoReplay /\
  SentMeansAccepted)`), `LegacyActiveOnly` (`OnlyActiveLeadsWork`) and
  `LegacyContract` (every step is one of the contract or a stutter; the start is
  not the contract's, because a delivery is queued already).

The invariant relates three places that no transaction covers together: the job
row, what the worker remembers (`Holds`) and what Graph did (`mailed`). A job is
claimed at most once and recovery never queues it again, so one worker at most
holds it (`OneHolder`); until that worker has called, nothing was mailed; after
an answer that was not acceptance the job ends `failed` only if the refusal is
certain. Hence `failed` means not mailed, also when the failure is recorded
late. A request that is not acknowledged is admitted only when every earlier job
of the email failed, and since ids follow the order of requests (`UsedFirst`)
and `failed` is final, this stays true for ever (`EarlierFailed`);
`DuplicateOnlyAcknowledged` is then immediate.

What `DeliveryInv` says of rows is `RowsInv`, the part of the rules that never
asks which email is current: a job that has not ended has no draft, what is
approved is what was reviewed, and an email has at most one open delivery, which
holds what was confirmed. `WorkflowInv` implies it, but the proof does not use
`WorkflowInv`: a fallback draft that makes the email of a delivery an old one
breaks `OneWorkflow` and leaves `RowsInv` alone, because an email that
is not current can be neither edited nor confirmed again. The delivery queue is
therefore as safe on legacy rows as on fresh ones, and what legacy rows can break
is the exclusion of generation and delivery only.

In the refinement a confirmation
that can still be mailed is a job that is queued, or claimed by a worker that
has not called; every step of feed, generation and review, and every recovery
and late result maps to a stutter or to the contract's lapse of such
confirmations.

`EarlyBidSyncProofs` proves, for any number of days, feed versions, attempts and
scheduler processes that satisfy `EarlyBidSyncAssumption`:

- `SyncInvariant`: `Spec => []SyncInv`, and from it `SyncTyping` (`[]TypeOK`, so
  no run is attempted more than `MaxAttempts` times) and `Ownership`
  (`[]ApplyingIsOwned`).
- `CalendarOrder`: `Spec => AppliedInOrder`.
- `FinalDays`: `Spec => DayIsFinal`.
- `Budget`: `Spec => BudgetIsUsed`. A day ends as failed only with `MaxAttempts`
  attempts made, when it is over, or by its owner's failure that must not be
  retried. It needs one more invariant, `NotAhead`: nobody has a run or a claim
  of a day that has not come, so a run is superseded only when its day is over.

`AppliedInOrder` rests on four things at once, and each is a conjunct of
`SyncInv`. The row lock keeps the claim of a process that applies a feed
(`ApplyingIsOwned`). The feed's advisory lock admits one process at a time, and
behind it the schedule is looked at again, so at the commit nothing later was
applied (`OneApplies`; without the second look, or without the lock, two runs
of consecutive days overtake each other). A run that was applied has succeeded
and stays so (`AppliedSucceeded`), hence it is not the run about to be
committed. And feeds grow (`FeedsGrow`): a process enters the transaction only
when no later run exists, so whoever fetches for a later day does it
afterwards and sees a feed at least as new. The lemmas `RunChanges`,
`WorkerChanges` and `WorldChange` say what any step can do to one run, one
process and the rest; the preservation of the conjuncts argues about these
instead of about twenty actions.

`FeedIngestionProofs` proves, for any scopes, identifiers, spellings, feeds and
ingestions:

- `Invariant`: `FeedSpec => []IngestionInv`, and from it `Refinement`
  (`FeedSpec => AppliedAtOnce`), `DraftsFollow` (`[]DraftsFollowStatus`),
  `DraftOnce` (`FirstDraftOnce`) and `Clash` (`[]OnlySharedIdsClash`).
- `FeedTyping`: `FeedSpec => []FeedTypeOK`; every stored lead has a row that
  passes validation, from one of the scopes.
- `Safe`: `FeedSpec => IngestionIsSafe`, all of these in one.

An ingestion that has selected its leads holds their row locks, so what it has
read stays true; one that has flushed is alone with the identities it inserts,
which nobody else stores before it commits. Hence at its commit the leads it
changes are as it saw them, and the commit is the contract's one step; all
others stutter. `RowsExclusive` and `InsertsExclusive` are the two halves that
make the invariant inductive.

`MailboxSyncProofs` proves, for any messages, workers, webhook calls and faults:

- `Typing` (`[]TypeOK`): a lease is held exactly by the worker that runs a pass.
- `NeverOlderHolds` (`[][NeverOlder]_vars`): what is fetched under a lease is not
  older than any version stored before the lease was taken, and a worker that
  has lost it stores nothing.
- `QuietRescanHolds` (`[]QuietRescanServed`): a scan under way began after the
  last quiet request, or a flag on its way says that it does not count.
- `BacklogHolds` (`[]BacklogIsScanned`): a page that lists an unchanged message
  shows it as it still is, and every write of the scan's columns but the one
  that ends a page makes the scan list more. No fault is excluded.
- `NothingSkippedHolds` (`[]NothingSkipped`) under `Reliable`, `StillMailbox` the
  same with any fault in a mailbox that does not change (`Still`), and from all
  of them `NothingForgottenHolds` under `Reliable \/ Still`. To each change no row shows leads something durable:
  a delta link behind it, a scan that has not come to it, an unread row, or a
  notification under way or waiting (`Covered`). That is not inductive alone,
  since a worker stores what it fetched earlier; `SawInv` adds that what it
  holds is still current, or that the message is told of by a notification
  later than the one being worked off. So storing the page, and marking that
  notification as done, leaves what leads to the change.

`Reliable` says that Graph loses no notification and ends no subscription, and
that webhook calls are recorded one after another. The first half is a real
limit, named in section 6: a change in another folder than Inbox and Sent Items
is in no delta, and only a notification tells of it. The second is what the code
does: the API is one process, and its handler has no `await` between taking the
time of a call and committing it (`record_notifications`), so two calls cannot
commit in the other order. With several API processes they could. The proof
found this: with two concurrent calls the invariant is not preserved.

`AccountsProofs` proves, for any addresses, Google identities, concurrent calls
and operations, `ResetsHold`, `SessionsHold`, `IdentitiesHold`, `DecisionsHold`,
`Typing`, and from these `Credentials` (`Spec => CredentialsHold`). An account's
row only goes onward: it never disappears, its version never falls, a bound
identity stays, and the password changes only together with the version
(`AccountStep`). So a session, and a call about to open one with what it read
in an earlier transaction, stands by that row for good (`SessionInv`): either
it agrees with the account or its version is behind. A reset link that is still
there is the newest of its account and unused (`ResetInv`); a call that creates
an account holds its pending request, and one that links an identity holds the
account (`RequestInv`, `IdentityInv`).

`RowLocksProofs` proves, for any leads, feeds, scopes, requests and length of a
page, `Confined`: `LocksSpec => []DeadlocksAreConfined`. The invariant says where
each transaction is in its list of locks and what the statuses of jobs are while
somebody relies on them: a feed holds the lock of its scope before and while it
holds any other (`FeedPlace`), takes a lead before its jobs, and a job it has
locked stays queued; the job a worker finishes stays running; a page of replies
asks explicitly for delivery jobs that are no longer queued. From it: whoever
holds an email by an explicit lock waits for nothing, so nobody in a cycle waits
for an email, and as a cycle is a smallest set (`Minimal`), the requests and the
delivery worker, which hold nothing others of it wait for, are not in it. Among
explicit locks (`ExplicitCycle`) the page asks for no job a feed can hold, and a
feed for none a finishing worker holds; what is left are feeds, and those of one
scope cannot both hold its lock. With the locks of foreign keys
(`CycleWithoutReplies`) the generation worker stays in, and a cycle without the
page has nobody else.

`RecordsProofs` has a part for each of the smaller components:

- *Agent runs*: `Truthful` (`RunSpec => RunsAreTruthful`), for any number of runs.
  Until the commit of its result a run is running or not there, what reaches
  that commit is valid, and after it only `_persist_system_error` may write,
  which looks at the status first.
- *Their list*: `Pages` (`HistorySpec => []PagesAreComplete`), for any runs and
  page size. Everything listed is the run the cursor names or newer, and every
  run the reader is owed is listed or follows the cursor. `Newer` is a strict
  order (`NewerIsTransitive`), `started_at` is fixed before a run is committed,
  so neither changes when runs do.
- *Chat*: `Kept` (`ChatSpec => TurnsAreKept`), for any sessions and posts. A
  commit adds a whole turn under two numbers the unique constraint has found
  free, and in a session that was not deleted under a post the stored numbers
  have no gap, so a free number is the next one.
- *Documents*: `Documented` (`FilesSpec => []RowsAreExplained`), for any names,
  uploads and deletions. A row is inserted after its object was stored; from
  then on only an upload or a deletion of the same name that has passed its
  first write touches either, and neither goes back before it.
- *Agent*: `Honest` (`AttemptSpec => []ResultIsHonest`), for any selections,
  drafts and leads, any results of retrieval and any number of attempts. The
  invariant `AttemptInv` goes by node: what a node may rely on is what every
  path to it leaves behind. After the analysis the selection is a catalog pair
  or of low confidence (`SelectionInv`), the calls made are those of the path
  (`PathInv`) and counted (`CountInv`), a missing context has its warning
  (`WarningInv`), the result repeats all this (`ResultInv`) and the record
  repeats the result (`RecordInv`). The analysis that failed is the case that
  makes the conjuncts need each other: it leads to a low-confidence selection,
  like a model that is not sure, but may not be called a best effort.
- *Replies*: `Sound` (`MatchingSpec => []AttributionIsSound`), for any jobs,
  replies, leads and conversations. Attribution by conversation leans on other
  replies, which are matched again and again while jobs get their identity; the
  invariant therefore gives each attribution a reason that does not depend on
  other rows: an observed job the reply refers to, or one its conversation or a
  reply of its conversation leads to (`Justified`). Such a reason stays, because
  jobs keep their identity. That the newest of several jobs exists, and is one
  of them, is a lemma over finite sets (`SomeNewest`). The proof found an
  ambiguity the runs could not: the classification was a `CASE` with overlapping
  guards, which TLC reads in order and the language does not; it now is the
  chain of conditions the code has.

Assumed are only named conditions on constants, which TLC evaluates in the runs:
`ASSUME`s of the component's module where one module holds one instance, and
assumptions of the theorems (`MailboxSyncAssumption`, `Reliable`, `Still`,
`AccountsAssumption`, `ProcessesAndBounds`, `AttemptsPositive`,
`NothingIsNothing`) where a run holds several, stated there for each. The proofs
added that delivery jobs are finitely many, that feeds are lists (`FeedsAreLists`)
whose identifiers are those of `Ids` or missing (`FeedsNameIds`), that bounds are
numbers (`BoundsAreNumbers`), and that the value for "nothing" is no catalog pair
and no warning code (`NothingIsNothing`).

Only model-checked is liveness, in the runs `dismissal` and `progress`: fairness
is out of the prover's reach. Every safety property of a passing run is proved,
for its fresh database and for the legacy one.

## 6. Findings

- **A fallback draft next to a delivery** (`fallback`, code).
  `ensure_low_context_fallback_email` inserts a newer email for a legacy run
  from a GET request, without the lead lock and without looking at deliveries.
  If an older email is queued for delivery it stops being current, and a
  generation request, which asks about the current email, is accepted: two
  active workflows, which the comment at `email_delivery_service.py:141` rules
  out. `legacy` shows, and `LegacyDuplicates` proves, that this does not lead to
  an unacknowledged duplicate.
- **A rescan asked for during a rescan is not made** (`busy`, code).
  `_run_bounded_rescan` clears `force_resync` with its last page
  (`email_reply_service.py:1427`), also when `record_notifications` has set it
  again since the scan fetched its first page. `finalize_mailbox_sync` then
  only starts another pass, which does not rescan; its docstring promises to
  release the lease "without losing notifications received during the run".
  `NothingForgotten` shows that requests which arrive between passes are kept.
- **Failed generation creates an email** (`low_context`, documentation).
  `src/README.md:675` says only successful generation creates an email; a run
  that ends in `insufficient_context` stores a fallback draft.
- **A prior date can still be fetched** (`prior_dates`, documentation).
  `src/README.md:334` says prior-date runs are terminalized without calling
  EarlyBid once today's slot exists. A poll that read its clock before midnight
  can create and claim the old day after another process created the new one.
  `AppliedInOrder` shows that its result does no harm.

Met while modelling, with no run of their own, because no promise of the
repository speaks of the behaviour or the disagreement is with one definition:

- Of several rows with one explicit identifier the last one wins, even when
  they conflict (`lead_feed_service.py:397`); `src/README.md:540` says a
  conflicting duplicate identity is refused.
- A low-confidence selection still leads to a best-effort draft
  (`agent/workflow.py:319`), where `agent/README.md:112` says it ends after the
  first call.
- A document's key is its file name (`documents.py:25`), not prefixed with a
  UUID as `src/README.md:756` says, so an upload replaces one of the same name.
- `AgentRunSystemError` speaks of a failure already persisted
  (`agent_run_service.py:70`); when recording it fails too, or the process dies,
  the run stays `running` and nothing takes it up again.
- Two feeds of different scopes that share leads lock these `FOR UPDATE` in no
  order (`lead_feed_service.py:414`), each behind the advisory lock of its own
  scope, so they can deadlock; PostgreSQL aborts one and the manual sync answers
  an error or the daily run is retried. An `ORDER BY` would rule it out.
  `DeadlocksAreConfined` says that by the locks the code asks for nobody else can.
- A sent item whose identity contradicts its job raises in every pass at the
  same page (`email_reply_service.py:877`).
- A subscription that lapsed unnoticed is replaced without a rescan
  (`email_reply_service.py:1133`); a change in another folder than Inbox and
  Sent Items is then in no delta. Where subscriptions end or notifications are
  lost, `NothingSkipped` is therefore stated only for a mailbox that does not
  change (`renewal`), and otherwise `BacklogIsScanned` (`rescan`); for
  the same reason `EventuallyCurrent` is stated without these faults.

## 7. Not modelled, and why

- *Reply synchronization.* Webhook payloads of several events, pages of several
  messages, and the path of a commit that fails on a constraint
  (`email_reply_service.py:381`). Contents and headers of messages are what they
  imply for matching.
- *Accounts.* CSRF tokens, cookies, OAuth state, the texts of mails and the
  validation of settings; password hashing is
  equality of secrets.
- *Agent.* Prompts, texts, token counts, timings, and the inference of stage and
  audience from a lead's text (`agent/normalization.py:736`); a stage is an
  input. A thread whose deadline has passed goes on without effect on the
  result.
- *Feed.* The reading of CSV columns and the contact an operator edits.
- *Chat, documents.* What the assistant says; file types and presigned links.
- *Row locks.* Transactions that lock one row and wait for nothing else; rows a
  feed inserts, for which only other feeds wait (`FeedIngestion` has their
  clash); the order in which PostgreSQL serves waiters. Besides feeds of two
  scopes, a claim of generation can deadlock with a feed (it locks its job and,
  by foreign key, the lead; the feed locks the lead and then its queued jobs),
  and a page of replies with anybody. PostgreSQL aborts one and the worker loops
  try again; no document promises otherwise, so the properties say who can be
  hit.
- *Overview* is a read-only aggregation, and the *frontend* is represented by
  the reviewer with a stale preview. Of *migrations* only the rows migration
  `0010` leaves behind are modelled, as initial states; settings decide whether
  a request is made, not what happens to it.

The hazards these leave open are listed in `PROJECT.json` with the reason.

## 8. Plan

Done: the pipeline with its contract and legacy rows; the daily
synchronization; ingestion as a refinement; reply synchronization and
attribution; accounts; the agent; runs, chat and documents; row locks. Every
safety property of a passing run is proved, with the two refinements, and the
promises of the delivery queue also from legacy rows.

Left, in this order:

1. Pages of several messages and webhook payloads of several events in
   `MailboxSync`.
2. The inference of stage and audience as operators over a lead's columns.
