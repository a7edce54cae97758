--------------------------- MODULE OutreachState ---------------------------
(***************************************************************************)
(* The PostgreSQL rows the outreach pipeline works on, shared by the feed, *)
(* the generation queue, the review routes and the delivery queue.  Every  *)
(* action of those modules is one committed transaction (or one call of    *)
(* the mail provider); a worker's local state is what its process          *)
(* remembers between two of its transactions.                              *)
(*                                                                         *)
(* lead      leads rows: EarlyBid review status ("absent" before the first *)
(*           feed names the lead, "unknown" for a NULL status) and the     *)
(*           market, the part of the lead that decides the signature.      *)
(* gen       email_generation_jobs rows with their agent_runs row.  Ids    *)
(*           are numbered in queued_at order; "none" is an unused id.      *)
(* email     emails rows.  An email belongs to exactly one agent run       *)
(*           (uq_emails_agent_run_id), so it carries its job's id, and     *)
(*           created_at order is id order.                                 *)
(* audit     the newest email_status_events row of each email.             *)
(* del       email_delivery_jobs rows, in queued_at order.                 *)
(* genWorker the job a generation worker process is executing, or Null.    *)
(* delWorker the job a delivery worker process is executing and what the   *)
(*           provider call told it so far.                                 *)
(* mailed    how many messages Microsoft Graph accepted for each job: the  *)
(*           world outside the database, which no code can read.           *)
(***************************************************************************)
EXTENDS Naturals, FiniteSets, Functions

CONSTANTS
    Leads,        \* opportunities
    Markets,      \* lead states that lead to different signatures
    Texts,        \* stored recipient/subject/body/signature of an email
    ValidTexts,   \* those with a valid recipient, subject and body
    Keys,         \* idempotency keys a client can generate
    GenIds,       \* bound: the generation jobs that can ever be created
    DelIds,       \* bound: the delivery jobs that can ever be created
    GenWorkers,   \* generation worker processes
    DelWorkers,   \* delivery worker processes
    Null

ASSUME OutreachAssumption ==
    /\ GenIds \subseteq Nat
    /\ DelIds \subseteq Nat
    /\ ValidTexts \subseteq Texts
    /\ Leads \cap Keys = {}
    /\ Markets # {}
    /\ Null \notin Leads \cup Keys \cup GenIds \cup DelIds \cup Texts
                   \cup GenWorkers \cup DelWorkers

VARIABLES lead, gen, email, audit, del, genWorker, delWorker, mailed

vars == <<lead, gen, email, audit, del, genWorker, delWorker, mailed>>

LeadStatus  == {"absent", "unknown", "active", "deleted"}
GenActive   == {"queued", "running"}
GenTerminal == {"generated", "insufficient_context", "provider_error",
                "system_error"}
DelActive   == {"queued", "running"}

\* Mutants of DelBlocking: a status is missing from the blocking set.
BlockingButQueued  == {"running", "delivery_unknown"}
BlockingButUnknown == {"queued", "running"}

DelBlocking == {"queued", "running", "delivery_unknown"}
DelTerminal == {"succeeded", "failed", "delivery_unknown"}
EmailStatus == {"pending_review", "approved", "sent", "rejected"}

\* The age of heartbeat_at of a running job against the stale threshold.
Lease == {"none", "fresh", "stale"}

\* The rendered message: the stored text plus the signature of the market.
Rendering == Texts \X Markets

GenRow == [status: {"none"} \cup GenActive \cup GenTerminal,
           lead: Leads \cup {Null},
           key: Keys \cup Leads \cup {Null},
           attempts: Nat,
           by: GenWorkers \cup {Null},
           lease: Lease]

EmailRow == [status: {"none"} \cup EmailStatus,
             text: Texts \cup {Null},
             reviewed: Texts \cup {Null}]

DelRow == [status: {"none"} \cup DelActive \cup DelTerminal,
           email: GenIds \cup {Null},
           key: Keys \cup {Null},
           snapshot: Rendering \cup {Null},
           confirmed: Rendering \cup {Null},
           ack: BOOLEAN,
           attempts: Nat,
           by: DelWorkers \cup {Null},
           lease: Lease]

\* What a busy delivery worker knows: it has claimed a job, or has an answer.
WorkerPhase == {"claimed", "accepted", "refused", "ambiguous"}

NoGen   == [status |-> "none", lead |-> Null, key |-> Null, attempts |-> 0,
            by |-> Null, lease |-> "none"]
NoEmail == [status |-> "none", text |-> Null, reviewed |-> Null]
NoDel   == [status |-> "none", email |-> Null, key |-> Null,
            snapshot |-> Null, confirmed |-> Null, ack |-> FALSE,
            attempts |-> 0, by |-> Null, lease |-> "none"]
Idle    == [phase |-> "idle", job |-> Null]

TypeOK ==
    /\ lead \in [Leads -> [status: LeadStatus, market: Markets]]
    /\ gen \in [GenIds -> GenRow]
    /\ email \in [GenIds -> EmailRow]
    /\ audit \in [GenIds -> [prev: {"none"} \cup EmailStatus,
                             new: {"none"} \cup EmailStatus]]
    /\ del \in [DelIds -> DelRow]
    /\ genWorker \in [GenWorkers -> GenIds \cup {Null}]
    /\ delWorker \in [DelWorkers -> [phase: WorkerPhase, job: DelIds]
                                      \cup {Idle}]
    /\ mailed \in [DelIds -> Nat]

-----------------------------------------------------------------------------
(* Reading the tables.                                                     *)

\* The id the next inserted row gets: the smallest unused one.
IsNextId(table, ids, i) ==
    /\ table[i].status = "none"
    /\ \A k \in ids : table[k].status = "none" => i <= k

ActiveGeneration(l) ==
    \E g \in GenIds : gen[g].lead = l /\ gen[g].status \in GenActive

HasOutreachHistory(l) == \E g \in GenIds : gen[g].lead = l

\* current_email_for_lead: the newest email of the lead, if it has one.
IsCurrentEmail(e) ==
    /\ email[e].status # "none"
    /\ \A f \in GenIds :
          gen[f].lead = gen[e].lead /\ email[f].status # "none" => f <= e

LeadOfEmail(e) == gen[e].lead

\* Mutants of LeadActive: deletion, or a status nobody set, is overlooked.
LeadKnown(l)      == lead[l].status # "absent"
LeadNotDeleted(l) == lead[l].status \in {"active", "unknown"}

LeadActive(l) == lead[l].status = "active"

DeliveriesOf(e) == {d \in DelIds : del[d].email = e}

\* Mutant of ActiveDelivery: a running delivery is overlooked.
QueuedDelivery(e) == \E d \in DeliveriesOf(e) : del[d].status = "queued"

ActiveDelivery(e) == \E d \in DeliveriesOf(e) : del[d].status \in DelActive

BlockingDelivery(e) == \E d \in DeliveriesOf(e) : del[d].status \in DelBlocking

\* Mutant of UnknownDelivery: only the newest delivery is looked at.
NewestUnknown(e) ==
    \E d \in DeliveriesOf(e) : /\ del[d].status = "delivery_unknown"
                               /\ \A c \in DeliveriesOf(e) : c <= d

UnknownDelivery(e) ==
    \E d \in DeliveriesOf(e) : del[d].status = "delivery_unknown"

\* Email.rendered_body / delivery_content_hash: equal for equal renderings.
Rendered(e) == <<email[e].text, lead[LeadOfEmail(e)].market>>

\* Mutant of Confirms: the hash covers the stored text only.
ConfirmsText(e, shown) == shown[1] = email[e].text

\* The content hash a client sends is that of the rendering it was shown.
Confirms(e, shown) == shown = Rendered(e)

-----------------------------------------------------------------------------
(* Writing them.                                                           *)

QueuedGen(l, k) == [NoGen EXCEPT !.status = "queued", !.lead = l, !.key = k]

\* A job leaves the active statuses; its heartbeat no longer matters.
Ended(job, status) == [job EXCEPT !.status = status, !.lease = "none"]

\* Mutant of StillRunning: a job recovered meanwhile is finalized anyway.
RunningOrRecovered(job) ==
    job.status \in {"running", "delivery_unknown", "system_error"}

\* _load_running_job: what a worker needs to record a result.
StillRunning(job) == job.status = "running"

\* Mutant of Claimed: the lease is taken without a first heartbeat.
ClaimedSilently(job, w) == [job EXCEPT !.status = "running", !.by = w,
                                       !.attempts = @ + 1]

Claimed(job, w) == [job EXCEPT !.status = "running", !.by = w,
                               !.attempts = @ + 1, !.lease = "fresh"]

\* claim_next_job orders by queued_at and skips the rows other transactions
\* have locked: it gets the oldest queued row that is not in skipped.
IsOldestUnlocked(table, ids, skipped, j) ==
    /\ j \in ids \ skipped
    /\ table[j].status = "queued"
    /\ \A k \in ids \ skipped : table[k].status = "queued" => j <= k

StatusEvent(previous, new) == [prev |-> previous, new |-> new]
=============================================================================
