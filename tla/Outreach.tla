------------------------------ MODULE Outreach ------------------------------
(***************************************************************************)
(* The outreach pipeline: feed ingestion, draft generation, human review   *)
(* and delivery over one database, with their workers, in any interleaving *)
(* of their transactions.                                                  *)
(***************************************************************************)
EXTENDS LeadFeed, EmailGeneration, EmailReview, EmailDelivery

(* A fresh database (the Alembic baseline) and idle workers.               *)
Init ==
    /\ \E m \in Markets : lead = [l \in Leads |-> [status |-> "absent",
                                                   market |-> m]]
    /\ gen = [g \in GenIds |-> NoGen]
    /\ email = [g \in GenIds |-> NoEmail]
    /\ audit = [g \in GenIds |-> StatusEvent("none", "none")]
    /\ del = [d \in DelIds |-> NoDel]
    /\ genWorker = [w \in GenWorkers |-> Null]
    /\ delWorker = [w \in DelWorkers |-> Idle]
    /\ mailed = [d \in DelIds |-> 0]

FeedNext == \E rows \in FeedBatch : FeedSync(rows)

GenerationNext ==
    \/ \E l \in Leads, k \in Keys : RequestGeneration(l, k)
    \/ \E l \in Leads, t \in Texts : EnsureFallbackDraft(l, t)
    \/ \E g \in GenIds : ExpireGenerationLease(g)
    \/ \E w \in GenWorkers :
         \/ \E g \in GenIds : ClaimGeneration(w, g)
         \/ HeartbeatGeneration(w)
         \/ \E expired \in SUBSET GenIds : RecoverGenerations(w, expired)
         \/ DropLateGeneration(w)
         \/ FailGeneration(w)
         \/ \E outcome \in GenTerminal \ {"system_error"}, t \in Texts :
              FinalizeGeneration(w, outcome, t)
         \/ LoseGenWorker(w)

ReviewNext ==
    \E e \in GenIds :
      \/ \E t \in Texts : EditEmail(e, t)
      \/ \E preview \in Rendering : ApproveEmail(e, preview)
      \/ RejectEmail(e)

DeliveryNext ==
    \/ \E e \in GenIds, k \in Keys, confirmed \in Rendering, ack \in BOOLEAN :
         RequestDelivery(e, k, confirmed, ack)
    \/ \E d \in DelIds : ExpireDeliveryLease(d)
    \/ \E w \in DelWorkers :
         \/ \E d \in DelIds : ClaimDelivery(w, d)
         \/ HeartbeatDelivery(w)
         \/ \E expired \in SUBSET DelIds : RecoverDeliveries(w, expired)
         \/ \E answer \in {"accepted", "refused", "ambiguous"} :
              CallProvider(w, answer)
         \/ FinalizeAccepted(w)
         \/ FinalizeTerminal(w)
         \/ DropLateDelivery(w)
         \/ LoseDelWorker(w)

Next == FeedNext \/ GenerationNext \/ ReviewNext \/ DeliveryNext

Spec == Init /\ [][Next]_vars

(***************************************************************************)
(* Fairness.  The workers are supervised polling loops: an idle worker     *)
(* keeps recovering and claiming, a worker whose provider call returned    *)
(* (every call has a timeout) goes on to record or drop the answer, and    *)
(* time passes for a job nobody heartbeats.  People and the feed owe       *)
(* nothing.                                                                *)
(***************************************************************************)
GenWorkerStep(w) ==
    \/ \E g \in GenIds : ClaimGeneration(w, g)
    \/ DropLateGeneration(w)
    \/ FailGeneration(w)
    \/ \E outcome \in GenTerminal \ {"system_error"}, t \in Texts :
         FinalizeGeneration(w, outcome, t)

DelWorkerStep(w) ==
    \/ \E d \in DelIds : ClaimDelivery(w, d)
    \/ \E answer \in {"accepted", "refused", "ambiguous"} :
         CallProvider(w, answer)
    \/ FinalizeAccepted(w)
    \/ FinalizeTerminal(w)
    \/ DropLateDelivery(w)

Fairness ==
    /\ \A w \in GenWorkers : WF_vars(GenWorkerStep(w))
    /\ \A w \in DelWorkers : WF_vars(DelWorkerStep(w))
    /\ \A g \in GenIds : WF_vars(ExpireGenerationLease(g))
    /\ \A d \in DelIds : WF_vars(ExpireDeliveryLease(d))
    /\ WF_vars(\E w \in GenWorkers, expired \in SUBSET GenIds :
                 RecoverGenerations(w, expired))
    /\ WF_vars(\E w \in DelWorkers, expired \in SUBSET DelIds :
                 RecoverDeliveries(w, expired))

FairSpec == Spec /\ Fairness

-----------------------------------------------------------------------------
(* Safety.                                                                 *)

DeliveringLead(l) ==
    {d \in DelIds : del[d].status \in DelActive /\ LeadOfEmail(del[d].email) = l}

\* Send versus regenerate: whatever the requests race, a lead never has a
\* queued or running generation together with a queued or running delivery,
\* nor two of either kind (enqueue_delivery's comment "exactly one workflow
\* can become active"; the two partial unique indexes are never relied on).
OneWorkflow ==
    \A l \in Leads :
      /\ \A g, h \in GenIds :
           /\ gen[g].lead = l /\ gen[g].status \in GenActive
           /\ gen[h].lead = l /\ gen[h].status \in GenActive
           => g = h
      /\ \A d, c \in DeliveringLead(l) : d = c
      /\ ActiveGeneration(l) => DeliveringLead(l) = {}

\* While a delivery is queued or running its email is the lead's current
\* one, is still approved, and still says what the job will send: no edit,
\* review, newer draft or feed row gets between confirmation and delivery.
DeliveryFrozen ==
    \A d \in DelIds : del[d].status \in DelActive =>
      LET e == del[d].email
      IN  /\ IsCurrentEmail(e)
          /\ email[e].status = "approved"
          /\ email[e].text = del[d].snapshot[1]
          /\ email[e].reviewed = email[e].text

\* What the tables agree on: a used generation row has its lead, a draft
\* exists exactly for the outcomes that come with one, and what is approved
\* is what the reviewer saw.
RowsAgree ==
    \A g \in GenIds :
      /\ gen[g].status = "none" <=> gen[g].lead = Null
      /\ email[g].status # "none" <=> DraftedBy(gen[g].status)
      /\ email[g].status = "approved" => email[g].reviewed = email[g].text

DeliveriesHaveEmails ==
    \A d \in DelIds : del[d].status # "none" =>
      /\ del[d].email \in GenIds
      /\ email[del[d].email].status # "none"

AbsentHasNoHistory ==
    \A l \in Leads : lead[l].status = "absent" => ~HasOutreachHistory(l)

\* What is left of these rules on the rows of an earlier release: a job that
\* has not ended has no draft yet, what is approved is what was reviewed, and
\* the one open delivery of an email holds what was confirmed.  The email need
\* not be the current one.
DraftsFollowJobs ==
    \A g \in GenIds :
      /\ gen[g].status \in {"none"} \cup GenActive => email[g].status = "none"
      /\ email[g].status = "approved" => email[g].reviewed = email[g].text

OpenIsConfirmed ==
    \A d \in DelIds : del[d].status \in DelActive =>
      /\ email[del[d].email].status = "approved"
      /\ email[del[d].email].text = del[d].snapshot[1]

OneOpenDelivery ==
    \A c, d \in DelIds :
      /\ del[c].status \in DelActive /\ del[d].status \in DelActive
      /\ del[c].email = del[d].email
      => c = d

RowsInv ==
    /\ TypeOK
    /\ DeliveriesHaveEmails
    /\ DraftsFollowJobs
    /\ OpenIsConfirmed
    /\ OneOpenDelivery

\* OneWorkflow with what makes it inductive: a generation is refused by
\* looking at the current email only, which is enough because the email of
\* an active delivery stays the current one (DeliveryFrozen), which in turn
\* holds because no generation runs while a delivery is active.
WorkflowInv ==
    /\ TypeOK
    /\ RowsAgree
    /\ DeliveriesHaveEmails
    /\ AbsentHasNoHistory
    /\ DeliveryFrozen
    /\ OneWorkflow

\* Whatever crashes, expires or is retried, Graph accepts a second message
\* for an email only when somebody queued it acknowledging that an earlier
\* delivery of that email may have succeeded.
DuplicateOnlyAcknowledged ==
    \A c, d \in DelIds :
      /\ c < d /\ del[c].email = del[d].email /\ del[c].email # Null
      /\ mailed[c] > 0 /\ mailed[d] > 0
      => del[d].ack

\* The queue never replays: each job is claimed at most once and mailed at
\* most once, and a job reported failed was certainly not mailed.
NoReplay ==
    \A d \in DelIds :
      /\ del[d].attempts <= 1
      /\ mailed[d] <= 1
      /\ del[d].status \in {"none", "queued", "failed"} => mailed[d] = 0

\* An email is sent exactly when one of its jobs succeeded, that job's
\* message was accepted, and what was mailed is what the email still says
\* and what a reviewer approved and a user confirmed.
SentMeansAccepted ==
    \A e \in GenIds :
      email[e].status = "sent" <=>
        \E d \in DelIds : /\ del[d].email = e
                          /\ del[d].status = "succeeded"
                          /\ mailed[d] = 1
                          /\ del[d].snapshot = del[d].confirmed
                          /\ del[d].snapshot[1] = email[e].text
                          /\ email[e].reviewed = email[e].text

\* Dismissing a lead leaves nothing queued for it: a later claim cannot
\* start work for a deleted lead.
DeletedLeadHasNoQueue ==
    \A l \in Leads : lead[l].status = "deleted" =>
      /\ \A g \in GenIds : gen[g].lead = l => gen[g].status # "queued"
      /\ \A d \in DelIds : del[d].email # Null /\ LeadOfEmail(del[d].email) = l
                             => del[d].status # "queued"

\* The idempotency keys stay unique, the feed's own initial-v1 key
\* included: reopening a lead never queues a second first draft, which
\* would make the whole feed transaction fail on the unique constraint.
KeysUnique ==
    /\ \A g, h \in GenIds : gen[g].key = gen[h].key /\ gen[g].key # Null => g = h
    /\ \A c, d \in DelIds : del[c].key = del[d].key /\ del[c].key # Null => c = d

\* What the README says of the queue ("only successful generation creates an
\* email").  The code also stores a fallback draft for a run that ended in
\* insufficient_context, so this does not hold.
OnlySuccessCreatesEmail ==
    \A g \in GenIds : email[g].status # "none" => gen[g].status = "generated"

-----------------------------------------------------------------------------
(* What a step may never do.                                               *)

\* Late results, recovery and dismissal race for the same job; the first
\* terminal status a job gets is the one it keeps.
TerminalIsFinal ==
    [][/\ \A g \in GenIds : gen[g].status \in GenTerminal
                              => gen'[g].status = gen[g].status
       /\ \A d \in DelIds : del[d].status \in DelTerminal
                              => del'[d].status = del[d].status]_vars

\* A draft appears, and work starts, only for a lead that is active at that
\* moment: a result that comes back after EarlyBid deleted the lead leaves
\* no email behind.
OnlyActiveLeadsWork ==
    [][/\ \A g \in GenIds :
            \/ email[g].status = "none" /\ email'[g].status # "none"
            \/ gen[g].status # "running" /\ gen'[g].status = "running"
            => lead[gen[g].lead].status = "active"
       /\ \A d \in DelIds :
            del[d].status # "running" /\ del'[d].status = "running"
            => lead[LeadOfEmail(del[d].email)].status = "active"]_vars

\* History is read-only: an email that is sent, rejected or superseded by a
\* newer draft never changes again, by review or by a late delivery.
HistoryIsReadOnly ==
    [][\A e \in GenIds :
         /\ email[e].status # "none"
         /\ email[e].status \in {"sent", "rejected"} \/ ~IsCurrentEmail(e)
         => email'[e] = email[e]]_vars

\* The audit chain is contiguous: a status changes exactly when an event is
\* written, from the status the previous event left to the new one.
AuditContiguous ==
    [][\A e \in GenIds :
         /\ email'[e].status # email[e].status <=> audit'[e] # audit[e]
         /\ audit'[e] # audit[e] =>
              audit'[e] = [prev |-> audit[e].new, new |-> email'[e].status]]_vars

\* While an email has an unresolved unknown delivery no generation starts
\* for its lead, so no newer draft can hide that delivery.
UnknownBlocksGeneration ==
    [][\A g \in GenIds :
         /\ gen[g].status = "none" /\ gen'[g].status = "queued"
         => \A e \in GenIds :
              LeadOfEmail(e) = gen'[g].lead => ~UnknownDelivery(e)]_vars

-----------------------------------------------------------------------------
(* Liveness, under FairSpec.                                               *)

\* Every accepted request ends: no crash, outage, dismissal or race leaves
\* a generation or a delivery queued or running forever.
EveryGenerationEnds ==
    \A g \in GenIds : gen[g].status \in GenActive ~> gen[g].status \in GenTerminal

EveryDeliveryEnds ==
    \A d \in DelIds : del[d].status \in DelActive ~> del[d].status \in DelTerminal
=============================================================================
