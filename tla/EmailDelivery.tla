--------------------------- MODULE EmailDelivery ---------------------------
(***************************************************************************)
(* The email-delivery queue and its workers.  As for generation a worker   *)
(* claims, calls Microsoft Graph with no transaction open, and finalizes;  *)
(* unlike generation the call has an effect outside the database, so what  *)
(* Graph did and what the worker learnt of it are separate pieces of state.*)
(***************************************************************************)
EXTENDS OutreachState

DelKeysInUse == {del[d].key : d \in DelIds}

(* enqueue_delivery, under the lead lock and the email lock.  A known key  *)
(* and an active delivery return the existing job without writing.         *)
RequestDelivery(e, k, confirmed, ack) ==
    /\ email[e].status = "approved"
    /\ LeadActive(LeadOfEmail(e))
    /\ k \notin DelKeysInUse
    /\ ~ActiveDelivery(e)
    /\ ~ActiveGeneration(LeadOfEmail(e))
    /\ IsCurrentEmail(e)
    /\ email[e].text \in ValidTexts
    /\ Confirms(e, confirmed)
    /\ UnknownDelivery(e) => ack
    /\ \E d \in DelIds :
          /\ IsNextId(del, DelIds, d)
          /\ del' = [del EXCEPT ![d] =
                       [NoDel EXCEPT !.status = "queued", !.email = e,
                                     !.key = k, !.snapshot = Rendered(e),
                                     !.confirmed = confirmed, !.ack = ack]]
    /\ UNCHANGED <<lead, gen, email, audit, genWorker, delWorker, mailed>>

(* claim_next_job of an idle worker; the lead is read without a lock.      *)
ClaimDelivery(w, d) ==
    /\ delWorker[w] = Idle
    /\ \E skipped \in SUBSET DelIds : IsOldestUnlocked(del, DelIds, skipped, d)
    /\ \/ /\ LeadActive(LeadOfEmail(del[d].email))
          /\ del' = [del EXCEPT ![d] = Claimed(del[d], w)]
          /\ delWorker' = [delWorker EXCEPT ![w] =
                             [phase |-> "claimed", job |-> d]]
       \/ /\ ~LeadActive(LeadOfEmail(del[d].email))
          /\ del' = [del EXCEPT ![d] = Ended(del[d], "failed")]
          /\ UNCHANGED delWorker
    /\ UNCHANGED <<lead, gen, email, audit, genWorker, mailed>>

HeartbeatDelivery(w) ==
    LET d == delWorker[w].job
    IN  /\ delWorker[w] # Idle
        /\ del[d].status = "running"
        /\ del[d].by = w
        /\ del' = [del EXCEPT ![d].lease = "fresh"]
        /\ UNCHANGED <<lead, gen, email, audit, genWorker, delWorker, mailed>>

(* Time passes: the last heartbeat is older than the stale threshold.      *)
ExpireDeliveryLease(d) ==
    /\ del[d].status = "running"
    /\ del[d].lease = "fresh"
    /\ del' = [del EXCEPT ![d].lease = "stale"]
    /\ UNCHANGED <<lead, gen, email, audit, genWorker, delWorker, mailed>>

\* Mutant of RecoverDeliveries: expired jobs are queued again.
RequeueDeliveries(w, expired) ==
    /\ delWorker[w] = Idle
    /\ expired # {}
    /\ \A d \in expired : del[d].status = "running" /\ del[d].lease = "stale"
    /\ del' = [d \in DelIds |-> IF d \in expired THEN Ended(del[d], "queued")
                                                ELSE del[d]]
    /\ UNCHANGED <<lead, gen, email, audit, genWorker, delWorker, mailed>>

(* recover_stale_jobs of a polling worker: never replayed, only unknown.   *)
RecoverDeliveries(w, expired) ==
    /\ delWorker[w] = Idle
    /\ expired # {}
    /\ \A d \in expired : del[d].status = "running" /\ del[d].lease = "stale"
    /\ del' = [d \in DelIds |-> IF d \in expired
                                THEN Ended(del[d], "delivery_unknown")
                                ELSE del[d]]
    /\ UNCHANGED <<lead, gen, email, audit, genWorker, delWorker, mailed>>

(* The sendMail call.  202 is acceptance; 408, 429, 5xx and transport      *)
(* errors leave it open whether the message was accepted; every other      *)
(* answer, and what fails before the request, means that it was not.       *)
CallProvider(w, answer) ==
    LET d == delWorker[w].job
    IN  /\ delWorker[w].phase = "claimed"
        /\ delWorker' = [delWorker EXCEPT ![w].phase = answer]
        /\ \/ /\ answer \in {"accepted", "ambiguous"}
              /\ mailed' = [mailed EXCEPT ![d] = @ + 1]
           \/ /\ answer \in {"refused", "ambiguous"}
              /\ UNCHANGED mailed
        /\ UNCHANGED <<lead, gen, email, audit, del, genWorker>>

\* Mutant of Answered: an unclassified exception reaches no handler.
AnsweredClearly(w) == delWorker[w].phase \in {"accepted", "refused"}

Answered(w) == delWorker[w].phase \in {"accepted", "refused", "ambiguous"}

(* _finalize_success: the job, the email and its event in one commit.      *)
FinalizeAccepted(w) ==
    LET d == delWorker[w].job
        e == del[d].email
    IN  /\ delWorker[w].phase = "accepted"
        /\ StillRunning(del[d])
        /\ del' = [del EXCEPT ![d] = Ended(del[d], "succeeded")]
        /\ email' = [email EXCEPT ![e].status = "sent"]
        /\ audit' = IF email[e].status # "sent"
                    THEN [audit EXCEPT ![e] =
                            StatusEvent(email[e].status, "sent")]
                    ELSE audit
        /\ delWorker' = [delWorker EXCEPT ![w] = Idle]
        /\ UNCHANGED <<lead, gen, genWorker, mailed>>

\* Mutants of RecordedAs: a timeout is reported as a failure; a provider
\* answer is stored as it came.
TimeoutIsFailure == [refused   |-> "failed",
                     ambiguous |-> "failed",
                     accepted  |-> "delivery_unknown"]
RawAnswer        == [refused   |-> "refused",
                     ambiguous |-> "delivery_unknown",
                     accepted  |-> "delivery_unknown"]

(* _finalize_terminal: a definite failure is failed, an ambiguous outcome  *)
(* unknown; and _record_unknown_after_persistence_error: an acceptance     *)
(* whose commit failed is unknown too.                                     *)
RecordedAs == [refused   |-> "failed",
               ambiguous |-> "delivery_unknown",
               accepted  |-> "delivery_unknown"]

FinalizeTerminal(w) ==
    LET d == delWorker[w].job
    IN  /\ Answered(w)
        /\ StillRunning(del[d])
        /\ del' = [del EXCEPT ![d] =
                     Ended(del[d], RecordedAs[delWorker[w].phase])]
        /\ delWorker' = [delWorker EXCEPT ![w] = Idle]
        /\ UNCHANGED <<lead, gen, email, audit, genWorker, mailed>>

(* _load_running_job found the job no longer running: the result is        *)
(* dropped, whatever it was.                                               *)
DropLateDelivery(w) ==
    /\ Answered(w)
    /\ ~StillRunning(del[delWorker[w].job])
    /\ delWorker' = [delWorker EXCEPT ![w] = Idle]
    /\ UNCHANGED <<lead, gen, email, audit, del, genWorker, mailed>>

(* The process dies at any point, or gives up because nothing it tried to  *)
(* write could be committed; its supervisor starts another.                *)
LoseDelWorker(w) ==
    /\ delWorker[w] # Idle
    /\ delWorker' = [delWorker EXCEPT ![w] = Idle]
    /\ UNCHANGED <<lead, gen, email, audit, del, genWorker, mailed>>
=============================================================================
