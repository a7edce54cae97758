-------------------------- MODULE EmailGeneration --------------------------
(***************************************************************************)
(* The email-generation queue and its workers.  A worker claims a job in   *)
(* one transaction, calls the model provider with no transaction open, and *)
(* finalizes in another; a heartbeat thread renews its lease meanwhile,    *)
(* and any worker that polls the queue fails the jobs whose lease expired. *)
(***************************************************************************)
EXTENDS OutreachState

GenKeysInUse == {gen[g].key : g \in GenIds}

(* enqueue_generation: a known key, an active job, an inactive lead and a  *)
(* blocking delivery of the current email all return without writing.      *)
RequestGeneration(l, k) ==
    /\ LeadActive(l)
    /\ k \notin GenKeysInUse
    /\ ~ActiveGeneration(l)
    /\ \A e \in GenIds : LeadOfEmail(e) = l /\ IsCurrentEmail(e)
                           => ~BlockingDelivery(e)
    /\ \E g \in GenIds :
          /\ IsNextId(gen, GenIds, g)
          /\ gen' = [gen EXCEPT ![g] = QueuedGen(l, k)]
    /\ UNCHANGED <<lead, email, audit, del, genWorker, delWorker, mailed>>

(* claim_next_job of an idle worker; the lead is read without a lock.      *)
ClaimGeneration(w, g) ==
    /\ genWorker[w] = Null
    /\ \E skipped \in SUBSET GenIds : IsOldestUnlocked(gen, GenIds, skipped, g)
    /\ \/ /\ LeadActive(gen[g].lead)
          /\ gen' = [gen EXCEPT ![g] = Claimed(gen[g], w)]
          /\ genWorker' = [genWorker EXCEPT ![w] = g]
       \/ /\ ~LeadActive(gen[g].lead)
          /\ gen' = [gen EXCEPT ![g] = Ended(gen[g], "system_error")]
          /\ UNCHANGED genWorker
    /\ UNCHANGED <<lead, email, audit, del, delWorker, mailed>>

(* The heartbeat thread of the worker that executes the job.               *)
HeartbeatGeneration(w) ==
    /\ genWorker[w] # Null
    /\ gen[genWorker[w]].status = "running"
    /\ gen[genWorker[w]].by = w
    /\ gen' = [gen EXCEPT ![genWorker[w]].lease = "fresh"]
    /\ UNCHANGED <<lead, email, audit, del, genWorker, delWorker, mailed>>

(* Time passes: the last heartbeat is older than the stale threshold.      *)
ExpireGenerationLease(g) ==
    /\ gen[g].status = "running"
    /\ gen[g].lease = "fresh"
    /\ gen' = [gen EXCEPT ![g].lease = "stale"]
    /\ UNCHANGED <<lead, email, audit, del, genWorker, delWorker, mailed>>

(* recover_stale_jobs of a polling worker: all expired jobs whose row no   *)
(* other transaction has locked fail together.                             *)
RecoverGenerations(w, expired) ==
    /\ genWorker[w] = Null
    /\ expired # {}
    /\ \A g \in expired : gen[g].status = "running" /\ gen[g].lease = "stale"
    /\ gen' = [g \in GenIds |-> IF g \in expired
                                THEN Ended(gen[g], "system_error")
                                ELSE gen[g]]
    /\ UNCHANGED <<lead, email, audit, del, genWorker, delWorker, mailed>>

DraftedBy(outcome) == outcome \in {"generated", "insufficient_context"}

(* _load_running_job_and_run found the job no longer running: the worker   *)
(* drops the result.                                                       *)
DropLateGeneration(w) ==
    /\ genWorker[w] # Null
    /\ ~StillRunning(gen[genWorker[w]])
    /\ genWorker' = [genWorker EXCEPT ![w] = Null]
    /\ UNCHANGED <<lead, gen, email, audit, del, delWorker, mailed>>

(* _finalize_system_error: timeout, provider exception, invalid result or  *)
(* a result that could not be persisted.                                   *)
FailGeneration(w) ==
    LET g == genWorker[w]
    IN  /\ g # Null
        /\ StillRunning(gen[g])
        /\ gen' = [gen EXCEPT ![g] = Ended(gen[g], "system_error")]
        /\ genWorker' = [genWorker EXCEPT ![w] = Null]
        /\ UNCHANGED <<lead, email, audit, del, delWorker, mailed>>

(* _finalize_result under the lead lock: a result for a lead that became   *)
(* inactive is discarded, any other is recorded, with its draft if the     *)
(* outcome comes with one (a fallback draft for insufficient context).     *)
FinalizeGeneration(w, outcome, text) ==
    LET g == genWorker[w]
    IN  /\ g # Null
        /\ StillRunning(gen[g])
        /\ genWorker' = [genWorker EXCEPT ![w] = Null]
        /\ \/ /\ ~LeadActive(gen[g].lead)
              /\ gen' = [gen EXCEPT ![g] = Ended(gen[g], "system_error")]
              /\ UNCHANGED <<email, audit>>
           \/ /\ LeadActive(gen[g].lead)
              /\ gen' = [gen EXCEPT ![g] = Ended(gen[g], outcome)]
              /\ IF DraftedBy(outcome)
                 THEN /\ email' = [email EXCEPT ![g] =
                                     [status |-> "pending_review",
                                      text |-> text, reviewed |-> Null]]
                      /\ audit' = [audit EXCEPT ![g] =
                                     StatusEvent("none", "pending_review")]
                 ELSE UNCHANGED <<email, audit>>
        /\ UNCHANGED <<lead, del, delWorker, mailed>>

(* The worker process dies, or gives up because nothing it tried to write  *)
(* could be committed; its supervisor starts another with an empty memory. *)
LoseGenWorker(w) ==
    /\ genWorker[w] # Null
    /\ genWorker' = [genWorker EXCEPT ![w] = Null]
    /\ UNCHANGED <<lead, gen, email, audit, del, delWorker, mailed>>

(* ensure_low_context_fallback_email, run by opening the workspace of an   *)
(* active lead: its newest job ended without context and left no draft.    *)
EnsureFallbackDraft(l, text) ==
    /\ LeadActive(l)
    /\ \E g \in GenIds :
          /\ gen[g].lead = l
          /\ \A h \in GenIds : gen[h].lead = l => h <= g
          /\ gen[g].status = "insufficient_context"
          /\ email[g].status = "none"
          /\ email' = [email EXCEPT ![g] = [status |-> "pending_review",
                                            text |-> text, reviewed |-> Null]]
          /\ audit' = [audit EXCEPT ![g] = StatusEvent("none", "pending_review")]
    /\ UNCHANGED <<lead, gen, del, genWorker, delWorker, mailed>>
=============================================================================
