--------------------------- MODULE DeliveryProofs ---------------------------
(***************************************************************************)
(* Proofs about the delivery queue, for any number of jobs, workers and    *)
(* keys: what is mailed, how often, and what is said of it.                *)
(*                                                                         *)
(* The argument: a job is claimed once, so one worker at most ever knows   *)
(* it, and what that worker remembers of its call agrees with what the     *)
(* provider did as long as the job can still be finalized.  A job that is  *)
(* queued without acknowledgement finds all earlier jobs of its email      *)
(* failed, which means that nothing was mailed for it, and failed is       *)
(* final.                                                                  *)
(***************************************************************************)
EXTENDS OutreachContract, OutreachLegacy, OutreachProofs

\* What a job's status says of its claims and its messages.
Job(d) ==
    /\ del[d].status = "none" => del[d] = NoDel
    /\ del[d].status \in {"none", "queued"} => del[d].attempts = 0
    /\ del[d].attempts <= 1
    /\ mailed[d] <= 1
    /\ del[d].status \in {"none", "queued", "failed"} => mailed[d] = 0
    /\ del[d].status = "succeeded" => mailed[d] = 1 /\ email[del[d].email].status = "sent"
    /\ del[d].status # "none" => del[d].snapshot = del[d].confirmed

\* What a worker remembers of its job agrees with what the provider did.
Holds(w) ==
    LET d == delWorker[w].job
    IN  /\ del[d].status \in {"running", "delivery_unknown"}
        /\ delWorker[w].phase \in {"claimed", "refused"} => mailed[d] = 0
        /\ delWorker[w].phase = "accepted" => mailed[d] = 1

Busy(w) == delWorker[w] # Idle

OneHolder ==
    \A v, w \in DelWorkers :
        Busy(v) /\ Busy(w) /\ delWorker[v].job = delWorker[w].job => v = w

\* Ids are given out in order, ...
UsedFirst ==
    \A c, d \in DelIds : del[c].status # "none" /\ del[d].status = "none" => c < d

\* ... so that an earlier id is an earlier job.
EarlierFailed ==
    \A c, d \in DelIds :
        /\ c < d /\ del[c].email = del[d].email
        /\ del[d].status # "none" /\ ~del[d].ack
        => del[c].status = "failed"

SentHasJob ==
    \A e \in GenIds : email[e].status = "sent" =>
        \E d \in DelIds : /\ del[d].email = e /\ del[d].status = "succeeded"
                          /\ del[d].snapshot[1] = email[e].text
                          /\ email[e].reviewed = email[e].text

QueueInv ==
    /\ \A d \in DelIds : Job(d)
    /\ \A w \in DelWorkers : Busy(w) => Holds(w)
    /\ OneHolder /\ UsedFirst /\ EarlierFailed /\ SentHasJob

DeliveryInv == RowsInv /\ QueueInv

-----------------------------------------------------------------------------
(* Steps.  Most of them only end jobs or forget a worker, and are handled  *)
(* together; the others are the five below.                                *)

\* A job that keeps what was requested, and can only fail before it is
\* claimed, or become unknown after.
CalmJob(d) ==
    /\ del'[d].status = "none" => del'[d] = del[d]
    /\ del'[d].email = del[d].email /\ del'[d].ack = del[d].ack
    /\ del'[d].snapshot = del[d].snapshot /\ del'[d].confirmed = del[d].confirmed
    /\ del'[d].attempts = del[d].attempts
    /\ \/ del'[d].status = del[d].status
       \/ del[d].status = "queued" /\ del'[d].status = "failed"
       \/ del[d].status = "running" /\ del'[d].status = "delivery_unknown"

SentKept ==
    \A e \in GenIds :
        /\ email'[e].status = "sent" <=> email[e].status = "sent"
        /\ email[e].status = "sent" => email'[e] = email[e]

CalmQueue ==
    /\ \A d \in DelIds : CalmJob(d)
    /\ \A w \in DelWorkers : delWorker'[w] \in {delWorker[w], Idle}
    /\ mailed' = mailed
    /\ SentKept

\* A calm step keeps the invariant.
LEMMA CalmQueueKeeps ==
    ASSUME DeliveryInv, CalmQueue
    PROVE  QueueInv'
  <1> USE DEF DeliveryInv, QueueInv, CalmQueue
  <1>1. ASSUME NEW d \in DelIds PROVE Job(d)'
    <2>1. Job(d) /\ CalmJob(d) /\ mailed'[d] = mailed[d]
      OBVIOUS
    <2>2. del[d].status # "none" => del[d].email \in GenIds
      BY DEF RowsInv, DeliveriesHaveEmails
    <2>3. del'[d].status = "succeeded" => email'[del'[d].email].status = "sent"
      BY <2>1, <2>2 DEF Job, CalmJob, SentKept
    <2> QED  BY <2>1, <2>3 DEF Job, CalmJob
  <1>2. ASSUME NEW w \in DelWorkers, Busy(w)'
        PROVE  Holds(w)' /\ Busy(w) /\ delWorker'[w] = delWorker[w]
    <2>1. Busy(w) /\ delWorker'[w] = delWorker[w] /\ Holds(w)
      BY <1>2 DEF Busy
    <2>2. delWorker[w].job \in DelIds
      BY <2>1 DEF Busy, RowsInv, TypeOK
    <2>3. CalmJob(delWorker[w].job)
      BY <2>2
    <2> QED  BY <2>1, <2>3 DEF Holds, CalmJob
  <1>3. OneHolder'
    BY <1>2 DEF OneHolder
  <1>4. UsedFirst'
    BY DEF UsedFirst, CalmJob
  <1>5. EarlierFailed'
    BY DEF EarlierFailed, CalmJob
  <1>6. SentHasJob'
    <2> SUFFICES ASSUME NEW e \in GenIds, email'[e].status = "sent"
                 PROVE  \E d \in DelIds : /\ del'[d].email = e /\ del'[d].status = "succeeded"
                                          /\ del'[d].snapshot[1] = email'[e].text
                                          /\ email'[e].reviewed = email'[e].text
      BY DEF SentHasJob
    <2>1. email[e].status = "sent" /\ email'[e] = email[e]
      BY DEF SentKept
    <2> QED  BY <2>1 DEF SentHasJob, CalmJob
  <1> QED  BY <1>1, <1>2, <1>3, <1>4, <1>5, <1>6

\* What an email's new row says decides whether it is sent; a sent one never
\* changes.
LEMMA SentKeeps ==
    ASSUME RowsInv, [Next]_vars,
           \A e \in GenIds : email'[e].status = "sent" => email[e].status = "sent"
    PROVE  SentKept
  <1>1. HeldEmails
    BY HeldSteps
  <1> QED  BY <1>1 DEF HeldEmails, SentKept

LEMMA FeedIsCalm == ASSUME RowsInv, FeedNext PROVE CalmQueue
  <1>1. PICK rows \in FeedBatch : FeedSync(rows)
    BY DEF FeedNext
  <1>2. /\ del' = [d \in DelIds |-> DelAfterDismissal(d, Dismissed(rows))]
        /\ UNCHANGED <<email, delWorker, mailed>>
    BY <1>1 DEF FeedSync
  <1>3. ASSUME NEW d \in DelIds PROVE CalmJob(d)
    <2>1. del'[d] = DelAfterDismissal(d, Dismissed(rows)) /\ del[d] \in DelRow
      BY <1>2 DEF RowsInv, TypeOK
    <2> QED  BY <2>1 DEF DelAfterDismissal, Ended, CalmJob, DelRow
  <1> QED  BY <1>2, <1>3 DEF CalmQueue, SentKept

LEMMA GenerationIsCalm == ASSUME RowsInv, GenerationNext PROVE CalmQueue
  <1>1. UNCHANGED <<del, delWorker, mailed>>
    BY DEF GenerationNext, RequestGeneration, EnsureFallbackDraft, ExpireGenerationLease,
           ClaimGeneration, HeartbeatGeneration, RecoverGenerations, DropLateGeneration,
           FailGeneration, FinalizeGeneration, LoseGenWorker
  <1>2. ASSUME NEW e \in GenIds, email'[e].status = "sent" PROVE email[e].status = "sent"
    <2>1. ASSUME NEW g \in GenIds, NEW t,
                 email' = [email EXCEPT ![g] = [status |-> "pending_review", text |-> t,
                                                reviewed |-> Null]]
          PROVE  email[e].status = "sent"
      BY <1>2, <2>1 DEF RowsInv, TypeOK
    <2>2. ASSUME NEW l \in Leads, NEW t \in Texts, EnsureFallbackDraft(l, t)
          PROVE  email[e].status = "sent"
      BY <2>1, <2>2 DEF EnsureFallbackDraft
    <2>3. ASSUME NEW w \in GenWorkers, NEW outcome, NEW t \in Texts,
                 FinalizeGeneration(w, outcome, t)
          PROVE  email[e].status = "sent"
      <3>1. genWorker[w] \in GenIds
        BY <2>3 DEF FinalizeGeneration, RowsInv, TypeOK
      <3>2. \/ UNCHANGED email
            \/ email' = [email EXCEPT ![genWorker[w]] =
                           [status |-> "pending_review", text |-> t, reviewed |-> Null]]
        BY <2>3 DEF FinalizeGeneration
      <3> QED  BY <1>2, <2>1, <3>1, <3>2
    <2> QED
      BY <1>2, <2>2, <2>3
      DEF GenerationNext, RequestGeneration, ExpireGenerationLease, ClaimGeneration,
          HeartbeatGeneration, RecoverGenerations, DropLateGeneration, FailGeneration,
          LoseGenWorker
  <1>3. SentKept
    BY <1>2, SentKeeps DEF Next
  <1> QED  BY <1>1, <1>3 DEF CalmQueue, CalmJob

LEMMA ReviewIsCalm == ASSUME RowsInv, ReviewNext PROVE CalmQueue
  <1>1. UNCHANGED <<del, delWorker, mailed>>
    BY DEF ReviewNext, EditEmail, ApproveEmail, RejectEmail
  <1>2. ASSUME NEW e \in GenIds, email'[e].status = "sent" PROVE email[e].status = "sent"
    <2>1. PICK x \in GenIds : \/ \E t \in Texts : EditEmail(x, t)
                              \/ \E preview \in Rendering : ApproveEmail(x, preview)
                              \/ RejectEmail(x)
      BY DEF ReviewNext
    <2>2. \A y \in GenIds \ {x} : email'[y] = email[y]
      BY <2>1 DEF EditEmail, ApproveEmail, RejectEmail, RowsInv, TypeOK
    <2>3. email'[x].status # "sent"
      BY <2>1 DEF EditEmail, ApproveEmail, RejectEmail, RowsInv, TypeOK, EmailRow
    <2> QED  BY <1>2, <2>2, <2>3
  <1>3. SentKept
    BY <1>2, SentKeeps DEF Next
  <1> QED  BY <1>1, <1>3 DEF CalmQueue, CalmJob

\* The steps of the delivery queue that are calm.
LEMMA ExpiryIsCalm ==
    ASSUME RowsInv, NEW d \in DelIds, ExpireDeliveryLease(d)
    PROVE  CalmQueue
  <1>1. del' = [del EXCEPT ![d].lease = "stale"] /\ UNCHANGED <<email, delWorker, mailed>>
        /\ del[d].status = "running"
    BY DEF ExpireDeliveryLease
  <1>2. \A c \in DelIds : CalmJob(c)
    BY <1>1 DEF CalmJob, RowsInv, TypeOK, DelRow
  <1> QED  BY <1>1, <1>2 DEF CalmQueue, SentKept

LEMMA HeartbeatIsCalm ==
    ASSUME RowsInv, NEW w \in DelWorkers, HeartbeatDelivery(w)
    PROVE  CalmQueue
  <1> DEFINE d == delWorker[w].job
  <1>1. del' = [del EXCEPT ![d].lease = "fresh"] /\ UNCHANGED <<email, delWorker, mailed>>
        /\ del[d].status = "running" /\ d \in DelIds
    BY DEF HeartbeatDelivery, RowsInv, TypeOK
  <1>2. \A c \in DelIds : CalmJob(c)
    BY <1>1 DEF CalmJob, RowsInv, TypeOK, DelRow
  <1> QED  BY <1>1, <1>2 DEF CalmQueue, SentKept

LEMMA RecoveryIsCalm ==
    ASSUME RowsInv, NEW w \in DelWorkers, NEW expired \in SUBSET DelIds,
           RecoverDeliveries(w, expired)
    PROVE  CalmQueue
  <1>1. /\ del' = [d \in DelIds |-> IF d \in expired THEN Ended(del[d], "delivery_unknown")
                                                    ELSE del[d]]
        /\ \A d \in expired : del[d].status = "running"
        /\ UNCHANGED <<email, delWorker, mailed>>
    BY DEF RecoverDeliveries
  <1>2. ASSUME NEW c \in DelIds PROVE CalmJob(c)
    <2>1. /\ del'[c] = IF c \in expired THEN Ended(del[c], "delivery_unknown") ELSE del[c]
          /\ del[c] \in DelRow
      BY <1>1 DEF RowsInv, TypeOK
    <2> QED  BY <1>1, <2>1 DEF CalmJob, DelRow, Ended
  <1> QED  BY <1>1, <1>2 DEF CalmQueue, SentKept

\* A queued job of an inactive lead fails; a claimed one gets its worker.
LEMMA ClaimSteps ==
    ASSUME RowsInv, NEW w \in DelWorkers, NEW d \in DelIds, ClaimDelivery(w, d)
    PROVE  \/ CalmQueue
           \/ /\ del[d].status = "queued" /\ delWorker[w] = Idle
              /\ del' = [del EXCEPT ![d] = Claimed(del[d], w)]
              /\ delWorker' = [delWorker EXCEPT ![w] = [phase |-> "claimed", job |-> d]]
              /\ UNCHANGED <<email, mailed>>
  <1>1. del[d].status = "queued" /\ delWorker[w] = Idle /\ UNCHANGED <<email, mailed>>
    BY DEF ClaimDelivery, IsOldestUnlocked
  <1>2. ASSUME del' = [del EXCEPT ![d] = Ended(del[d], "failed")], UNCHANGED delWorker
        PROVE  CalmQueue
    <2>1. \A c \in DelIds : CalmJob(c)
      BY <1>1, <1>2 DEF CalmJob, RowsInv, TypeOK, DelRow, Ended
    <2> QED  BY <1>1, <1>2, <2>1 DEF CalmQueue, SentKept
  <1> QED  BY <1>1, <1>2 DEF ClaimDelivery

\* A job ends with its worker's answer, as failed or succeeded.
EndsWith(w, status) ==
    /\ Busy(w) /\ del[delWorker[w].job].status = "running"
    /\ del' = [del EXCEPT ![delWorker[w].job] = Ended(del[delWorker[w].job], status)]
    /\ delWorker' = [delWorker EXCEPT ![w] = Idle]
    /\ mailed' = mailed

\* A terminal answer is recorded as unknown, or as failed.
LEMMA TerminalSteps ==
    ASSUME RowsInv, NEW w \in DelWorkers, FinalizeTerminal(w)
    PROVE  \/ CalmQueue
           \/ /\ EndsWith(w, "failed") /\ delWorker[w].phase = "refused"
              /\ UNCHANGED email
  <1> DEFINE d == delWorker[w].job
  <1>1. /\ delWorker[w].phase \in {"accepted", "refused", "ambiguous"}
        /\ del[d].status = "running"
        /\ del' = [del EXCEPT ![d] = Ended(@, RecordedAs[delWorker[w].phase])]
        /\ delWorker' = [delWorker EXCEPT ![w] = Idle]
        /\ UNCHANGED <<email, mailed>>
    BY DEF FinalizeTerminal, Answered, StillRunning
  <1>2. Busy(w) /\ d \in DelIds
    BY <1>1 DEF Busy, Idle, RowsInv, TypeOK
  <1>3. CASE delWorker[w].phase = "refused"
    BY <1>1, <1>2, <1>3 DEF RecordedAs, EndsWith
  <1>4. CASE delWorker[w].phase # "refused"
    <2>1. RecordedAs[delWorker[w].phase] = "delivery_unknown"
      BY <1>1, <1>4 DEF RecordedAs
    <2>2. \A c \in DelIds : CalmJob(c)
      BY <1>1, <2>1 DEF CalmJob, RowsInv, TypeOK, DelRow, Ended
    <2>3. \A v \in DelWorkers : delWorker'[v] \in {delWorker[v], Idle}
      BY <1>1 DEF RowsInv, TypeOK
    <2> QED  BY <1>1, <2>2, <2>3 DEF CalmQueue, SentKept
  <1> QED  BY <1>3, <1>4

LEMMA ForgettingIsCalm ==
    ASSUME RowsInv, NEW w \in DelWorkers, DropLateDelivery(w) \/ LoseDelWorker(w)
    PROVE  CalmQueue
  <1>1. delWorker' = [delWorker EXCEPT ![w] = Idle] /\ UNCHANGED <<email, del, mailed>>
    BY DEF DropLateDelivery, LoseDelWorker
  <1>2. \A v \in DelWorkers : delWorker'[v] \in {delWorker[v], Idle}
    BY <1>1 DEF RowsInv, TypeOK
  <1> QED  BY <1>1, <1>2 DEF CalmQueue, CalmJob, SentKept

-----------------------------------------------------------------------------
(* The invariant.                                                          *)

LEMMA DeliveryInit == Init => DeliveryInv
  <1> SUFFICES ASSUME Init PROVE DeliveryInv
    OBVIOUS
  <1>1. RowsInv
    BY WorkflowInit, WorkflowHasRows
  <1>2. \A d \in DelIds : Job(d) /\ del[d] = NoDel
    BY DEF Init, Job, NoDel
  <1>3. \A w \in DelWorkers : ~Busy(w)
    BY DEF Init, Busy
  <1>4. \A e \in GenIds : email[e].status # "sent"
    BY DEF Init, NoEmail
  <1>5. UsedFirst /\ EarlierFailed
    BY <1>2 DEF UsedFirst, EarlierFailed, NoDel
  <1> QED  BY <1>1, <1>2, <1>3, <1>4, <1>5 DEF DeliveryInv, QueueInv, OneHolder, SentHasJob

\* Steps that change one job and leave the emails as they are.
LEMMA OtherJobsKeep ==
    ASSUME DeliveryInv, NEW d \in DelIds, UNCHANGED email,
           \A c \in DelIds \ {d} : del'[c] = del[c] /\ mailed'[c] = mailed[c],
           del[d].status # "succeeded"
    PROVE  /\ \A c \in DelIds \ {d} : Job(c)'
           /\ SentHasJob'
  <1> USE DEF DeliveryInv, QueueInv
  <1>1. ASSUME NEW c \in DelIds \ {d} PROVE Job(c)'
    <2>1. Job(c) /\ del'[c] = del[c] /\ mailed'[c] = mailed[c] /\ email' = email
      OBVIOUS
    <2> QED  BY <2>1 DEF Job
  <1>2. SentHasJob'
    <2> SUFFICES ASSUME NEW e \in GenIds, email[e].status = "sent"
                 PROVE  \E c \in DelIds : /\ del'[c].email = e /\ del'[c].status = "succeeded"
                                          /\ del'[c].snapshot[1] = email[e].text
                                          /\ email[e].reviewed = email[e].text
      BY DEF SentHasJob
    <2>1. PICK c \in DelIds : /\ del[c].email = e /\ del[c].status = "succeeded"
                              /\ del[c].snapshot[1] = email[e].text
                              /\ email[e].reviewed = email[e].text
      BY DEF SentHasJob
    <2> QED  BY <2>1
  <1> QED  BY <1>1, <1>2

\* A new job is the only one that may be open for its email, unless its
\* user has acknowledged the risk.
NewJob(e, k, confirmed, ack) ==
    [NoDel EXCEPT !.status = "queued", !.email = e, !.key = k, !.snapshot = Rendered(e),
                  !.confirmed = confirmed, !.ack = ack]

LEMMA NewJobFields ==
    ASSUME NEW e, NEW k, NEW confirmed, NEW ack
    PROVE  LET row == NewJob(e, k, confirmed, ack)
           IN  /\ row.status = "queued" /\ row.email = e /\ row.key = k /\ row.ack = ack
               /\ row.snapshot = Rendered(e) /\ row.confirmed = confirmed
               /\ row.attempts = 0
  BY DEF NewJob, NoDel

LEMMA EarlierJobsFailed ==
    ASSUME DeliveryInv, NEW e \in GenIds, email[e].status = "approved",
           ~ActiveDelivery(e), ~UnknownDelivery(e),
           NEW c \in DelIds, del[c].email = e
    PROVE  del[c].status = "failed"
  <1>1. Job(c)
    BY DEF DeliveryInv, QueueInv
  <1>2. del[c].status # "none"
    BY <1>1, OutreachAssumption DEF Job, NoDel
  <1>3. del[c].status # "succeeded"
    BY <1>1 DEF Job
  <1>4. del[c].status \notin {"queued", "running", "delivery_unknown"}
    BY DEF ActiveDelivery, UnknownDelivery, DeliveriesOf, DelActive
  <1>5. del[c].status \in {"none"} \cup DelActive \cup DelTerminal
    BY DEF DeliveryInv, RowsInv, TypeOK, DelRow
  <1> QED  BY <1>2, <1>3, <1>4, <1>5 DEF DelActive, DelTerminal

LEMMA RequestKeeps ==
    ASSUME DeliveryInv, NEW e \in GenIds, NEW k \in Keys, NEW confirmed \in Rendering,
           NEW ack \in BOOLEAN, RequestDelivery(e, k, confirmed, ack)
    PROVE  QueueInv'
  <1> USE DEF DeliveryInv, QueueInv
  <1> DEFINE row == NewJob(e, k, confirmed, ack)
  <1>1. PICK d \in DelIds : IsNextId(del, DelIds, d) /\ del' = [del EXCEPT ![d] = row]
    BY DEF RequestDelivery, NewJob
  <1>2. /\ email[e].status = "approved" /\ ~ActiveDelivery(e)
        /\ UnknownDelivery(e) => ack
        /\ Rendered(e) = confirmed
        /\ UNCHANGED <<email, delWorker, mailed>>
    BY DEF RequestDelivery, Confirms
  <1>3. /\ del[d].status = "none" /\ del'[d] = row
        /\ \A c \in DelIds \ {d} : del'[c] = del[c]
        /\ \A c \in DelIds : del[c].status = "none" => d <= c
    BY <1>1 DEF IsNextId, RowsInv, TypeOK
  <1>4. Job(d)'
    <2>1. mailed'[d] = 0
      BY <1>2, <1>3 DEF Job
    <2> QED  BY <1>2, <1>3, <2>1, NewJobFields DEF Job
  <1>5. (\A c \in DelIds : Job(c)') /\ SentHasJob'
    BY <1>2, <1>3, <1>4, OtherJobsKeep
  <1>6. ASSUME NEW w \in DelWorkers, Busy(w)' PROVE Holds(w)' /\ Busy(w)
    <2>1. Busy(w) /\ Holds(w) /\ delWorker[w].job \in DelIds \ {d}
      BY <1>2, <1>3, <1>6 DEF Busy, Holds, RowsInv, TypeOK
    <2> QED  BY <1>2, <1>3, <2>1 DEF Holds
  <1>7. OneHolder'
    BY <1>2, <1>6 DEF OneHolder
  <1>8. UsedFirst'
    BY <1>3, NewJobFields, OutreachAssumption DEF UsedFirst
  <1>9. EarlierFailed'
    <2> SUFFICES ASSUME NEW b \in DelIds, NEW c \in DelIds, b < c,
                        del'[b].email = del'[c].email, del'[c].status # "none", ~del'[c].ack
                 PROVE  del'[b].status = "failed"
      BY DEF EarlierFailed
    <2>1. b # c
      BY OutreachAssumption
    <2>2. CASE c = d
      <3>1. del[b].email = e /\ ~ack
        BY <1>3, <2>1, <2>2, NewJobFields
      <3>2. del[b].status = "failed"
        BY <1>2, <3>1, EarlierJobsFailed
      <3> QED  BY <1>3, <2>1, <2>2, <3>2
    <2>3. CASE b = d
      <3>1. del[c].status # "none"
        BY <1>3, <2>1, <2>3
      <3>2. c < d
        BY <1>3, <3>1 DEF UsedFirst
      <3> QED  BY <2>3, <3>2, OutreachAssumption
    <2>4. CASE b # d /\ c # d
      BY <1>3, <2>4 DEF EarlierFailed
    <2> QED  BY <2>2, <2>3, <2>4
  <1> QED  BY <1>5, <1>6, <1>7, <1>8, <1>9

\* A claimed job gets its one worker.
LEMMA ClaimKeeps ==
    ASSUME DeliveryInv, NEW w \in DelWorkers, NEW d \in DelIds,
           del[d].status = "queued", delWorker[w] = Idle,
           del' = [del EXCEPT ![d] = Claimed(del[d], w)],
           delWorker' = [delWorker EXCEPT ![w] = [phase |-> "claimed", job |-> d]],
           UNCHANGED <<email, mailed>>
    PROVE  QueueInv'
  <1> USE DEF DeliveryInv, QueueInv
  <1>1. /\ del'[d].status = "running" /\ del'[d].attempts = del[d].attempts + 1
        /\ del'[d].email = del[d].email /\ del'[d].ack = del[d].ack
        /\ del'[d].snapshot = del[d].snapshot /\ del'[d].confirmed = del[d].confirmed
        /\ \A c \in DelIds \ {d} : del'[c] = del[c]
    <2>1. del'[d] = Claimed(del[d], w) /\ del[d] \in DelRow
          /\ \A c \in DelIds \ {d} : del'[c] = del[c]
      BY DEF RowsInv, TypeOK
    <2> QED  BY <2>1, DelRowFields
  <1>2. Job(d)'
    BY <1>1 DEF Job
  <1>3. (\A c \in DelIds : Job(c)') /\ SentHasJob'
    BY <1>1, <1>2, OtherJobsKeep
  <1>4. /\ delWorker'[w] = [phase |-> "claimed", job |-> d]
        /\ \A v \in DelWorkers \ {w} : delWorker'[v] = delWorker[v]
    BY DEF RowsInv, TypeOK
  <1>5. ASSUME NEW v \in DelWorkers \ {w}, Busy(v)'
        PROVE  Holds(v)' /\ Busy(v) /\ delWorker[v].job # d
    <2>1. Busy(v) /\ Holds(v) /\ delWorker[v].job \in DelIds \ {d}
      BY <1>4, <1>5 DEF Busy, Holds, RowsInv, TypeOK
    <2> QED  BY <1>1, <1>4, <2>1 DEF Holds
  <1>6. Holds(w)'
    <2>1. mailed[d] = 0
      BY DEF Job
    <2> QED  BY <1>1, <1>4, <2>1 DEF Holds
  <1>7. OneHolder'
    BY <1>4, <1>5 DEF OneHolder
  <1>8. UsedFirst' /\ EarlierFailed'
    BY <1>1 DEF UsedFirst, EarlierFailed
  <1> QED  BY <1>3, <1>5, <1>6, <1>7, <1>8

\* The provider call: the only step that mails.
LEMMA CallKeeps ==
    ASSUME DeliveryInv, NEW w \in DelWorkers, NEW answer \in {"accepted", "refused", "ambiguous"},
           CallProvider(w, answer)
    PROVE  QueueInv'
  <1> USE DEF DeliveryInv, QueueInv
  <1> DEFINE d == delWorker[w].job
  <1>1. /\ delWorker[w].phase = "claimed"
        /\ delWorker' = [delWorker EXCEPT ![w].phase = answer]
        /\ \/ answer \in {"accepted", "ambiguous"} /\ mailed' = [mailed EXCEPT ![d] = @ + 1]
           \/ answer \in {"refused", "ambiguous"} /\ UNCHANGED mailed
        /\ UNCHANGED <<email, del>>
    BY DEF CallProvider
  <1>2. Busy(w) /\ d \in DelIds
    BY <1>1 DEF Busy, Idle, RowsInv, TypeOK
  <1>3. del[d].status \in {"running", "delivery_unknown"} /\ mailed[d] = 0
    BY <1>1, <1>2 DEF Holds
  <1>4. /\ delWorker'[w].phase = answer /\ delWorker'[w].job = d
        /\ \A v \in DelWorkers \ {w} : delWorker'[v] = delWorker[v]
    BY <1>1, <1>2 DEF Busy, RowsInv, TypeOK
  <1>5. /\ mailed'[d] \in {0, 1} /\ \A c \in DelIds \ {d} : mailed'[c] = mailed[c]
        /\ answer = "accepted" => mailed'[d] = 1
        /\ answer = "refused" => mailed'[d] = 0
    BY <1>1, <1>2, <1>3 DEF RowsInv, TypeOK
  <1>6. Job(d)'
    <2>1. Job(d)
      BY <1>2
    <2> QED  BY <1>1, <1>3, <1>5, <2>1 DEF Job
  <1>7. (\A c \in DelIds : Job(c)') /\ SentHasJob'
    BY <1>1, <1>2, <1>3, <1>5, <1>6, OtherJobsKeep
  <1>8. ASSUME NEW v \in DelWorkers \ {w}, Busy(v)' PROVE Holds(v)' /\ Busy(v)
    <2>1. Busy(v) /\ Holds(v) /\ delWorker[v].job \in DelIds
      BY <1>4, <1>8 DEF Busy, RowsInv, TypeOK
    <2>2. delWorker[v].job # d
      BY <1>2, <2>1 DEF OneHolder
    <2> QED  BY <1>1, <1>4, <1>5, <2>1, <2>2 DEF Holds
  <1>9. Holds(w)'
    BY <1>1, <1>3, <1>4, <1>5 DEF Holds
  <1>10. OneHolder'
    BY <1>2, <1>4, <1>8 DEF OneHolder
  <1>11. UsedFirst' /\ EarlierFailed'
    BY <1>1 DEF UsedFirst, EarlierFailed
  <1> QED  BY <1>7, <1>8, <1>9, <1>10, <1>11

\* What ending a job leaves of the queue.
EndedJob(d, status) ==
    /\ d \in DelIds /\ del'[d].status = status
    /\ \A c \in DelIds \ {d} : del'[c] = del[c]
    /\ \A c \in DelIds : /\ del'[c].email = del[c].email /\ del'[c].ack = del[c].ack
                         /\ del'[c].snapshot = del[c].snapshot
                         /\ del'[c].confirmed = del[c].confirmed
                         /\ del'[c].attempts = del[c].attempts

LEMMA EndKeeps ==
    ASSUME DeliveryInv, NEW w \in DelWorkers,
           NEW status \in {"failed", "succeeded"}, EndsWith(w, status)
    PROVE  /\ EndedJob(delWorker[w].job, status)
           /\ \A v \in DelWorkers : Busy(v)' => Holds(v)'
           /\ OneHolder' /\ UsedFirst' /\ EarlierFailed'
  <1> DEFINE d == delWorker[w].job
  <1> USE DEF DeliveryInv, QueueInv, EndsWith
  <1>1. d \in DelIds
    BY DEF Busy, RowsInv, TypeOK
  <1>2. /\ del'[d].status = status
        /\ del'[d].email = del[d].email /\ del'[d].ack = del[d].ack
        /\ del'[d].snapshot = del[d].snapshot /\ del'[d].confirmed = del[d].confirmed
        /\ del'[d].attempts = del[d].attempts
        /\ \A c \in DelIds \ {d} : del'[c] = del[c]
    <2>1. del'[d] = Ended(del[d], status) /\ del[d] \in DelRow
          /\ \A c \in DelIds \ {d} : del'[c] = del[c]
      BY <1>1 DEF RowsInv, TypeOK
    <2> QED  BY <2>1, DelRowFields
  <1>3. delWorker'[w] = Idle /\ \A v \in DelWorkers \ {w} : delWorker'[v] = delWorker[v]
    BY DEF RowsInv, TypeOK
  <1>4. ASSUME NEW v \in DelWorkers, Busy(v)' PROVE Holds(v)' /\ Busy(v) /\ v # w
    <2>1. v # w /\ Busy(v) /\ Holds(v) /\ delWorker[v].job \in DelIds
      BY <1>3, <1>4 DEF Busy, RowsInv, TypeOK
    <2>2. delWorker[v].job # d
      BY <2>1 DEF OneHolder
    <2> QED  BY <1>2, <1>3, <2>1, <2>2 DEF Holds
  <1>5. OneHolder'
    BY <1>3, <1>4 DEF OneHolder
  <1>6. UsedFirst'
    BY <1>1, <1>2 DEF UsedFirst
  <1>7. EarlierFailed'
    <2> SUFFICES ASSUME NEW b \in DelIds, NEW c \in DelIds, b < c,
                        del'[b].email = del'[c].email, del'[c].status # "none", ~del'[c].ack
                 PROVE  del'[b].status = "failed"
      BY DEF EarlierFailed
    <2>1. del[b].status = "failed"
      BY <1>2 DEF EarlierFailed
    <2>2. b # d
      BY <2>1
    <2> QED  BY <1>2, <2>1, <2>2
  <1>8. EndedJob(d, status)
    BY <1>1, <1>2 DEF EndedJob
  <1> QED  BY <1>4, <1>5, <1>6, <1>7, <1>8

LEMMA RefusalKeeps ==
    ASSUME DeliveryInv, NEW w \in DelWorkers, EndsWith(w, "failed"),
           delWorker[w].phase = "refused", UNCHANGED email
    PROVE  QueueInv'
  <1>0. PICK d \in DelIds : d = delWorker[w].job
    BY EndKeeps DEF EndedJob
  <1>1. /\ EndedJob(d, "failed")
        /\ \A v \in DelWorkers : Busy(v)' => Holds(v)'
        /\ OneHolder' /\ UsedFirst' /\ EarlierFailed'
    BY <1>0, EndKeeps
  <1>2. Busy(w) /\ del[d].status = "running" /\ mailed' = mailed
    BY <1>0 DEF EndsWith
  <1>3. mailed'[d] = 0 /\ Job(d)
    BY <1>0, <1>1, <1>2 DEF DeliveryInv, QueueInv, Holds, EndedJob
  <1>4. Job(d)'
    <2>1. /\ del'[d].status = "failed" /\ del'[d].attempts = del[d].attempts
          /\ del'[d].snapshot = del[d].snapshot /\ del'[d].confirmed = del[d].confirmed
      BY <1>0, <1>1 DEF EndedJob
    <2> QED  BY <1>2, <1>3, <2>1 DEF Job
  <1>5. (\A c \in DelIds \ {d} : Job(c)') /\ SentHasJob'
    BY <1>1, <1>2, OtherJobsKeep DEF EndedJob
  <1> QED  BY <1>1, <1>4, <1>5 DEF QueueInv

\* An acceptance is recorded while the email is still what was confirmed,
\* so the email is sent with what was mailed.
LEMMA AcceptanceSteps ==
    ASSUME DeliveryInv, NEW w \in DelWorkers, FinalizeAccepted(w),
           NEW d, d = delWorker[w].job, NEW e, e = del[d].email
    PROVE  /\ EndsWith(w, "succeeded") /\ d \in DelIds /\ e \in GenIds
           /\ delWorker[w].phase = "accepted"
           /\ mailed[d] = 1
           /\ email[e].status = "approved" /\ email[e].text = del[d].snapshot[1]
           /\ email[e].reviewed = email[e].text
           /\ email'[e].status = "sent" /\ email'[e].text = email[e].text
           /\ email'[e].reviewed = email[e].reviewed
           /\ \A f \in GenIds \ {e} : email'[f] = email[f]
  <1> USE DEF DeliveryInv, QueueInv
  <1>1. /\ delWorker[w].phase = "accepted" /\ del[d].status = "running"
        /\ del' = [del EXCEPT ![d] = Ended(del[d], "succeeded")]
        /\ email' = [email EXCEPT ![e].status = "sent"]
        /\ delWorker' = [delWorker EXCEPT ![w] = Idle]
        /\ UNCHANGED mailed
    BY DEF FinalizeAccepted, StillRunning
  <1>2. Busy(w) /\ d \in DelIds
    BY <1>1 DEF Busy, Idle, RowsInv, TypeOK
  <1>3. mailed[d] = 1
    BY <1>1, <1>2 DEF Holds
  <1>4. e \in GenIds
    BY <1>1, <1>2 DEF RowsInv, DeliveriesHaveEmails
  <1>5. /\ email[e].status = "approved" /\ email[e].text = del[d].snapshot[1]
        /\ email[e].reviewed = email[e].text
    BY <1>1, <1>2, <1>4 DEF RowsInv, OpenIsConfirmed, DraftsFollowJobs, DelActive
  <1>6. /\ email'[e].status = "sent" /\ email'[e].text = email[e].text
        /\ email'[e].reviewed = email[e].reviewed
        /\ \A f \in GenIds \ {e} : email'[f] = email[f]
    BY <1>1, <1>4 DEF RowsInv, TypeOK, EmailRow
  <1>7. EndsWith(w, "succeeded")
    BY <1>1, <1>2 DEF EndsWith
  <1> QED  BY <1>1, <1>2, <1>3, <1>4, <1>5, <1>6, <1>7

LEMMA AcceptanceKeeps ==
    ASSUME DeliveryInv, NEW w \in DelWorkers, FinalizeAccepted(w)
    PROVE  QueueInv'
  <1>0. PICK d \in DelIds, e \in GenIds : d = delWorker[w].job /\ e = del[d].email
    BY AcceptanceSteps
  <1>1. /\ EndsWith(w, "succeeded")
        /\ mailed[d] = 1 /\ mailed' = mailed /\ del[d].status = "running"
        /\ email[e].text = del[d].snapshot[1] /\ email[e].reviewed = email[e].text
        /\ email[e].status = "approved"
    BY <1>0, AcceptanceSteps DEF EndsWith
  <1>2. /\ email'[e].status = "sent" /\ email'[e].text = email[e].text
        /\ email'[e].reviewed = email[e].reviewed
        /\ \A f \in GenIds \ {e} : email'[f] = email[f]
    BY <1>0, AcceptanceSteps
  <1>3. /\ EndedJob(d, "succeeded")
        /\ \A v \in DelWorkers : Busy(v)' => Holds(v)'
        /\ OneHolder' /\ UsedFirst' /\ EarlierFailed'
    BY <1>0, <1>1, EndKeeps
  <1>4. /\ del'[d].status = "succeeded" /\ \A c \in DelIds \ {d} : del'[c] = del[c]
        /\ del'[d].attempts = del[d].attempts /\ del'[d].email = e
        /\ del'[d].snapshot = del[d].snapshot /\ del'[d].confirmed = del[d].confirmed
    BY <1>0, <1>3 DEF EndedJob
  <1>5. Job(d)'
    <2>1. Job(d)
      BY <1>1 DEF DeliveryInv, QueueInv
    <2> QED  BY <1>1, <1>2, <1>4, <2>1 DEF Job
  <1>6. ASSUME NEW c \in DelIds \ {d} PROVE Job(c)'
    <2>1. Job(c) /\ del'[c] = del[c] /\ mailed'[c] = mailed[c]
      BY <1>1, <1>4 DEF DeliveryInv, QueueInv
    <2>2. del[c].status = "succeeded" => email'[del[c].email].status = "sent"
      <3>1. del[c].status = "succeeded" => del[c].email \in GenIds
        BY DEF DeliveryInv, RowsInv, DeliveriesHaveEmails
      <3> QED  BY <1>2, <2>1, <3>1 DEF Job
    <2> QED  BY <2>1, <2>2 DEF Job
  <1>7. SentHasJob'
    <2> SUFFICES ASSUME NEW f \in GenIds, email'[f].status = "sent"
                 PROVE  \E c \in DelIds : /\ del'[c].email = f /\ del'[c].status = "succeeded"
                                          /\ del'[c].snapshot[1] = email'[f].text
                                          /\ email'[f].reviewed = email'[f].text
      BY DEF SentHasJob
    <2>1. CASE f = e
      BY <1>1, <1>2, <1>4, <2>1
    <2>2. CASE f # e
      <3>1. PICK c \in DelIds : /\ del[c].email = f /\ del[c].status = "succeeded"
                                /\ del[c].snapshot[1] = email[f].text
                                /\ email[f].reviewed = email[f].text
        BY <1>2, <2>2 DEF DeliveryInv, QueueInv, SentHasJob
      <3> QED  BY <1>1, <1>2, <1>4, <2>2, <3>1
    <2> QED  BY <2>1, <2>2
  <1> QED  BY <1>3, <1>5, <1>6, <1>7 DEF QueueInv

LEMMA DeliveryStep == ASSUME DeliveryInv, DeliveryNext PROVE QueueInv'
  <1>0. RowsInv
    BY DEF DeliveryInv
  <1>1. ASSUME NEW e \in GenIds, NEW k \in Keys, NEW confirmed \in Rendering,
               NEW ack \in BOOLEAN, RequestDelivery(e, k, confirmed, ack)
        PROVE  QueueInv'
    BY <1>1, RequestKeeps
  <1>2. ASSUME NEW d \in DelIds, ExpireDeliveryLease(d) PROVE QueueInv'
    BY <1>0, <1>2, ExpiryIsCalm, CalmQueueKeeps
  <1>3. ASSUME NEW w \in DelWorkers, NEW d \in DelIds, ClaimDelivery(w, d) PROVE QueueInv'
    BY <1>0, <1>3, ClaimSteps, CalmQueueKeeps, ClaimKeeps
  <1>4. ASSUME NEW w \in DelWorkers, HeartbeatDelivery(w) PROVE QueueInv'
    BY <1>0, <1>4, HeartbeatIsCalm, CalmQueueKeeps
  <1>5. ASSUME NEW w \in DelWorkers, NEW expired \in SUBSET DelIds,
               RecoverDeliveries(w, expired)
        PROVE  QueueInv'
    BY <1>0, <1>5, RecoveryIsCalm, CalmQueueKeeps
  <1>6. ASSUME NEW w \in DelWorkers, NEW answer \in {"accepted", "refused", "ambiguous"},
               CallProvider(w, answer)
        PROVE  QueueInv'
    BY <1>6, CallKeeps
  <1>7. ASSUME NEW w \in DelWorkers, FinalizeAccepted(w) PROVE QueueInv'
    BY <1>7, AcceptanceKeeps
  <1>8. ASSUME NEW w \in DelWorkers, FinalizeTerminal(w) PROVE QueueInv'
    BY <1>0, <1>8, TerminalSteps, CalmQueueKeeps, RefusalKeeps
  <1>9. ASSUME NEW w \in DelWorkers, DropLateDelivery(w) \/ LoseDelWorker(w) PROVE QueueInv'
    BY <1>0, <1>9, ForgettingIsCalm, CalmQueueKeeps
  <1> QED
    BY <1>1, <1>2, <1>3, <1>4, <1>5, <1>6, <1>7, <1>8, <1>9 DEF DeliveryNext

LEMMA StepKeeps == DeliveryInv /\ [Next]_vars => DeliveryInv'
  <1> SUFFICES ASSUME DeliveryInv, [Next]_vars PROVE DeliveryInv'
    OBVIOUS
  <1>1. RowsInv /\ RowsInv'
    BY RowsNext DEF DeliveryInv
  <1>2. CASE FeedNext \/ GenerationNext \/ ReviewNext
    BY <1>1, <1>2, FeedIsCalm, GenerationIsCalm, ReviewIsCalm, CalmQueueKeeps DEF DeliveryInv
  <1>3. CASE DeliveryNext
    BY <1>1, <1>3, DeliveryStep DEF DeliveryInv
  <1>4. CASE UNCHANGED vars
    <2>1. CalmQueue
      BY <1>4 DEF vars, CalmQueue, CalmJob, SentKept
    <2> QED  BY <1>1, <2>1, CalmQueueKeeps DEF DeliveryInv
  <1> QED  BY <1>2, <1>3, <1>4 DEF Next

\* The strengthened invariant of the delivery queue.
THEOREM DeliveryInvariant == Spec => []DeliveryInv
  BY DeliveryInit, StepKeeps, PTL DEF Spec

\* What the invariant says of messages.
LEMMA NothingReplayed == DeliveryInv => NoReplay
  BY DEF DeliveryInv, QueueInv, Job, NoReplay

LEMMA NoSecondMessage == DeliveryInv => DuplicateOnlyAcknowledged
  <1> SUFFICES ASSUME DeliveryInv, NEW c \in DelIds, NEW d \in DelIds, c < d,
                      del[c].email = del[d].email, mailed[c] > 0, mailed[d] > 0
               PROVE  del[d].ack
    BY DEF DuplicateOnlyAcknowledged
  <1>1. Job(c) /\ Job(d)
    BY DEF DeliveryInv, QueueInv
  <1>2. del[d].status # "none" /\ del[c].status # "failed"
    BY <1>1 DEF Job
  <1> QED  BY <1>2 DEF DeliveryInv, QueueInv, EarlierFailed

LEMMA SentWasMailed == DeliveryInv => SentMeansAccepted
  <1> SUFFICES ASSUME DeliveryInv, NEW e \in GenIds
               PROVE  email[e].status = "sent" <=>
                        \E d \in DelIds : /\ del[d].email = e
                                          /\ del[d].status = "succeeded"
                                          /\ mailed[d] = 1
                                          /\ del[d].snapshot = del[d].confirmed
                                          /\ del[d].snapshot[1] = email[e].text
                                          /\ email[e].reviewed = email[e].text
    BY DEF SentMeansAccepted
  <1>1. \A d \in DelIds : Job(d)
    BY DEF DeliveryInv, QueueInv
  <1> QED  BY <1>1 DEF DeliveryInv, QueueInv, SentHasJob, Job

\* No crash, expiry or retry claims or mails a job twice, and what is
\* reported failed was not mailed.
THEOREM NeverReplayed == Spec => []NoReplay
  BY NothingReplayed, DeliveryInvariant, PTL

\* A second message for an email needs an acknowledgement of the risk.
THEOREM Duplicates == Spec => []DuplicateOnlyAcknowledged
  BY NoSecondMessage, DeliveryInvariant, PTL

\* Sent is said of an email exactly when one of its jobs succeeded, and then
\* what was mailed is what was reviewed, confirmed and is still stored.
THEOREM SentIsMailed == Spec => []SentMeansAccepted
  BY SentWasMailed, DeliveryInvariant, PTL

-----------------------------------------------------------------------------
(* The pipeline implements its contract.                                   *)

Target == [d \in DelIds |-> del[d].email]
Acked == {d \in DelIds : del[d].ack}
Copies == {d \in DelIds : mailed[d] > 0}
Sent == {e \in GenIds : email[e].status = "sent"}

\* What may still mail may only shrink while the rest of the view stays.
Lapses ==
    /\ MayStillMail' \subseteq MayStillMail
    /\ UNCHANGED <<Target, Acked, Copies, Sent>>

LEMMA LapseIsAllowed == ASSUME Lapses PROVE [Contract!Next]_(Contract!vars)
  <1>1. MayStillMail \subseteq DelIds
    BY DEF MayStillMail
  <1>2. Contract!Lapse(MayStillMail \ MayStillMail')
    BY <1>1 DEF Lapses, Contract!Lapse, Target, Acked, Copies, Sent
  <1>3. MayStillMail \ MayStillMail' \in SUBSET DelIds
    BY <1>1
  <1> QED  BY <1>2, <1>3 DEF Contract!Next

LEMMA CalmLapses == ASSUME DeliveryInv, CalmQueue PROVE Lapses
  <1> USE DEF CalmQueue
  <1>1. UNCHANGED <<Target, Acked, Copies>>
    BY DEF CalmJob, Target, Acked, Copies
  <1>2. UNCHANGED Sent
    BY DEF SentKept, Sent
  <1>3. MayStillMail' \subseteq MayStillMail
    <2> SUFFICES ASSUME NEW d \in DelIds, d \in MayStillMail' PROVE d \in MayStillMail
      BY DEF MayStillMail
    <2>1. CASE del'[d].status = "queued"
      BY <2>1 DEF CalmJob, MayStillMail
    <2>2. ASSUME NEW w \in DelWorkers, delWorker'[w] = [phase |-> "claimed", job |-> d]
          PROVE  d \in MayStillMail
      <3>1. delWorker'[w] # Idle
        BY <2>2 DEF Idle
      <3> QED  BY <2>2, <3>1 DEF MayStillMail
    <2> QED  BY <2>1, <2>2 DEF MayStillMail
  <1> QED  BY <1>1, <1>2, <1>3 DEF Lapses

\* An unacknowledged request finds its email certainly unmailed.
LEMMA RequestConfirms ==
    ASSUME DeliveryInv, NEW e \in GenIds, NEW k \in Keys, NEW confirmed \in Rendering,
           NEW ack \in BOOLEAN, RequestDelivery(e, k, confirmed, ack)
    PROVE  Contract!Next
  <1> DEFINE row == NewJob(e, k, confirmed, ack)
  <1>1. PICK d \in DelIds : IsNextId(del, DelIds, d) /\ del' = [del EXCEPT ![d] = row]
    BY DEF RequestDelivery, NewJob
  <1>2. /\ email[e].status = "approved" /\ ~ActiveDelivery(e)
        /\ UnknownDelivery(e) => ack
        /\ UNCHANGED <<email, delWorker, mailed>>
    BY DEF RequestDelivery
  <1>3. /\ del[d].status = "none" /\ del'[d] = row
        /\ \A c \in DelIds \ {d} : del'[c] = del[c]
    BY <1>1 DEF IsNextId, DeliveryInv, RowsInv, TypeOK
  <1>4. Target[d] = Null /\ ~del[d].ack
    BY <1>3 DEF DeliveryInv, QueueInv, Job, NoDel, Target
  <1>5. row.status = "queued" /\ row.email = e /\ row.ack = ack
    BY NewJobFields
  <1>6. Target' = [Target EXCEPT ![d] = e]
    BY <1>3, <1>5 DEF Target
  <1>7. Acked' = IF ack THEN Acked \cup {d} ELSE Acked
    BY <1>3, <1>4, <1>5 DEF Acked
  <1>8. MayStillMail' = MayStillMail \cup {d}
    BY <1>2, <1>3, <1>5 DEF MayStillMail
  <1>9. e \notin Sent /\ Copies' = Copies /\ Sent' = Sent
    BY <1>2 DEF Sent, Copies
  <1>10. ASSUME ~ack, NEW c \in DelIds, Target[c] = e
         PROVE  c \notin MayStillMail \cup Copies
    <2>1. del[c].status = "failed"
      BY <1>2, <1>10, EarlierJobsFailed DEF Target
    <2>2. mailed[c] = 0
      BY <2>1 DEF DeliveryInv, QueueInv, Job
    <2>3. ASSUME NEW w \in DelWorkers, delWorker[w] = [phase |-> "claimed", job |-> c]
          PROVE  FALSE
      BY <2>1, <2>3 DEF DeliveryInv, QueueInv, Busy, Holds, Idle
    <2> QED  BY <2>1, <2>2, <2>3 DEF MayStillMail, Copies
  <1>11. Contract!Confirm(e, d, ack)
    BY <1>4, <1>6, <1>7, <1>8, <1>9, <1>10
    DEF Contract!Confirm, Contract!CertainlyUnmailed, Target, Acked, Copies, Sent
  <1> QED  BY <1>1, <1>11 DEF Contract!Next


\* A claim moves the job from the queue to its worker, which may still mail.
LEMMA ClaimLapses ==
    ASSUME DeliveryInv, NEW w \in DelWorkers, NEW d \in DelIds,
           del[d].status = "queued", delWorker[w] = Idle,
           del' = [del EXCEPT ![d] = Claimed(del[d], w)],
           delWorker' = [delWorker EXCEPT ![w] = [phase |-> "claimed", job |-> d]],
           UNCHANGED <<email, mailed>>
    PROVE  Lapses
  <1>1. /\ del'[d].status = "running" /\ del'[d].email = del[d].email
        /\ del'[d].ack = del[d].ack
        /\ \A c \in DelIds \ {d} : del'[c] = del[c]
    <2>1. del'[d] = Claimed(del[d], w) /\ del[d] \in DelRow
          /\ \A c \in DelIds \ {d} : del'[c] = del[c]
      BY DEF DeliveryInv, RowsInv, TypeOK
    <2> QED  BY <2>1, DelRowFields
  <1>2. UNCHANGED <<Target, Acked, Copies, Sent>>
    BY <1>1 DEF Target, Acked, Copies, Sent
  <1>3. MayStillMail' \subseteq MayStillMail
    <2> SUFFICES ASSUME NEW c \in DelIds \ {d}, c \in MayStillMail' PROVE c \in MayStillMail
      BY DEF MayStillMail
    <2>1. ASSUME NEW v \in DelWorkers, delWorker'[v] = [phase |-> "claimed", job |-> c]
          PROVE  delWorker[v] = [phase |-> "claimed", job |-> c]
      BY <2>1 DEF DeliveryInv, RowsInv, TypeOK
    <2> QED  BY <1>1, <2>1 DEF MayStillMail
  <1> QED  BY <1>2, <1>3 DEF Lapses

\* The call is the one chance its worker had to mail.
LEMMA CallMails ==
    ASSUME DeliveryInv, NEW w \in DelWorkers, NEW answer \in {"accepted", "refused", "ambiguous"},
           CallProvider(w, answer)
    PROVE  Contract!Next \/ Lapses
  <1> USE DEF DeliveryInv, QueueInv
  <1>0. PICK d : d = delWorker[w].job
    OBVIOUS
  <1>1. /\ delWorker[w].phase = "claimed"
        /\ delWorker' = [delWorker EXCEPT ![w].phase = answer]
        /\ \/ mailed' = [mailed EXCEPT ![d] = @ + 1]
           \/ UNCHANGED mailed
        /\ UNCHANGED <<email, del>>
    BY <1>0 DEF CallProvider
  <1>2. Busy(w) /\ d \in DelIds /\ delWorker[w] = [phase |-> "claimed", job |-> d]
    BY <1>0, <1>1 DEF Busy, Idle, RowsInv, TypeOK
  <1>3. del[d].status # "queued"
    BY <1>0, <1>2 DEF Holds
  <1>4. MayStillMail' = MayStillMail \ {d}
    <2>1. ASSUME NEW v \in DelWorkers, NEW c \in DelIds
          PROVE  delWorker'[v] = [phase |-> "claimed", job |-> c]
                   <=> c # d /\ delWorker[v] = [phase |-> "claimed", job |-> c]
      <3>1. CASE v = w
        <4>1. delWorker'[w].phase = answer
          BY <1>1, <1>2 DEF RowsInv, TypeOK
        <4> QED  BY <1>2, <3>1, <4>1
      <3>2. CASE v # w
        <4>1. delWorker'[v] = delWorker[v]
          BY <1>1, <3>2 DEF RowsInv, TypeOK
        <4>2. delWorker[v] # [phase |-> "claimed", job |-> d]
          BY <1>0, <1>2, <3>2 DEF OneHolder, Busy, Idle
        <4> QED  BY <4>1, <4>2
      <3> QED  BY <3>1, <3>2
    <2> QED  BY <1>1, <1>3, <2>1 DEF MayStillMail
  <1>5. d \in MayStillMail
    BY <1>2 DEF MayStillMail
  <1>6. UNCHANGED <<Target, Acked, Sent>>
    BY <1>1 DEF Target, Acked, Sent
  <1>7. CASE UNCHANGED mailed
    BY <1>4, <1>6, <1>7 DEF Lapses, Copies
  <1>8. CASE mailed' = [mailed EXCEPT ![d] = @ + 1]
    <2>1. mailed[d] = 0
      BY <1>0, <1>1, <1>2 DEF Holds
    <2>2. Copies' = Copies \cup {d}
      BY <1>2, <1>8, <2>1 DEF Copies, RowsInv, TypeOK
    <2>3. Contract!Mail(d)
      BY <1>4, <1>5, <1>6, <2>2 DEF Contract!Mail, Target, Acked, Copies, Sent
    <2> QED  BY <1>2, <2>3 DEF Contract!Next
  <1> QED  BY <1>1, <1>7, <1>8

\* A job that ends with its worker's answer could no longer mail.
LEMMA EndingLapses ==
    ASSUME DeliveryInv, NEW w \in DelWorkers, NEW status \in {"failed", "succeeded"},
           EndsWith(w, status)
    PROVE  MayStillMail' \subseteq MayStillMail /\ UNCHANGED <<Target, Acked, Copies>>
  <1>1. EndedJob(delWorker[w].job, status)
    BY EndKeeps
  <1>2. UNCHANGED <<Target, Acked, Copies>>
    BY <1>1 DEF EndedJob, EndsWith, Target, Acked, Copies
  <1>3. ASSUME NEW c \in DelIds, del'[c].status = "queued" PROVE del[c].status = "queued"
    BY <1>1, <1>3 DEF EndedJob
  <1>4. ASSUME NEW c \in DelIds, NEW v \in DelWorkers,
               delWorker'[v] = [phase |-> "claimed", job |-> c]
        PROVE  delWorker[v] = [phase |-> "claimed", job |-> c]
    BY <1>4 DEF EndsWith, Idle, DeliveryInv, RowsInv, TypeOK
  <1> QED  BY <1>2, <1>3, <1>4 DEF MayStillMail

LEMMA AcceptanceReports ==
    ASSUME DeliveryInv, NEW w \in DelWorkers, FinalizeAccepted(w)
    PROVE  Contract!Next \/ Lapses
  <1>0. PICK d \in DelIds, e \in GenIds : d = delWorker[w].job /\ e = del[d].email
    BY AcceptanceSteps
  <1>1. /\ EndsWith(w, "succeeded") /\ mailed[d] = 1
        /\ email'[e].status = "sent" /\ \A f \in GenIds \ {e} : email'[f] = email[f]
    BY <1>0, AcceptanceSteps
  <1>2. MayStillMail' \subseteq MayStillMail /\ UNCHANGED <<Target, Acked, Copies>>
    BY <1>1, EndingLapses
  <1>3. MayStillMail \subseteq MayStillMail'
    <2> SUFFICES ASSUME NEW c \in DelIds, c \in MayStillMail PROVE c \in MayStillMail'
      BY DEF MayStillMail
    <2>1. CASE del[c].status = "queued"
      <3>1. del[d].status = "running"
        BY <1>0, <1>1 DEF EndsWith
      <3>2. EndedJob(d, "succeeded")
        BY <1>0, <1>1, EndKeeps
      <3>3. del'[c].status = "queued"
        BY <2>1, <3>1, <3>2 DEF EndedJob
      <3> QED  BY <3>3 DEF MayStillMail
    <2>2. ASSUME NEW v \in DelWorkers, delWorker[v] = [phase |-> "claimed", job |-> c]
          PROVE  c \in MayStillMail'
      <3>1. v # w
        BY <2>2, AcceptanceSteps
      <3>2. delWorker'[v] = delWorker[v]
        BY <1>1, <3>1 DEF EndsWith, DeliveryInv, RowsInv, TypeOK
      <3> QED  BY <2>2, <3>2 DEF MayStillMail
    <2> QED  BY <2>1, <2>2 DEF MayStillMail
  <1>4. Sent' = Sent \cup {e}
    BY <1>1 DEF Sent
  <1>5. d \in Copies /\ Target[d] = e
    BY <1>0, <1>1 DEF Copies, Target
  <1>6. Contract!ReportSent(e)
    BY <1>2, <1>3, <1>4, <1>5 DEF Contract!ReportSent, Target, Acked, Copies, Sent
  <1> QED  BY <1>6 DEF Contract!Next

\* Every step is a step of the contract, or leaves its view alone.
LEMMA StepImplements == DeliveryInv /\ [Next]_vars => [Contract!Next]_(Contract!vars)
  <1> SUFFICES ASSUME DeliveryInv, [Next]_vars PROVE Contract!Next \/ Lapses
    BY LapseIsAllowed
  <1>0. RowsInv
    BY DEF DeliveryInv
  <1>1. CASE FeedNext \/ GenerationNext \/ ReviewNext
    BY <1>0, <1>1, FeedIsCalm, GenerationIsCalm, ReviewIsCalm, CalmLapses
  <1>2. CASE UNCHANGED vars
    <2>1. CalmQueue
      BY <1>2 DEF vars, CalmQueue, CalmJob, SentKept
    <2> QED  BY <2>1, CalmLapses
  <1>3. CASE DeliveryNext
    <2>1. ASSUME NEW e \in GenIds, NEW k \in Keys, NEW confirmed \in Rendering,
                 NEW ack \in BOOLEAN, RequestDelivery(e, k, confirmed, ack)
          PROVE  Contract!Next
      BY <2>1, RequestConfirms
    <2>2. ASSUME NEW d \in DelIds, ExpireDeliveryLease(d) PROVE Lapses
      BY <1>0, <2>2, ExpiryIsCalm, CalmLapses
    <2>3. ASSUME NEW w \in DelWorkers, NEW d \in DelIds, ClaimDelivery(w, d) PROVE Lapses
      BY <1>0, <2>3, ClaimSteps, CalmLapses, ClaimLapses
    <2>4. ASSUME NEW w \in DelWorkers, HeartbeatDelivery(w) PROVE Lapses
      BY <1>0, <2>4, HeartbeatIsCalm, CalmLapses
    <2>5. ASSUME NEW w \in DelWorkers, NEW expired \in SUBSET DelIds,
                 RecoverDeliveries(w, expired)
          PROVE  Lapses
      BY <1>0, <2>5, RecoveryIsCalm, CalmLapses
    <2>6. ASSUME NEW w \in DelWorkers, NEW answer \in {"accepted", "refused", "ambiguous"},
                 CallProvider(w, answer)
          PROVE  Contract!Next \/ Lapses
      BY <2>6, CallMails
    <2>7. ASSUME NEW w \in DelWorkers, FinalizeAccepted(w) PROVE Contract!Next \/ Lapses
      BY <2>7, AcceptanceReports
    <2>8. ASSUME NEW w \in DelWorkers, FinalizeTerminal(w) PROVE Lapses
      <3>1. CASE CalmQueue
        BY <3>1, CalmLapses
      <3>2. CASE EndsWith(w, "failed") /\ UNCHANGED email
        BY <3>2, EndingLapses DEF Lapses, Sent
      <3> QED  BY <1>0, <2>8, <3>1, <3>2, TerminalSteps
    <2>9. ASSUME NEW w \in DelWorkers, DropLateDelivery(w) \/ LoseDelWorker(w) PROVE Lapses
      BY <1>0, <2>9, ForgettingIsCalm, CalmLapses
    <2> QED
      BY <1>3, <2>1, <2>2, <2>3, <2>4, <2>5, <2>6, <2>7, <2>8, <2>9 DEF DeliveryNext
  <1> QED  BY <1>1, <1>2, <1>3 DEF Next

\* The queue implements the delivery promise: at most one message for each
\* confirmation, an unacknowledged one only when certainly nothing was
\* mailed before, and sent only of what was mailed.
THEOREM Implementation == Spec => ImplementsContract
  <1>1. Init => Contract!Init
    <2> SUFFICES ASSUME Init PROVE Contract!Init
      OBVIOUS
    <2>1. \A d \in DelIds : del[d] = NoDel /\ mailed[d] = 0
      BY DEF Init
    <2>2. \A e \in GenIds : email[e].status # "sent"
      BY DEF Init, NoEmail
    <2>3. \A w \in DelWorkers : delWorker[w] = Idle
      BY DEF Init
    <2> QED  BY <2>1, <2>2, <2>3 DEF Contract!Init, MayStillMail, NoDel, Idle
  <1> QED
    BY <1>1, DeliveryInvariant, StepImplements, PTL DEF Spec, ImplementsContract, Contract!Spec

-----------------------------------------------------------------------------
(* The rows of an earlier release.  They satisfy the same invariant, which *)
(* never asks for the current email of a lead: a lead whose newest job has *)
(* no draft yet may get one while its older email is being delivered.      *)

\* The rows, field by field.
LEMMA LegacyRows ==
    ASSUME NEW l \in Leads, NEW t \in ValidTexts, NEW m \in Markets
    PROVE  /\ {NoGen, QueuedGen(l, l), FinishedGen(l, "generated"), UndraftedGen(l)}
                \subseteq GenRow
           /\ NoGen.status = "none" /\ QueuedGen(l, l).status = "queued"
           /\ FinishedGen(l, "generated").status = "generated"
           /\ UndraftedGen(l).status = "insufficient_context"
           /\ {NoEmail, ApprovedEmail(t)} \subseteq EmailRow
           /\ NoEmail.status = "none" /\ ApprovedEmail(t).status = "approved"
           /\ ApprovedEmail(t).text = t /\ ApprovedEmail(t).reviewed = t
           /\ {NoDel, LegacyDelivery(t, m)} \subseteq DelRow
           /\ NoDel.status = "none" /\ NoDel.attempts = 0
           /\ LegacyDelivery(t, m).status = "queued" /\ LegacyDelivery(t, m).email = 1
           /\ LegacyDelivery(t, m).attempts = 0
           /\ LegacyDelivery(t, m).snapshot = <<t, m>>
           /\ LegacyDelivery(t, m).confirmed = <<t, m>>
  <1>1. LegacyKey \in Keys
    BY LegacyAssumption DEF LegacyKey
  <1>2. /\ {NoGen, QueuedGen(l, l), FinishedGen(l, "generated"), UndraftedGen(l)} \subseteq GenRow
        /\ NoGen.status = "none" /\ QueuedGen(l, l).status = "queued"
        /\ FinishedGen(l, "generated").status = "generated"
        /\ UndraftedGen(l).status = "insufficient_context"
    <2>1. NoGen \in GenRow /\ NoGen.status = "none"
      BY DEF GenRow, NoGen, Lease
    <2>2. QueuedGen(l, l) \in GenRow /\ QueuedGen(l, l).status = "queued"
      BY QueuedGenType, QueuedGenFields
    <2>3. \A s \in GenTerminal : FinishedGen(l, s) \in GenRow /\ FinishedGen(l, s).status = s
      BY <2>2 DEF FinishedGen, GenRow
    <2>4. /\ FinishedGen(l, "generated") \in GenRow
          /\ FinishedGen(l, "generated").status = "generated"
          /\ FinishedGen(l, "insufficient_context") \in GenRow
          /\ FinishedGen(l, "insufficient_context").status = "insufficient_context"
      BY <2>3 DEF GenTerminal
    <2>5. UndraftedGen(l) \in GenRow /\ UndraftedGen(l).status = "insufficient_context"
      BY <1>1, <2>4 DEF UndraftedGen, GenRow
    <2> QED  BY <2>1, <2>2, <2>4, <2>5
  <1>3. /\ {NoEmail, ApprovedEmail(t)} \subseteq EmailRow
        /\ NoEmail.status = "none" /\ ApprovedEmail(t).status = "approved"
        /\ ApprovedEmail(t).text = t /\ ApprovedEmail(t).reviewed = t
    BY OutreachAssumption DEF EmailRow, EmailStatus, NoEmail, ApprovedEmail
  <1>4. /\ {NoDel, LegacyDelivery(t, m)} \subseteq DelRow
        /\ NoDel.status = "none" /\ NoDel.attempts = 0
        /\ LegacyDelivery(t, m).status = "queued" /\ LegacyDelivery(t, m).email = 1
        /\ LegacyDelivery(t, m).attempts = 0
        /\ LegacyDelivery(t, m).snapshot = <<t, m>> /\ LegacyDelivery(t, m).confirmed = <<t, m>>
    <2>1. <<t, m>> \in Rendering
      BY OutreachAssumption DEF Rendering
    <2>2. NoDel \in DelRow /\ NoDel.status = "none" /\ NoDel.attempts = 0
      BY DEF DelRow, NoDel, Lease
    <2>3. /\ LegacyDelivery(t, m).status = "queued" /\ LegacyDelivery(t, m).email = 1
          /\ LegacyDelivery(t, m).attempts = 0
          /\ LegacyDelivery(t, m).snapshot = <<t, m>>
          /\ LegacyDelivery(t, m).confirmed = <<t, m>>
      BY DEF LegacyDelivery, NoDel
    <2>4. LegacyDelivery(t, m) \in DelRow
      BY <1>1, <2>1, LegacyAssumption DEF LegacyDelivery, NoDel, DelRow, DelActive, Lease
    <2> QED  BY <2>2, <2>3, <2>4
  <1> QED  BY <1>2, <1>3, <1>4

\* Which rows the tables hold.
LegacyTables(l, t, m) ==
    /\ lead \in [Leads -> [status: LeadStatus, market: Markets]]
    /\ audit \in [GenIds -> [prev: {"none"} \cup EmailStatus, new: {"none"} \cup EmailStatus]]
    /\ gen \in [GenIds -> {NoGen, QueuedGen(l, l), FinishedGen(l, "generated"), UndraftedGen(l)}]
    /\ email \in [GenIds -> {NoEmail, ApprovedEmail(t)}]
    /\ \A g \in GenIds : email[g] = ApprovedEmail(t) => gen[g] = FinishedGen(l, "generated")
    /\ del \in [DelIds -> {NoDel, LegacyDelivery(t, m)}]
    /\ \A d \in DelIds : del[d] = LegacyDelivery(t, m) => d = 1 /\ email[1] = ApprovedEmail(t)

LEMMA LegacyTablesStart ==
    ASSUME NEW l \in Leads, NEW t \in ValidTexts, NEW m \in Markets,
           \/ ArchivedWithQueuedDraft(l, t, m)
           \/ ArchivedWithQueuedDelivery(l, t, m)
           \/ UndraftedLowContext(l, t, m)
    PROVE  LegacyTables(l, t, m)
  <1> USE LegacyRows DEF LegacyTables
  <1>1. /\ \A p, n \in {"none"} \cup EmailStatus :
             StatusEvent(p, n) \in [prev: {"none"} \cup EmailStatus,
                                    new: {"none"} \cup EmailStatus]
        /\ {"none", "pending_review", "approved"} \subseteq {"none"} \cup EmailStatus
    BY DEF StatusEvent, EmailStatus
  <1>2. NoEmail # ApprovedEmail(t) /\ NoDel # LegacyDelivery(t, m)
    OBVIOUS
  <1>3. CASE ArchivedWithQueuedDraft(l, t, m)
    BY <1>1, <1>2, <1>3 DEF ArchivedWithQueuedDraft, LeadStatus
  <1>4. CASE ArchivedWithQueuedDelivery(l, t, m)
    BY <1>1, <1>2, <1>4, LegacyAssumption DEF ArchivedWithQueuedDelivery, LeadStatus
  <1>5. CASE UndraftedLowContext(l, t, m)
    <2>1. \A g \in GenIds :
            gen[g] = CASE g = 1 -> FinishedGen(l, "generated")
                       [] g = 2 -> UndraftedGen(l)
                       [] OTHER -> NoGen
      BY <1>5 DEF UndraftedLowContext
    <2>2. \A g \in GenIds : /\ g = 1 => gen[g] = FinishedGen(l, "generated")
                            /\ gen[g] \in {NoGen, FinishedGen(l, "generated"), UndraftedGen(l)}
      BY <2>1
    <2>3. gen = [g \in GenIds |-> gen[g]]
      BY <1>5 DEF UndraftedLowContext
    <2>4. gen \in [GenIds -> {NoGen, QueuedGen(l, l), FinishedGen(l, "generated"),
                             UndraftedGen(l)}]
      BY <2>2, <2>3
    <2>5. /\ email = [g \in GenIds |-> IF g = 1 THEN ApprovedEmail(t) ELSE NoEmail]
          /\ del = [d \in DelIds |-> NoDel]
          /\ lead = [x \in Leads |-> [status |-> IF x = l THEN "active" ELSE "absent",
                                       market |-> m]]
          /\ audit = [g \in GenIds |->
                         IF g = 1 THEN StatusEvent("pending_review", "approved")
                                  ELSE StatusEvent("none", "none")]
      BY <1>5 DEF UndraftedLowContext
    <2> QED  BY <1>1, <1>2, <2>2, <2>4, <2>5 DEF LeadStatus
  <1> QED  BY <1>3, <1>4, <1>5

LEMMA LegacyStart == LegacyInit => DeliveryInv
  <1> SUFFICES ASSUME LegacyInit PROVE DeliveryInv
    OBVIOUS
  <1>1. PICK l \in Leads, t \in ValidTexts, m \in Markets : LegacyTables(l, t, m)
    BY LegacyTablesStart DEF LegacyInit
  <1>2. /\ genWorker \in [GenWorkers -> GenIds \cup {Null}]
        /\ delWorker \in [DelWorkers -> [phase: WorkerPhase, job: DelIds] \cup {Idle}]
        /\ mailed \in [DelIds -> Nat]
        /\ \A d \in DelIds : mailed[d] = 0
        /\ \A w \in DelWorkers : ~Busy(w)
    BY DEF LegacyInit, Busy
  <1>3. /\ {NoGen, QueuedGen(l, l), FinishedGen(l, "generated"), UndraftedGen(l)}
             \subseteq GenRow
        /\ {NoEmail, ApprovedEmail(t)} \subseteq EmailRow
        /\ {NoDel, LegacyDelivery(t, m)} \subseteq DelRow
    BY LegacyRows
  <1>4. /\ NoGen.status = "none" /\ QueuedGen(l, l).status = "queued"
        /\ FinishedGen(l, "generated").status = "generated"
        /\ UndraftedGen(l).status = "insufficient_context"
        /\ NoEmail.status = "none" /\ ApprovedEmail(t).status = "approved"
        /\ ApprovedEmail(t).text = t /\ ApprovedEmail(t).reviewed = t
        /\ NoDel.status = "none" /\ NoDel.attempts = 0
        /\ LegacyDelivery(t, m).status = "queued" /\ LegacyDelivery(t, m).email = 1
        /\ LegacyDelivery(t, m).attempts = 0
        /\ LegacyDelivery(t, m).snapshot = <<t, m>>
        /\ LegacyDelivery(t, m).confirmed = <<t, m>>
    BY LegacyRows
  <1>5. TypeOK
    <2>1. lead \in [Leads -> [status: LeadStatus, market: Markets]]
          /\ audit \in [GenIds -> [prev: {"none"} \cup EmailStatus,
                                   new: {"none"} \cup EmailStatus]]
      BY <1>1 DEF LegacyTables
    <2>2. gen \in [GenIds -> GenRow]
      BY <1>1, <1>3 DEF LegacyTables
    <2>3. email \in [GenIds -> EmailRow]
      BY <1>1, <1>3 DEF LegacyTables
    <2>4. del \in [DelIds -> DelRow]
      BY <1>1, <1>3 DEF LegacyTables
    <2> QED  BY <1>2, <2>1, <2>2, <2>3, <2>4 DEF TypeOK
  <1> USE <1>1 DEF LegacyTables
  <1>6. \A d \in DelIds : del[d].status # "none" =>
          /\ del[d] = LegacyDelivery(t, m) /\ d = 1 /\ del[d].email = 1
          /\ email[1] = ApprovedEmail(t)
    BY <1>4
  <1>7. DeliveriesHaveEmails /\ OpenIsConfirmed
    <2> SUFFICES ASSUME NEW d \in DelIds, del[d].status # "none"
                 PROVE  /\ del[d].email \in GenIds
                        /\ email[del[d].email].status = "approved"
                        /\ email[del[d].email].text = del[d].snapshot[1]
      BY DEF DeliveriesHaveEmails, OpenIsConfirmed, DelActive
    <2>1. del[d] = LegacyDelivery(t, m) /\ email[1] = ApprovedEmail(t) /\ 1 \in GenIds
      BY <1>6, LegacyAssumption
    <2> QED  BY <1>4, <2>1
  <1>8. DraftsFollowJobs
    BY <1>4 DEF DraftsFollowJobs, GenActive
  <1>9. OneOpenDelivery
    BY <1>4, <1>6 DEF OneOpenDelivery, DelActive
  <1>10. \A d \in DelIds : Job(d)
    <2> SUFFICES ASSUME NEW d \in DelIds PROVE Job(d)
      OBVIOUS
    <2>1. del[d] = NoDel \/ del[d] = LegacyDelivery(t, m)
      OBVIOUS
    <2>2. mailed[d] = 0
      BY <1>2
    <2>3. /\ del[d].attempts = 0 /\ del[d].status \in {"none", "queued"}
          /\ del[d].status = "none" => del[d] = NoDel
          /\ del[d].status # "none" => del[d].snapshot = del[d].confirmed
      BY <1>4, <2>1
    <2> QED  BY <2>2, <2>3 DEF Job
  <1>11. UsedFirst /\ EarlierFailed
    <2>1. \A d \in DelIds : ~(d < 1) /\ (d # 1 => 1 < d)
      BY LegacyAssumption, OutreachAssumption
    <2>2. UsedFirst
      <3> SUFFICES ASSUME NEW c \in DelIds, NEW d \in DelIds,
                          del[c].status # "none", del[d].status = "none"
                   PROVE  c < d
        BY DEF UsedFirst
      <3> QED  BY <1>6, <2>1
    <2>3. EarlierFailed
      <3> SUFFICES ASSUME NEW c \in DelIds, NEW d \in DelIds, c < d, del[d].status # "none"
                   PROVE  FALSE
        BY DEF EarlierFailed
      <3> QED  BY <1>6, <2>1
    <2> QED  BY <2>2, <2>3
  <1>12. SentHasJob
    BY <1>4 DEF SentHasJob
  <1> QED
    BY <1>2, <1>5, <1>7, <1>8, <1>9, <1>10, <1>11, <1>12
    DEF DeliveryInv, QueueInv, RowsInv, OneHolder

\* The strengthened invariant, from those rows.
THEOREM LegacyInvariant == LegacySpec => []DeliveryInv
  BY LegacyStart, StepKeeps, PTL DEF LegacySpec

\* From the rows of an earlier release too, a second message for an email
\* needs an acknowledgement of the risk.
THEOREM LegacyDuplicates == LegacySpec => []DuplicateOnlyAcknowledged
  BY LegacyInvariant, NoSecondMessage, PTL

\* There too, nothing is claimed or mailed twice, and sent is said of exactly
\* what was mailed.
THEOREM LegacyMessages == LegacySpec => [](NoReplay /\ SentMeansAccepted)
  BY LegacyInvariant, NothingReplayed, SentWasMailed, PTL

\* The jobs of an archived lead, which its own release left queued, are not
\* started: drafts and deliveries begin for active leads only.
THEOREM LegacyActiveOnly == LegacySpec => OnlyActiveLeadsWork
  <1>1. ASSUME RowsInv, [Next]_vars PROVE OnlyActive
    <2>1. RowMoves
      BY <1>1, RowSteps
    <2> QED
      BY <2>1
      DEF OnlyActive, RowMoves, GenMoves, GenCreated, DelMoves, NewDelivery, DelCreated,
          EmailMoves, GenTerminal, DelTerminal
  <1>2. DeliveryInv /\ [Next]_vars => [OnlyActive]_vars
    BY <1>1 DEF DeliveryInv
  <1> QED  BY <1>2, LegacyInvariant, PTL DEF LegacySpec, OnlyActiveLeadsWork, OnlyActive

\* Every step from those rows is one the delivery promise allows; only the
\* start differs, where a job an earlier release queued may still mail.
THEOREM LegacyContract == LegacySpec => [][Contract!Next]_(Contract!vars)
  BY LegacyInvariant, StepImplements, PTL DEF LegacySpec

=============================================================================
