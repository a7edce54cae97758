--------------------------- MODULE OutreachProofs ---------------------------
(***************************************************************************)
(* Proofs about the outreach pipeline for every number of leads, jobs,     *)
(* keys, texts and workers: one workflow per lead, the history that no     *)
(* step rewrites, and the rules about what a step may do to a row.         *)
(***************************************************************************)
EXTENDS Outreach, TLAPS

-----------------------------------------------------------------------------
(* Facts about the rows.                                                   *)

\* What Ended and Claimed do to a generation row.
LEMMA GenRowTypes ==
    ASSUME NEW row \in GenRow
    PROVE  /\ \A s \in GenTerminal : Ended(row, s) \in GenRow
           /\ \A w \in GenWorkers : Claimed(row, w) \in GenRow
           /\ \A x \in Lease : [row EXCEPT !.lease = x] \in GenRow
  <1>1. \A s \in GenTerminal : Ended(row, s) \in GenRow
    BY DEF GenRow, Ended, Lease
  <1>2. ASSUME NEW w \in GenWorkers PROVE Claimed(row, w) \in GenRow
    <2>1. row.attempts + 1 \in Nat
      BY DEF GenRow
    <2> QED  BY <2>1 DEF GenRow, Claimed, Lease, GenActive
  <1>3. \A x \in Lease : [row EXCEPT !.lease = x] \in GenRow
    BY DEF GenRow, Lease
  <1> QED  BY <1>1, <1>2, <1>3

\* A generation row as it is queued.
LEMMA QueuedGenType ==
    ASSUME NEW l \in Leads, NEW k \in Keys \cup Leads
    PROVE  QueuedGen(l, k) \in GenRow
  BY DEF GenRow, QueuedGen, NoGen, Lease, GenActive

\* What Ended and Claimed do to a delivery row.
LEMMA DelRowTypes ==
    ASSUME NEW row \in DelRow
    PROVE  /\ \A s \in DelTerminal : Ended(row, s) \in DelRow
           /\ \A w \in DelWorkers : Claimed(row, w) \in DelRow
           /\ \A x \in Lease : [row EXCEPT !.lease = x] \in DelRow
  <1>1. \A s \in DelTerminal : Ended(row, s) \in DelRow
    BY DEF DelRow, Ended, Lease
  <1>2. ASSUME NEW w \in DelWorkers PROVE Claimed(row, w) \in DelRow
    <2>1. row.attempts + 1 \in Nat
      BY DEF DelRow
    <2> QED  BY <2>1 DEF DelRow, Claimed, Lease, DelActive
  <1>3. \A x \in Lease : [row EXCEPT !.lease = x] \in DelRow
    BY DEF DelRow, Lease
  <1> QED  BY <1>1, <1>2, <1>3

\* What the review routes and a delivery do to an email row.
LEMMA EmailRowTypes ==
    ASSUME NEW row \in EmailRow, NEW s \in EmailStatus
    PROVE  /\ [row EXCEPT !.status = s] \in EmailRow
           /\ \A t \in Texts : [row EXCEPT !.status = s, !.reviewed = t] \in EmailRow
           /\ \A t \in Texts : [status |-> s, text |-> t, reviewed |-> Null] \in EmailRow
  BY DEF EmailRow

\* The events that are written.
LEMMA StatusEventType ==
    ASSUME NEW p \in {"none"} \cup EmailStatus, NEW n \in EmailStatus
    PROVE  StatusEvent(p, n) \in [prev: {"none"} \cup EmailStatus,
                                 new: {"none"} \cup EmailStatus]
  BY DEF StatusEvent

\* The first drafts of a feed batch: unused ids, one lead each.
LEMMA FreshIdsFacts ==
    ASSUME NEW fresh, fresh \subseteq Leads, NEW draftOf \in FreshIds(fresh)
    PROVE  /\ DOMAIN draftOf \subseteq {g \in GenIds : gen[g].status = "none"}
           /\ \A g \in DOMAIN draftOf : draftOf[g] \in fresh
           /\ \A g, h \in DOMAIN draftOf : draftOf[g] = draftOf[h] => g = h
  <1> DEFINE free == {g \in GenIds : gen[g].status = "none"}
  <1>1. PICK ids \in SUBSET free : draftOf \in Bijection(ids, fresh)
    BY DEF FreshIds
  <1>2. /\ draftOf \in [ids -> fresh]
        /\ IsInjective(draftOf)
    BY <1>1 DEF Bijection, Injection, Surjection
  <1> QED  BY <1>2 DEF IsInjective

\* The fields Ended, Claimed and Queued rows are used for.
LEMMA GenRowFields ==
    ASSUME NEW row \in GenRow, NEW s, NEW w
    PROVE  /\ Ended(row, s).status = s /\ Ended(row, s).lead = row.lead
           /\ Claimed(row, w).status = "running" /\ Claimed(row, w).lead = row.lead
           /\ Ended(row, s).key = row.key /\ Claimed(row, w).key = row.key
  BY DEF GenRow, Ended, Claimed

\* What Ended and Claimed leave of a delivery row.
LEMMA DelRowFields ==
    ASSUME NEW row \in DelRow, NEW s, NEW w
    PROVE  /\ Ended(row, s).status = s /\ Claimed(row, w).status = "running"
           /\ Claimed(row, w).attempts = row.attempts + 1
           /\ Ended(row, s).attempts = row.attempts
           /\ Ended(row, s).email = row.email /\ Claimed(row, w).email = row.email
           /\ Ended(row, s).ack = row.ack /\ Claimed(row, w).ack = row.ack
           /\ Ended(row, s).key = row.key /\ Claimed(row, w).key = row.key
           /\ Ended(row, s).snapshot = row.snapshot /\ Claimed(row, w).snapshot = row.snapshot
           /\ Ended(row, s).confirmed = row.confirmed
           /\ Claimed(row, w).confirmed = row.confirmed
  BY DEF DelRow, Ended, Claimed

-----------------------------------------------------------------------------
(* Type correctness.                                                       *)

LEMMA TypingInit == Init => TypeOK
  BY OutreachAssumption
  DEF Init, TypeOK, LeadStatus, NoGen, NoEmail, NoDel, Idle, StatusEvent,
      GenRow, EmailRow, DelRow, Lease, WorkerPhase

LEMMA TypingFeed == ASSUME TypeOK, FeedNext PROVE TypeOK'
  <1>1. PICK rows \in FeedBatch : FeedSync(rows)
    BY DEF FeedNext
  <1>2. PICK named \in SUBSET Leads : rows \in [named -> FeedRow]
    BY DEF FeedBatch
  <1> DEFINE fresh == {l \in DOMAIN rows : NeedsFirstDraft(l, rows[l])}
  <1>3. PICK draftOf \in FreshIds(fresh) :
          /\ lead' = [l \in Leads |-> IF l \in DOMAIN rows THEN rows[l] ELSE lead[l]]
          /\ gen' = [g \in GenIds |->
                       IF g \in DOMAIN draftOf
                       THEN QueuedGen(draftOf[g], draftOf[g])
                       ELSE GenAfterDismissal(g, Dismissed(rows))]
          /\ del' = [d \in DelIds |-> DelAfterDismissal(d, Dismissed(rows))]
          /\ UNCHANGED <<email, audit, genWorker, delWorker, mailed>>
    BY <1>1 DEF FeedSync
  <1>4. \A g \in DOMAIN draftOf : draftOf[g] \in Leads
    BY <1>2, FreshIdsFacts
  <1>5. lead' \in [Leads -> [status: LeadStatus, market: Markets]]
    BY <1>2, <1>3 DEF TypeOK, FeedRow, LeadStatus
  <1>6. gen' \in [GenIds -> GenRow]
    <2>1. ASSUME NEW g \in GenIds PROVE GenAfterDismissal(g, Dismissed(rows)) \in GenRow
      BY GenRowTypes DEF TypeOK, GenAfterDismissal, GenTerminal
    <2> QED  BY <1>3, <1>4, <2>1, QueuedGenType
  <1>7. del' \in [DelIds -> DelRow]
    <2>1. ASSUME NEW d \in DelIds PROVE DelAfterDismissal(d, Dismissed(rows)) \in DelRow
      BY DelRowTypes DEF TypeOK, DelAfterDismissal, DelTerminal
    <2> QED  BY <1>3, <2>1
  <1> QED  BY <1>3, <1>5, <1>6, <1>7 DEF TypeOK

LEMMA TypingGeneration == ASSUME TypeOK, GenerationNext PROVE TypeOK'
  <1> USE DEF TypeOK
  <1>1. ASSUME NEW l \in Leads, NEW k \in Keys, RequestGeneration(l, k) PROVE TypeOK'
    BY <1>1, QueuedGenType DEF RequestGeneration
  <1>2. ASSUME NEW l \in Leads, NEW t \in Texts, EnsureFallbackDraft(l, t) PROVE TypeOK'
    BY <1>2 DEF EnsureFallbackDraft, EmailRow, EmailStatus, StatusEvent
  <1>3. ASSUME NEW g \in GenIds, ExpireGenerationLease(g) PROVE TypeOK'
    BY <1>3, GenRowTypes DEF ExpireGenerationLease, Lease
  <1>4. ASSUME NEW w \in GenWorkers, NEW g \in GenIds, ClaimGeneration(w, g) PROVE TypeOK'
    <2>1. \/ /\ gen' = [gen EXCEPT ![g] = Claimed(gen[g], w)]
             /\ genWorker' = [genWorker EXCEPT ![w] = g]
          \/ /\ gen' = [gen EXCEPT ![g] = Ended(gen[g], "system_error")]
             /\ UNCHANGED genWorker
      BY <1>4 DEF ClaimGeneration
    <2>2. /\ gen' \in [GenIds -> GenRow]
          /\ genWorker' \in [GenWorkers -> GenIds \cup {Null}]
      <3>1. /\ Claimed(gen[g], w) \in GenRow
            /\ Ended(gen[g], "system_error") \in GenRow
        BY GenRowTypes DEF GenTerminal
      <3> QED  BY <2>1, <3>1
    <2> QED  BY <1>4, <2>2 DEF ClaimGeneration
  <1>5. ASSUME NEW w \in GenWorkers, HeartbeatGeneration(w) PROVE TypeOK'
    BY <1>5, GenRowTypes DEF HeartbeatGeneration, Lease
  <1>6. ASSUME NEW w \in GenWorkers, NEW expired \in SUBSET GenIds,
               RecoverGenerations(w, expired) PROVE TypeOK'
    BY <1>6, GenRowTypes DEF RecoverGenerations, GenTerminal
  <1>7. ASSUME NEW w \in GenWorkers, DropLateGeneration(w) PROVE TypeOK'
    BY <1>7 DEF DropLateGeneration
  <1>8. ASSUME NEW w \in GenWorkers, FailGeneration(w) PROVE TypeOK'
    BY <1>8, GenRowTypes DEF FailGeneration, GenTerminal
  <1>9. ASSUME NEW w \in GenWorkers, NEW outcome \in GenTerminal \ {"system_error"},
               NEW t \in Texts, FinalizeGeneration(w, outcome, t) PROVE TypeOK'
    <2>1. /\ genWorker[w] \in GenIds
          /\ genWorker' \in [GenWorkers -> GenIds \cup {Null}]
      BY <1>9 DEF FinalizeGeneration
    <2>2. gen' \in [GenIds -> GenRow]
      BY <1>9, <2>1, GenRowTypes DEF FinalizeGeneration, GenTerminal
    <2>3. /\ email' \in [GenIds -> EmailRow]
          /\ audit' \in [GenIds -> [prev: {"none"} \cup EmailStatus,
                                    new: {"none"} \cup EmailStatus]]
      <3>1. \/ UNCHANGED <<email, audit>>
            \/ /\ email' = [email EXCEPT ![genWorker[w]] =
                             [status |-> "pending_review", text |-> t, reviewed |-> Null]]
               /\ audit' = [audit EXCEPT ![genWorker[w]] =
                             StatusEvent("none", "pending_review")]
        BY <1>9 DEF FinalizeGeneration
      <3>2. [status |-> "pending_review", text |-> t, reviewed |-> Null] \in EmailRow
        BY DEF EmailRow, EmailStatus
      <3>3. StatusEvent("none", "pending_review")
              \in [prev: {"none"} \cup EmailStatus, new: {"none"} \cup EmailStatus]
        BY DEF StatusEvent, EmailStatus
      <3>4. email' \in [GenIds -> EmailRow]
        BY <2>1, <3>1, <3>2
      <3>5. audit' \in [GenIds -> [prev: {"none"} \cup EmailStatus,
                                  new: {"none"} \cup EmailStatus]]
        BY <2>1, <3>1, <3>3
      <3> QED  BY <3>4, <3>5
    <2> QED  BY <1>9, <2>1, <2>2, <2>3 DEF FinalizeGeneration
  <1>10. ASSUME NEW w \in GenWorkers, LoseGenWorker(w) PROVE TypeOK'
    BY <1>10 DEF LoseGenWorker
  <1> QED
    BY <1>1, <1>2, <1>3, <1>4, <1>5, <1>6, <1>7, <1>8, <1>9, <1>10
    DEF GenerationNext

LEMMA TypingReview == ASSUME TypeOK, ReviewNext PROVE TypeOK'
  <1> USE DEF TypeOK
  <1>1. ASSUME NEW e \in GenIds, NEW t \in Texts, EditEmail(e, t) PROVE TypeOK'
    BY <1>1 DEF EditEmail, AuditAfterEdit, EmailRow, EmailStatus, StatusEvent
  <1>2. ASSUME NEW e \in GenIds, NEW preview \in Rendering, ApproveEmail(e, preview)
        PROVE  TypeOK'
    <2>1. preview[1] \in Texts
      BY DEF Rendering
    <2>2. /\ "approved" \in EmailStatus
          /\ email[e].status \in EmailStatus
      BY <1>2 DEF ApproveEmail, EmailStatus
    <2>3. email' \in [GenIds -> EmailRow]
      BY <1>2, <2>1, <2>2, EmailRowTypes DEF ApproveEmail
    <2> QED  BY <1>2, <2>2, <2>3, StatusEventType DEF ApproveEmail
  <1>3. ASSUME NEW e \in GenIds, RejectEmail(e) PROVE TypeOK'
    <2>1. /\ "rejected" \in EmailStatus
          /\ email[e].status \in EmailStatus
      BY <1>3 DEF RejectEmail, EmailStatus
    <2> QED  BY <1>3, <2>1, EmailRowTypes, StatusEventType DEF RejectEmail
  <1> QED  BY <1>1, <1>2, <1>3 DEF ReviewNext

LEMMA TypingDelivery == ASSUME TypeOK, DeliveryNext PROVE TypeOK'
  <1> USE DEF TypeOK
  <1>1. ASSUME NEW e \in GenIds, NEW k \in Keys, NEW confirmed \in Rendering,
               NEW ack \in BOOLEAN, RequestDelivery(e, k, confirmed, ack)
        PROVE  TypeOK'
    <2>1. [NoDel EXCEPT !.status = "queued", !.email = e, !.key = k,
                        !.snapshot = Rendered(e), !.confirmed = confirmed,
                        !.ack = ack] \in DelRow
      BY <1>1 DEF RequestDelivery, Confirms, NoDel, DelRow, DelActive, Lease
    <2> QED  BY <1>1, <2>1 DEF RequestDelivery
  <1>2. ASSUME NEW d \in DelIds, ExpireDeliveryLease(d) PROVE TypeOK'
    BY <1>2, DelRowTypes DEF ExpireDeliveryLease, Lease
  <1>3. ASSUME NEW w \in DelWorkers, NEW d \in DelIds, ClaimDelivery(w, d) PROVE TypeOK'
    <2>1. \/ /\ del' = [del EXCEPT ![d] = Claimed(del[d], w)]
             /\ delWorker' = [delWorker EXCEPT ![w] = [phase |-> "claimed", job |-> d]]
          \/ /\ del' = [del EXCEPT ![d] = Ended(del[d], "failed")]
             /\ UNCHANGED delWorker
      BY <1>3 DEF ClaimDelivery
    <2>2. /\ del' \in [DelIds -> DelRow]
          /\ delWorker' \in [DelWorkers -> [phase: WorkerPhase, job: DelIds] \cup {Idle}]
      <3>1. /\ Claimed(del[d], w) \in DelRow
            /\ Ended(del[d], "failed") \in DelRow
            /\ [phase |-> "claimed", job |-> d] \in [phase: WorkerPhase, job: DelIds]
        BY DelRowTypes DEF DelTerminal, WorkerPhase
      <3>2. del' \in [DelIds -> DelRow]
        BY <2>1, <3>1
      <3>3. delWorker' \in [DelWorkers -> [phase: WorkerPhase, job: DelIds] \cup {Idle}]
        BY <2>1, <3>1
      <3> QED  BY <3>2, <3>3
    <2> QED  BY <1>3, <2>2 DEF ClaimDelivery
  <1>4. ASSUME NEW w \in DelWorkers, HeartbeatDelivery(w) PROVE TypeOK'
    BY <1>4, DelRowTypes DEF HeartbeatDelivery, Lease
  <1>5. ASSUME NEW w \in DelWorkers, NEW expired \in SUBSET DelIds,
               RecoverDeliveries(w, expired) PROVE TypeOK'
    BY <1>5, DelRowTypes DEF RecoverDeliveries, DelTerminal
  <1>6. ASSUME NEW w \in DelWorkers, NEW answer \in {"accepted", "refused", "ambiguous"},
               CallProvider(w, answer) PROVE TypeOK'
    <2>1. delWorker[w] \in [phase: WorkerPhase, job: DelIds]
      BY <1>6 DEF CallProvider, Idle
    <2>2. [delWorker[w] EXCEPT !.phase = answer] \in [phase: WorkerPhase, job: DelIds]
      BY <2>1 DEF WorkerPhase
    <2>3. mailed' \in [DelIds -> Nat]
      BY <1>6, <2>1 DEF CallProvider
    <2> QED  BY <1>6, <2>2, <2>3 DEF CallProvider
  <1>7. ASSUME NEW w \in DelWorkers, FinalizeAccepted(w) PROVE TypeOK'
    <2>1. del' \in [DelIds -> DelRow]
      BY <1>7, DelRowTypes DEF FinalizeAccepted, DelTerminal
    <2>2. email' \in [GenIds -> EmailRow]
      BY <1>7, EmailRowTypes DEF FinalizeAccepted, EmailStatus
    <2>3. audit' \in [GenIds -> [prev: {"none"} \cup EmailStatus,
                                new: {"none"} \cup EmailStatus]]
      BY <1>7 DEF FinalizeAccepted, EmailRow, EmailStatus, StatusEvent
    <2>4. delWorker' \in [DelWorkers -> [phase: WorkerPhase, job: DelIds] \cup {Idle}]
      BY <1>7 DEF FinalizeAccepted, Idle, WorkerPhase
    <2> QED  BY <1>7, <2>1, <2>2, <2>3, <2>4 DEF FinalizeAccepted
  <1>8. ASSUME NEW w \in DelWorkers, FinalizeTerminal(w) PROVE TypeOK'
    <2>1. RecordedAs[delWorker[w].phase] \in DelTerminal
      BY <1>8 DEF FinalizeTerminal, Answered, RecordedAs, DelTerminal
    <2> QED  BY <1>8, <2>1, DelRowTypes DEF FinalizeTerminal, Idle, WorkerPhase
  <1>9. ASSUME NEW w \in DelWorkers, DropLateDelivery(w) PROVE TypeOK'
    BY <1>9 DEF DropLateDelivery, Idle, WorkerPhase
  <1>10. ASSUME NEW w \in DelWorkers, LoseDelWorker(w) PROVE TypeOK'
    BY <1>10 DEF LoseDelWorker, Idle, WorkerPhase
  <1> QED
    BY <1>1, <1>2, <1>3, <1>4, <1>5, <1>6, <1>7, <1>8, <1>9, <1>10
    DEF DeliveryNext

LEMMA TypingNext == ASSUME TypeOK, [Next]_vars PROVE TypeOK'
  <1>1. CASE Next
    BY <1>1, TypingFeed, TypingGeneration, TypingReview, TypingDelivery DEF Next
  <1>2. CASE UNCHANGED vars
    BY <1>2 DEF vars, TypeOK
  <1> QED  BY <1>1, <1>2

\* The tables and the workers always hold rows of their types.
THEOREM Typing == Spec => []TypeOK
  BY TypingInit, TypingNext, PTL DEF Spec

-----------------------------------------------------------------------------
(* One workflow per lead.  Most steps only end work, so they are handled   *)
(* together: a step is calm when every generation row keeps its lead and   *)
(* is either unchanged, or moves on without a draft, or is new for a lead  *)
(* with no other work; and when no delivery starts.                        *)

CalmGenRow(g) ==
    /\ gen'[g].lead = gen[g].lead
    /\ \/ gen'[g].status = gen[g].status
       \/ /\ gen[g].status \in GenActive
          /\ gen'[g].status \in GenActive \cup {"provider_error", "system_error"}

NewGenRow(g) ==
    /\ gen[g].status = "none"
    /\ gen'[g].status = "queued"
    /\ gen'[g].lead \in Leads
    /\ ~ActiveGeneration(gen'[g].lead)
    /\ DeliveringLead(gen'[g].lead) = {}
    /\ lead'[gen'[g].lead].status # "absent"

CalmDeliveries ==
    \A d \in DelIds :
      /\ del'[d].email = del[d].email
      /\ del'[d].snapshot = del[d].snapshot
      /\ \/ del'[d].status = del[d].status
         \/ del[d].status \in DelActive /\ del'[d].status # "none"

CalmStep ==
    /\ \A g \in GenIds : CalmGenRow(g) \/ NewGenRow(g)
    /\ \A g, h \in GenIds :
         NewGenRow(g) /\ NewGenRow(h) /\ gen'[g].lead = gen'[h].lead => g = h
    /\ CalmDeliveries
    /\ email' = email
    /\ \A l \in Leads : lead'[l].status = "absent" => lead[l].status = "absent"

\* A calm step keeps every part of the invariant.
LEMMA CalmKeeps ==
    ASSUME WorkflowInv, TypeOK', CalmStep
    PROVE  WorkflowInv'
  <1> USE DEF CalmStep
  <1>1. \A g \in GenIds : gen[g].status # "none" => CalmGenRow(g)
    BY DEF NewGenRow
  <1>2. \A g \in GenIds : /\ email[g].status # "none" => gen[g].lead # Null
                          /\ gen[g].lead # Null => gen'[g].lead = gen[g].lead
    BY <1>1 DEF WorkflowInv, RowsAgree, DraftedBy, CalmGenRow
  <1>3. RowsAgree'
    <2>1. ASSUME NEW g \in GenIds, CalmGenRow(g)
          PROVE  /\ gen'[g].status = "none" <=> gen'[g].lead = Null
                 /\ email[g].status # "none" <=> DraftedBy(gen'[g].status)
      BY <2>1 DEF WorkflowInv, RowsAgree, DraftedBy, CalmGenRow, GenActive
    <2>2. ASSUME NEW g \in GenIds, NewGenRow(g)
          PROVE  /\ gen'[g].status = "none" <=> gen'[g].lead = Null
                 /\ email[g].status # "none" <=> DraftedBy(gen'[g].status)
      BY <2>2, OutreachAssumption DEF WorkflowInv, RowsAgree, DraftedBy, NewGenRow
    <2> QED  BY <2>1, <2>2 DEF WorkflowInv, RowsAgree, DraftedBy
  <1>4. DeliveriesHaveEmails'
    BY DEF WorkflowInv, DeliveriesHaveEmails, CalmDeliveries, DelActive
  <1>5. AbsentHasNoHistory'
    BY DEF WorkflowInv, AbsentHasNoHistory, HasOutreachHistory, CalmGenRow, NewGenRow
  <1>6. \A d \in DelIds : del'[d].status \in DelActive =>
          /\ del[d].status \in DelActive
          /\ del'[d].email = del[d].email
          /\ del[d].email \in GenIds
          /\ gen[del[d].email].lead # Null
          /\ LeadOfEmail(del[d].email)' = LeadOfEmail(del[d].email)
    BY <1>2 DEF WorkflowInv, CalmDeliveries, DelActive, DeliveriesHaveEmails, LeadOfEmail
  <1>7. DeliveryFrozen'
    <2> SUFFICES ASSUME NEW d \in DelIds, del'[d].status \in DelActive
                 PROVE  /\ IsCurrentEmail(del[d].email)'
                        /\ email[del[d].email].status = "approved"
                        /\ email[del[d].email].text = del'[d].snapshot[1]
                        /\ email[del[d].email].reviewed = email[del[d].email].text
      BY <1>6 DEF DeliveryFrozen
    <2>1. IsCurrentEmail(del[d].email)
      BY <1>6 DEF WorkflowInv, DeliveryFrozen
    <2>2. IsCurrentEmail(del[d].email)'
      BY <1>2, <1>6, <2>1 DEF IsCurrentEmail
    <2> QED  BY <1>6, <2>2 DEF WorkflowInv, DeliveryFrozen, CalmDeliveries
  <1>8. OneWorkflow'
    <2> SUFFICES ASSUME NEW l \in Leads
                 PROVE  /\ \A g, h \in GenIds :
                             /\ gen'[g].lead = l /\ gen'[g].status \in GenActive
                             /\ gen'[h].lead = l /\ gen'[h].status \in GenActive
                             => g = h
                        /\ \A d, c \in DeliveringLead(l)' : d = c
                        /\ ActiveGeneration(l)' => DeliveringLead(l)' = {}
      BY DEF OneWorkflow
    <2>1. \A g \in GenIds : gen'[g].lead = l /\ gen'[g].status \in GenActive =>
            \/ gen[g].lead = l /\ gen[g].status \in GenActive
            \/ /\ NewGenRow(g)
               /\ ~ActiveGeneration(l)
               /\ DeliveringLead(l) = {}
      BY DEF CalmGenRow, NewGenRow
    <2>2. DeliveringLead(l)' \subseteq DeliveringLead(l)
      BY <1>6 DEF DeliveringLead
    <2>3. /\ \A g, h \in GenIds :
               /\ gen[g].lead = l /\ gen[g].status \in GenActive
               /\ gen[h].lead = l /\ gen[h].status \in GenActive
               => g = h
          /\ \A d, c \in DeliveringLead(l) : d = c
          /\ ActiveGeneration(l) => DeliveringLead(l) = {}
      BY DEF WorkflowInv, OneWorkflow
    <2>4. \A g, h \in GenIds :
            /\ gen'[g].lead = l /\ gen'[g].status \in GenActive
            /\ gen'[h].lead = l /\ gen'[h].status \in GenActive
            => g = h
      BY <2>1, <2>3 DEF ActiveGeneration
    <2>5. ActiveGeneration(l)' => DeliveringLead(l)' = {}
      BY <2>1, <2>2, <2>3 DEF ActiveGeneration
    <2> QED  BY <2>2, <2>3, <2>4, <2>5
  <1> QED  BY <1>3, <1>4, <1>5, <1>7, <1>8 DEF WorkflowInv

\* So does a step that changes one email no delivery is working on, without
\* approving content nobody reviewed.
LEMMA ReviewKeeps ==
    ASSUME WorkflowInv, TypeOK',
           NEW e \in GenIds, NEW row,
           email' = [email EXCEPT ![e] = row],
           UNCHANGED <<lead, gen, del>>,
           ~ActiveDelivery(e), email[e].status # "none", row.status # "none",
           row.status = "approved" => row.reviewed = row.text
    PROVE  WorkflowInv'
  <1>1. /\ email'[e] = row
        /\ \A f \in GenIds \ {e} : email'[f] = email[f]
        /\ \A f \in GenIds : email'[f].status = "none" <=> email[f].status = "none"
    BY DEF WorkflowInv, TypeOK
  <1>2. RowsAgree'
    BY <1>1 DEF WorkflowInv, RowsAgree
  <1>3. DeliveriesHaveEmails'
    BY <1>1 DEF WorkflowInv, DeliveriesHaveEmails
  <1>4. AbsentHasNoHistory'
    BY DEF WorkflowInv, AbsentHasNoHistory, HasOutreachHistory
  <1>5. DeliveryFrozen'
    <2> SUFFICES ASSUME NEW d \in DelIds, del[d].status \in DelActive
                 PROVE  /\ IsCurrentEmail(del[d].email)'
                        /\ email'[del[d].email].status = "approved"
                        /\ email'[del[d].email].text = del[d].snapshot[1]
                        /\ email'[del[d].email].reviewed = email'[del[d].email].text
      BY DEF DeliveryFrozen
    <2>1. del[d].email \in GenIds \ {e}
      BY DEF WorkflowInv, DeliveriesHaveEmails, ActiveDelivery, DeliveriesOf, DelActive
    <2>2. IsCurrentEmail(del[d].email)'
      BY <1>1, <2>1 DEF WorkflowInv, DeliveryFrozen, IsCurrentEmail
    <2> QED  BY <1>1, <2>1, <2>2 DEF WorkflowInv, DeliveryFrozen
  <1>6. OneWorkflow'
    BY DEF WorkflowInv, OneWorkflow, ActiveGeneration, DeliveringLead, LeadOfEmail
  <1> QED  BY <1>2, <1>3, <1>4, <1>5, <1>6 DEF WorkflowInv

LEMMA WorkflowInit == Init => WorkflowInv
  <1> SUFFICES ASSUME Init PROVE WorkflowInv
    OBVIOUS
  <1>1. TypeOK
    BY TypingInit
  <1>2. /\ \A g \in GenIds : /\ gen[g].status = "none" /\ gen[g].lead = Null
                             /\ email[g].status = "none"
        /\ \A d \in DelIds : del[d].status = "none"
    BY DEF Init, NoGen, NoEmail, NoDel
  <1> QED
    BY <1>1, <1>2, OutreachAssumption
    DEF WorkflowInv, RowsAgree, DraftedBy, DeliveriesHaveEmails,
        AbsentHasNoHistory, HasOutreachHistory, DeliveryFrozen, OneWorkflow,
        DeliveringLead, ActiveGeneration, GenActive, DelActive

LEMMA WorkflowFeed == ASSUME WorkflowInv, TypeOK', FeedNext PROVE WorkflowInv'
  <1>1. PICK rows \in FeedBatch : FeedSync(rows)
    BY DEF FeedNext
  <1>2. PICK named \in SUBSET Leads : rows \in [named -> FeedRow]
    BY DEF FeedBatch
  <1> DEFINE fresh == {l \in DOMAIN rows : NeedsFirstDraft(l, rows[l])}
  <1>3. PICK draftOf \in FreshIds(fresh) :
          /\ lead' = [l \in Leads |-> IF l \in DOMAIN rows THEN rows[l] ELSE lead[l]]
          /\ gen' = [g \in GenIds |->
                       IF g \in DOMAIN draftOf
                       THEN QueuedGen(draftOf[g], draftOf[g])
                       ELSE GenAfterDismissal(g, Dismissed(rows))]
          /\ del' = [d \in DelIds |-> DelAfterDismissal(d, Dismissed(rows))]
          /\ UNCHANGED <<email, audit, genWorker, delWorker, mailed>>
    BY <1>1 DEF FeedSync
  <1>4. /\ DOMAIN draftOf \subseteq {g \in GenIds : gen[g].status = "none"}
        /\ \A g \in DOMAIN draftOf : draftOf[g] \in fresh
        /\ \A g, h \in DOMAIN draftOf : draftOf[g] = draftOf[h] => g = h
    <2>1. fresh \subseteq Leads
      BY <1>2
    <2> QED  BY <2>1, FreshIdsFacts
  <1>5. \A l \in fresh : /\ l \in Leads
                         /\ lead'[l].status = "active"
                         /\ ~HasOutreachHistory(l)
    BY <1>2, <1>3 DEF NeedsFirstDraft, WorkflowInv, AbsentHasNoHistory
  <1>6. \A l \in Leads : ~HasOutreachHistory(l) =>
                           ~ActiveGeneration(l) /\ DeliveringLead(l) = {}
    BY DEF WorkflowInv, HasOutreachHistory, ActiveGeneration, DeliveringLead,
           DeliveriesHaveEmails, LeadOfEmail, DelActive
  <1>7. ASSUME NEW g \in DOMAIN draftOf
        PROVE  gen'[g].lead = draftOf[g] /\ NewGenRow(g)
    <2>1. /\ gen'[g] = QueuedGen(draftOf[g], draftOf[g])
          /\ gen[g].status = "none"
      BY <1>3, <1>4
    <2>2. gen'[g].status = "queued" /\ gen'[g].lead = draftOf[g]
      BY <2>1 DEF QueuedGen, NoGen
    <2> QED  BY <1>4, <1>5, <1>6, <2>1, <2>2 DEF NewGenRow
  <1>8. ASSUME NEW g \in GenIds \ DOMAIN draftOf PROVE CalmGenRow(g)
    <2>1. gen'[g] = GenAfterDismissal(g, Dismissed(rows))
      BY <1>3
    <2>2. gen[g] \in GenRow
      BY DEF WorkflowInv, TypeOK
    <2> QED  BY <2>1, <2>2 DEF CalmGenRow, GenAfterDismissal, Ended, GenActive, GenRow
  <1>9. CalmDeliveries
    <2> SUFFICES ASSUME NEW d \in DelIds
                 PROVE  /\ del'[d].email = del[d].email
                        /\ del'[d].snapshot = del[d].snapshot
                        /\ \/ del'[d].status = del[d].status
                           \/ del[d].status \in DelActive /\ del'[d].status # "none"
      BY DEF CalmDeliveries
    <2>1. del'[d] = DelAfterDismissal(d, Dismissed(rows)) /\ del[d] \in DelRow
      BY <1>3 DEF WorkflowInv, TypeOK
    <2> QED  BY <2>1 DEF DelAfterDismissal, Ended, DelActive, DelRow
  <1>10. \A l \in Leads : lead'[l].status = "absent" => lead[l].status = "absent"
    BY <1>2, <1>3 DEF FeedRow
  <1>11. \A g \in GenIds : g \notin DOMAIN draftOf => ~NewGenRow(g)
    <2> SUFFICES ASSUME NEW g \in GenIds, g \notin DOMAIN draftOf PROVE ~NewGenRow(g)
      OBVIOUS
    <2> QED  BY <1>8 DEF CalmGenRow, NewGenRow, GenActive
  <1>12. \A g, h \in GenIds :
           NewGenRow(g) /\ NewGenRow(h) /\ gen'[g].lead = gen'[h].lead => g = h
    BY <1>4, <1>7, <1>11
  <1> QED  BY <1>3, <1>7, <1>8, <1>9, <1>10, <1>12, CalmKeeps DEF CalmStep

\* The steps of the generation queue that write no draft and queue nothing.
LEMMA CalmGenerationSteps ==
    ASSUME WorkflowInv, UNCHANGED <<lead, email, del>>,
           \A g \in GenIds : CalmGenRow(g)
    PROVE  CalmStep
  <1>1. \A g \in GenIds : ~NewGenRow(g)
    BY DEF CalmGenRow, NewGenRow, GenActive
  <1> QED  BY <1>1 DEF CalmStep, CalmDeliveries

LEMMA WorkflowGeneration ==
    ASSUME WorkflowInv, TypeOK', GenerationNext PROVE WorkflowInv'
  <1>0. TypeOK
    BY DEF WorkflowInv
  <1>1. ASSUME NEW l \in Leads, NEW k \in Keys, RequestGeneration(l, k) PROVE WorkflowInv'
    <2>1. PICK g \in GenIds : /\ IsNextId(gen, GenIds, g)
                              /\ gen' = [gen EXCEPT ![g] = QueuedGen(l, k)]
      BY <1>1 DEF RequestGeneration
    <2>2. DeliveringLead(l) = {}
      <3> SUFFICES ASSUME NEW d \in DelIds, del[d].status \in DelActive,
                          LeadOfEmail(del[d].email) = l
                   PROVE  FALSE
        BY DEF DeliveringLead
      <3>1. del[d].email \in GenIds /\ IsCurrentEmail(del[d].email)
        BY DEF WorkflowInv, DeliveriesHaveEmails, DeliveryFrozen, DelActive
      <3>2. BlockingDelivery(del[d].email)
        BY DEF BlockingDelivery, DeliveriesOf, DelActive, DelBlocking
      <3> QED  BY <1>1, <3>1, <3>2 DEF RequestGeneration
    <2>3. /\ gen'[g].status = "queued"
          /\ gen'[g].lead = l
          /\ gen[g].status = "none"
          /\ \A h \in GenIds \ {g} : gen'[h] = gen[h]
      BY <1>0, <2>1 DEF TypeOK, QueuedGen, NoGen, IsNextId
    <2>4. NewGenRow(g)
      BY <1>1, <2>2, <2>3 DEF RequestGeneration, LeadActive, NewGenRow
    <2>5. \A h \in GenIds \ {g} : CalmGenRow(h) /\ ~NewGenRow(h)
      BY <2>3 DEF CalmGenRow, NewGenRow
    <2>6. CalmStep
      BY <1>1, <2>4, <2>5 DEF CalmStep, CalmDeliveries, RequestGeneration
    <2> QED  BY <2>6, CalmKeeps
  <1>2. ASSUME NEW l \in Leads, NEW t \in Texts, EnsureFallbackDraft(l, t) PROVE WorkflowInv'
    BY <1>2 DEF EnsureFallbackDraft, WorkflowInv, RowsAgree, DraftedBy
  <1>3. ASSUME NEW g \in GenIds, ExpireGenerationLease(g) PROVE WorkflowInv'
    <2>1. \A h \in GenIds : CalmGenRow(h)
      BY <1>0, <1>3 DEF ExpireGenerationLease, TypeOK, GenRow, CalmGenRow
    <2> QED  BY <1>3, <2>1, CalmGenerationSteps, CalmKeeps DEF ExpireGenerationLease
  <1>4. ASSUME NEW w \in GenWorkers, NEW g \in GenIds, ClaimGeneration(w, g) PROVE WorkflowInv'
    <2>1. /\ gen[g].status = "queued"
          /\ \/ gen' = [gen EXCEPT ![g] = Claimed(gen[g], w)]
             \/ gen' = [gen EXCEPT ![g] = Ended(gen[g], "system_error")]
      BY <1>4 DEF ClaimGeneration, IsOldestUnlocked
    <2>2. \A h \in GenIds : CalmGenRow(h)
      <3>1. /\ \A h \in GenIds \ {g} : gen'[h] = gen[h]
            /\ gen'[g] = Claimed(gen[g], w) \/ gen'[g] = Ended(gen[g], "system_error")
        BY <1>0, <2>1 DEF TypeOK
      <3>2. gen'[g].status \in {"running", "system_error"} /\ gen'[g].lead = gen[g].lead
        <4>1. gen[g] \in GenRow
          BY <1>0 DEF TypeOK
        <4> QED  BY <3>1, <4>1, GenRowFields
      <3> QED  BY <2>1, <3>1, <3>2 DEF CalmGenRow, GenActive
    <2> QED  BY <1>4, <2>2, CalmGenerationSteps, CalmKeeps DEF ClaimGeneration
  <1>5. ASSUME NEW w \in GenWorkers, HeartbeatGeneration(w) PROVE WorkflowInv'
    <2>1. \A h \in GenIds : CalmGenRow(h)
      BY <1>0, <1>5 DEF HeartbeatGeneration, TypeOK, GenRow, CalmGenRow
    <2> QED  BY <1>5, <2>1, CalmGenerationSteps, CalmKeeps DEF HeartbeatGeneration
  <1>6. ASSUME NEW w \in GenWorkers, NEW expired \in SUBSET GenIds,
               RecoverGenerations(w, expired) PROVE WorkflowInv'
    <2>1. \A h \in GenIds : CalmGenRow(h)
      BY <1>0, <1>6
      DEF RecoverGenerations, TypeOK, GenRow, CalmGenRow, Ended, GenActive
    <2> QED  BY <1>6, <2>1, CalmGenerationSteps, CalmKeeps DEF RecoverGenerations
  <1>7. ASSUME NEW w \in GenWorkers, DropLateGeneration(w) PROVE WorkflowInv'
    <2>1. \A h \in GenIds : CalmGenRow(h)
      BY <1>7 DEF DropLateGeneration, CalmGenRow
    <2> QED  BY <1>7, <2>1, CalmGenerationSteps, CalmKeeps DEF DropLateGeneration
  <1>8. ASSUME NEW w \in GenWorkers, FailGeneration(w) PROVE WorkflowInv'
    <2>1. \A h \in GenIds : CalmGenRow(h)
      BY <1>0, <1>8
      DEF FailGeneration, StillRunning, TypeOK, GenRow, CalmGenRow, Ended, GenActive
    <2> QED  BY <1>8, <2>1, CalmGenerationSteps, CalmKeeps DEF FailGeneration
  <1>9. ASSUME NEW w \in GenWorkers, NEW outcome \in GenTerminal \ {"system_error"},
               NEW t \in Texts, FinalizeGeneration(w, outcome, t) PROVE WorkflowInv'
    <2> DEFINE g == genWorker[w]
    <2>1. g \in GenIds /\ gen[g].status = "running"
      BY <1>0, <1>9 DEF FinalizeGeneration, StillRunning, TypeOK
    <2>2. CASE LeadActive(gen[g].lead) /\ DraftedBy(outcome)
      <3> DEFINE draft == [status |-> "pending_review", text |-> t, reviewed |-> Null]
      <3>1. /\ gen' = [gen EXCEPT ![g] = Ended(gen[g], outcome)]
            /\ email' = [email EXCEPT ![g] = draft]
            /\ UNCHANGED <<lead, del>>
        BY <1>9, <2>2 DEF FinalizeGeneration
      <3>2. /\ gen'[g].status = outcome
            /\ \A h \in GenIds : gen'[h].lead = gen[h].lead
            /\ \A h \in GenIds \ {g} : gen'[h] = gen[h] /\ email'[h] = email[h]
            /\ email'[g] = draft
            /\ email[g].status = "none"
        <4>1. /\ gen'[g] = Ended(gen[g], outcome)
              /\ email'[g] = draft
              /\ \A h \in GenIds \ {g} : gen'[h] = gen[h] /\ email'[h] = email[h]
          BY <1>0, <2>1, <3>1 DEF TypeOK
        <4>2. gen'[g].status = outcome /\ gen'[g].lead = gen[g].lead
          <5>1. gen[g] \in GenRow
            BY <1>0, <2>1 DEF TypeOK
          <5> QED  BY <4>1, <5>1, GenRowFields
        <4>3. email[g].status = "none"
          BY <2>1 DEF WorkflowInv, RowsAgree, DraftedBy
        <4> QED  BY <4>1, <4>2, <4>3
      <3>3. RowsAgree'
        BY <2>1, <2>2, <3>2 DEF WorkflowInv, RowsAgree, DraftedBy
      <3>4. DeliveriesHaveEmails'
        BY <3>1, <3>2 DEF WorkflowInv, DeliveriesHaveEmails
      <3>5. AbsentHasNoHistory'
        BY <3>1, <3>2 DEF WorkflowInv, AbsentHasNoHistory, HasOutreachHistory
      <3>6. gen[g].lead \in Leads
        BY <1>0, <2>1 DEF TypeOK, GenRow, WorkflowInv, RowsAgree
      <3>7. DeliveringLead(gen[g].lead) = {}
        BY <2>1, <3>6 DEF WorkflowInv, OneWorkflow, ActiveGeneration, GenActive
      <3>8. DeliveryFrozen'
        <4> SUFFICES ASSUME NEW d \in DelIds, del[d].status \in DelActive
                     PROVE  /\ IsCurrentEmail(del[d].email)'
                            /\ email'[del[d].email] = email[del[d].email]
          BY <3>1 DEF WorkflowInv, DeliveryFrozen
        <4>1. /\ del[d].email \in GenIds \ {g}
              /\ gen[del[d].email].lead # gen[g].lead
              /\ IsCurrentEmail(del[d].email)
          BY <3>2, <3>7 DEF WorkflowInv, DeliveriesHaveEmails, DeliveryFrozen,
                            DeliveringLead, LeadOfEmail, DelActive
        <4>2. email'[del[d].email] = email[del[d].email]
          BY <3>2, <4>1
        <4>3. ASSUME NEW f \in GenIds, gen'[f].lead = gen'[del[d].email].lead,
                     email'[f].status # "none"
              PROVE  f <= del[d].email
          <5>1. gen[f].lead = gen[del[d].email].lead
            BY <3>2, <4>1, <4>3
          <5>2. f # g
            BY <4>1, <5>1
          <5> QED  BY <3>2, <4>1, <4>3, <5>1, <5>2 DEF IsCurrentEmail
        <4>4. email[del[d].email].status # "none"
          BY <4>1 DEF IsCurrentEmail
        <4> QED  BY <3>1, <4>2, <4>3, <4>4 DEF IsCurrentEmail
      <3>9. OneWorkflow'
        <4>1. \A h \in GenIds : gen'[h].status \in GenActive => gen[h].status \in GenActive
          BY <3>2, <2>2 DEF DraftedBy, GenActive
        <4>2. \A l \in Leads : DeliveringLead(l)' \subseteq DeliveringLead(l)
          BY <3>1, <3>2 DEF DeliveringLead, LeadOfEmail, WorkflowInv,
                            DeliveriesHaveEmails, DelActive
        <4> QED  BY <3>2, <4>1, <4>2 DEF WorkflowInv, OneWorkflow, ActiveGeneration
      <3> QED  BY <3>3, <3>4, <3>5, <3>8, <3>9 DEF WorkflowInv
    <2>3. CASE ~(LeadActive(gen[g].lead) /\ DraftedBy(outcome))
      <3>1. \/ gen' = [gen EXCEPT ![g] = Ended(gen[g], "system_error")]
            \/ /\ gen' = [gen EXCEPT ![g] = Ended(gen[g], outcome)]
               /\ outcome = "provider_error"
        BY <1>9, <2>3 DEF FinalizeGeneration, DraftedBy, GenTerminal
      <3>2. \A h \in GenIds : CalmGenRow(h)
        <4>1. /\ \A h \in GenIds \ {g} : gen'[h] = gen[h]
              /\ \/ gen'[g] = Ended(gen[g], "system_error")
                 \/ gen'[g] = Ended(gen[g], "provider_error")
          BY <1>0, <2>1, <3>1 DEF TypeOK
        <4>2. /\ gen'[g].status \in {"provider_error", "system_error"}
              /\ gen'[g].lead = gen[g].lead
          <5>1. gen[g] \in GenRow
            BY <1>0, <2>1 DEF TypeOK
          <5> QED  BY <4>1, <5>1, GenRowFields
        <4> QED  BY <2>1, <4>1, <4>2 DEF CalmGenRow, GenActive
      <3>3. UNCHANGED <<lead, email, del>>
        BY <1>9, <2>3 DEF FinalizeGeneration
      <3> QED  BY <3>2, <3>3, CalmGenerationSteps, CalmKeeps
    <2> QED  BY <2>2, <2>3
  <1>10. ASSUME NEW w \in GenWorkers, LoseGenWorker(w) PROVE WorkflowInv'
    <2>1. \A h \in GenIds : CalmGenRow(h)
      BY <1>10 DEF LoseGenWorker, CalmGenRow
    <2> QED  BY <1>10, <2>1, CalmGenerationSteps, CalmKeeps DEF LoseGenWorker
  <1> QED
    BY <1>1, <1>2, <1>3, <1>4, <1>5, <1>6, <1>7, <1>8, <1>9, <1>10
    DEF GenerationNext

LEMMA WorkflowReview == ASSUME WorkflowInv, TypeOK', ReviewNext PROVE WorkflowInv'
  <1>1. ASSUME NEW e \in GenIds, NEW t \in Texts, EditEmail(e, t) PROVE WorkflowInv'
    <2> DEFINE row == [status |-> "pending_review", text |-> t, reviewed |-> Null]
    <2>1. /\ email' = [email EXCEPT ![e] = row]
          /\ UNCHANGED <<lead, gen, del>>
          /\ ~ActiveDelivery(e)
          /\ email[e].status # "none"
      BY <1>1 DEF EditEmail, Reviewable, EmailStatus
    <2>2. row.status = "pending_review"
      OBVIOUS
    <2> QED  BY <2>1, <2>2, ReviewKeeps
  <1>2. ASSUME NEW e \in GenIds, NEW preview \in Rendering, ApproveEmail(e, preview)
        PROVE  WorkflowInv'
    <2> DEFINE row == [email[e] EXCEPT !.status = "approved", !.reviewed = preview[1]]
    <2>1. /\ email' = [email EXCEPT ![e] = row]
          /\ UNCHANGED <<lead, gen, del>>
          /\ ~ActiveDelivery(e)
          /\ email[e].status # "none"
          /\ preview = Rendered(e)
      BY <1>2 DEF ApproveEmail, Reviewable, Confirms, EmailStatus
    <2>2. row.status = "approved" /\ row.reviewed = row.text
      BY <2>1 DEF WorkflowInv, TypeOK, EmailRow, Rendered
    <2> QED  BY <2>1, <2>2, ReviewKeeps
  <1>3. ASSUME NEW e \in GenIds, RejectEmail(e) PROVE WorkflowInv'
    <2> DEFINE row == [email[e] EXCEPT !.status = "rejected"]
    <2>1. /\ email' = [email EXCEPT ![e] = row]
          /\ UNCHANGED <<lead, gen, del>>
          /\ ~ActiveDelivery(e)
          /\ email[e].status # "none"
      BY <1>3 DEF RejectEmail, Reviewable, EmailStatus
    <2>2. row.status = "rejected"
      BY DEF WorkflowInv, TypeOK, EmailRow
    <2> QED  BY <2>1, <2>2, ReviewKeeps
  <1> QED  BY <1>1, <1>2, <1>3 DEF ReviewNext

\* The steps of the delivery queue that neither start a delivery nor touch
\* an email.
LEMMA CalmDeliverySteps ==
    ASSUME WorkflowInv, UNCHANGED <<lead, gen, email>>, CalmDeliveries
    PROVE  CalmStep
  <1>1. \A g \in GenIds : CalmGenRow(g) /\ ~NewGenRow(g)
    BY DEF CalmGenRow, NewGenRow
  <1> QED  BY <1>1 DEF CalmStep

\* One delivery row ends or is claimed.
LEMMA CalmDeliveryRow ==
    ASSUME WorkflowInv, NEW d, NEW row,
           del' = [del EXCEPT ![d] = row],
           d \in DelIds => /\ row.email = del[d].email
                           /\ row.snapshot = del[d].snapshot
                           /\ \/ row.status = del[d].status
                              \/ del[d].status \in DelActive /\ row.status # "none"
    PROVE  CalmDeliveries
  <1>1. \A c \in DelIds : del'[c] = IF c = d THEN row ELSE del[c]
    BY DEF WorkflowInv, TypeOK
  <1> QED  BY <1>1 DEF CalmDeliveries

LEMMA WorkflowDelivery ==
    ASSUME WorkflowInv, TypeOK', DeliveryNext PROVE WorkflowInv'
  <1>0. TypeOK
    BY DEF WorkflowInv
  <1>1. ASSUME NEW e \in GenIds, NEW k \in Keys, NEW confirmed \in Rendering,
               NEW ack \in BOOLEAN, RequestDelivery(e, k, confirmed, ack)
        PROVE  WorkflowInv'
    <2> DEFINE row == [NoDel EXCEPT !.status = "queued", !.email = e, !.key = k,
                                    !.snapshot = Rendered(e),
                                    !.confirmed = confirmed, !.ack = ack]
    <2>1. PICK d \in DelIds : /\ IsNextId(del, DelIds, d)
                              /\ del' = [del EXCEPT ![d] = row]
      BY <1>1 DEF RequestDelivery
    <2>2. /\ email[e].status = "approved"
          /\ ~ActiveDelivery(e)
          /\ ~ActiveGeneration(LeadOfEmail(e))
          /\ IsCurrentEmail(e)
          /\ UNCHANGED <<lead, gen, email>>
      BY <1>1 DEF RequestDelivery
    <2>3. /\ row.status = "queued" /\ row.email = e
          /\ row.snapshot[1] = email[e].text
      BY DEF NoDel, Rendered
    <2>4. \A c \in DelIds : del'[c] = IF c = d THEN row ELSE del[c]
      BY <1>0, <2>1 DEF TypeOK
    <2>5. DeliveringLead(LeadOfEmail(e)) = {}
      <3> SUFFICES ASSUME NEW c \in DelIds, del[c].status \in DelActive,
                          LeadOfEmail(del[c].email) = LeadOfEmail(e)
                   PROVE  FALSE
        BY DEF DeliveringLead
      <3>1. del[c].email \in GenIds /\ IsCurrentEmail(del[c].email)
        BY DEF WorkflowInv, DeliveriesHaveEmails, DeliveryFrozen, DelActive
      <3>2. e <= del[c].email /\ del[c].email <= e
        BY <2>2, <3>1 DEF IsCurrentEmail, LeadOfEmail
      <3>3. e = del[c].email
        BY <3>1, <3>2, OutreachAssumption
      <3> QED  BY <2>2, <3>3 DEF ActiveDelivery, DeliveriesOf
    <2>6. RowsAgree'
      BY <2>2 DEF WorkflowInv, RowsAgree, DraftedBy
    <2>7. DeliveriesHaveEmails'
      BY <2>2, <2>3, <2>4 DEF WorkflowInv, DeliveriesHaveEmails
    <2>8. AbsentHasNoHistory'
      BY <2>2 DEF WorkflowInv, AbsentHasNoHistory, HasOutreachHistory
    <2>9. DeliveryFrozen'
      <3> SUFFICES ASSUME NEW c \in DelIds, del'[c].status \in DelActive
                   PROVE  /\ IsCurrentEmail(del'[c].email)
                          /\ email[del'[c].email].status = "approved"
                          /\ email[del'[c].email].text = del'[c].snapshot[1]
                          /\ email[del'[c].email].reviewed = email[del'[c].email].text
        BY <2>2 DEF DeliveryFrozen, IsCurrentEmail
      <3>1. CASE c = d
        <4>1. del'[c].email = e /\ del'[c].snapshot[1] = email[e].text
          BY <2>3, <2>4, <3>1
        <4>2. email[e].reviewed = email[e].text
          BY <2>2 DEF WorkflowInv, RowsAgree
        <4> QED  BY <2>2, <4>1, <4>2
      <3>2. CASE c # d
        BY <2>4, <3>2 DEF WorkflowInv, DeliveryFrozen
      <3> QED  BY <3>1, <3>2
    <2>10. OneWorkflow'
      <3>1. ASSUME NEW l \in Leads
            PROVE  /\ \A a, b \in DeliveringLead(l)' : a = b
                   /\ ActiveGeneration(l)' => DeliveringLead(l)' = {}
        <4>1. CASE l = LeadOfEmail(e)
          <5>1. DeliveringLead(l)' \subseteq {d}
            BY <2>2, <2>4, <2>5, <4>1 DEF DeliveringLead, LeadOfEmail
          <5>2. ~ActiveGeneration(l)'
            BY <2>2, <4>1 DEF ActiveGeneration
          <5> QED  BY <5>1, <5>2
        <4>2. CASE l # LeadOfEmail(e)
          <5>1. DeliveringLead(l)' \subseteq DeliveringLead(l)
            BY <2>2, <2>3, <2>4, <4>2 DEF DeliveringLead, LeadOfEmail
          <5>2. ActiveGeneration(l)' <=> ActiveGeneration(l)
            BY <2>2 DEF ActiveGeneration
          <5> QED  BY <5>1, <5>2 DEF WorkflowInv, OneWorkflow
        <4> QED  BY <4>1, <4>2
      <3> QED  BY <2>2, <3>1 DEF WorkflowInv, OneWorkflow
    <2> QED  BY <2>6, <2>7, <2>8, <2>9, <2>10 DEF WorkflowInv
  <1>2. ASSUME NEW d \in DelIds, ExpireDeliveryLease(d) PROVE WorkflowInv'
    <2>1. CalmDeliveries
      BY <1>0, <1>2 DEF ExpireDeliveryLease, TypeOK, DelRow, CalmDeliveries
    <2> QED  BY <1>2, <2>1, CalmDeliverySteps, CalmKeeps DEF ExpireDeliveryLease
  <1>3. ASSUME NEW w \in DelWorkers, NEW d \in DelIds, ClaimDelivery(w, d) PROVE WorkflowInv'
    <2>1. /\ del[d].status = "queued"
          /\ \/ del' = [del EXCEPT ![d] = Claimed(del[d], w)]
             \/ del' = [del EXCEPT ![d] = Ended(del[d], "failed")]
      BY <1>3 DEF ClaimDelivery, IsOldestUnlocked
    <2>2. del[d] \in DelRow
      BY <1>0 DEF TypeOK
    <2>3. CalmDeliveries
      <3>1. CASE del' = [del EXCEPT ![d] = Claimed(del[d], w)]
        <4>1. /\ Claimed(del[d], w).status = "running"
              /\ Claimed(del[d], w).email = del[d].email
              /\ Claimed(del[d], w).snapshot = del[d].snapshot
          BY <2>2 DEF DelRow, Claimed
        <4> QED  BY <2>1, <3>1, <4>1, CalmDeliveryRow DEF DelActive
      <3>2. CASE del' = [del EXCEPT ![d] = Ended(del[d], "failed")]
        <4>1. /\ Ended(del[d], "failed").status = "failed"
              /\ Ended(del[d], "failed").email = del[d].email
              /\ Ended(del[d], "failed").snapshot = del[d].snapshot
          BY <2>2 DEF DelRow, Ended
        <4> QED  BY <2>1, <3>2, <4>1, CalmDeliveryRow DEF DelActive
      <3> QED  BY <2>1, <3>1, <3>2
    <2> QED  BY <1>3, <2>3, CalmDeliverySteps, CalmKeeps DEF ClaimDelivery
  <1>4. ASSUME NEW w \in DelWorkers, HeartbeatDelivery(w) PROVE WorkflowInv'
    <2>1. CalmDeliveries
      BY <1>0, <1>4 DEF HeartbeatDelivery, TypeOK, DelRow, CalmDeliveries
    <2> QED  BY <1>4, <2>1, CalmDeliverySteps, CalmKeeps DEF HeartbeatDelivery
  <1>5. ASSUME NEW w \in DelWorkers, NEW expired \in SUBSET DelIds,
               RecoverDeliveries(w, expired) PROVE WorkflowInv'
    <2>1. CalmDeliveries
      BY <1>0, <1>5
      DEF RecoverDeliveries, Ended, TypeOK, DelRow, CalmDeliveries, DelActive
    <2> QED  BY <1>5, <2>1, CalmDeliverySteps, CalmKeeps DEF RecoverDeliveries
  <1>6. ASSUME NEW w \in DelWorkers, NEW answer \in {"accepted", "refused", "ambiguous"},
               CallProvider(w, answer) PROVE WorkflowInv'
    <2>1. CalmDeliveries
      BY <1>6 DEF CallProvider, CalmDeliveries
    <2> QED  BY <1>6, <2>1, CalmDeliverySteps, CalmKeeps DEF CallProvider
  <1>7. ASSUME NEW w \in DelWorkers, FinalizeAccepted(w) PROVE WorkflowInv'
    <2> DEFINE d == delWorker[w].job
               e == del[d].email
               row == [email[e] EXCEPT !.status = "sent"]
    <2>1. /\ delWorker[w].phase = "accepted"
          /\ del[d].status = "running"
          /\ del' = [del EXCEPT ![d] = Ended(del[d], "succeeded")]
          /\ email' = [email EXCEPT ![e].status = "sent"]
          /\ UNCHANGED <<lead, gen>>
      BY <1>7 DEF FinalizeAccepted, StillRunning
    <2>2. /\ d \in DelIds /\ del[d] \in DelRow
          /\ e \in GenIds /\ email[e] \in EmailRow
          /\ email[e].status = "approved"
      <3>1. d \in DelIds
        BY <1>0, <2>1 DEF TypeOK, Idle
      <3> QED
        BY <1>0, <2>1, <3>1
        DEF TypeOK, WorkflowInv, DeliveriesHaveEmails, DeliveryFrozen, DelActive
    <2>3. /\ Ended(del[d], "succeeded").status = "succeeded"
          /\ Ended(del[d], "succeeded").email = e
          /\ Ended(del[d], "succeeded").snapshot = del[d].snapshot
      BY <2>2 DEF DelRow, Ended
    <2>4. \A c \in DelIds : IF c = d THEN del'[c].status = "succeeded" /\ del'[c].email = e
                                      ELSE del'[c] = del[c]
      BY <1>0, <2>1, <2>2, <2>3 DEF TypeOK
    <2>5. /\ \A f \in GenIds \ {e} : email'[f] = email[f]
          /\ email'[e].status = "sent"
      BY <1>0, <2>1, <2>2 DEF TypeOK, EmailRow
    <2>6. \A c \in DelIds : del'[c].status \in DelActive =>
            /\ del[c].status \in DelActive /\ del'[c] = del[c]
            /\ del[c].email \in GenIds \ {e}
      <3> SUFFICES ASSUME NEW c \in DelIds, del'[c].status \in DelActive
                   PROVE  /\ del[c].status \in DelActive /\ del'[c] = del[c]
                          /\ del[c].email \in GenIds \ {e}
        OBVIOUS
      <3>1. c # d /\ del'[c] = del[c] /\ del[c].email \in GenIds
        BY <2>4 DEF WorkflowInv, DeliveriesHaveEmails, DelActive
      <3>2. LeadOfEmail(e) \in Leads
        <4>1. gen[e].lead # Null
          BY <2>2 DEF WorkflowInv, RowsAgree, DraftedBy
        <4>2. gen[e] \in GenRow
          BY <1>0, <2>2 DEF TypeOK
        <4> QED  BY <4>1, <4>2 DEF GenRow, LeadOfEmail
      <3>3. del[c].email # e
        BY <2>1, <2>2, <3>1, <3>2 DEF WorkflowInv, OneWorkflow, DeliveringLead, DelActive
      <3> QED  BY <3>1, <3>3
    <2>7. RowsAgree'
      BY <2>1, <2>2, <2>5 DEF WorkflowInv, RowsAgree, DraftedBy
    <2>8. DeliveriesHaveEmails'
      BY <2>2, <2>4, <2>5 DEF WorkflowInv, DeliveriesHaveEmails
    <2>9. AbsentHasNoHistory'
      BY <2>1 DEF WorkflowInv, AbsentHasNoHistory, HasOutreachHistory
    <2>10. DeliveryFrozen'
      <3> SUFFICES ASSUME NEW c \in DelIds, del'[c].status \in DelActive
                   PROVE  /\ IsCurrentEmail(del[c].email)'
                          /\ email'[del'[c].email].status = "approved"
                          /\ email'[del'[c].email].text = del'[c].snapshot[1]
                          /\ email'[del'[c].email].reviewed = email'[del'[c].email].text
        BY <2>6 DEF DeliveryFrozen
      <3>1. IsCurrentEmail(del[c].email)
        BY <2>6 DEF WorkflowInv, DeliveryFrozen
      <3>2. IsCurrentEmail(del[c].email)'
        BY <2>1, <2>2, <2>5, <2>6, <3>1 DEF IsCurrentEmail
      <3> QED  BY <2>5, <2>6, <3>2 DEF WorkflowInv, DeliveryFrozen
    <2>11. OneWorkflow'
      <3>1. \A l \in Leads : DeliveringLead(l)' \subseteq DeliveringLead(l)
        BY <2>1, <2>6 DEF DeliveringLead, LeadOfEmail
      <3> QED  BY <2>1, <3>1 DEF WorkflowInv, OneWorkflow, ActiveGeneration
    <2> QED  BY <2>7, <2>8, <2>9, <2>10, <2>11 DEF WorkflowInv
  <1>8. ASSUME NEW w \in DelWorkers, FinalizeTerminal(w) PROVE WorkflowInv'
    <2> DEFINE d == delWorker[w].job
               new == RecordedAs[delWorker[w].phase]
    <2>1. /\ del[d].status = "running"
          /\ del' = [del EXCEPT ![d] = Ended(del[d], new)]
      BY <1>8 DEF FinalizeTerminal, StillRunning
    <2>2. new # "none"
      BY <1>8 DEF FinalizeTerminal, Answered, RecordedAs
    <2>3. ASSUME d \in DelIds
          PROVE  /\ Ended(del[d], new).status = new
                 /\ Ended(del[d], new).email = del[d].email
                 /\ Ended(del[d], new).snapshot = del[d].snapshot
      <3>1. del[d] \in DelRow
        BY <1>0, <2>3 DEF TypeOK
      <3> QED  BY <3>1 DEF DelRow, Ended
    <2>4. CalmDeliveries
      <3> HIDE DEF d, new
      <3> QED  BY <2>1, <2>2, <2>3, CalmDeliveryRow DEF DelActive
    <2> QED  BY <1>8, <2>4, CalmDeliverySteps, CalmKeeps DEF FinalizeTerminal
  <1>9. ASSUME NEW w \in DelWorkers, DropLateDelivery(w) PROVE WorkflowInv'
    <2>1. CalmDeliveries
      BY <1>9 DEF DropLateDelivery, CalmDeliveries
    <2> QED  BY <1>9, <2>1, CalmDeliverySteps, CalmKeeps DEF DropLateDelivery
  <1>10. ASSUME NEW w \in DelWorkers, LoseDelWorker(w) PROVE WorkflowInv'
    <2>1. CalmDeliveries
      BY <1>10 DEF LoseDelWorker, CalmDeliveries
    <2> QED  BY <1>10, <2>1, CalmDeliverySteps, CalmKeeps DEF LoseDelWorker
  <1> QED
    BY <1>1, <1>2, <1>3, <1>4, <1>5, <1>6, <1>7, <1>8, <1>9, <1>10
    DEF DeliveryNext

LEMMA WorkflowNext == ASSUME WorkflowInv, [Next]_vars PROVE WorkflowInv'
  <1>1. TypeOK'
    BY TypingNext DEF WorkflowInv
  <1>2. CASE Next
    BY <1>1, <1>2, WorkflowFeed, WorkflowGeneration, WorkflowReview, WorkflowDelivery
    DEF Next
  <1>3. CASE UNCHANGED vars
    <2>1. CalmStep
      BY <1>3 DEF vars, CalmStep, CalmGenRow, NewGenRow, CalmDeliveries
    <2> QED  BY <1>1, <2>1, CalmKeeps
  <1> QED  BY <1>2, <1>3

\* The strengthened invariant holds in every reachable state.
THEOREM Workflow == Spec => []WorkflowInv
  BY WorkflowInit, WorkflowNext, PTL DEF Spec

\* Send and regenerate exclude each other: a lead never has two pieces of
\* queued or running work.
THEOREM WorkflowExclusion == Spec => []OneWorkflow
  <1>1. WorkflowInv => OneWorkflow
    BY DEF WorkflowInv
  <1> QED  BY <1>1, Workflow, PTL

\* What was confirmed for delivery stays current, approved and unchanged
\* until the delivery ends.
THEOREM Frozen == Spec => []DeliveryFrozen
  <1>1. WorkflowInv => DeliveryFrozen
    BY DEF WorkflowInv
  <1> QED  BY <1>1, Workflow, PTL

-----------------------------------------------------------------------------
(* History.                                                                *)

\* The step form of HistoryIsReadOnly.
HistoryKept ==
    \A e \in GenIds :
      /\ email[e].status # "none"
      /\ email[e].status \in {"sent", "rejected"} \/ ~IsCurrentEmail(e)
      => email'[e] = email[e]

LEMMA HistoryStep == ASSUME WorkflowInv, [Next]_vars PROVE HistoryKept
  <1> SUFFICES ASSUME NEW e \in GenIds, email[e].status # "none",
                      email[e].status \in {"sent", "rejected"} \/ ~IsCurrentEmail(e)
               PROVE  email'[e] = email[e]
    BY DEF HistoryKept
  <1>0. TypeOK
    BY DEF WorkflowInv
  <1>1. ASSUME NEW l \in Leads, NEW t \in Texts, EnsureFallbackDraft(l, t)
        PROVE  email'[e] = email[e]
    BY <1>0, <1>1 DEF EnsureFallbackDraft, TypeOK
  <1>2. ASSUME NEW w \in GenWorkers, NEW outcome \in GenTerminal \ {"system_error"},
               NEW t \in Texts, FinalizeGeneration(w, outcome, t)
        PROVE  email'[e] = email[e]
    <2>1. genWorker[w] # e
      BY <1>2 DEF FinalizeGeneration, StillRunning, WorkflowInv, RowsAgree, DraftedBy
    <2> QED  BY <1>0, <1>2, <2>1 DEF FinalizeGeneration, TypeOK
  <1>3. CASE ReviewNext
    <2>1. ASSUME NEW x \in GenIds, NEW row,
                 email' = [email EXCEPT ![x] = row],
                 email[x].status \in {"pending_review", "approved"}, IsCurrentEmail(x)
          PROVE  email'[e] = email[e]
      BY <1>0, <2>1 DEF TypeOK
    <2>2. ASSUME NEW x \in GenIds, NEW t \in Texts, EditEmail(x, t)
          PROVE  email'[e] = email[e]
      BY <2>1, <2>2 DEF EditEmail, Reviewable, EmailStatus
    <2>3. ASSUME NEW x \in GenIds, NEW preview \in Rendering, ApproveEmail(x, preview)
          PROVE  email'[e] = email[e]
      <3>1. email[x].status = "pending_review"
        BY <2>3 DEF ApproveEmail, UserTransitions, EmailStatus
      <3> QED  BY <2>1, <2>3, <3>1 DEF ApproveEmail, Reviewable
    <2>4. ASSUME NEW x \in GenIds, RejectEmail(x) PROVE email'[e] = email[e]
      <3>1. email[x].status \in {"pending_review", "approved"}
        BY <2>4 DEF RejectEmail, UserTransitions, EmailStatus
      <3> QED  BY <2>1, <2>4, <3>1 DEF RejectEmail, Reviewable
    <2> QED  BY <1>3, <2>2, <2>3, <2>4 DEF ReviewNext
  <1>4. ASSUME NEW w \in DelWorkers, FinalizeAccepted(w) PROVE email'[e] = email[e]
    <2> DEFINE d == delWorker[w].job
    <2>1. d \in DelIds /\ del[d].status = "running"
      BY <1>0, <1>4 DEF FinalizeAccepted, StillRunning, TypeOK, Idle
    <2>2. email[del[d].email].status = "approved" /\ IsCurrentEmail(del[d].email)
      BY <2>1 DEF WorkflowInv, DeliveryFrozen, DelActive
    <2>3. del[d].email # e
      BY <2>2
    <2> QED  BY <1>0, <1>4, <2>3 DEF FinalizeAccepted, TypeOK
  <1>5. CASE UNCHANGED vars
    BY <1>5 DEF vars
  <1>6. CASE FeedNext
    BY <1>6 DEF FeedNext, FeedSync
  <1>7. CASE GenerationNext
    BY <1>7, <1>1, <1>2
    DEF GenerationNext, RequestGeneration, ExpireGenerationLease, ClaimGeneration,
        HeartbeatGeneration, RecoverGenerations, DropLateGeneration, FailGeneration,
        LoseGenWorker
  <1>8. CASE DeliveryNext
    BY <1>8, <1>4
    DEF DeliveryNext, RequestDelivery, ExpireDeliveryLease, ClaimDelivery,
        HeartbeatDelivery, RecoverDeliveries, CallProvider, FinalizeTerminal,
        DropLateDelivery, LoseDelWorker
  <1> QED  BY <1>3, <1>5, <1>6, <1>7, <1>8 DEF Next

\* An email that is sent, rejected or superseded never changes again.
THEOREM History == Spec => HistoryIsReadOnly
  <1>1. WorkflowInv /\ [Next]_vars => [HistoryKept]_vars
    BY HistoryStep
  <1> QED  BY <1>1, Workflow, PTL DEF Spec, HistoryIsReadOnly, HistoryKept

-----------------------------------------------------------------------------
(* The rules about rows.  A step does one of a few things to a row; what   *)
(* the rules forbid is then read off these moves.                          *)

\* A draft's last event tells its status; an unknown delivery is one of the
\* current email of a lead that generates nothing; and a lead's own key is
\* used for that lead only.
AuditAgrees == \A e \in GenIds : audit[e].new = email[e].status

UnknownIsCurrent ==
    \A d \in DelIds : del[d].status = "delivery_unknown" =>
      /\ IsCurrentEmail(del[d].email)
      /\ ~ActiveGeneration(LeadOfEmail(del[d].email))

KeyOfLead == \A g \in GenIds : gen[g].key \in Leads => gen[g].lead = gen[g].key

RulesInv ==
    /\ WorkflowInv
    /\ AuditAgrees /\ UnknownIsCurrent /\ KeyOfLead /\ DeletedLeadHasNoQueue /\ KeysUnique

GenCreated(g) == gen[g].status = "none" /\ gen'[g].status = "queued"

GenMoves(g) ==
    /\ gen'[g].lead = gen[g].lead /\ gen'[g].key = gen[g].key
    /\ \/ gen'[g].status = gen[g].status
       \/ /\ gen[g].status = "queued" /\ gen'[g].status = "running"
          /\ lead[gen[g].lead].status = "active"
       \/ gen[g].status \in GenActive /\ gen'[g].status \in GenTerminal

DelCreated(d) == del[d].status = "none" /\ del'[d].status = "queued"

DelMoves(d) ==
    /\ del'[d].email = del[d].email /\ del'[d].key = del[d].key
    /\ del'[d].snapshot = del[d].snapshot
    /\ \/ del'[d].status = del[d].status
       \/ /\ del[d].status = "queued" /\ del'[d].status = "running"
          /\ lead[LeadOfEmail(del[d].email)].status = "active"
       \/ del[d].status = "queued" /\ del'[d].status = "failed"
       \/ del[d].status = "running" /\ del'[d].status \in DelTerminal

EmailMoves(e) ==
    /\ \/ email'[e].status = email[e].status /\ audit'[e] = audit[e]
       \/ /\ email'[e].status # email[e].status /\ email'[e].status # "none"
          /\ audit'[e] = StatusEvent(email[e].status, email'[e].status)
    /\ email[e].status = "none" /\ email'[e].status # "none"
         => /\ gen[e].status \in {"running", "insufficient_context"}
            /\ DraftedBy(gen'[e].status)
            /\ lead[gen[e].lead].status = "active"

\* What a fresh database keeps includes what the older rows keep.
LEMMA WorkflowHasRows == WorkflowInv => RowsInv
  <1> SUFFICES ASSUME WorkflowInv PROVE RowsInv
    OBVIOUS
  <1> USE DEF WorkflowInv
  <1>1. DraftsFollowJobs
    BY DEF DraftsFollowJobs, RowsAgree, DraftedBy, GenActive
  <1>2. OpenIsConfirmed
    BY DEF OpenIsConfirmed, DeliveryFrozen
  <1>3. OneOpenDelivery
    <2> SUFFICES ASSUME NEW c \in DelIds, NEW d \in DelIds,
                        del[c].status \in DelActive, del[d].status \in DelActive,
                        del[c].email = del[d].email
                 PROVE  c = d
      BY DEF OneOpenDelivery
    <2>1. del[c].email \in GenIds /\ gen[del[c].email].status # "none"
      BY DEF DeliveriesHaveEmails, RowsAgree, DraftedBy, DelActive
    <2>2. LeadOfEmail(del[c].email) \in Leads
      BY <2>1 DEF LeadOfEmail, RowsAgree, TypeOK, GenRow
    <2>3. {c, d} \subseteq DeliveringLead(LeadOfEmail(del[c].email))
      BY DEF DeliveringLead
    <2> QED  BY <2>2, <2>3 DEF OneWorkflow
  <1> QED  BY <1>1, <1>2, <1>3 DEF RowsInv

-----------------------------------------------------------------------------
(* Which step does what.                                                   *)

LEMMA QueuedGenFields ==
    ASSUME NEW l, NEW k
    PROVE  /\ QueuedGen(l, k).status = "queued" /\ QueuedGen(l, k).lead = l
           /\ QueuedGen(l, k).key = k
  BY DEF QueuedGen, NoGen

\* One generation row ends, is claimed or gets a new lease.
LEMMA OneGenMoves ==
    ASSUME TypeOK, NEW g \in GenIds, NEW s \in GenTerminal, NEW w, NEW x,
           \/ /\ gen' = [gen EXCEPT ![g] = Ended(gen[g], s)]
              /\ gen[g].status \in GenActive
           \/ /\ gen' = [gen EXCEPT ![g] = Claimed(gen[g], w)]
              /\ gen[g].status = "queued" /\ lead[gen[g].lead].status = "active"
           \/ gen' = [gen EXCEPT ![g].lease = x]
    PROVE  \A h \in GenIds : GenMoves(h)
  <1> SUFFICES ASSUME NEW h \in GenIds PROVE GenMoves(h)
    OBVIOUS
  <1>1. gen[h] \in GenRow
    BY DEF TypeOK
  <1>2. CASE h # g
    <2>1. gen'[h] = gen[h]
      BY <1>2 DEF TypeOK
    <2> QED  BY <2>1 DEF GenMoves
  <1>3. CASE h = g
    <2>1. \/ gen'[g] = Ended(gen[g], s) /\ gen[g].status \in GenActive
          \/ /\ gen'[g] = Claimed(gen[g], w)
             /\ gen[g].status = "queued" /\ lead[gen[g].lead].status = "active"
          \/ gen'[g] = [gen[g] EXCEPT !.lease = x]
      BY DEF TypeOK
    <2>2. CASE gen'[g] = Ended(gen[g], s) /\ gen[g].status \in GenActive
      BY <1>1, <1>3, <2>2, GenRowFields DEF GenMoves
    <2>3. CASE /\ gen'[g] = Claimed(gen[g], w)
               /\ gen[g].status = "queued" /\ lead[gen[g].lead].status = "active"
      BY <1>1, <1>3, <2>3, GenRowFields DEF GenMoves
    <2>4. CASE gen'[g] = [gen[g] EXCEPT !.lease = x]
      BY <1>1, <1>3, <2>4 DEF GenMoves, GenRow
    <2> QED  BY <2>1, <2>2, <2>3, <2>4
  <1> QED  BY <1>2, <1>3

LEMMA OneDelMoves ==
    ASSUME TypeOK, NEW d \in DelIds, NEW s \in DelTerminal, NEW w, NEW x,
           \/ /\ del' = [del EXCEPT ![d] = Ended(del[d], s)]
              /\ \/ del[d].status = "queued" /\ s = "failed"
                 \/ del[d].status = "running"
           \/ /\ del' = [del EXCEPT ![d] = Claimed(del[d], w)]
              /\ del[d].status = "queued"
              /\ lead[LeadOfEmail(del[d].email)].status = "active"
           \/ del' = [del EXCEPT ![d].lease = x]
    PROVE  \A c \in DelIds : DelMoves(c)
  <1> SUFFICES ASSUME NEW c \in DelIds PROVE DelMoves(c)
    OBVIOUS
  <1>1. del[c] \in DelRow
    BY DEF TypeOK
  <1>2. CASE c # d
    <2>1. del'[c] = del[c]
      BY <1>2 DEF TypeOK
    <2> QED  BY <2>1 DEF DelMoves
  <1>3. CASE c = d
    <2>1. \/ /\ del'[d] = Ended(del[d], s)
             /\ \/ del[d].status = "queued" /\ s = "failed"
                \/ del[d].status = "running"
          \/ /\ del'[d] = Claimed(del[d], w)
             /\ del[d].status = "queued"
             /\ lead[LeadOfEmail(del[d].email)].status = "active"
          \/ del'[d] = [del[d] EXCEPT !.lease = x]
      BY DEF TypeOK
    <2>2. CASE /\ del'[d] = Ended(del[d], s)
               /\ \/ del[d].status = "queued" /\ s = "failed"
                  \/ del[d].status = "running"
      BY <1>1, <1>3, <2>2, DelRowFields DEF DelMoves
    <2>3. CASE /\ del'[d] = Claimed(del[d], w)
               /\ del[d].status = "queued"
               /\ lead[LeadOfEmail(del[d].email)].status = "active"
      BY <1>1, <1>3, <2>3, DelRowFields DEF DelMoves
    <2>4. CASE del'[d] = [del[d] EXCEPT !.lease = x]
      BY <1>1, <1>3, <2>4 DEF DelMoves, DelRow
    <2> QED  BY <2>1, <2>2, <2>3, <2>4
  <1> QED  BY <1>2, <1>3

\* What a step does to all the tables, when it queues nothing.
Moves ==
    /\ \A g \in GenIds : GenMoves(g)
    /\ \A d \in DelIds : DelMoves(d)
    /\ \A e \in GenIds : EmailMoves(e)
    /\ lead' = lead

LEMMA ReviewMoves == ASSUME RowsInv, ReviewNext PROVE Moves
  <1>0. TypeOK
    BY DEF RowsInv
  <1>1. PICK x \in GenIds : \/ \E t \in Texts : EditEmail(x, t)
                            \/ \E preview \in Rendering : ApproveEmail(x, preview)
                            \/ RejectEmail(x)
    BY DEF ReviewNext
  <1>2. UNCHANGED <<lead, gen, del>>
    BY <1>1 DEF EditEmail, ApproveEmail, RejectEmail
  <1>3. ASSUME NEW e \in GenIds \ {x} PROVE EmailMoves(e)
    <2>1. email'[e] = email[e] /\ audit'[e] = audit[e]
      BY <1>0, <1>1, <1>3
      DEF EditEmail, ApproveEmail, RejectEmail, AuditAfterEdit, TypeOK
    <2> QED  BY <2>1 DEF EmailMoves
  <1>4. EmailMoves(x)
    <2> USE DEF TypeOK, EmailRow, EmailMoves
    <2>1. ASSUME NEW t \in Texts, EditEmail(x, t) PROVE EmailMoves(x)
      BY <1>0, <2>1 DEF EditEmail, AuditAfterEdit, EmailStatus
    <2>2. ASSUME NEW preview \in Rendering, ApproveEmail(x, preview) PROVE EmailMoves(x)
      <3>1. email[x].status = "pending_review"
        BY <2>2 DEF ApproveEmail, UserTransitions, EmailStatus
      <3> QED  BY <1>0, <2>2, <3>1 DEF ApproveEmail
    <2>3. ASSUME RejectEmail(x) PROVE EmailMoves(x)
      <3>1. email[x].status \in {"pending_review", "approved"}
        BY <2>3 DEF RejectEmail, UserTransitions, EmailStatus
      <3> QED  BY <1>0, <2>3, <3>1 DEF RejectEmail
    <2> QED  BY <1>1, <2>1, <2>2, <2>3
  <1> QED  BY <1>2, <1>3, <1>4 DEF Moves, GenMoves, DelMoves

\* Steps that change one table only.
LEMMA GenOnlyMoves ==
    ASSUME \A g \in GenIds : GenMoves(g), UNCHANGED <<lead, email, audit, del>>
    PROVE  Moves
  BY DEF Moves, DelMoves, EmailMoves

LEMMA DelOnlyMoves ==
    ASSUME \A d \in DelIds : DelMoves(d), UNCHANGED <<lead, email, audit, gen>>
    PROVE  Moves
  BY DEF Moves, GenMoves, EmailMoves

LEMMA GenerationMoves ==
    ASSUME RowsInv, GenerationNext
    PROVE  Moves \/ \E l \in Leads, k \in Keys : RequestGeneration(l, k)
  <1>0. TypeOK
    BY DEF RowsInv
  <1>1. ASSUME NEW l \in Leads, NEW t \in Texts, EnsureFallbackDraft(l, t) PROVE Moves
    <2>1. PICK g \in GenIds :
            /\ gen[g].lead = l /\ gen[g].status = "insufficient_context"
            /\ email[g].status = "none"
            /\ email' = [email EXCEPT ![g] = [status |-> "pending_review",
                                              text |-> t, reviewed |-> Null]]
            /\ audit' = [audit EXCEPT ![g] = StatusEvent("none", "pending_review")]
      BY <1>1 DEF EnsureFallbackDraft
    <2>2. LeadActive(l) /\ UNCHANGED <<lead, gen, del>>
      BY <1>1 DEF EnsureFallbackDraft
    <2>3. \A e \in GenIds : EmailMoves(e)
      BY <1>0, <2>1, <2>2 DEF EmailMoves, LeadActive, DraftedBy, TypeOK
    <2> QED  BY <2>2, <2>3 DEF Moves, GenMoves, DelMoves
  <1>2. ASSUME NEW g \in GenIds, ExpireGenerationLease(g) PROVE Moves
    <2>1. gen' = [gen EXCEPT ![g].lease = "stale"]
      BY <1>2 DEF ExpireGenerationLease
    <2>2. \A h \in GenIds : GenMoves(h)
      BY <1>0, <2>1, OneGenMoves DEF GenTerminal
    <2> QED  BY <1>2, <2>2, GenOnlyMoves DEF ExpireGenerationLease
  <1>3. ASSUME NEW w \in GenWorkers, NEW g \in GenIds, ClaimGeneration(w, g) PROVE Moves
    <2>1. gen[g].status = "queued"
      BY <1>3 DEF ClaimGeneration, IsOldestUnlocked
    <2>2. CASE LeadActive(gen[g].lead) /\ gen' = [gen EXCEPT ![g] = Claimed(gen[g], w)]
      <3>1. \A h \in GenIds : GenMoves(h)
        BY <1>0, <2>1, <2>2, OneGenMoves DEF GenTerminal, LeadActive
      <3> QED  BY <1>3, <3>1, GenOnlyMoves DEF ClaimGeneration
    <2>3. CASE gen' = [gen EXCEPT ![g] = Ended(gen[g], "system_error")]
      <3>1. \A h \in GenIds : GenMoves(h)
        BY <1>0, <2>1, <2>3, OneGenMoves DEF GenTerminal, GenActive
      <3> QED  BY <1>3, <3>1, GenOnlyMoves DEF ClaimGeneration
    <2> QED  BY <1>3, <2>2, <2>3 DEF ClaimGeneration
  <1>4. ASSUME NEW w \in GenWorkers, HeartbeatGeneration(w) PROVE Moves
    <2>1. gen' = [gen EXCEPT ![genWorker[w]].lease = "fresh"] /\ genWorker[w] \in GenIds
      BY <1>0, <1>4 DEF HeartbeatGeneration, TypeOK
    <2>2. \A h \in GenIds : GenMoves(h)
      BY <1>0, <2>1, OneGenMoves DEF GenTerminal
    <2> QED  BY <1>4, <2>2, GenOnlyMoves DEF HeartbeatGeneration
  <1>5. ASSUME NEW w \in GenWorkers, NEW expired \in SUBSET GenIds,
               RecoverGenerations(w, expired)
        PROVE  Moves
    <2>1. ASSUME NEW h \in GenIds PROVE GenMoves(h)
      <3>1. /\ gen'[h] = IF h \in expired THEN Ended(gen[h], "system_error") ELSE gen[h]
            /\ gen[h] \in GenRow
            /\ h \in expired => gen[h].status = "running"
        BY <1>0, <1>5 DEF RecoverGenerations, TypeOK
      <3> QED  BY <3>1, GenRowFields DEF GenMoves, GenActive, GenTerminal
    <2> QED  BY <1>5, <2>1, GenOnlyMoves DEF RecoverGenerations
  <1>6. ASSUME NEW w \in GenWorkers, DropLateGeneration(w) \/ LoseGenWorker(w) PROVE Moves
    <2>1. \A h \in GenIds : GenMoves(h)
      BY <1>6 DEF DropLateGeneration, LoseGenWorker, GenMoves
    <2> QED  BY <1>6, <2>1, GenOnlyMoves DEF DropLateGeneration, LoseGenWorker
  <1>7. ASSUME NEW w \in GenWorkers, FailGeneration(w) PROVE Moves
    <2>1. /\ gen' = [gen EXCEPT ![genWorker[w]] = Ended(gen[genWorker[w]], "system_error")]
          /\ genWorker[w] \in GenIds /\ gen[genWorker[w]].status = "running"
      BY <1>0, <1>7 DEF FailGeneration, StillRunning, TypeOK
    <2>2. \A h \in GenIds : GenMoves(h)
      BY <1>0, <2>1, OneGenMoves DEF GenTerminal, GenActive
    <2> QED  BY <1>7, <2>2, GenOnlyMoves DEF FailGeneration
  <1>8. ASSUME NEW w \in GenWorkers, NEW outcome \in GenTerminal \ {"system_error"},
               NEW t \in Texts, FinalizeGeneration(w, outcome, t)
        PROVE  Moves
    <2> DEFINE g == genWorker[w]
    <2>1. /\ g \in GenIds /\ gen[g].status = "running"
          /\ UNCHANGED <<lead, del>>
      BY <1>0, <1>8 DEF FinalizeGeneration, StillRunning, TypeOK
    <2>2. \A h \in GenIds : GenMoves(h)
      <3>1. \E s \in GenTerminal : gen' = [gen EXCEPT ![g] = Ended(gen[g], s)]
        BY <1>8 DEF FinalizeGeneration, GenTerminal
      <3> QED  BY <1>0, <2>1, <3>1, OneGenMoves DEF GenActive
    <2>3. email[g].status = "none"
      BY <2>1 DEF RowsInv, DraftsFollowJobs, GenActive
    <2>4. CASE UNCHANGED <<email, audit>>
      BY <2>1, <2>2, <2>4, GenOnlyMoves
    <2>5. CASE /\ LeadActive(gen[g].lead) /\ gen'[g].status = outcome
               /\ DraftedBy(outcome)
               /\ email' = [email EXCEPT ![g] = [status |-> "pending_review",
                                                 text |-> t, reviewed |-> Null]]
               /\ audit' = [audit EXCEPT ![g] = StatusEvent("none", "pending_review")]
      <3>1. \A e \in GenIds : EmailMoves(e)
        BY <1>0, <2>1, <2>3, <2>5 DEF EmailMoves, LeadActive, TypeOK
      <3> QED  BY <2>1, <2>2, <3>1 DEF Moves, DelMoves
    <2>6. ASSUME gen' = [gen EXCEPT ![g] = Ended(gen[g], outcome)] PROVE gen'[g].status = outcome
      <3>1. gen'[g] = Ended(gen[g], outcome) /\ gen[g] \in GenRow
        BY <1>0, <2>1, <2>6 DEF TypeOK
      <3> QED  BY <3>1, GenRowFields
    <2> QED  BY <1>8, <2>4, <2>5, <2>6 DEF FinalizeGeneration
  <1> QED
    BY <1>1, <1>2, <1>3, <1>4, <1>5, <1>6, <1>7, <1>8 DEF GenerationNext

LEMMA DeliveryMoves ==
    ASSUME RowsInv, DeliveryNext
    PROVE  \/ Moves
           \/ \E e \in GenIds, k \in Keys, confirmed \in Rendering, ack \in BOOLEAN :
                RequestDelivery(e, k, confirmed, ack)
  <1>0. TypeOK
    BY DEF RowsInv
  <1>1. ASSUME NEW d \in DelIds, ExpireDeliveryLease(d) PROVE Moves
    <2>1. del' = [del EXCEPT ![d].lease = "stale"]
      BY <1>1 DEF ExpireDeliveryLease
    <2>2. \A c \in DelIds : DelMoves(c)
      BY <1>0, <2>1, OneDelMoves DEF DelTerminal
    <2> QED  BY <1>1, <2>2, DelOnlyMoves DEF ExpireDeliveryLease
  <1>2. ASSUME NEW w \in DelWorkers, NEW d \in DelIds, ClaimDelivery(w, d) PROVE Moves
    <2>1. del[d].status = "queued"
      BY <1>2 DEF ClaimDelivery, IsOldestUnlocked
    <2>2. CASE /\ LeadActive(LeadOfEmail(del[d].email))
               /\ del' = [del EXCEPT ![d] = Claimed(del[d], w)]
      <3>1. \A c \in DelIds : DelMoves(c)
        BY <1>0, <2>1, <2>2, OneDelMoves DEF DelTerminal, LeadActive
      <3> QED  BY <1>2, <3>1, DelOnlyMoves DEF ClaimDelivery
    <2>3. CASE del' = [del EXCEPT ![d] = Ended(del[d], "failed")]
      <3>1. \A c \in DelIds : DelMoves(c)
        BY <1>0, <2>1, <2>3, OneDelMoves DEF DelTerminal
      <3> QED  BY <1>2, <3>1, DelOnlyMoves DEF ClaimDelivery
    <2> QED  BY <1>2, <2>2, <2>3 DEF ClaimDelivery
  <1>3. ASSUME NEW w \in DelWorkers, HeartbeatDelivery(w) PROVE Moves
    <2> DEFINE d == delWorker[w].job
    <2>1. del' = [del EXCEPT ![d].lease = "fresh"] /\ d \in DelIds
      BY <1>0, <1>3 DEF HeartbeatDelivery, TypeOK
    <2>2. \A c \in DelIds : DelMoves(c)
      BY <1>0, <2>1, OneDelMoves DEF DelTerminal
    <2> QED  BY <1>3, <2>2, DelOnlyMoves DEF HeartbeatDelivery
  <1>4. ASSUME NEW w \in DelWorkers, NEW expired \in SUBSET DelIds,
               RecoverDeliveries(w, expired)
        PROVE  Moves
    <2>1. ASSUME NEW c \in DelIds PROVE DelMoves(c)
      <3>1. /\ del'[c] = IF c \in expired THEN Ended(del[c], "delivery_unknown") ELSE del[c]
            /\ del[c] \in DelRow
            /\ c \in expired => del[c].status = "running"
        BY <1>0, <1>4 DEF RecoverDeliveries, TypeOK
      <3>2. CASE c \in expired
        BY <3>1, <3>2 DEF DelRow, Ended, DelMoves, DelTerminal
      <3>3. CASE c \notin expired
        BY <3>1, <3>3 DEF DelMoves
      <3> QED  BY <3>2, <3>3
    <2> QED  BY <1>4, <2>1, DelOnlyMoves DEF RecoverDeliveries
  <1>5. ASSUME UNCHANGED <<lead, gen, email, audit, del>> PROVE Moves
    BY <1>5, DelOnlyMoves DEF DelMoves
  <1>8. ASSUME NEW w \in DelWorkers,
               \/ \E answer \in {"accepted", "refused", "ambiguous"} : CallProvider(w, answer)
               \/ DropLateDelivery(w)
               \/ LoseDelWorker(w)
        PROVE  Moves
    BY <1>5, <1>8 DEF CallProvider, DropLateDelivery, LoseDelWorker
  <1>6. ASSUME NEW w \in DelWorkers, FinalizeAccepted(w) PROVE Moves
    <2> DEFINE d == delWorker[w].job
               e == del[d].email
    <2>1. /\ d \in DelIds /\ del[d].status = "running"
          /\ del' = [del EXCEPT ![d] = Ended(del[d], "succeeded")]
          /\ email' = [email EXCEPT ![e].status = "sent"]
          /\ audit' = IF email[e].status # "sent"
                      THEN [audit EXCEPT ![e] = StatusEvent(email[e].status, "sent")]
                      ELSE audit
          /\ UNCHANGED <<lead, gen>>
      BY <1>0, <1>6 DEF FinalizeAccepted, StillRunning, TypeOK, Idle
    <2>2. email[e].status = "approved" /\ e \in GenIds
      BY <2>1 DEF RowsInv, OpenIsConfirmed, DeliveriesHaveEmails, DelActive
    <2>3. \A c \in DelIds : DelMoves(c)
      BY <1>0, <2>1, OneDelMoves DEF DelTerminal
    <2>4. \A f \in GenIds : EmailMoves(f)
      BY <1>0, <2>1, <2>2 DEF EmailMoves, TypeOK, EmailRow
    <2> QED  BY <2>1, <2>3, <2>4 DEF Moves, GenMoves
  <1>7. ASSUME NEW w \in DelWorkers, FinalizeTerminal(w) PROVE Moves
    <2> DEFINE d == delWorker[w].job
               s == RecordedAs[delWorker[w].phase]
    <2>1. /\ d \in DelIds /\ del[d].status = "running"
          /\ del' = [del EXCEPT ![d] = Ended(del[d], s)]
      BY <1>0, <1>7 DEF FinalizeTerminal, Answered, StillRunning, TypeOK, Idle
    <2>3. s \in DelTerminal
      BY <1>7 DEF FinalizeTerminal, Answered, RecordedAs, DelTerminal
    <2>2. \A c \in DelIds : DelMoves(c)
      BY <1>0, <2>1, <2>3, OneDelMoves
    <2> QED  BY <1>7, <2>2, DelOnlyMoves DEF FinalizeTerminal
  <1> QED
    BY <1>1, <1>2, <1>3, <1>4, <1>6, <1>7, <1>8 DEF DeliveryNext

\* The two requests: one new row, for an active lead, under an unused key.
LEMMA GenerationCreates ==
    ASSUME RulesInv, NEW l \in Leads, NEW k \in Keys, RequestGeneration(l, k)
    PROVE  \E g \in GenIds :
             /\ GenCreated(g) /\ gen'[g].lead = l /\ gen'[g].key = k
             /\ \A h \in GenIds \ {g} : gen'[h] = gen[h]
             /\ lead[l].status = "active" /\ k \notin GenKeysInUse
             /\ \A e \in GenIds : LeadOfEmail(e) = l => ~UnknownDelivery(e)
             /\ UNCHANGED <<lead, email, audit, del>>
  <1>1. PICK g \in GenIds : /\ IsNextId(gen, GenIds, g)
                            /\ gen' = [gen EXCEPT ![g] = QueuedGen(l, k)]
    BY DEF RequestGeneration
  <1>2. gen'[g] = QueuedGen(l, k) /\ \A h \in GenIds \ {g} : gen'[h] = gen[h]
    BY <1>1 DEF RulesInv, WorkflowInv, TypeOK
  <1>3. ASSUME NEW e \in GenIds, LeadOfEmail(e) = l, UnknownDelivery(e) PROVE FALSE
    <2>1. IsCurrentEmail(e)
      BY <1>3 DEF RulesInv, UnknownIsCurrent, UnknownDelivery, DeliveriesOf
    <2>2. BlockingDelivery(e)
      BY <1>3 DEF UnknownDelivery, BlockingDelivery, DelBlocking
    <2> QED  BY <1>3, <2>1, <2>2 DEF RequestGeneration
  <1>4. GenCreated(g) /\ gen'[g].lead = l /\ gen'[g].key = k
    BY <1>1, <1>2, QueuedGenFields DEF GenCreated, IsNextId
  <1> QED  BY <1>2, <1>3, <1>4 DEF RequestGeneration, LeadActive

LEMMA DeliveryCreates ==
    ASSUME RulesInv, NEW e \in GenIds, NEW k \in Keys, NEW confirmed \in Rendering,
           NEW ack \in BOOLEAN, RequestDelivery(e, k, confirmed, ack)
    PROVE  \E d \in DelIds :
             /\ DelCreated(d) /\ del'[d].email = e /\ del'[d].key = k
             /\ \A c \in DelIds \ {d} : del'[c] = del[c]
             /\ lead[LeadOfEmail(e)].status = "active" /\ k \notin DelKeysInUse
             /\ UNCHANGED <<lead, gen, email, audit>>
  <1> DEFINE row == [NoDel EXCEPT !.status = "queued", !.email = e, !.key = k,
                                  !.snapshot = Rendered(e), !.confirmed = confirmed,
                                  !.ack = ack]
  <1>1. PICK d \in DelIds : IsNextId(del, DelIds, d) /\ del' = [del EXCEPT ![d] = row]
    BY DEF RequestDelivery
  <1>2. del'[d] = row /\ \A c \in DelIds \ {d} : del'[c] = del[c]
    BY <1>1 DEF RulesInv, WorkflowInv, TypeOK
  <1>3. row.status = "queued" /\ row.email = e /\ row.key = k
    BY DEF NoDel
  <1>4. DelCreated(d) /\ del'[d].email = e /\ del'[d].key = k
    BY <1>1, <1>2, <1>3 DEF DelCreated, IsNextId
  <1> QED  BY <1>2, <1>4 DEF RequestDelivery, LeadActive

\* A feed batch creates first drafts for active leads without history, and
\* ends what was queued for the leads it deletes.
FeedCreates(g) ==
    LET l == gen'[g].lead
    IN  /\ GenCreated(g) /\ l \in Leads /\ gen'[g].key = l
        /\ lead'[l].status = "active" /\ ~HasOutreachHistory(l)

FeedMoves ==
    /\ \A g \in GenIds : GenMoves(g) \/ FeedCreates(g)
    /\ \A g, h \in GenIds :
         FeedCreates(g) /\ FeedCreates(h) /\ gen'[g].lead = gen'[h].lead => g = h
    /\ \A d \in DelIds : DelMoves(d)
    /\ \A l \in Leads : lead'[l].status = "deleted" =>
         /\ \A g \in GenIds : gen'[g].lead = l => gen'[g].status # "queued"
         /\ \A d \in DelIds : del'[d].email # Null /\ gen'[del'[d].email].lead = l
                                => del'[d].status # "queued"
    /\ UNCHANGED <<email, audit>>

LEMMA FeedStep == ASSUME RulesInv, FeedNext PROVE FeedMoves
  <1> USE DEF RulesInv, WorkflowInv
  <1>1. PICK rows \in FeedBatch : FeedSync(rows)
    BY DEF FeedNext
  <1>2. PICK named \in SUBSET Leads : rows \in [named -> FeedRow]
    BY DEF FeedBatch
  <1> DEFINE fresh == {l \in DOMAIN rows : NeedsFirstDraft(l, rows[l])}
  <1>3. PICK draftOf \in FreshIds(fresh) :
          /\ lead' = [l \in Leads |-> IF l \in DOMAIN rows THEN rows[l] ELSE lead[l]]
          /\ gen' = [g \in GenIds |->
                       IF g \in DOMAIN draftOf
                       THEN QueuedGen(draftOf[g], draftOf[g])
                       ELSE GenAfterDismissal(g, Dismissed(rows))]
          /\ del' = [d \in DelIds |-> DelAfterDismissal(d, Dismissed(rows))]
          /\ UNCHANGED <<email, audit>>
    BY <1>1 DEF FeedSync
  <1>4. /\ DOMAIN draftOf \subseteq {g \in GenIds : gen[g].status = "none"}
        /\ \A g \in DOMAIN draftOf : draftOf[g] \in fresh
        /\ \A g, h \in DOMAIN draftOf : draftOf[g] = draftOf[h] => g = h
        /\ fresh \subseteq Leads
    BY <1>2, FreshIdsFacts
  <1>5. \A l \in fresh : l \in Leads /\ ~HasOutreachHistory(l) /\ lead'[l].status = "active"
    BY <1>2, <1>3, <1>4 DEF NeedsFirstDraft, AbsentHasNoHistory
  <1>6. ASSUME NEW g \in DOMAIN draftOf
        PROVE  FeedCreates(g) /\ gen'[g].lead = draftOf[g] /\ ~GenMoves(g)
    <2>1. gen'[g] = QueuedGen(draftOf[g], draftOf[g]) /\ draftOf[g] \in fresh
      BY <1>3, <1>4
    <2>2. gen'[g].status = "queued" /\ gen'[g].lead = draftOf[g] /\ gen'[g].key = draftOf[g]
      BY <2>1, QueuedGenFields
    <2>3. FeedCreates(g)
      BY <1>4, <1>5, <2>1, <2>2 DEF FeedCreates, GenCreated
    <2>4. gen[g].status = "none" /\ g \in GenIds
      BY <1>4
    <2> QED  BY <2>2, <2>3, <2>4 DEF GenMoves, GenActive
  <1>7. ASSUME NEW g \in GenIds \ DOMAIN draftOf
        PROVE  /\ GenMoves(g) /\ ~GenCreated(g)
               /\ gen[g].lead \in Dismissed(rows) => gen'[g].status # "queued"
    <2>1. gen'[g] = GenAfterDismissal(g, Dismissed(rows)) /\ gen[g] \in GenRow
      BY <1>3 DEF TypeOK
    <2>2. CASE gen[g].status = "queued" /\ gen[g].lead \in Dismissed(rows)
      <3>1. gen'[g] = Ended(gen[g], "system_error")
        BY <2>1, <2>2 DEF GenAfterDismissal
      <3> QED
        BY <2>1, <2>2, <3>1, GenRowFields DEF GenMoves, GenCreated, GenActive, GenTerminal
    <2>3. CASE ~(gen[g].status = "queued" /\ gen[g].lead \in Dismissed(rows))
      <3>1. gen'[g] = gen[g]
        BY <2>1, <2>3 DEF GenAfterDismissal
      <3> QED  BY <2>3, <3>1 DEF GenMoves, GenCreated
    <2> QED  BY <2>2, <2>3
  <1>8. ASSUME NEW d \in DelIds
        PROVE  /\ DelMoves(d)
               /\ LeadOfEmail(del[d].email) \in Dismissed(rows) => del'[d].status # "queued"
    <2>1. del'[d] = DelAfterDismissal(d, Dismissed(rows)) /\ del[d] \in DelRow
      BY <1>3 DEF TypeOK
    <2>2. CASE del[d].status = "queued" /\ LeadOfEmail(del[d].email) \in Dismissed(rows)
      <3>1. del'[d] = Ended(del[d], "failed")
        BY <2>1, <2>2 DEF DelAfterDismissal
      <3> QED  BY <2>1, <2>2, <3>1, DelRowFields DEF DelMoves
    <2>3. CASE ~(del[d].status = "queued" /\ LeadOfEmail(del[d].email) \in Dismissed(rows))
      <3>1. del'[d] = del[d]
        BY <2>1, <2>3 DEF DelAfterDismissal
      <3> QED  BY <2>3, <3>1 DEF DelMoves
    <2> QED  BY <2>2, <2>3
  <1>9. ASSUME NEW l \in Leads, lead'[l].status = "deleted"
        PROVE  l \in Dismissed(rows) \/ lead[l].status = "deleted"
    BY <1>2, <1>3, <1>9 DEF Dismissed
  <1>10. ASSUME NEW l \in Leads, lead'[l].status = "deleted", NEW g \in GenIds, gen'[g].lead = l
         PROVE  gen'[g].status # "queued"
    <2>1. g \notin DOMAIN draftOf
      BY <1>5, <1>6, <1>10 DEF FeedCreates
    <2>2. GenMoves(g) /\ (gen[g].lead \in Dismissed(rows) => gen'[g].status # "queued")
      BY <1>7, <2>1
    <2>3. gen[g].lead = l /\ (gen'[g].status = "queued" => gen[g].status = "queued")
      BY <1>10, <2>2 DEF GenMoves, GenTerminal, GenActive
    <2> QED  BY <1>9, <1>10, <2>2, <2>3 DEF DeletedLeadHasNoQueue
  <1>11. ASSUME NEW l \in Leads, lead'[l].status = "deleted", NEW d \in DelIds,
                del'[d].email # Null, gen'[del'[d].email].lead = l, del'[d].status = "queued"
         PROVE  FALSE
    <2>1. DelMoves(d) /\ (LeadOfEmail(del[d].email) \in Dismissed(rows) => del'[d].status # "queued")
      BY <1>8
    <2>2. del[d].status = "queued" /\ del[d].email = del'[d].email
      BY <1>11, <2>1 DEF DelMoves, DelTerminal
    <2>3. del[d].email \in GenIds /\ gen[del[d].email].status # "none"
      BY <2>2 DEF DeliveriesHaveEmails, RowsAgree, DraftedBy
    <2>4. del[d].email \notin DOMAIN draftOf
      BY <1>4, <2>3
    <2>5. LeadOfEmail(del[d].email) = l
      BY <1>7, <1>11, <2>2, <2>3, <2>4 DEF GenMoves, LeadOfEmail
    <2> QED  BY <1>9, <1>11, <2>1, <2>2, <2>5 DEF DeletedLeadHasNoQueue
  <1>12. \A g \in GenIds : GenMoves(g) \/ FeedCreates(g)
    BY <1>6, <1>7
  <1>13. \A g, h \in GenIds :
           FeedCreates(g) /\ FeedCreates(h) /\ gen'[g].lead = gen'[h].lead => g = h
    <2>1. \A g \in GenIds : FeedCreates(g) => g \in DOMAIN draftOf
      BY <1>7 DEF FeedCreates
    <2> QED  BY <1>4, <1>6, <2>1
  <1> QED
    BY <1>3, <1>8, <1>10, <1>11, <1>12, <1>13 DEF FeedMoves

-----------------------------------------------------------------------------
(* The invariant of the rules.                                             *)

\* The four kinds of steps.
LEMMA RulesSteps ==
    ASSUME RulesInv, [Next]_vars
    PROVE  \/ Moves
           \/ FeedMoves
           \/ \E l \in Leads, k \in Keys : RequestGeneration(l, k)
           \/ \E e \in GenIds, k \in Keys, confirmed \in Rendering, ack \in BOOLEAN :
                RequestDelivery(e, k, confirmed, ack)
  <1>0. RowsInv
    BY WorkflowHasRows DEF RulesInv
  <1>1. CASE UNCHANGED vars
    BY <1>1 DEF vars, Moves, GenMoves, DelMoves, EmailMoves
  <1> QED
    BY <1>0, <1>1, FeedStep, GenerationMoves, ReviewMoves, DeliveryMoves DEF Next

LEMMA RulesInit == Init => RulesInv
  <1> SUFFICES ASSUME Init PROVE RulesInv
    OBVIOUS
  <1>1. \A g \in GenIds : gen[g] = NoGen /\ email[g] = NoEmail
                          /\ audit[g] = StatusEvent("none", "none")
    BY DEF Init
  <1>2. \A d \in DelIds : del[d] = NoDel
    BY DEF Init
  <1>3. \A l \in Leads : lead[l].status = "absent"
    BY DEF Init
  <1> QED
    BY <1>1, <1>2, <1>3, WorkflowInit, OutreachAssumption
    DEF RulesInv, AuditAgrees, UnknownIsCurrent, KeyOfLead, DeletedLeadHasNoQueue,
        KeysUnique, NoGen, NoEmail, NoDel, StatusEvent

\* The last events keep up with the emails.
LEMMA AuditKeeps == ASSUME RulesInv, [Next]_vars PROVE \A e \in GenIds : EmailMoves(e)
  <1>1. CASE UNCHANGED <<email, audit>>
    BY <1>1 DEF EmailMoves
  <1> QED
    BY <1>1, RulesSteps DEF Moves, FeedMoves, RequestGeneration, RequestDelivery

LEMMA AuditAgreesKeeps == ASSUME RulesInv, [Next]_vars PROVE AuditAgrees'
  <1> SUFFICES ASSUME NEW e \in GenIds PROVE audit'[e].new = email'[e].status
    BY DEF AuditAgrees
  <1>1. EmailMoves(e) /\ audit[e].new = email[e].status
    BY AuditKeeps DEF RulesInv, AuditAgrees
  <1>2. StatusEvent(email[e].status, email'[e].status).new = email'[e].status
    BY DEF StatusEvent
  <1> QED  BY <1>1, <1>2 DEF EmailMoves

\* A used row keeps its lead; a new one is for a lead with no delivery whose
\* outcome is unknown.
NothingUnknown(l) ==
    \A d \in DelIds : del[d].email \in GenIds /\ LeadOfEmail(del[d].email) = l =>
      del[d].status # "delivery_unknown" /\ del'[d].status # "delivery_unknown"

LEMMA LeadsKept ==
    ASSUME RulesInv, [Next]_vars, NEW g \in GenIds
    PROVE  GenMoves(g) \/ (GenCreated(g) /\ NothingUnknown(gen'[g].lead))
  <1>1. CASE Moves
    BY <1>1 DEF Moves
  <1>2. CASE FeedMoves
    <2>1. ASSUME FeedCreates(g), NEW e \in GenIds, LeadOfEmail(e) = gen'[g].lead PROVE FALSE
      BY <2>1 DEF FeedCreates, HasOutreachHistory, LeadOfEmail
    <2> QED  BY <1>2, <2>1 DEF FeedMoves, FeedCreates, NothingUnknown
  <1>3. ASSUME NEW l \in Leads, NEW k \in Keys, RequestGeneration(l, k)
        PROVE  GenMoves(g) \/ (GenCreated(g) /\ NothingUnknown(gen'[g].lead))
    <2>1. PICK h \in GenIds : /\ GenCreated(h) /\ gen'[h].lead = l
                              /\ \A f \in GenIds \ {h} : gen'[f] = gen[f]
                              /\ \A e \in GenIds : LeadOfEmail(e) = l => ~UnknownDelivery(e)
                              /\ UNCHANGED del
      BY <1>3, GenerationCreates
    <2>2. NothingUnknown(l)
      BY <2>1 DEF NothingUnknown, UnknownDelivery, DeliveriesOf
    <2> QED  BY <2>1, <2>2 DEF GenMoves
  <1>4. CASE UNCHANGED gen
    BY <1>4 DEF GenMoves
  <1> QED  BY <1>1, <1>2, <1>3, <1>4, RulesSteps DEF RequestDelivery

LEMMA DeliveriesKept ==
    ASSUME RulesInv, [Next]_vars, NEW d \in DelIds
    PROVE  DelMoves(d) \/ DelCreated(d)
  <1>1. CASE UNCHANGED del
    BY <1>1 DEF DelMoves
  <1>2. ASSUME NEW e \in GenIds, NEW k \in Keys, NEW confirmed \in Rendering,
               NEW ack \in BOOLEAN, RequestDelivery(e, k, confirmed, ack)
        PROVE  DelMoves(d) \/ DelCreated(d)
    BY <1>2, DeliveryCreates DEF DelMoves
  <1> QED  BY <1>1, <1>2, RulesSteps DEF Moves, FeedMoves, RequestGeneration

LEMMA UnknownKeeps == ASSUME RulesInv, [Next]_vars PROVE UnknownIsCurrent'
  <1> USE DEF RulesInv, WorkflowInv
  <1> SUFFICES ASSUME NEW d \in DelIds, del'[d].status = "delivery_unknown",
                      NEW e, e = del[d].email, NEW l, l = gen[e].lead
               PROVE  /\ IsCurrentEmail(del[d].email)'
                      /\ ~ActiveGeneration(LeadOfEmail(del[d].email))'
    BY DEF UnknownIsCurrent
  <1>1. /\ del'[d].email = e
        /\ del[d].status = "delivery_unknown" \/ del[d].status = "running"
    BY DeliveriesKept DEF DelMoves, DelCreated
  <1>2. e \in GenIds /\ email[e].status # "none" /\ gen[e].status # "none"
    BY <1>1 DEF DeliveriesHaveEmails, RowsAgree, DraftedBy
  <1>3. l \in Leads
    BY <1>2, OutreachAssumption DEF RowsAgree, TypeOK, GenRow
  <1>4. IsCurrentEmail(e) /\ ~ActiveGeneration(l)
    <2>1. CASE del[d].status = "delivery_unknown"
      BY <2>1 DEF UnknownIsCurrent, LeadOfEmail
    <2>2. CASE del[d].status = "running"
      <3>1. d \in DeliveringLead(l)
        BY <2>2 DEF DeliveringLead, LeadOfEmail, DelActive
      <3> QED  BY <1>3, <2>2, <3>1 DEF DeliveryFrozen, OneWorkflow, DelActive
    <2> QED  BY <1>1, <2>1, <2>2
  <1>5. ASSUME NEW g \in GenIds, gen'[g].lead = l
        PROVE  /\ gen'[g].status \notin GenActive
               /\ email'[g].status # "none" => email[g].status # "none" /\ gen[g].lead = l
    <2>1. CASE GenMoves(g)
      <3>1. gen[g].lead = l /\ gen[g].status \notin GenActive
        BY <1>4, <1>5, <2>1 DEF GenMoves, ActiveGeneration
      <3> QED  BY <2>1, <3>1, AuditKeeps DEF GenMoves, EmailMoves, GenActive, RowsAgree, DraftedBy
    <2>2. CASE ~GenMoves(g)
      BY <1>2, <1>5, <2>2, LeadsKept DEF NothingUnknown, LeadOfEmail
    <2> QED  BY <2>1, <2>2
  <1>6. gen'[e].lead = l
    BY <1>2, LeadsKept DEF GenMoves, GenCreated
  <1>7. email'[e].status # "none"
    BY <1>2, AuditKeeps DEF EmailMoves
  <1>8. IsCurrentEmail(e)'
    BY <1>1, <1>4, <1>5, <1>6, <1>7 DEF IsCurrentEmail
  <1> QED  BY <1>1, <1>5, <1>6, <1>8 DEF ActiveGeneration, LeadOfEmail

LEMMA KeyOfLeadKeeps == ASSUME RulesInv, [Next]_vars PROVE KeyOfLead'
  <1> USE DEF RulesInv, KeyOfLead
  <1>1. CASE Moves
    BY <1>1 DEF Moves, GenMoves
  <1>2. CASE FeedMoves
    BY <1>2 DEF FeedMoves, FeedCreates, GenMoves
  <1>3. ASSUME NEW l \in Leads, NEW k \in Keys, RequestGeneration(l, k) PROVE KeyOfLead'
    <2>1. PICK g \in GenIds : /\ gen'[g].key = k
                              /\ \A h \in GenIds \ {g} : gen'[h] = gen[h]
      BY <1>3, GenerationCreates
    <2>2. k \notin Leads
      BY OutreachAssumption
    <2> QED  BY <2>1, <2>2
  <1>4. CASE UNCHANGED gen
    BY <1>4
  <1> QED  BY <1>1, <1>2, <1>3, <1>4, RulesSteps DEF RequestDelivery

LEMMA KeysKeep == ASSUME RulesInv, [Next]_vars PROVE KeysUnique'
  <1> USE DEF RulesInv
  <1>1. ASSUME NEW g \in GenIds, NEW h \in GenIds, gen'[g].key = gen'[h].key, gen'[g].key # Null,
               g # h
        PROVE  FALSE
    <2>0. gen[g].key = gen[h].key /\ gen[g].key # Null => FALSE
      BY <1>1 DEF KeysUnique
    <2>1. CASE Moves
      BY <1>1, <2>0, <2>1 DEF Moves, GenMoves
    <2>2. CASE FeedMoves
      <3>1. ASSUME NEW f \in GenIds, NEW j \in GenIds, FeedCreates(f), GenMoves(j),
                   gen'[f].key = gen'[j].key
            PROVE  FALSE
        <4>1. gen[j].key = gen'[f].lead /\ gen'[f].lead \in Leads
          BY <3>1 DEF FeedCreates, GenMoves
        <4> QED  BY <3>1, <4>1 DEF KeyOfLead, FeedCreates, HasOutreachHistory
      <3>2. FeedCreates(g) /\ FeedCreates(h) => FALSE
        BY <1>1, <2>2 DEF FeedMoves, FeedCreates
      <3> QED  BY <1>1, <2>0, <2>2, <3>1, <3>2 DEF FeedMoves, GenMoves
    <2>3. ASSUME NEW l \in Leads, NEW k \in Keys, RequestGeneration(l, k) PROVE FALSE
      <3>1. PICK f \in GenIds : /\ gen'[f].key = k
                                /\ \A j \in GenIds \ {f} : gen'[j] = gen[j]
                                /\ k \notin GenKeysInUse
        BY <2>3, GenerationCreates
      <3> QED  BY <1>1, <2>0, <3>1 DEF GenKeysInUse
    <2>4. CASE UNCHANGED gen
      BY <1>1, <2>0, <2>4
    <2> QED  BY <2>1, <2>2, <2>3, <2>4, RulesSteps DEF RequestDelivery
  <1>2. ASSUME NEW c \in DelIds, NEW d \in DelIds, del'[c].key = del'[d].key, del'[c].key # Null,
               c # d
        PROVE  FALSE
    <2>0. del[c].key = del[d].key /\ del[c].key # Null => FALSE
      BY <1>2 DEF KeysUnique
    <2>1. CASE \A b \in DelIds : DelMoves(b)
      BY <1>2, <2>0, <2>1 DEF DelMoves
    <2>2. ASSUME NEW e \in GenIds, NEW k \in Keys, NEW confirmed \in Rendering,
                 NEW ack \in BOOLEAN, RequestDelivery(e, k, confirmed, ack)
          PROVE  FALSE
      <3>1. PICK b \in DelIds : /\ del'[b].key = k
                                /\ \A a \in DelIds \ {b} : del'[a] = del[a]
                                /\ k \notin DelKeysInUse
        BY <2>2, DeliveryCreates
      <3> QED  BY <1>2, <2>0, <3>1 DEF DelKeysInUse
    <2>3. CASE UNCHANGED del
      BY <2>1, <2>3 DEF DelMoves
    <2> QED  BY <2>1, <2>2, <2>3, RulesSteps DEF Moves, FeedMoves, RequestGeneration
  <1> QED  BY <1>1, <1>2 DEF KeysUnique

LEMMA NoQueueKeeps == ASSUME RulesInv, [Next]_vars PROVE DeletedLeadHasNoQueue'
  <1> USE DEF RulesInv, WorkflowInv
  <1> SUFFICES ASSUME NEW l \in Leads, lead'[l].status = "deleted"
               PROVE  /\ \A g \in GenIds : gen'[g].lead = l => gen'[g].status # "queued"
                      /\ \A d \in DelIds : del'[d].email # Null /\ gen'[del'[d].email].lead = l
                                             => del'[d].status # "queued"
    BY DEF DeletedLeadHasNoQueue, LeadOfEmail
  <1>1. CASE FeedMoves
    BY <1>1 DEF FeedMoves
  <1>2. ASSUME UNCHANGED lead PROVE lead[l].status = "deleted"
    BY <1>2
  <1>3. ASSUME NEW d \in DelIds, del[d].status = "queued"
        PROVE  /\ del[d].email \in GenIds /\ gen'[del[d].email].lead = gen[del[d].email].lead
    <2>1. del[d].email \in GenIds /\ gen[del[d].email].status # "none"
      BY <1>3 DEF DeliveriesHaveEmails, RowsAgree, DraftedBy
    <2> QED  BY <2>1, LeadsKept DEF GenMoves, GenCreated
  <1>4. ASSUME lead[l].status = "deleted", NEW d \in DelIds, DelMoves(d),
               del'[d].email # Null, gen'[del'[d].email].lead = l, del'[d].status = "queued"
        PROVE  FALSE
    <2>1. del[d].status = "queued" /\ del[d].email = del'[d].email
      BY <1>4 DEF DelMoves, DelTerminal
    <2> QED  BY <1>3, <1>4, <2>1 DEF DeletedLeadHasNoQueue, LeadOfEmail
  <1>5. ASSUME lead[l].status = "deleted", NEW g \in GenIds, GenMoves(g), gen'[g].lead = l,
               gen'[g].status = "queued"
        PROVE  FALSE
    BY <1>5 DEF GenMoves, GenTerminal, DeletedLeadHasNoQueue
  <1>6. CASE Moves
    BY <1>2, <1>4, <1>5, <1>6 DEF Moves
  <1>7. ASSUME NEW m \in Leads, NEW k \in Keys, RequestGeneration(m, k)
        PROVE  /\ \A g \in GenIds : gen'[g].lead = l => gen'[g].status # "queued"
               /\ \A d \in DelIds : DelMoves(d)
               /\ lead[l].status = "deleted"
    <2>1. PICK g \in GenIds : /\ gen'[g].lead = m /\ lead[m].status = "active"
                              /\ \A h \in GenIds \ {g} : gen'[h] = gen[h]
                              /\ UNCHANGED <<lead, del>>
      BY <1>7, GenerationCreates
    <2> QED  BY <1>2, <2>1 DEF DelMoves, DeletedLeadHasNoQueue
  <1>8. ASSUME NEW e \in GenIds, NEW k \in Keys, NEW confirmed \in Rendering,
               NEW ack \in BOOLEAN, RequestDelivery(e, k, confirmed, ack)
        PROVE  /\ \A g \in GenIds : GenMoves(g)
               /\ \A d \in DelIds : DelMoves(d) \/ gen'[del'[d].email].lead # l
               /\ lead[l].status = "deleted"
    <2>1. PICK d \in DelIds : /\ del'[d].email = e /\ lead[gen[e].lead].status = "active"
                              /\ \A c \in DelIds \ {d} : del'[c] = del[c]
                              /\ UNCHANGED <<lead, gen>>
      BY <1>8, DeliveryCreates DEF LeadOfEmail
    <2> QED  BY <1>2, <2>1 DEF DelMoves, GenMoves
  <1>9. CASE UNCHANGED vars
    BY <1>2, <1>9 DEF vars, DeletedLeadHasNoQueue, LeadOfEmail
  <1> QED  BY <1>1, <1>4, <1>5, <1>6, <1>7, <1>8, RulesSteps

LEMMA RulesStep == RulesInv /\ [Next]_vars => RulesInv'
  <1> SUFFICES ASSUME RulesInv, [Next]_vars PROVE RulesInv'
    OBVIOUS
  <1>1. WorkflowInv'
    BY WorkflowNext DEF RulesInv
  <1> QED
    BY <1>1, AuditAgreesKeeps, UnknownKeeps, KeyOfLeadKeeps, KeysKeep, NoQueueKeeps
    DEF RulesInv

\* The invariant the rules below rest on.
THEOREM Rules == Spec => []RulesInv
  BY RulesInit, RulesStep, PTL DEF Spec

-----------------------------------------------------------------------------
(* The rules.                                                              *)

\* Dismissing a lead leaves nothing queued for it, in either queue.
THEOREM NothingQueued == Spec => []DeletedLeadHasNoQueue
  <1>1. RulesInv => DeletedLeadHasNoQueue
    BY DEF RulesInv
  <1> QED  BY <1>1, Rules, PTL

\* No two jobs share an idempotency key, the feed's own keys included.
THEOREM UniqueKeys == Spec => []KeysUnique
  <1>1. RulesInv => KeysUnique
    BY DEF RulesInv
  <1> QED  BY <1>1, Rules, PTL

\* The first terminal status a job gets is the one it keeps.
FinalKept ==
    /\ \A g \in GenIds : gen[g].status \in GenTerminal => gen'[g].status = gen[g].status
    /\ \A d \in DelIds : del[d].status \in DelTerminal => del'[d].status = del[d].status

\* A job that has ended keeps its verdict: late results, recovery and dismissal
\* never change it.
THEOREM Final == Spec => TerminalIsFinal
  <1>1. ASSUME RulesInv, [Next]_vars PROVE FinalKept
    <2>1. \A g \in GenIds : GenMoves(g) \/ GenCreated(g)
      BY <1>1, LeadsKept
    <2>2. \A d \in DelIds : DelMoves(d) \/ DelCreated(d)
      BY <1>1, DeliveriesKept
    <2> QED
      BY <2>1, <2>2
      DEF FinalKept, GenMoves, GenCreated, DelMoves, DelCreated, GenTerminal, GenActive,
          DelTerminal
  <1>2. RulesInv /\ [Next]_vars => [FinalKept]_vars
    BY <1>1
  <1> QED  BY <1>2, Rules, PTL DEF Spec, TerminalIsFinal, FinalKept

\* Work starts, and a draft appears, for active leads only.
OnlyActive ==
    /\ \A g \in GenIds :
         \/ email[g].status = "none" /\ email'[g].status # "none"
         \/ gen[g].status # "running" /\ gen'[g].status = "running"
         => lead[gen[g].lead].status = "active"
    /\ \A d \in DelIds :
         del[d].status # "running" /\ del'[d].status = "running"
         => lead[LeadOfEmail(del[d].email)].status = "active"

\* Drafts appear and work starts only for leads that are active.
THEOREM ActiveOnly == Spec => OnlyActiveLeadsWork
  <1>1. ASSUME RulesInv, [Next]_vars PROVE OnlyActive
    <2>1. \A g \in GenIds : (GenMoves(g) \/ GenCreated(g)) /\ EmailMoves(g)
      BY <1>1, LeadsKept, AuditKeeps
    <2>2. \A d \in DelIds : DelMoves(d) \/ DelCreated(d)
      BY <1>1, DeliveriesKept
    <2> QED
      BY <2>1, <2>2
      DEF OnlyActive, GenMoves, GenCreated, DelMoves, DelCreated, EmailMoves,
          GenTerminal, DelTerminal
  <1>2. RulesInv /\ [Next]_vars => [OnlyActive]_vars
    BY <1>1
  <1> QED  BY <1>2, Rules, PTL DEF Spec, OnlyActiveLeadsWork, OnlyActive

\* Every status change has its event, which continues the last one.
Contiguous ==
    \A e \in GenIds :
      /\ email'[e].status # email[e].status <=> audit'[e] # audit[e]
      /\ audit'[e] # audit[e] =>
           audit'[e] = [prev |-> audit[e].new, new |-> email'[e].status]

\* No change of status goes without its event, and no event without a change.
THEOREM Audited == Spec => AuditContiguous
  <1>1. ASSUME RulesInv, [Next]_vars PROVE Contiguous
    <2> SUFFICES ASSUME NEW e \in GenIds
                 PROVE  /\ email'[e].status # email[e].status <=> audit'[e] # audit[e]
                        /\ audit'[e] # audit[e] =>
                             audit'[e] = [prev |-> audit[e].new, new |-> email'[e].status]
      BY DEF Contiguous
    <2>1. EmailMoves(e) /\ audit[e].new = email[e].status
      BY <1>1, AuditKeeps DEF RulesInv, AuditAgrees
    <2>2. StatusEvent(audit[e].new, email'[e].status)
            = [prev |-> audit[e].new, new |-> email'[e].status]
      BY DEF StatusEvent
    <2>3. StatusEvent(audit[e].new, email'[e].status).new = email'[e].status
      BY <2>2
    <2> QED  BY <2>1, <2>2, <2>3 DEF EmailMoves
  <1>2. RulesInv /\ [Next]_vars => [Contiguous]_vars
    BY <1>1
  <1> QED  BY <1>2, Rules, PTL DEF Spec, AuditContiguous, Contiguous

\* No generation is queued for a lead that has an unresolved delivery.
NoneWhileUnknown ==
    \A g \in GenIds :
      /\ gen[g].status = "none" /\ gen'[g].status = "queued"
      => \A e \in GenIds : LeadOfEmail(e) = gen'[g].lead => ~UnknownDelivery(e)

\* No newer draft can hide a delivery whose outcome is unknown.
THEOREM UnknownBlocks == Spec => UnknownBlocksGeneration
  <1>1. ASSUME RulesInv, [Next]_vars PROVE NoneWhileUnknown
    <2> SUFFICES ASSUME NEW g \in GenIds, gen[g].status = "none", gen'[g].status = "queued",
                        NEW e \in GenIds, LeadOfEmail(e) = gen'[g].lead, UnknownDelivery(e)
                 PROVE  FALSE
      BY DEF NoneWhileUnknown
    <2>1. NothingUnknown(gen'[g].lead)
      BY <1>1, LeadsKept DEF GenMoves, GenActive
    <2> QED  BY <2>1 DEF NothingUnknown, UnknownDelivery, DeliveriesOf
  <1>2. RulesInv /\ [Next]_vars => [NoneWhileUnknown]_vars
    BY <1>1
  <1> QED  BY <1>2, Rules, PTL DEF Spec, UnknownBlocksGeneration, NoneWhileUnknown

-----------------------------------------------------------------------------
(* The rules that also hold on the rows of an earlier release (RowsInv).   *)

\* A feed batch creates rows that were unused, and ends what was queued.
LEMMA FeedRowMoves ==
    ASSUME TypeOK, FeedNext
    PROVE  /\ \A g \in GenIds : GenMoves(g) \/ GenCreated(g)
           /\ \A d \in DelIds : DelMoves(d)
           /\ UNCHANGED <<email, audit>>
  <1>1. PICK rows \in FeedBatch : FeedSync(rows)
    BY DEF FeedNext
  <1>2. PICK named \in SUBSET Leads : rows \in [named -> FeedRow]
    BY DEF FeedBatch
  <1> DEFINE fresh == {l \in DOMAIN rows : NeedsFirstDraft(l, rows[l])}
  <1>3. PICK draftOf \in FreshIds(fresh) :
          /\ gen' = [g \in GenIds |->
                       IF g \in DOMAIN draftOf
                       THEN QueuedGen(draftOf[g], draftOf[g])
                       ELSE GenAfterDismissal(g, Dismissed(rows))]
          /\ del' = [d \in DelIds |-> DelAfterDismissal(d, Dismissed(rows))]
          /\ UNCHANGED <<email, audit>>
    BY <1>1 DEF FeedSync
  <1>4. DOMAIN draftOf \subseteq {g \in GenIds : gen[g].status = "none"}
    <2>1. fresh \subseteq Leads
      BY <1>2
    <2> QED  BY <2>1, FreshIdsFacts
  <1>5. ASSUME NEW g \in GenIds PROVE GenMoves(g) \/ GenCreated(g)
    <2>1. CASE g \in DOMAIN draftOf
      BY <1>3, <1>4, <2>1, QueuedGenFields DEF GenCreated
    <2>2. CASE g \notin DOMAIN draftOf
      <3>1. gen'[g] = GenAfterDismissal(g, Dismissed(rows)) /\ gen[g] \in GenRow
        BY <1>3, <2>2 DEF TypeOK
      <3> QED
        BY <3>1, GenRowFields DEF GenAfterDismissal, GenMoves, GenActive, GenTerminal
    <2> QED  BY <2>1, <2>2
  <1>6. ASSUME NEW d \in DelIds PROVE DelMoves(d)
    <2>1. del'[d] = DelAfterDismissal(d, Dismissed(rows)) /\ del[d] \in DelRow
      BY <1>3 DEF TypeOK
    <2> QED  BY <2>1, DelRowFields DEF DelAfterDismissal, DelMoves
  <1> QED  BY <1>3, <1>5, <1>6

\* A new delivery is for an approved email that has no other open one.
NewDelivery(d) ==
    LET e == del'[d].email
    IN  /\ DelCreated(d) /\ e \in GenIds
        /\ email[e].status = "approved" /\ ~ActiveDelivery(e)
        /\ del'[d].snapshot[1] = email[e].text
        /\ email' = email
        /\ \A c \in DelIds \ {d} : del'[c] = del[c]

RowMoves ==
    /\ \A g \in GenIds : GenMoves(g) \/ GenCreated(g)
    /\ \A d \in DelIds : DelMoves(d) \/ NewDelivery(d)
    /\ \A e \in GenIds : EmailMoves(e)

LEMMA RowSteps == ASSUME RowsInv, [Next]_vars PROVE RowMoves
  <1>0. TypeOK
    BY DEF RowsInv
  <1>1. CASE Moves
    BY <1>1 DEF Moves, RowMoves
  <1>2. CASE FeedNext
    BY <1>0, <1>2, FeedRowMoves DEF RowMoves, EmailMoves
  <1>3. CASE UNCHANGED vars
    BY <1>3 DEF vars, RowMoves, GenMoves, DelMoves, EmailMoves
  <1>4. ASSUME NEW l \in Leads, NEW k \in Keys, RequestGeneration(l, k) PROVE RowMoves
    <2>1. PICK g \in GenIds : /\ gen[g].status = "none"
                              /\ gen' = [gen EXCEPT ![g] = QueuedGen(l, k)]
      BY <1>4 DEF RequestGeneration, IsNextId
    <2>2. gen'[g] = QueuedGen(l, k) /\ \A h \in GenIds \ {g} : gen'[h] = gen[h]
      BY <1>0, <2>1 DEF TypeOK
    <2>3. \A h \in GenIds : GenMoves(h) \/ GenCreated(h)
      BY <2>1, <2>2, QueuedGenFields DEF GenMoves, GenCreated
    <2> QED  BY <1>4, <2>3 DEF RequestGeneration, RowMoves, DelMoves, EmailMoves
  <1>5. ASSUME NEW e \in GenIds, NEW k \in Keys, NEW confirmed \in Rendering,
               NEW ack \in BOOLEAN, RequestDelivery(e, k, confirmed, ack)
        PROVE  RowMoves
    <2> DEFINE row == [NoDel EXCEPT !.status = "queued", !.email = e, !.key = k,
                                    !.snapshot = Rendered(e),
                                    !.confirmed = confirmed, !.ack = ack]
    <2>1. PICK d \in DelIds : del[d].status = "none" /\ del' = [del EXCEPT ![d] = row]
      BY <1>5 DEF RequestDelivery, IsNextId
    <2>2. del'[d] = row /\ \A c \in DelIds \ {d} : del'[c] = del[c]
      BY <1>0, <2>1 DEF TypeOK
    <2>3. row.status = "queued" /\ row.email = e /\ row.snapshot[1] = email[e].text
      BY DEF NoDel, Rendered
    <2>4. /\ email[e].status = "approved" /\ ~ActiveDelivery(e)
          /\ UNCHANGED <<lead, gen, email, audit>>
      BY <1>5 DEF RequestDelivery
    <2>5. NewDelivery(d)
      BY <2>1, <2>2, <2>3, <2>4 DEF NewDelivery, DelCreated
    <2>6. \A c \in DelIds : DelMoves(c) \/ NewDelivery(c)
      BY <2>2, <2>5 DEF DelMoves
    <2> QED  BY <2>4, <2>6 DEF RowMoves, GenMoves, EmailMoves
  <1> QED
    BY <1>1, <1>2, <1>3, <1>4, <1>5, GenerationMoves, ReviewMoves, DeliveryMoves DEF Next

\* What has been sent, and what an open delivery holds, is not written to.
HeldEmails ==
    /\ \A e \in GenIds : email[e].status = "sent" => email'[e] = email[e]
    /\ \A d \in DelIds : del[d].status \in DelActive /\ del'[d].status \in DelActive
                           => email'[del[d].email] = email[del[d].email]

\* Approval is of what is stored.
ReviewedIsStored ==
    \A e \in GenIds : email'[e].status = "approved" => email'[e].reviewed = email'[e].text

LEMMA HeldSteps == ASSUME RowsInv, [Next]_vars PROVE HeldEmails /\ ReviewedIsStored
  <1> USE DEF RowsInv
  <1>1. ASSUME NEW d \in DelIds, del[d].status \in DelActive
        PROVE  del[d].email \in GenIds /\ email[del[d].email].status = "approved"
    BY <1>1 DEF DeliveriesHaveEmails, OpenIsConfirmed, DelActive
  <1>2. CASE UNCHANGED email
    BY <1>2 DEF HeldEmails, ReviewedIsStored, DraftsFollowJobs
  <1>3. ASSUME NEW g \in GenIds, NEW row, email' = [email EXCEPT ![g] = row],
               email[g].status # "sent",
               \A d \in DelIds : del[d].status \in DelActive => del[d].email # g,
               row.status = "approved" => row.reviewed = row.text
        PROVE  HeldEmails /\ ReviewedIsStored
    <2>1. email'[g] = row /\ \A e \in GenIds \ {g} : email'[e] = email[e]
      BY <1>3 DEF TypeOK
    <2> QED  BY <1>1, <1>3, <2>1 DEF HeldEmails, ReviewedIsStored, DraftsFollowJobs
  <1>4. ASSUME NEW g \in GenIds, NEW t, email[g].status = "none",
               email' = [email EXCEPT ![g] = [status |-> "pending_review", text |-> t,
                                              reviewed |-> Null]]
        PROVE  HeldEmails /\ ReviewedIsStored
    BY <1>1, <1>3, <1>4
  <1>5. CASE FeedNext
    BY <1>2, <1>5 DEF FeedNext, FeedSync
  <1>6. ASSUME NEW l \in Leads, NEW t \in Texts, EnsureFallbackDraft(l, t)
        PROVE  HeldEmails /\ ReviewedIsStored
    BY <1>4, <1>6 DEF EnsureFallbackDraft
  <1>7. ASSUME NEW w \in GenWorkers, NEW outcome \in GenTerminal \ {"system_error"},
               NEW t \in Texts, FinalizeGeneration(w, outcome, t)
        PROVE  HeldEmails /\ ReviewedIsStored
    <2>1. genWorker[w] \in GenIds /\ email[genWorker[w]].status = "none"
      BY <1>7 DEF FinalizeGeneration, StillRunning, TypeOK, DraftsFollowJobs, GenActive
    <2> QED  BY <1>2, <1>4, <1>7, <2>1 DEF FinalizeGeneration
  <1>8. CASE GenerationNext
    BY <1>2, <1>6, <1>7, <1>8
    DEF GenerationNext, RequestGeneration, ExpireGenerationLease, ClaimGeneration,
        HeartbeatGeneration, RecoverGenerations, DropLateGeneration, FailGeneration,
        LoseGenWorker
  <1>9. ASSUME NEW x \in GenIds, NEW row, email' = [email EXCEPT ![x] = row],
               email[x].status # "sent", ~ActiveDelivery(x),
               row.status = "approved" => row.reviewed = row.text
        PROVE  HeldEmails /\ ReviewedIsStored
    BY <1>3, <1>9 DEF ActiveDelivery, DeliveriesOf
  <1>10. ASSUME NEW x \in GenIds, NEW t \in Texts, EditEmail(x, t)
         PROVE  HeldEmails /\ ReviewedIsStored
    <2> DEFINE row == [status |-> "pending_review", text |-> t, reviewed |-> Null]
    <2>1. /\ email' = [email EXCEPT ![x] = row]
          /\ email[x].status # "sent" /\ ~ActiveDelivery(x)
      BY <1>10 DEF EditEmail, Reviewable, EmailStatus
    <2>2. row.status = "pending_review"
      OBVIOUS
    <2> QED  BY <1>9, <2>1, <2>2
  <1>11. ASSUME NEW x \in GenIds, NEW preview \in Rendering, ApproveEmail(x, preview)
         PROVE  HeldEmails /\ ReviewedIsStored
    <2> DEFINE row == [email[x] EXCEPT !.status = "approved", !.reviewed = preview[1]]
    <2>1. /\ email' = [email EXCEPT ![x] = row]
          /\ ~ActiveDelivery(x) /\ preview = Rendered(x)
      BY <1>11 DEF ApproveEmail, Reviewable, Confirms
    <2>2. row.reviewed = row.text
      BY <2>1 DEF TypeOK, EmailRow, Rendered
    <2>3. email[x].status = "pending_review"
      BY <1>11 DEF ApproveEmail, UserTransitions, EmailStatus
    <2> QED  BY <1>9, <2>1, <2>2, <2>3
  <1>12. ASSUME NEW x \in GenIds, RejectEmail(x) PROVE HeldEmails /\ ReviewedIsStored
    <2> DEFINE row == [email[x] EXCEPT !.status = "rejected"]
    <2>1. /\ email' = [email EXCEPT ![x] = row]
          /\ email[x].status # "sent" /\ ~ActiveDelivery(x)
      BY <1>12 DEF RejectEmail, Reviewable, UserTransitions
    <2>2. row.status = "rejected"
      BY DEF TypeOK, EmailRow
    <2> QED  BY <1>9, <2>1, <2>2
  <1>13. ASSUME NEW w \in DelWorkers, FinalizeAccepted(w)
         PROVE  HeldEmails /\ ReviewedIsStored
    <2> DEFINE d == delWorker[w].job
               e == del[d].email
    <2>1. /\ d \in DelIds /\ del[d].status = "running"
          /\ del' = [del EXCEPT ![d] = Ended(del[d], "succeeded")]
          /\ email' = [email EXCEPT ![e].status = "sent"]
      BY <1>13 DEF FinalizeAccepted, StillRunning, TypeOK, Idle
    <2>2. e \in GenIds /\ email[e].status = "approved"
      BY <1>1, <2>1 DEF DelActive
    <2>3. email'[e].status = "sent" /\ \A f \in GenIds \ {e} : email'[f] = email[f]
      BY <2>1, <2>2 DEF TypeOK, EmailRow
    <2>4. del'[d].status = "succeeded"
      <3>1. del'[d] = Ended(del[d], "succeeded") /\ del[d] \in DelRow
        BY <2>1 DEF TypeOK
      <3> QED  BY <3>1, DelRowFields
    <2>5. ASSUME NEW c \in DelIds, del[c].status \in DelActive, del'[c].status \in DelActive
          PROVE  del[c].email \in GenIds \ {e}
      <3>1. c # d
        BY <2>4, <2>5 DEF DelActive
      <3> QED  BY <1>1, <2>1, <2>5, <3>1 DEF OneOpenDelivery, DelActive
    <2> QED  BY <2>2, <2>3, <2>5 DEF HeldEmails, ReviewedIsStored, DraftsFollowJobs
  <1>14. CASE DeliveryNext
    BY <1>2, <1>13, <1>14
    DEF DeliveryNext, RequestDelivery, ExpireDeliveryLease, ClaimDelivery,
        HeartbeatDelivery, RecoverDeliveries, CallProvider, FinalizeTerminal,
        DropLateDelivery, LoseDelWorker
  <1>15. CASE UNCHANGED vars
    BY <1>2, <1>15 DEF vars
  <1> QED
    BY <1>5, <1>8, <1>10, <1>11, <1>12, <1>14, <1>15 DEF Next, ReviewNext

LEMMA RowsNext == ASSUME RowsInv, [Next]_vars PROVE RowsInv'
  <1> USE DEF RowsInv
  <1>1. RowMoves /\ HeldEmails /\ ReviewedIsStored
    BY RowSteps, HeldSteps
  <1>2. TypeOK'
    BY TypingNext
  <1>3. \A e \in GenIds : email[e].status # "none" => email'[e].status # "none"
    BY <1>1 DEF RowMoves, EmailMoves
  <1>4. DeliveriesHaveEmails'
    BY <1>1, <1>3 DEF RowMoves, DelMoves, NewDelivery, DeliveriesHaveEmails
  <1>5. DraftsFollowJobs'
    <2> SUFFICES ASSUME NEW g \in GenIds, gen'[g].status \in {"none"} \cup GenActive
                 PROVE  email'[g].status = "none"
      BY <1>1 DEF DraftsFollowJobs, ReviewedIsStored
    <2>1. email[g].status = "none"
      BY <1>1 DEF RowMoves, GenMoves, GenCreated, DraftsFollowJobs, GenActive, GenTerminal
    <2>2. ~DraftedBy(gen'[g].status)
      BY DEF DraftedBy, GenActive
    <2> QED  BY <1>1, <2>1, <2>2 DEF RowMoves, EmailMoves
  <1>6. ASSUME NEW d \in DelIds, del'[d].status \in DelActive
        PROVE  \/ /\ DelMoves(d) /\ del[d].status \in DelActive
                  /\ email'[del[d].email] = email[del[d].email]
               \/ NewDelivery(d)
    BY <1>1, <1>6 DEF RowMoves, DelMoves, HeldEmails, DelActive, DelTerminal
  <1>7. OpenIsConfirmed'
    BY <1>6 DEF OpenIsConfirmed, DelMoves, NewDelivery
  <1>8. OneOpenDelivery'
    <2> SUFFICES ASSUME NEW c \in DelIds, NEW d \in DelIds, c # d,
                        del'[c].status \in DelActive, del'[d].status \in DelActive,
                        del'[c].email = del'[d].email
                 PROVE  FALSE
      BY DEF OneOpenDelivery
    <2>1. ASSUME NEW b \in DelIds, NEW n \in DelIds, b # n, NewDelivery(n),
                 del'[b].status \in DelActive, del'[b].email = del'[n].email
          PROVE  FALSE
      BY <2>1 DEF NewDelivery, ActiveDelivery, DeliveriesOf
    <2> QED  BY <1>6, <2>1 DEF OneOpenDelivery, DelMoves
  <1> QED  BY <1>2, <1>4, <1>5, <1>7, <1>8

=============================================================================
