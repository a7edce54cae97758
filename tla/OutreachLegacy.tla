--------------------------- MODULE OutreachLegacy ---------------------------
(***************************************************************************)
(* The pipeline started on a database an earlier release has written.  Two *)
(* kinds of rows exist there that today's transactions never write:        *)
(*   - a lead archived locally, whose review status is NULL since the      *)
(*     migration, with work still queued;                                  *)
(*   - a lead whose newest job ended in insufficient_context without the   *)
(*     fallback draft that today comes with it, while an older draft,      *)
(*     approved meanwhile, is still its current email.                     *)
(* Jobs 1 and 2 and delivery 1 are these rows.                             *)
(***************************************************************************)
EXTENDS Outreach

\* The rows' ids, 1 and 2 when there are two, are the first of their tables.
ASSUME LegacyAssumption ==
    /\ 1 \in GenIds /\ 1 \in DelIds
    /\ 0 \notin GenIds \cup DelIds
    /\ Keys # {}

FinishedGen(l, status) == [QueuedGen(l, l) EXCEPT !.status = status,
                                                  !.attempts = 1]

ApprovedEmail(t) == [status |-> "approved", text |-> t, reviewed |-> t]

LegacyKey == CHOOSE k \in Keys : TRUE

UndraftedGen(l) == [FinishedGen(l, "insufficient_context") EXCEPT !.key = LegacyKey]

LegacyDelivery(t, m) == [NoDel EXCEPT !.status = "queued", !.email = 1,
                                      !.key = LegacyKey, !.snapshot = <<t, m>>,
                                      !.confirmed = <<t, m>>]

(* An archived lead with a first draft still queued.                       *)
ArchivedWithQueuedDraft(l, t, m) ==
    /\ lead = [x \in Leads |-> [status |-> IF x = l THEN "unknown" ELSE "absent",
                                market |-> m]]
    /\ gen = [g \in GenIds |-> IF g = 1 THEN QueuedGen(l, l) ELSE NoGen]
    /\ email = [g \in GenIds |-> NoEmail]
    /\ audit = [g \in GenIds |-> StatusEvent("none", "none")]
    /\ del = [d \in DelIds |-> NoDel]

(* An archived lead with an approved email queued for delivery.            *)
ArchivedWithQueuedDelivery(l, t, m) ==
    /\ lead = [x \in Leads |-> [status |-> IF x = l THEN "unknown" ELSE "absent",
                                market |-> m]]
    /\ gen = [g \in GenIds |-> IF g = 1 THEN FinishedGen(l, "generated")
                                        ELSE NoGen]
    /\ email = [g \in GenIds |-> IF g = 1 THEN ApprovedEmail(t) ELSE NoEmail]
    /\ audit = [g \in GenIds |->
                  IF g = 1 THEN StatusEvent("pending_review", "approved")
                           ELSE StatusEvent("none", "none")]
    /\ del = [d \in DelIds |-> IF d = 1 THEN LegacyDelivery(t, m) ELSE NoDel]

(* An active lead: an approved draft, then a regeneration that found too   *)
(* little context and stored no draft.                                     *)
UndraftedLowContext(l, t, m) ==
    /\ lead = [x \in Leads |-> [status |-> IF x = l THEN "active" ELSE "absent",
                                market |-> m]]
    /\ gen = [g \in GenIds |->
                CASE g = 1 -> FinishedGen(l, "generated")
                  [] g = 2 -> UndraftedGen(l)
                  [] OTHER -> NoGen]
    /\ email = [g \in GenIds |-> IF g = 1 THEN ApprovedEmail(t) ELSE NoEmail]
    /\ audit = [g \in GenIds |->
                  IF g = 1 THEN StatusEvent("pending_review", "approved")
                           ELSE StatusEvent("none", "none")]
    /\ del = [d \in DelIds |-> NoDel]

LegacyInit ==
    /\ \E l \in Leads, t \in ValidTexts, m \in Markets :
          \/ ArchivedWithQueuedDraft(l, t, m)
          \/ ArchivedWithQueuedDelivery(l, t, m)
          \/ UndraftedLowContext(l, t, m)
    /\ genWorker = [w \in GenWorkers |-> Null]
    /\ delWorker = [w \in DelWorkers |-> Idle]
    /\ mailed = [d \in DelIds |-> 0]

LegacySpec == LegacyInit /\ [][Next]_vars
=============================================================================
