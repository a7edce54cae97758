------------------------------ MODULE LeadFeed ------------------------------
(***************************************************************************)
(* Feed ingestion: one EarlyBid sync or CSV upload.  The feed is fetched   *)
(* and validated before the transaction; what is modelled is the           *)
(* transaction that upserts the valid rows, fails the queued work of       *)
(* leads the feed deleted, and queues the first drafts, all in one commit. *)
(***************************************************************************)
EXTENDS OutreachState

FeedRow == [status: {"active", "deleted"}, market: Markets]

\* A batch names each lead at most once (prepared is keyed by external_id).
FeedBatch == UNION {[named -> FeedRow] : named \in SUBSET Leads \ {{}}}

\* Mutant of NeedsFirstDraft: every activation counts as a first one.
NeedsDraftOnActivation(l, row) ==
    row.status = "active" /\ lead[l].status # "active"

\* Rows collected in created_leads: new active rows, and leads the feed
\* activates that have no run and no generation job yet.
NeedsFirstDraft(l, row) ==
    /\ row.status = "active"
    /\ \/ lead[l].status = "absent"
       \/ lead[l].status # "active" /\ ~HasOutreachHistory(l)

Dismissed(rows) ==
    {l \in DOMAIN rows : lead[l].status # "deleted" /\ rows[l].status = "deleted"}

\* Mutant of GenAfterDismissal: the queued jobs are left to their claim.
GenUntouched(g, dismissed) == gen[g]

\* _terminalize_queued_work: queued jobs of dismissed leads fail at once.
GenAfterDismissal(g, dismissed) ==
    IF gen[g].status = "queued" /\ gen[g].lead \in dismissed
    THEN Ended(gen[g], "system_error")
    ELSE gen[g]

DelAfterDismissal(d, dismissed) ==
    IF del[d].status = "queued" /\ LeadOfEmail(del[d].email) \in dismissed
    THEN Ended(del[d], "failed")
    ELSE del[d]

\* New ids for the first drafts: the smallest unused ids, one per lead.
FreshIds(fresh) ==
    LET free == {g \in GenIds : gen[g].status = "none"}
    IN  UNION {Bijection(ids, fresh) :
                 ids \in {s \in SUBSET free :
                            \A i \in s : \A k \in free \ s : i < k}}

FeedSync(rows) ==
    LET dismissed == Dismissed(rows)
        fresh     == {l \in DOMAIN rows : NeedsFirstDraft(l, rows[l])}
    IN  \E draftOf \in FreshIds(fresh) :
          /\ lead' = [l \in Leads |-> IF l \in DOMAIN rows THEN rows[l]
                                                           ELSE lead[l]]
          /\ gen' = [g \in GenIds |->
                       IF g \in DOMAIN draftOf
                       THEN QueuedGen(draftOf[g], draftOf[g])
                       ELSE GenAfterDismissal(g, dismissed)]
          /\ del' = [d \in DelIds |-> DelAfterDismissal(d, dismissed)]
          /\ UNCHANGED <<email, audit, genWorker, delWorker, mailed>>
=============================================================================
