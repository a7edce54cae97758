---------------------------- MODULE EmailReview ----------------------------
(***************************************************************************)
(* The review routes.  Each locks the lead, then the email, and commits    *)
(* one change with its status event.  Reviewers work from previews that    *)
(* may be out of date: an approval names the rendering that was previewed. *)
(***************************************************************************)
EXTENDS OutreachState

\* Mutants of Reviewable: one of its checks is missing.
ReviewableInHistory(e) ==
    LeadActive(LeadOfEmail(e)) /\ ~ActiveDelivery(e)
ReviewableInDelivery(e) ==
    LeadActive(LeadOfEmail(e)) /\ IsCurrentEmail(e)

\* _lock_active_lead_for_email, _require_current_email and the check that
\* no delivery of the email is queued or running.
Reviewable(e) ==
    /\ LeadActive(LeadOfEmail(e))
    /\ IsCurrentEmail(e)
    /\ ~ActiveDelivery(e)

\* _USER_TRANSITIONS, without the unused draft status and the target sent.
UserTransitions == [pending_review |-> {"approved", "rejected"},
                    approved       |-> {"rejected"},
                    sent           |-> {},
                    rejected       |-> {}]

\* Mutant of AuditAfterEdit: the withdrawn approval leaves no event.
AuditUntouched(e) == audit

AuditAfterEdit(e) ==
    IF email[e].status = "approved"
    THEN [audit EXCEPT ![e] = StatusEvent("approved", "pending_review")]
    ELSE audit

(* edit_email with content that differs: an approval is withdrawn.         *)
EditEmail(e, text) ==
    /\ email[e].status \in EmailStatus \ {"sent", "rejected"}
    /\ Reviewable(e)
    /\ text # email[e].text
    /\ email' = [email EXCEPT ![e] = [status |-> "pending_review",
                                      text |-> text, reviewed |-> Null]]
    /\ audit' = AuditAfterEdit(e)
    /\ UNCHANGED <<lead, gen, del, genWorker, delWorker, mailed>>

(* update_status to approved: valid content, and the content hash of the   *)
(* preview is the hash of what is stored now.                              *)
ApproveEmail(e, preview) ==
    /\ email[e].status \in EmailStatus
    /\ Reviewable(e)
    /\ "approved" \in UserTransitions[email[e].status]
    /\ email[e].text \in ValidTexts
    /\ Confirms(e, preview)
    /\ email' = [email EXCEPT ![e].status = "approved",
                              ![e].reviewed = preview[1]]
    /\ audit' = [audit EXCEPT ![e] = StatusEvent(email[e].status, "approved")]
    /\ UNCHANGED <<lead, gen, del, genWorker, delWorker, mailed>>

(* update_status to rejected.                                              *)
RejectEmail(e) ==
    /\ email[e].status \in EmailStatus
    /\ Reviewable(e)
    /\ "rejected" \in UserTransitions[email[e].status]
    /\ email' = [email EXCEPT ![e].status = "rejected"]
    /\ audit' = [audit EXCEPT ![e] = StatusEvent(email[e].status, "rejected")]
    /\ UNCHANGED <<lead, gen, del, genWorker, delWorker, mailed>>
=============================================================================
