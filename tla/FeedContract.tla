---------------------------- MODULE FeedContract ----------------------------
(***************************************************************************)
(* What ingestion promises: a valid feed is applied in one step to the     *)
(* leads as they are then, and a feed that is not valid changes nothing.   *)
(***************************************************************************)
EXTENDS FeedRows

VARIABLES leads, drafts
vars == <<leads, drafts>>

Init ==
    /\ leads = [x \in Identities |-> NoLead]
    /\ drafts = [x \in Identities |-> "none"]

Was(x, status) == leads[x] # NoLead /\ leads[x].row.status = status

(* A lead that becomes active and has no draft yet gets one; a queued one  *)
(* ends when its lead is deleted.                                          *)
DraftOf(x, row) ==
    CASE row.status = "active" /\ ~Was(x, "active") /\ drafts[x] = "none" -> "queued"
      [] row.status = "deleted" /\ ~Was(x, "deleted") /\ drafts[x] = "queued" -> "ended"
      [] OTHER -> drafts[x]

Apply(rows, s) ==
    LET current == Prepared(rows, s)
    IN  /\ ~Rejected(rows, s)
        /\ leads' = [x \in Identities |->
                       IF x \in DOMAIN current THEN [row |-> current[x], scope |-> s]
                                               ELSE leads[x]]
        /\ drafts' = [x \in Identities |->
                        IF x \in DOMAIN current THEN DraftOf(x, current[x]) ELSE drafts[x]]

Generate(x) ==
    drafts[x] = "queued" /\ drafts' = [drafts EXCEPT ![x] = "ended"] /\ UNCHANGED leads

Next ==
    \/ \E rows \in Feeds, s \in Scopes : Apply(rows, s)
    \/ \E x \in Identities : Generate(x)

Spec == Init /\ [][Next]_vars
=============================================================================
