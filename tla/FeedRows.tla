------------------------------ MODULE FeedRows ------------------------------
(***************************************************************************)
(* The rows of an EarlyBid feed: the identity of a row, the validation of  *)
(* a feed as a whole and the one row that counts for every identity.  The  *)
(* columns other than the identifier, the project and the review status    *)
(* are not distinguished.                                                  *)
(***************************************************************************)
EXTENDS Integers, Sequences, FiniteSets, Functions

CONSTANTS
    Scopes,       \* (reseller, client) pairs
    Ids,          \* explicit identifiers of source rows
    Names,        \* spellings of a project with its location and state
    Canonical,    \* what a spelling means: a project, or Null when blank
    Feeds,        \* the sequences of rows a feed may contain
    Null, Rank    \* no identifier; a display rank such as "Lead #4"

ASSUME NamesMeanProjects == DOMAIN Canonical = Names
ASSUME NullIsNoScope == Null \notin Scopes

ASSUME FeedsNameIds == \A f \in Feeds : \A row \in Range(f) : row.id \in Ids \cup {Null, Rank}

(* Feeds are lists of rows.                                                *)
ASSUME FeedsAreLists == \A f \in Feeds : f \in Seq(Range(f))

(* An explicit identifier takes precedence over the natural key, in which  *)
(* the scope takes part.                                                   *)
\* Mutant of Identity: the natural key is hashed as it is spelled.
IdentityAsSpelled(row, s) == IF row.id # Null THEN row.id ELSE <<s, row.name>>
Identity(row, s) == IF row.id # Null THEN row.id ELSE <<s, Canonical[row.name]>>

Identities == {Identity(row, s) : row \in UNION {Range(f) : f \in Feeds}, s \in Scopes}

IsDerived(row) == row.id = Null

(* _resolve_lead_id rejects a display rank, derive_earlybid_natural_id a   *)
(* blank project or location, _expanded_feed_fields a bad review status.   *)
RowIsValid(row) ==
    /\ row.id # Rank
    /\ row.id = Null => Canonical[row.name] # Null
    /\ row.status \in {"active", "deleted"}

(* Rows without an identifier must not contradict each other; of several   *)
(* rows with the same identifier the last one counts.                      *)
CollidesIn(rows, s) ==
    \E i, j \in DOMAIN rows :
        /\ RowIsValid(rows[i]) /\ RowIsValid(rows[j])
        /\ IsDerived(rows[i]) /\ Identity(rows[i], s) = Identity(rows[j], s)
        /\ rows[i] # rows[j]

Rejected(rows, s) ==
    (\E row \in Range(rows) : ~RowIsValid(row)) \/ CollidesIn(rows, s)

Prepared(rows, s) ==
    [x \in {Identity(row, s) : row \in Range(rows)} |->
        rows[CHOOSE i \in DOMAIN rows :
                /\ Identity(rows[i], s) = x
                /\ \A j \in i + 1..Len(rows) : Identity(rows[j], s) # x]]

(* Leads as ingestion stores them, and their first drafts.                 *)
NoLead == [row |-> Null, scope |-> Null]
Draft == {"none", "queued", "ended"}
=============================================================================
