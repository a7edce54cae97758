--------------------------- MODULE FeedIngestion ---------------------------
(***************************************************************************)
(* How the rows of EarlyBid feeds become leads, statement by statement:    *)
(* the transaction that LeadFeed treats as one step.                       *)
(*                                                                         *)
(* Feeds reach the database by the daily worker, by POST /leads/sync and   *)
(* by an uploaded file.  A sync fetches the rows first, outside of any     *)
(* transaction.  The transaction takes the advisory lock of the feed's     *)
(* scope, selects the known leads FOR UPDATE, inserts the others and       *)
(* commits.  Feeds of two scopes may name the same explicit identifier,    *)
(* and then only the row locks and the unique constraint on the identity   *)
(* stand between them.                                                     *)
(*                                                                         *)
(* A row's other columns are one opaque value.  Left out: the runs and     *)
(* leases of the daily worker (EarlyBidSync), what becomes of the jobs     *)
(* (Outreach), the contact address an operator edits, deadlocks between    *)
(* two transactions (RowLocks).                                            *)
(***************************************************************************)
EXTENDS FeedRows

CONSTANTS
    Configured,   \* the scope in the settings, used by uploads
    Workers,      \* ingestions that may run at the same time
    Daily,        \* those of them that belong to the daily worker
    MaxVersions,  \* bound on the changes of a source feed
    MaxManual     \* bound on manual syncs and uploads

ASSUME DailyAmongWorkers == Daily \subseteq Workers
ASSUME ConfiguredScope == Configured \in Scopes
ASSUME BoundsAreNumbers == MaxVersions \in Nat /\ MaxManual \in Nat

VARIABLES
    source,    \* each scope's current feed and how often it changed
    leads,     \* committed leads by identity
    drafts,    \* status of a lead's first draft job
    manual,    \* manual ingestions begun
    at,        \* how far each ingestion is
    batch,     \* the rows it has to apply, and their scope
    known,     \* leads its SELECT has found
    seen       \* and their review status then

tables == <<leads, drafts>>
feedVars == <<source, tables, manual, at, batch, known, seen>>

Named(w) == DOMAIN Prepared(batch[w].rows, batch[w].scope)

(***************************************************************************)
(* State.                                                                  *)
(***************************************************************************)
Stages == {"idle", "fetched", "locked", "selecting", "selected", "flushed"}
NoBatch == [rows |-> <<>>, scope |-> Null]

FeedInit ==
    /\ source \in [Scopes -> {[rows |-> f, version |-> 0] : f \in Feeds}]
    /\ leads = [x \in Identities |-> NoLead]
    /\ drafts = [x \in Identities |-> "none"]
    /\ manual = 0
    /\ at = [w \in Workers |-> "idle"]
    /\ batch = [w \in Workers |-> NoBatch]
    /\ known = [w \in Workers |-> {}]
    /\ seen = [w \in Workers |-> <<>>]

Stored(x) == leads[x] # NoLead
Status(x) == leads[x].row.status

(* Who holds what to the end of its transaction.                           *)
HoldsScope(w, s) ==
    batch[w].scope = s /\ at[w] \in {"locked", "selecting", "selected", "flushed"}
LocksRow(w, x) == at[w] \in {"selected", "flushed"} /\ x \in known[w]
Inserts(w, x) == at[w] = "flushed" /\ x \in Named(w) \ known[w]

(***************************************************************************)
(* An ingestion.                                                           *)
(***************************************************************************)
SourceChanges(s) ==
    /\ source[s].version < MaxVersions
    /\ \E f \in Feeds : source' = [source EXCEPT ![s] = [rows |-> f, version |-> @.version + 1]]
    /\ UNCHANGED <<tables, manual, at, batch, known, seen>>

Starts(w, rows, s) ==
    /\ at[w] = "idle"
    /\ at' = [at EXCEPT ![w] = "fetched"]
    /\ batch' = [batch EXCEPT ![w] = [rows |-> rows, scope |-> s]]
    /\ UNCHANGED <<source, tables, known, seen>>

DailySync(w, s) ==
    w \in Daily /\ Starts(w, source[s].rows, s) /\ UNCHANGED manual

Manually(w) ==
    w \notin Daily /\ manual < MaxManual /\ manual' = manual + 1

ManualSync(w, s) == Manually(w) /\ Starts(w, source[s].rows, s)
UploadCsv(w) == Manually(w) /\ \E f \in Feeds : Starts(w, f, Configured)

Moves(w, from, to) == at[w] = from /\ at' = [at EXCEPT ![w] = to]

Ends(w) ==
    /\ at' = [at EXCEPT ![w] = "idle"]
    /\ batch' = [batch EXCEPT ![w] = NoBatch]
    /\ known' = [known EXCEPT ![w] = {}]
    /\ seen' = [seen EXCEPT ![w] = <<>>]

(* Nothing is written for a feed with an invalid row, or for an empty one. *)
Applies(w) == batch[w].rows # <<>> /\ ~Rejected(batch[w].rows, batch[w].scope)

EndsEarly(w) ==
    /\ at[w] = "fetched" /\ ~Applies(w)
    /\ Ends(w)
    /\ UNCHANGED <<source, tables, manual>>

\* Mutant of LockScope: feeds of one scope are not serialized.
LockNothing(w) ==
    /\ Moves(w, "fetched", "locked") /\ Applies(w)
    /\ UNCHANGED <<source, tables, manual, batch, known, seen>>
LockScope(w) ==
    /\ Moves(w, "fetched", "locked") /\ Applies(w)
    /\ \A v \in Workers \ {w} : ~HoldsScope(v, batch[w].scope)
    /\ UNCHANGED <<source, tables, manual, batch, known, seen>>

(* The SELECT ... FOR UPDATE finds the leads committed when it begins,     *)
(* waits for their row locks and then reads them as they are by then.      *)
SelectBegins(w) ==
    /\ Moves(w, "locked", "selecting")
    /\ known' = [known EXCEPT ![w] = {x \in Named(w) : Stored(x)}]
    /\ UNCHANGED <<source, tables, manual, batch, seen>>

Reads(w) == seen' = [seen EXCEPT ![w] = [x \in known[w] |-> Status(x)]]

\* Mutant of SelectEnds: the leads are read without FOR UPDATE.
SelectWithoutLock(w) ==
    /\ Moves(w, "selecting", "selected") /\ Reads(w)
    /\ UNCHANGED <<source, tables, manual, batch, known>>
SelectEnds(w) ==
    /\ Moves(w, "selecting", "selected") /\ Reads(w)
    /\ \A v \in Workers \ {w} : \A x \in known[w] : ~LocksRow(v, x)
    /\ UNCHANGED <<source, tables, manual, batch, known>>

(* The flush inserts the leads that were not found.  The unique constraint *)
(* makes it wait for an uncommitted insert of the same identity, and fail  *)
(* on one committed since, with everything the ingestion has done.         *)
Clashes(w) == \E x \in Named(w) \ known[w] : Stored(x)

Flush(w) ==
    /\ Moves(w, "selected", "flushed") /\ ~Clashes(w)
    /\ \A v \in Workers \ {w} : \A x \in Named(w) \ known[w] : ~Inserts(v, x)
    /\ UNCHANGED <<source, tables, manual, batch, known, seen>>

FlushFails(w) ==
    /\ at[w] = "selected" /\ Clashes(w)
    /\ Ends(w)
    /\ UNCHANGED <<source, tables, manual>>

(* created_leads and _terminalize_queued_work go by the status the select  *)
(* has read.                                                               *)
Current(w) == Prepared(batch[w].rows, batch[w].scope)

\* Mutant of NeedsDraft: a lead that is reopened gets a draft, whatever it had.
NeedsDraftOnReopening(w, x) ==
    Current(w)[x].status = "active" /\ (x \in known[w] => seen[w][x] # "active")
NeedsDraft(w, x) ==
    /\ Current(w)[x].status = "active"
    /\ x \in known[w] => seen[w][x] # "active" /\ drafts[x] = "none"

Dismisses(w, x) ==
    Current(w)[x].status = "deleted" /\ x \in known[w] /\ seen[w][x] # "deleted"

\* Mutant of LeadAfter: a lead that exists is left as it is.
LeadCreatedOnly(w, x) ==
    IF x \in Named(w) \ known[w]
    THEN [row |-> Current(w)[x], scope |-> batch[w].scope]
    ELSE leads[x]
LeadAfter(w, x) ==
    IF x \in Named(w)
    THEN [row |-> Current(w)[x], scope |-> batch[w].scope]
    ELSE leads[x]

DraftAfter(w, x) ==
    CASE x \notin Named(w) -> drafts[x]
      [] x \in Named(w) /\ NeedsDraft(w, x) -> "queued"
      [] x \in Named(w) /\ Dismisses(w, x) /\ drafts[x] = "queued" -> "ended"
      [] OTHER -> drafts[x]

Commit(w) ==
    /\ at[w] = "flushed"
    /\ leads' = [x \in Identities |-> LeadAfter(w, x)]
    /\ drafts' = [x \in Identities |-> DraftAfter(w, x)]
    /\ Ends(w)
    /\ UNCHANGED <<source, manual>>

(* The process stops, or a request to EarlyBid or a statement fails.       *)
Fails(w) ==
    /\ at[w] # "idle"
    /\ Ends(w)
    /\ UNCHANGED <<source, tables, manual>>

(* The generation worker takes the queued draft.                           *)
DraftIsGenerated(x) ==
    /\ drafts[x] = "queued"
    /\ drafts' = [drafts EXCEPT ![x] = "ended"]
    /\ UNCHANGED <<source, leads, manual, at, batch, known, seen>>

Proceeds(w) ==
    \/ EndsEarly(w) \/ LockScope(w) \/ SelectBegins(w) \/ SelectEnds(w)
    \/ Flush(w) \/ FlushFails(w) \/ Commit(w)

FeedNext ==
    \/ \E s \in Scopes : SourceChanges(s)
    \/ \E w \in Workers, s \in Scopes : DailySync(w, s) \/ ManualSync(w, s)
    \/ \E w \in Workers : UploadCsv(w) \/ Proceeds(w) \/ Fails(w)
    \/ \E x \in Identities : DraftIsGenerated(x)

(* The daily worker syncs its scope again and again, and an ingestion goes *)
(* on as far as the others let it.  The daily ones may stop half way, but  *)
(* not always at the same step.                                            *)
Fairness ==
    /\ \A w \in Workers : WF_feedVars(Proceeds(w))
    /\ \A w \in Daily :
           /\ \A s \in Scopes : SF_feedVars(DailySync(w, s))
           /\ SF_feedVars(LockScope(w)) /\ SF_feedVars(SelectBegins(w))
           /\ SF_feedVars(SelectEnds(w))
           /\ SF_feedVars(Flush(w)) /\ SF_feedVars(Commit(w))

FeedSpec == FeedInit /\ [][FeedNext]_feedVars
FairFeedSpec == FeedSpec /\ Fairness

(***************************************************************************)
(* Properties.                                                             *)
(***************************************************************************)
(* Types, and only valid rows are ever stored.                             *)
FeedTypeOK ==
    /\ \A s \in Scopes : source[s].rows \in Feeds /\ source[s].version \in 0..MaxVersions
    /\ \A x \in Identities : Stored(x) => RowIsValid(leads[x].row) /\ leads[x].scope \in Scopes
    /\ drafts \in [Identities -> Draft]
    /\ at \in [Workers -> Stages]
    /\ \A w \in Workers : known[w] \subseteq Identities
    /\ manual \in 0..MaxManual

(* A lead of a feed without identifiers is one project: two such leads of  *)
(* one scope never stand for the same project, however it was spelled.     *)
OneLeadPerProject ==
    \A x, y \in Identities :
        /\ Stored(x) /\ Stored(y)
        /\ IsDerived(leads[x].row) /\ IsDerived(leads[y].row)
        /\ leads[x].scope = leads[y].scope
        /\ Canonical[leads[x].row.name] = Canonical[leads[y].row.name]
        => x = y

(* Every lead that is active, or ever was, has its first draft, and none   *)
(* that is dismissed has a draft still queued, whatever order two feeds    *)
(* that name it arrive in.                                                 *)
DraftsFollowStatus ==
    \A x \in Identities : Stored(x) =>
        /\ Status(x) = "active" => drafts[x] # "none"
        /\ Status(x) = "deleted" => drafts[x] # "queued"

(* An insert fails on the unique constraint only when another scope has    *)
(* inserted the same explicit identifier; feeds of one scope never collide.*)
OnlySharedIdsClash ==
    \A w \in Workers : at[w] = "selected" =>
        \A x \in Named(w) \ known[w] :
            Stored(x) => x \in Ids /\ leads[x].scope # batch[w].scope

(* A first draft is queued once: a lead whose draft has ended never gets   *)
(* another one by ingestion.                                               *)
FirstDraftOnce ==
    [][\A x \in Identities : drafts[x] = "ended" => drafts'[x] = "ended"]_feedVars

(* A manual sync may apply rows older than those of a later run.  When the *)
(* source has stopped changing and manual ingestion has ended, the daily   *)
(* run restores every lead the feed names.                                 *)
Reflects(s) ==
    \A x \in DOMAIN Prepared(source[s].rows, s) :
        leads[x].row = Prepared(source[s].rows, s)[x]
Repaired ==
    \A s \in Scopes :
        (/\ source[s].version = MaxVersions
         /\ source[s].rows # <<>> /\ ~Rejected(source[s].rows, s)) ~> Reflects(s)

(* Together the locks make the transaction one step: the leads and drafts  *)
(* change as if every valid feed were applied at once to the leads as they *)
(* are when it commits.                                                    *)
Contract == INSTANCE FeedContract
AppliedAtOnce == Contract!Spec

(* Ingestion as a whole: its effect is that of one step, and in spite of   *)
(* overlapping feeds the first drafts follow the leads and are not redone, *)
(* and only an identifier two scopes share makes an insert fail.           *)
IngestionIsSafe ==
    /\ AppliedAtOnce
    /\ [](FeedTypeOK /\ DraftsFollowStatus /\ OnlySharedIdsClash)
    /\ FirstDraftOnce
=============================================================================
