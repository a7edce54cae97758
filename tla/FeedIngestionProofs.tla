------------------------ MODULE FeedIngestionProofs ------------------------
(***************************************************************************)
(* Proofs about FeedIngestion, for any rows, scopes and number of          *)
(* concurrent ingestions: the transaction is one step of FeedContract.     *)
(*                                                                         *)
(* The argument: an ingestion that has selected its leads holds their row  *)
(* locks, so what it has read stays true; one that has flushed is alone    *)
(* with the identities it inserts, which are not stored before it commits. *)
(***************************************************************************)
EXTENDS FeedIngestion, WellFoundedInduction, TLAPS

Holding(w) == at[w] \in {"selected", "flushed"}
Found(w) == at[w] \in {"selecting", "selected", "flushed"}
New(w) == Named(w) \ known[w]

TypeInv ==
    /\ leads = [x \in Identities |-> leads[x]]
    /\ drafts \in [Identities -> Draft]
    /\ at \in [Workers -> Stages]
    /\ DOMAIN batch = Workers /\ DOMAIN known = Workers /\ DOMAIN seen = Workers

(* A batch is a feed of a scope, and it is valid once its scope is locked. *)
BatchInv ==
    /\ \A s \in Scopes : source[s].rows \in Feeds
    /\ DOMAIN source = Scopes
    /\ \A w \in Workers : at[w] # "idle" => batch[w].rows \in Feeds /\ batch[w].scope \in Scopes
    /\ \A w \in Workers :
           at[w] \notin {"idle", "fetched"} => ~Rejected(batch[w].rows, batch[w].scope)

(* What an ingestion has found and read is still so.                       *)
KnownInv == \A w \in Workers : \A x \in known[w] : Found(w) => x \in Named(w) /\ Stored(x)
SeenInv == \A w \in Workers : \A x \in known[w] : Holding(w) => seen[w][x] = Status(x)
NewInv == \A w \in Workers : \A x \in New(w) : at[w] = "flushed" => ~Stored(x)

(* Row locks and uncommitted inserts exclude each other.                   *)
RowsExclusive ==
    \A v, w \in Workers :
        v # w /\ Holding(v) /\ Holding(w) => known[v] \cap known[w] = {}
InsertsExclusive ==
    \A v, w \in Workers :
        v # w /\ at[v] = "flushed" /\ at[w] = "flushed" => New(v) \cap New(w) = {}

(* A lead that is not stored has no draft.                                 *)
DraftInv == \A x \in Identities : ~Stored(x) => drafts[x] = "none"

IngestionInv ==
    /\ TypeInv /\ BatchInv /\ KnownInv /\ SeenInv /\ NewInv
    /\ RowsExclusive /\ InsertsExclusive /\ DraftInv

-----------------------------------------------------------------------------
(* The identities of a feed are among those of all feeds.                  *)
LEMMA NamedAreIdentities ==
    ASSUME NEW rows \in Feeds, NEW s \in Scopes
    PROVE  DOMAIN Prepared(rows, s) \subseteq Identities
BY DEF Prepared, Identities

(* A committed lead is stored, since it carries its scope.                 *)
LEMMA LeadIsStored ==
    ASSUME NEW row, NEW s \in Scopes
    PROVE  [row |-> row, scope |-> s] # NoLead
BY NullIsNoScope DEF NoLead

LEMMA InitInvariant == FeedInit => IngestionInv
<1> SUFFICES ASSUME FeedInit PROVE IngestionInv
  OBVIOUS
<1>1. TypeInv
  BY DEF FeedInit, TypeInv, Stages, Draft
<1>2. BatchInv
  BY DEF FeedInit, BatchInv
<1>3. KnownInv /\ SeenInv /\ NewInv /\ RowsExclusive /\ InsertsExclusive
  BY DEF FeedInit, KnownInv, SeenInv, NewInv, RowsExclusive, InsertsExclusive, Found, Holding
<1>4. DraftInv
  BY DEF FeedInit, DraftInv
<1> QED
  BY <1>1, <1>2, <1>3, <1>4 DEF IngestionInv

-----------------------------------------------------------------------------
(* Every step preserves the invariant.                                     *)

LEMMA SourceChangesPreserves ==
    ASSUME IngestionInv, NEW s \in Scopes, SourceChanges(s)
    PROVE  IngestionInv'
<1> USE DEF IngestionInv
<1>1. UNCHANGED <<leads, drafts, at, batch, known, seen>>
  BY DEF SourceChanges, tables
<1>2. TypeInv' /\ DraftInv'
  BY <1>1 DEF TypeInv, DraftInv, Stored
<1>3. BatchInv'
  BY <1>1 DEF BatchInv, SourceChanges
<1>4. KnownInv' /\ SeenInv' /\ NewInv' /\ RowsExclusive' /\ InsertsExclusive'
  BY <1>1 DEF KnownInv, SeenInv, NewInv, RowsExclusive, InsertsExclusive,
              Found, Holding, New, Named, Stored, Status
<1> QED
  BY <1>2, <1>3, <1>4

LEMMA StartsPreserves ==
    ASSUME IngestionInv, NEW w \in Workers, NEW rows \in Feeds, NEW s \in Scopes,
           Starts(w, rows, s)
    PROVE  IngestionInv'
<1> USE DEF IngestionInv
<1>1. UNCHANGED <<source, leads, drafts, known, seen>>
  BY DEF Starts, tables
<1>2. /\ at[w] = "idle" /\ at'[w] = "fetched"
      /\ batch'[w].rows = rows /\ batch'[w].scope = s
      /\ \A v \in Workers \ {w} : at'[v] = at[v] /\ batch'[v] = batch[v]
  BY DEF Starts, TypeInv
<1>3. TypeInv' /\ DraftInv'
  BY <1>1 DEF TypeInv, DraftInv, Stored, Starts, Stages
<1>4. BatchInv'
  BY <1>1, <1>2 DEF BatchInv
<1>5. KnownInv' /\ SeenInv'
  BY <1>1, <1>2 DEF KnownInv, SeenInv, Found, Holding, Named, Stored, Status
<1>6. NewInv' /\ InsertsExclusive'
  BY <1>1, <1>2 DEF NewInv, InsertsExclusive, New, Named, Stored
<1>7. RowsExclusive'
  BY <1>1, <1>2 DEF RowsExclusive, Holding
<1> QED
  BY <1>3, <1>4, <1>5, <1>6, <1>7

LEMMA LockScopePreserves ==
    ASSUME IngestionInv, NEW w \in Workers, LockScope(w)
    PROVE  IngestionInv'
<1> USE DEF IngestionInv
<1>1. UNCHANGED <<source, leads, drafts, batch, known, seen>>
  BY DEF LockScope, tables
<1>2. /\ at[w] = "fetched" /\ at'[w] = "locked"
      /\ \A v \in Workers \ {w} : at'[v] = at[v]
  BY DEF LockScope, Moves, TypeInv
<1>3. TypeInv' /\ DraftInv'
  BY <1>1 DEF TypeInv, DraftInv, Stored, LockScope, Moves, Stages
<1>4. BatchInv'
  BY <1>1, <1>2 DEF BatchInv, LockScope, Applies
<1>5. KnownInv' /\ SeenInv' /\ NewInv' /\ RowsExclusive' /\ InsertsExclusive'
  BY <1>1, <1>2 DEF KnownInv, SeenInv, NewInv, RowsExclusive, InsertsExclusive,
                    Found, Holding, New, Named, Stored, Status
<1> QED
  BY <1>3, <1>4, <1>5

LEMMA SelectBeginsPreserves ==
    ASSUME IngestionInv, NEW w \in Workers, SelectBegins(w)
    PROVE  IngestionInv'
<1> USE DEF IngestionInv
<1>1. UNCHANGED <<source, leads, drafts, batch, seen>>
  BY DEF SelectBegins, tables
<1>2. /\ at[w] = "locked" /\ at'[w] = "selecting"
      /\ known'[w] = {x \in Named(w) : Stored(x)}
      /\ \A v \in Workers \ {w} : at'[v] = at[v] /\ known'[v] = known[v]
  BY DEF SelectBegins, Moves, TypeInv
<1>3. TypeInv' /\ DraftInv'
  BY <1>1 DEF TypeInv, DraftInv, Stored, SelectBegins, Moves, Stages
<1>4. BatchInv'
  BY <1>1, <1>2 DEF BatchInv
<1>5. KnownInv'
  BY <1>1, <1>2 DEF KnownInv, Found, Named, Stored
<1>6. SeenInv' /\ RowsExclusive'
  BY <1>1, <1>2 DEF SeenInv, RowsExclusive, Holding, Status
<1>7. NewInv' /\ InsertsExclusive'
  BY <1>1, <1>2 DEF NewInv, InsertsExclusive, New, Named, Stored
<1> QED
  BY <1>3, <1>4, <1>5, <1>6, <1>7

LEMMA SelectEndsPreserves ==
    ASSUME IngestionInv, NEW w \in Workers, SelectEnds(w)
    PROVE  IngestionInv'
<1> USE DEF IngestionInv
<1>1. UNCHANGED <<source, leads, drafts, batch, known>>
  BY DEF SelectEnds, tables
<1>2. /\ at[w] = "selecting" /\ at'[w] = "selected"
      /\ seen'[w] = [x \in known[w] |-> Status(x)]
      /\ \A v \in Workers \ {w} : at'[v] = at[v] /\ seen'[v] = seen[v]
  BY DEF SelectEnds, Moves, Reads, TypeInv
<1>3. TypeInv' /\ DraftInv'
  BY <1>1 DEF TypeInv, DraftInv, Stored, SelectEnds, Moves, Reads, Stages
<1>4. BatchInv'
  BY <1>1, <1>2 DEF BatchInv
<1>5. KnownInv'
  BY <1>1, <1>2 DEF KnownInv, Found, Named, Stored
<1>6. SeenInv'
  BY <1>1, <1>2 DEF SeenInv, Holding, Status
<1>7. \A v \in Workers \ {w} : Holding(v) => known[v] \cap known[w] = {}
  BY DEF SelectEnds, LocksRow, Holding
<1>8. RowsExclusive'
  BY <1>1, <1>2, <1>7 DEF RowsExclusive, Holding
<1>9. NewInv' /\ InsertsExclusive'
  BY <1>1, <1>2 DEF NewInv, InsertsExclusive, New, Named, Stored
<1> QED
  BY <1>3, <1>4, <1>5, <1>6, <1>8, <1>9

LEMMA FlushPreserves ==
    ASSUME IngestionInv, NEW w \in Workers, Flush(w)
    PROVE  IngestionInv'
<1> USE DEF IngestionInv
<1>1. UNCHANGED <<source, leads, drafts, batch, known, seen>>
  BY DEF Flush, tables
<1>2. /\ at[w] = "selected" /\ at'[w] = "flushed"
      /\ \A v \in Workers \ {w} : at'[v] = at[v]
  BY DEF Flush, Moves, TypeInv
<1>3. TypeInv' /\ DraftInv'
  BY <1>1 DEF TypeInv, DraftInv, Stored, Flush, Moves, Stages
<1>4. BatchInv'
  BY <1>1, <1>2 DEF BatchInv
<1>5. KnownInv' /\ SeenInv' /\ RowsExclusive'
  BY <1>1, <1>2 DEF KnownInv, SeenInv, RowsExclusive, Found, Holding, Named, Stored, Status
<1>6. \A x \in New(w) : ~Stored(x)
  BY DEF Flush, Clashes, New
<1>7. \A v \in Workers \ {w} : at[v] = "flushed" => New(v) \cap New(w) = {}
  BY DEF Flush, Inserts, New
<1>8. NewInv'
  BY <1>1, <1>2, <1>6 DEF NewInv, New, Named, Stored
<1>9. InsertsExclusive'
  BY <1>1, <1>2, <1>7 DEF InsertsExclusive, New, Named
<1> QED
  BY <1>3, <1>4, <1>5, <1>8, <1>9

(* EndsEarly, FlushFails and Fails: the ingestion is forgotten.            *)
LEMMA EndsPreserves ==
    ASSUME IngestionInv, NEW w \in Workers, Ends(w), UNCHANGED <<source, tables>>
    PROVE  IngestionInv'
<1> USE DEF IngestionInv
<1>1. UNCHANGED <<source, leads, drafts>>
  BY DEF tables
<1>2. /\ at'[w] = "idle" /\ known'[w] = {}
      /\ \A v \in Workers \ {w} :
             at'[v] = at[v] /\ batch'[v] = batch[v] /\ known'[v] = known[v] /\ seen'[v] = seen[v]
  BY DEF Ends, TypeInv
<1>3. TypeInv' /\ DraftInv'
  BY <1>1 DEF TypeInv, DraftInv, Stored, Ends, Stages
<1>4. BatchInv'
  BY <1>1, <1>2 DEF BatchInv
<1>5. KnownInv' /\ SeenInv' /\ RowsExclusive'
  BY <1>1, <1>2 DEF KnownInv, SeenInv, RowsExclusive, Found, Holding, Named, Stored, Status
<1>6. NewInv' /\ InsertsExclusive'
  BY <1>1, <1>2 DEF NewInv, InsertsExclusive, New, Named, Stored
<1> QED
  BY <1>3, <1>4, <1>5, <1>6

LEMMA GeneratedPreserves ==
    ASSUME IngestionInv, NEW x \in Identities, DraftIsGenerated(x)
    PROVE  IngestionInv'
<1> USE DEF IngestionInv
<1>1. UNCHANGED <<source, leads, at, batch, known, seen>>
  BY DEF DraftIsGenerated
<1>2. TypeInv'
  BY <1>1 DEF TypeInv, DraftIsGenerated, Draft
<1>3. DraftInv'
  BY <1>1 DEF TypeInv, DraftInv, DraftIsGenerated, Stored
<1>4. BatchInv' /\ KnownInv' /\ SeenInv' /\ NewInv' /\ RowsExclusive' /\ InsertsExclusive'
  BY <1>1 DEF BatchInv, KnownInv, SeenInv, NewInv, RowsExclusive, InsertsExclusive,
              Found, Holding, New, Named, Stored, Status
<1> QED
  BY <1>2, <1>3, <1>4

(* The commit.  The leads it changes are those of no other transaction     *)
(* that has read or inserted something.                                    *)
LEMMA CommitStores ==
    ASSUME IngestionInv, NEW w \in Workers, Commit(w)
    PROVE  /\ \A x \in Identities : leads'[x] = LeadAfter(w, x) /\ drafts'[x] = DraftAfter(w, x)
           /\ Named(w) \subseteq Identities
           /\ \A x \in Identities : Stored(x)' <=> Stored(x) \/ x \in Named(w)
<1> USE DEF IngestionInv
<1>1. \A x \in Identities : leads'[x] = LeadAfter(w, x) /\ drafts'[x] = DraftAfter(w, x)
  BY DEF Commit
<1>2. batch[w].rows \in Feeds /\ batch[w].scope \in Scopes
  BY DEF BatchInv, Commit
<1>3. Named(w) \subseteq Identities
  BY <1>2, NamedAreIdentities DEF Named
<1>4. ASSUME NEW x \in Identities PROVE Stored(x)' <=> Stored(x) \/ x \in Named(w)
  BY <1>1, <1>2, LeadIsStored DEF Stored, LeadAfter
<1> QED
  BY <1>1, <1>3, <1>4

LEMMA CommitPreserves ==
    ASSUME IngestionInv, NEW w \in Workers, Commit(w)
    PROVE  IngestionInv'
<1> USE DEF IngestionInv
<1>1. source' = source /\ at[w] = "flushed"
  BY DEF Commit
<1>2. /\ at'[w] = "idle" /\ known'[w] = {}
      /\ \A v \in Workers \ {w} :
             at'[v] = at[v] /\ batch'[v] = batch[v] /\ known'[v] = known[v] /\ seen'[v] = seen[v]
  BY DEF Commit, Ends, TypeInv
<1>3. TypeInv'
  <2>1. \A x \in Identities : DraftAfter(w, x) \in Draft
    BY DEF DraftAfter, TypeInv, Draft
  <2> QED
    BY <2>1 DEF TypeInv, Commit, Ends, Stages
<1>4. BatchInv'
  BY <1>1, <1>2 DEF BatchInv
<1>5. KnownInv'
  <2> SUFFICES ASSUME NEW v \in Workers, NEW x \in known'[v], Found(v)'
               PROVE  x \in Named(v)' /\ Stored(x)'
    BY DEF KnownInv
  <2>1. v # w /\ x \in known[v] /\ Found(v) /\ Named(v)' = Named(v)
    BY <1>2 DEF Found, Named
  <2>2. x \in Named(v) /\ Stored(x)
    BY <2>1 DEF KnownInv
  <2>3. batch[v].rows \in Feeds /\ batch[v].scope \in Scopes
    BY <2>1 DEF BatchInv, Found
  <2>4. x \in Identities
    BY <2>2, <2>3, NamedAreIdentities DEF Named
  <2> QED
    BY <2>1, <2>2, <2>4, CommitStores
<1>6. SeenInv'
  <2> SUFFICES ASSUME NEW v \in Workers, NEW x \in known'[v], Holding(v)'
               PROVE  seen'[v][x] = Status(x)'
    BY DEF SeenInv
  <2>1. v # w /\ x \in known[v] /\ Holding(v) /\ Found(v) /\ seen'[v] = seen[v]
    BY <1>2 DEF Holding, Found
  <2>2. x \in Named(v) /\ Stored(x)
    BY <2>1 DEF KnownInv
  <2>3. batch[v].rows \in Feeds /\ batch[v].scope \in Scopes
    BY <2>1 DEF BatchInv, Holding
  <2>4. x \in Identities
    BY <2>2, <2>3, NamedAreIdentities DEF Named
  <2>5. x \notin known[w]
    BY <1>1, <2>1 DEF RowsExclusive, Holding
  <2>6. x \notin New(w)
    BY <1>1, <2>2 DEF NewInv
  <2>7. leads'[x] = leads[x]
    BY <2>4, <2>5, <2>6, CommitStores DEF LeadAfter, New
  <2> QED
    BY <2>1, <2>7 DEF SeenInv, Status
<1>7. NewInv'
  <2> SUFFICES ASSUME NEW v \in Workers, NEW x \in New(v)', at'[v] = "flushed"
               PROVE  ~Stored(x)'
    BY DEF NewInv
  <2>1. v # w /\ x \in New(v) /\ at[v] = "flushed"
    BY <1>2 DEF New, Named
  <2>2. ~Stored(x)
    BY <2>1 DEF NewInv
  <2>3. batch[v].rows \in Feeds /\ batch[v].scope \in Scopes
    BY <2>1 DEF BatchInv
  <2>4. x \in Identities
    BY <2>1, <2>3, NamedAreIdentities DEF Named, New
  <2>5. x \notin New(w)
    BY <1>1, <2>1 DEF InsertsExclusive
  <2>6. x \notin known[w]
    BY <1>1, <2>2 DEF KnownInv, Found
  <2>7. x \notin Named(w)
    BY <2>5, <2>6 DEF New
  <2> QED
    BY <2>2, <2>4, <2>7, CommitStores
<1>8. RowsExclusive'
  BY <1>2 DEF RowsExclusive, Holding
<1>9. InsertsExclusive'
  BY <1>2 DEF InsertsExclusive, New, Named
<1>10. DraftInv'
  BY CommitStores DEF DraftInv, DraftAfter
<1> QED
  BY <1>3, <1>4, <1>5, <1>6, <1>7, <1>8, <1>9, <1>10

LEMMA StepInvariant == IngestionInv /\ [FeedNext]_feedVars => IngestionInv'
<1> SUFFICES ASSUME IngestionInv, [FeedNext]_feedVars PROVE IngestionInv'
  OBVIOUS
<1> USE ConfiguredScope, DailyAmongWorkers
<1>1. \A s \in Scopes : source[s].rows \in Feeds
  BY DEF IngestionInv, BatchInv
<1>2. ASSUME NEW s \in Scopes, SourceChanges(s) PROVE IngestionInv'
  BY <1>2, SourceChangesPreserves
<1>3. ASSUME NEW w \in Workers, NEW s \in Scopes, DailySync(w, s) \/ ManualSync(w, s)
      PROVE  IngestionInv'
  BY <1>1, <1>3, StartsPreserves DEF DailySync, ManualSync
<1>4. ASSUME NEW w \in Workers, UploadCsv(w) PROVE IngestionInv'
  BY <1>4, StartsPreserves DEF UploadCsv
<1>5. ASSUME NEW w \in Workers, EndsEarly(w) \/ FlushFails(w) \/ Fails(w)
      PROVE  IngestionInv'
  BY <1>5, EndsPreserves DEF EndsEarly, FlushFails, Fails
<1>6. ASSUME NEW w \in Workers, LockScope(w) PROVE IngestionInv'
  BY <1>6, LockScopePreserves
<1>7. ASSUME NEW w \in Workers, SelectBegins(w) PROVE IngestionInv'
  BY <1>7, SelectBeginsPreserves
<1>8. ASSUME NEW w \in Workers, SelectEnds(w) PROVE IngestionInv'
  BY <1>8, SelectEndsPreserves
<1>9. ASSUME NEW w \in Workers, Flush(w) PROVE IngestionInv'
  BY <1>9, FlushPreserves
<1>10. ASSUME NEW w \in Workers, Commit(w) PROVE IngestionInv'
  BY <1>10, CommitPreserves
<1>11. ASSUME NEW x \in Identities, DraftIsGenerated(x) PROVE IngestionInv'
  BY <1>11, GeneratedPreserves
<1>12. CASE UNCHANGED feedVars
  <2>1. UNCHANGED <<source, leads, drafts, manual, at, batch, known, seen>>
    BY <1>12 DEF feedVars, tables
  <2>2. TypeInv' /\ BatchInv' /\ DraftInv'
    BY <2>1 DEF IngestionInv, TypeInv, BatchInv, DraftInv, Stored
  <2>3. KnownInv' /\ SeenInv'
    BY <2>1 DEF IngestionInv, KnownInv, SeenInv, Found, Holding, Named, Stored, Status
  <2>4. NewInv' /\ RowsExclusive' /\ InsertsExclusive'
    BY <2>1 DEF IngestionInv, NewInv, RowsExclusive, InsertsExclusive, Holding, New, Named,
                Stored
  <2> QED
    BY <2>2, <2>3, <2>4 DEF IngestionInv
<1> QED
  BY <1>2, <1>3, <1>4, <1>5, <1>6, <1>7, <1>8, <1>9, <1>10, <1>11, <1>12 DEF FeedNext, Proceeds

(* The locks of concurrent ingestions exclude each other, and what they    *)
(* have read stays true.                                                   *)
THEOREM Invariant == FeedSpec => []IngestionInv
  BY InitInvariant, StepInvariant, PTL DEF FeedSpec

-----------------------------------------------------------------------------
(* The commit is a step of the contract, every other step changes nothing  *)
(* the contract speaks of.                                                 *)

(* The contract reads rows by the same definitions, taken over under its    *)
(* own name.                                                               *)
LEMMA SameIdentities ==
    /\ Contract!Identities = Identities
    /\ Contract!NoLead = NoLead
<1>1. \A row, s : Contract!Identity(row, s) = Identity(row, s)
  BY DEF Contract!Identity, Identity
<1>2. \A f : Contract!Range(f) = Range(f)
  BY DEF Contract!Range, Range
<1> QED
  BY <1>1, <1>2 DEF Contract!Identities, Identities, Contract!NoLead, NoLead

LEMMA SameBatch ==
    ASSUME NEW rows, NEW s
    PROVE  /\ Contract!Prepared(rows, s) = Prepared(rows, s)
           /\ Contract!Rejected(rows, s) <=> Rejected(rows, s)
<1>1. \A row : Contract!Identity(row, s) = Identity(row, s)
  BY DEF Contract!Identity, Identity
<1>2. Contract!Range(rows) = Range(rows)
  BY DEF Contract!Range, Range
<1>3. Contract!Prepared(rows, s) = Prepared(rows, s)
  BY DEF Contract!Prepared, Prepared, Contract!Identity, Identity, Contract!Range, Range
<1>4. \A row : Contract!RowIsValid(row) <=> RowIsValid(row)
  BY DEF Contract!RowIsValid, RowIsValid
<1>5. Contract!CollidesIn(rows, s) <=> CollidesIn(rows, s)
  BY <1>1, <1>4 DEF Contract!CollidesIn, CollidesIn, Contract!IsDerived, IsDerived
<1> QED
  BY <1>2, <1>3, <1>4, <1>5 DEF Contract!Rejected, Rejected

(* The draft of a lead the commit applies is the contract's.               *)
LEMMA DraftIsContracts ==
    ASSUME IngestionInv, NEW w \in Workers, Commit(w),
           NEW x \in Identities, x \in Named(w)
    PROVE  DraftAfter(w, x) = Contract!DraftOf(x, Current(w)[x])
<1> USE DEF IngestionInv
<1> DEFINE row == Current(w)[x]
<1>1. drafts[x] \in Draft
  BY DEF TypeInv
<1>2. CASE x \in known[w]
  <2>1. Stored(x) /\ seen[w][x] = Status(x)
    BY <1>2 DEF KnownInv, SeenInv, Commit, Found, Holding
  <2>2. NeedsDraft(w, x) <=>
           row.status = "active" /\ ~Contract!Was(x, "active") /\ drafts[x] = "none"
    BY <1>2, <2>1 DEF NeedsDraft, Contract!Was, Contract!NoLead, NoLead, Stored, Status
  <2>3. Dismisses(w, x) <=> row.status = "deleted" /\ ~Contract!Was(x, "deleted")
    BY <1>2, <2>1 DEF Dismisses, Contract!Was, Contract!NoLead, NoLead, Stored, Status
  <2> QED
    BY <2>2, <2>3 DEF DraftAfter, Contract!DraftOf
<1>3. CASE x \notin known[w]
  <2>1. ~Stored(x) /\ drafts[x] = "none"
    BY <1>3 DEF NewInv, New, Commit, DraftInv
  <2>2. ~Contract!Was(x, "active")
    BY <2>1 DEF Contract!Was, Contract!NoLead, NoLead, Stored
  <2>3. NeedsDraft(w, x) <=> row.status = "active"
    BY <1>3 DEF NeedsDraft
  <2>4. ~Dismisses(w, x)
    BY <1>3 DEF Dismisses
  <2> QED
    BY <2>1, <2>2, <2>3, <2>4 DEF DraftAfter, Contract!DraftOf
<1> QED
  BY <1>2, <1>3

LEMMA CommitIsApply ==
    ASSUME IngestionInv, NEW w \in Workers, Commit(w)
    PROVE  Contract!Next
<1> USE DEF IngestionInv
<1> DEFINE rows == batch[w].rows
           s == batch[w].scope
<1>1. rows \in Feeds /\ s \in Scopes /\ ~Rejected(rows, s)
  BY DEF BatchInv, Commit
<1>2. DOMAIN Prepared(rows, s) = Named(w) /\ Current(w) = Prepared(rows, s)
  BY DEF Named, Current
<1>3. leads' = [x \in Identities |->
                  IF x \in DOMAIN Prepared(rows, s)
                  THEN [row |-> Prepared(rows, s)[x], scope |-> s] ELSE leads[x]]
  BY <1>2 DEF Commit, LeadAfter
<1>4. ASSUME NEW x \in Identities, x \in Named(w)
      PROVE  DraftAfter(w, x) = Contract!DraftOf(x, Current(w)[x])
  BY <1>4, DraftIsContracts
<1>5. ASSUME NEW x \in Identities, x \notin Named(w) PROVE DraftAfter(w, x) = drafts[x]
  BY <1>5 DEF DraftAfter
<1>6. drafts' = [x \in Identities |->
                   IF x \in DOMAIN Prepared(rows, s)
                   THEN Contract!DraftOf(x, Prepared(rows, s)[x]) ELSE drafts[x]]
  BY <1>2, <1>4, <1>5 DEF Commit
<1>7. Contract!Apply(rows, s)
  BY <1>1, <1>3, <1>6, SameIdentities, SameBatch DEF Contract!Apply
<1> QED
  BY <1>1, <1>7 DEF Contract!Next

(* Only these two steps change leads or drafts.                            *)
LEMMA OnlyTwoWrite ==
    ASSUME [FeedNext]_feedVars,
           ~\E w \in Workers : Commit(w),
           ~\E x \in Identities : DraftIsGenerated(x)
    PROVE  UNCHANGED <<leads, drafts>>
BY DEF FeedNext, Proceeds, SourceChanges, DailySync, ManualSync, UploadCsv, Starts,
       EndsEarly, LockScope, SelectBegins, SelectEnds, Flush, FlushFails, Fails, tables, feedVars

LEMMA StepRefines == IngestionInv /\ [FeedNext]_feedVars => [Contract!Next]_(Contract!vars)
<1> SUFFICES ASSUME IngestionInv, [FeedNext]_feedVars PROVE [Contract!Next]_(Contract!vars)
  OBVIOUS
<1>1. ASSUME NEW w \in Workers, Commit(w) PROVE Contract!Next
  BY <1>1, CommitIsApply
<1>2. ASSUME NEW x \in Identities, DraftIsGenerated(x) PROVE Contract!Next
  BY <1>2, SameIdentities DEF DraftIsGenerated, Contract!Next, Contract!Generate
<1>3. CASE /\ ~\E w \in Workers : Commit(w)
           /\ ~\E x \in Identities : DraftIsGenerated(x)
  BY <1>3, OnlyTwoWrite DEF Contract!vars
<1> QED
  BY <1>1, <1>2, <1>3

(* Ingestion implements FeedContract: sync, upload and the daily worker    *)
(* apply whole valid feeds, one after the other, to current leads.         *)
THEOREM Refinement == FeedSpec => AppliedAtOnce
<1>1. FeedInit => Contract!Init
  BY SameIdentities DEF FeedInit, Contract!Init
<1> QED
  BY <1>1, Invariant, StepRefines, PTL DEF FeedSpec, AppliedAtOnce, Contract!Spec

-----------------------------------------------------------------------------
(* Drafts.                                                                 *)

(* What a commit leaves behind for a lead it applies, and for another.     *)
LEMMA CommitDrafts ==
    ASSUME IngestionInv, NEW w \in Workers, Commit(w), NEW x \in Identities
    PROVE  /\ x \in Named(w) =>
                /\ drafts'[x] = Contract!DraftOf(x, Current(w)[x])
                /\ leads'[x].row = Current(w)[x]
           /\ x \notin Named(w) => drafts'[x] = drafts[x] /\ leads'[x] = leads[x]
<1>1. drafts'[x] = DraftAfter(w, x) /\ leads'[x] = LeadAfter(w, x)
  BY DEF Commit
<1> QED
  BY <1>1, DraftIsContracts DEF LeadAfter, DraftAfter

LEMMA CommitFollowsStatus ==
    ASSUME IngestionInv, DraftsFollowStatus, NEW w \in Workers, Commit(w)
    PROVE  DraftsFollowStatus'
<1> SUFFICES ASSUME NEW x \in Identities, Stored(x)'
             PROVE  /\ Status(x)' = "active" => drafts'[x] # "none"
                    /\ Status(x)' = "deleted" => drafts'[x] # "queued"
  BY DEF DraftsFollowStatus
<1>1. drafts[x] \in Draft
  BY DEF IngestionInv, TypeInv
<1>2. CASE x \notin Named(w)
  BY <1>2, CommitDrafts DEF DraftsFollowStatus, Stored, Status
<1>3. CASE x \in Named(w)
  <2> DEFINE status == Current(w)[x].status
  <2>1. drafts'[x] = Contract!DraftOf(x, Current(w)[x]) /\ Status(x)' = status
    BY <1>3, CommitDrafts DEF Status
  <2>2. ~Stored(x) => drafts[x] = "none"
    BY DEF IngestionInv, DraftInv
  <2>3. \A st : Contract!Was(x, st) <=> Stored(x) /\ Status(x) = st
    BY DEF Contract!Was, Contract!NoLead, NoLead, Stored, Status
  <2>4. CASE status = "active"
    <3>1. Contract!Was(x, "active") => drafts[x] # "none"
      BY <2>3 DEF DraftsFollowStatus
    <3> QED
      BY <1>1, <2>1, <2>4, <3>1 DEF Contract!DraftOf, Draft
  <2>5. CASE status = "deleted"
    <3>1. Contract!Was(x, "deleted") => drafts[x] # "queued"
      BY <2>3 DEF DraftsFollowStatus
    <3> QED
      BY <1>1, <2>1, <2>5, <3>1 DEF Contract!DraftOf, Draft
  <2> QED
    BY <2>1, <2>4, <2>5
<1> QED
  BY <1>2, <1>3

LEMMA StepFollowsStatus ==
    IngestionInv /\ DraftsFollowStatus /\ [FeedNext]_feedVars => DraftsFollowStatus'
<1> SUFFICES ASSUME IngestionInv, DraftsFollowStatus, [FeedNext]_feedVars PROVE DraftsFollowStatus'
  OBVIOUS
<1>1. ASSUME NEW w \in Workers, Commit(w) PROVE DraftsFollowStatus'
  BY <1>1, CommitFollowsStatus
<1>2. ASSUME NEW x \in Identities, DraftIsGenerated(x) PROVE DraftsFollowStatus'
  BY <1>2 DEF DraftIsGenerated, DraftsFollowStatus, Stored, Status, IngestionInv, TypeInv
<1>3. CASE /\ ~\E w \in Workers : Commit(w)
           /\ ~\E x \in Identities : DraftIsGenerated(x)
  BY <1>3, OnlyTwoWrite DEF DraftsFollowStatus, Stored, Status
<1> QED
  BY <1>1, <1>2, <1>3

(* Whatever feeds arrive and however their transactions overlap, an active *)
(* lead has its first draft and a dismissed one has none queued.           *)
THEOREM DraftsFollow == FeedSpec => []DraftsFollowStatus
<1>1. FeedInit => DraftsFollowStatus
  BY DEF FeedInit, DraftsFollowStatus, Stored
<1> QED
  BY <1>1, Invariant, StepFollowsStatus, PTL DEF FeedSpec

(* No ingestion queues a first draft for a lead whose draft has ended.     *)
THEOREM DraftOnce == FeedSpec => FirstDraftOnce
<1> DEFINE Keeps == \A x \in Identities : drafts[x] = "ended" => drafts'[x] = "ended"
<1>1. IngestionInv /\ [FeedNext]_feedVars => Keeps
  <2> SUFFICES ASSUME IngestionInv, [FeedNext]_feedVars PROVE Keeps
    OBVIOUS
  <2>1. ASSUME NEW w \in Workers, Commit(w) PROVE Keeps
    BY <2>1, CommitDrafts DEF Contract!DraftOf
  <2>2. ASSUME NEW x \in Identities, DraftIsGenerated(x) PROVE Keeps
    BY <2>2 DEF DraftIsGenerated, IngestionInv, TypeInv
  <2>3. CASE /\ ~\E w \in Workers : Commit(w)
             /\ ~\E x \in Identities : DraftIsGenerated(x)
    BY <2>3, OnlyTwoWrite
  <2> QED
    BY <2>1, <2>2, <2>3
<1> QED
  BY <1>1, Invariant, PTL DEF FeedSpec, FirstDraftOnce

-----------------------------------------------------------------------------
(* Clashes.                                                                *)

Locking(w) == at[w] \in {"locked", "selecting", "selected", "flushed"}

(* The advisory lock of a scope has one holder.                            *)
ScopesExclusive ==
    \A v, w \in Workers :
        v # w /\ Locking(v) /\ Locking(w) => batch[v].scope # batch[w].scope

(* A lead the SELECT has not found was stored since, by another scope.     *)
ClashInv ==
    \A w \in Workers : at[w] \in {"selecting", "selected"} =>
        \A x \in New(w) : Stored(x) => x \in Ids /\ leads[x].scope # batch[w].scope

ExclusionInv == ScopesExclusive /\ ClashInv

(* An identity that feeds of two scopes name is an explicit identifier.    *)
LEMMA SharedIsExplicit ==
    ASSUME NEW f \in Feeds, NEW g \in Feeds, NEW s \in Scopes, NEW t \in Scopes, s # t,
           ~Rejected(f, s), ~Rejected(g, t),
           NEW x, x \in DOMAIN Prepared(f, s), x \in DOMAIN Prepared(g, t)
    PROVE  x \in Ids
<1>1. PICK row \in Range(f) : x = Identity(row, s)
  BY DEF Prepared
<1>2. PICK rowt \in Range(g) : x = Identity(rowt, t)
  BY DEF Prepared
<1>3. row.id # Rank /\ rowt.id # Rank
  BY <1>1, <1>2 DEF Rejected, RowIsValid
<1>4. row.id # Null \/ rowt.id # Null
  <2> SUFFICES ASSUME row.id = Null, rowt.id = Null PROVE FALSE
    OBVIOUS
  <2>1. <<s, Canonical[row.name]>> = <<t, Canonical[rowt.name]>>
    BY <1>1, <1>2 DEF Identity
  <2> QED
    BY <2>1
<1> QED
  BY <1>1, <1>2, <1>3, <1>4, FeedsNameIds DEF Identity

(* Steps that neither take a lock nor select nor commit.                   *)
LEMMA QuietExcludes ==
    ASSUME IngestionInv, ExclusionInv, NEW w \in Workers, UNCHANGED leads,
           \A v \in Workers \ {w} :
               at'[v] = at[v] /\ batch'[v] = batch[v] /\ known'[v] = known[v],
           \/ at'[w] \in {"idle", "fetched"}
           \/ at[w] = "selecting" /\ at'[w] = "selected" /\ UNCHANGED <<batch, known>>
           \/ at[w] = "selected" /\ at'[w] = "flushed" /\ UNCHANGED <<batch, known>>
    PROVE  ExclusionInv'
<1>1. ScopesExclusive'
  BY DEF ExclusionInv, ScopesExclusive, Locking
<1>2. ASSUME NEW v \in Workers, at'[v] \in {"selecting", "selected"}, NEW x \in New(v)', Stored(x)'
      PROVE  x \in Ids /\ leads'[x].scope # batch'[v].scope
  <2>1. /\ at[v] \in {"selecting", "selected"}
        /\ UNCHANGED <<batch[v], known[v], leads[x]>>
    BY <1>2
  <2>2. x \in New(v) /\ Stored(x)
    BY <1>2, <2>1 DEF New, Named, Stored
  <2> QED
    BY <2>1, <2>2 DEF ExclusionInv, ClashInv
<1> QED
  BY <1>1, <1>2 DEF ExclusionInv, ClashInv

LEMMA LockScopeExcludes ==
    ASSUME IngestionInv, ExclusionInv, NEW w \in Workers, LockScope(w)
    PROVE  ExclusionInv'
<1>1. UNCHANGED <<leads, batch, known>>
  BY DEF LockScope, tables
<1>2. /\ at'[w] = "locked"
      /\ \A v \in Workers \ {w} : at'[v] = at[v]
      /\ \A v \in Workers \ {w} : ~HoldsScope(v, batch[w].scope)
  BY DEF LockScope, Moves, IngestionInv, TypeInv
<1>3. ScopesExclusive'
  BY <1>1, <1>2 DEF ExclusionInv, ScopesExclusive, Locking, HoldsScope
<1>4. ClashInv'
  BY <1>1, <1>2 DEF ExclusionInv, ClashInv, New, Named, Stored
<1> QED
  BY <1>3, <1>4 DEF ExclusionInv

LEMMA SelectBeginsExcludes ==
    ASSUME IngestionInv, ExclusionInv, NEW w \in Workers, SelectBegins(w)
    PROVE  ExclusionInv'
<1>1. UNCHANGED <<leads, batch>>
  BY DEF SelectBegins, tables
<1>2. /\ at[w] = "locked" /\ at'[w] = "selecting"
      /\ known'[w] = {x \in Named(w) : Stored(x)}
      /\ \A v \in Workers \ {w} : at'[v] = at[v] /\ known'[v] = known[v]
  BY DEF SelectBegins, Moves, IngestionInv, TypeInv
<1>3. ScopesExclusive'
  BY <1>1, <1>2 DEF ExclusionInv, ScopesExclusive, Locking
<1>4. ClashInv'
  BY <1>1, <1>2 DEF ExclusionInv, ClashInv, New, Named, Stored
<1> QED
  BY <1>3, <1>4 DEF ExclusionInv

LEMMA CommitExcludes ==
    ASSUME IngestionInv, ExclusionInv, NEW w \in Workers, Commit(w)
    PROVE  ExclusionInv'
<1>1. /\ at[w] = "flushed" /\ at'[w] = "idle"
      /\ \A v \in Workers \ {w} :
             at'[v] = at[v] /\ batch'[v] = batch[v] /\ known'[v] = known[v]
  BY DEF Commit, Ends, IngestionInv, TypeInv
<1>2. ScopesExclusive'
  BY <1>1 DEF ExclusionInv, ScopesExclusive, Locking
<1>3. ASSUME NEW v \in Workers, at'[v] \in {"selecting", "selected"}, NEW x \in New(v)', Stored(x)'
      PROVE  x \in Ids /\ leads'[x].scope # batch'[v].scope
  <2>1. v # w /\ at[v] \in {"selecting", "selected"} /\ x \in New(v)
        /\ batch'[v] = batch[v]
    BY <1>1, <1>3 DEF New, Named
  <2>2. batch[w].scope # batch[v].scope
    BY <1>1, <2>1 DEF ExclusionInv, ScopesExclusive, Locking
  <2>3. \A u \in {v, w} : batch[u].rows \in Feeds /\ batch[u].scope \in Scopes
                         /\ ~Rejected(batch[u].rows, batch[u].scope)
    BY <1>1, <2>1 DEF IngestionInv, BatchInv
  <2>4. x \in Named(v) /\ x \in Identities
    BY <2>1, <2>3, NamedAreIdentities DEF New, Named
  <2>5. leads'[x] = LeadAfter(w, x)
    BY <2>4, CommitStores
  <2>6. CASE x \in Named(w)
    <3>1. leads'[x].scope = batch[w].scope
      BY <2>5, <2>6 DEF LeadAfter
    <3>2. x \in Ids
      BY <2>2, <2>3, <2>4, <2>6, SharedIsExplicit DEF Named
    <3> QED
      BY <2>1, <2>2, <3>1, <3>2
  <2>7. CASE x \notin Named(w)
    <3>1. leads'[x] = leads[x] /\ Stored(x)
      BY <1>3, <2>5, <2>7 DEF LeadAfter, Stored
    <3> QED
      BY <2>1, <3>1 DEF ExclusionInv, ClashInv
  <2> QED
    BY <2>6, <2>7
<1> QED
  BY <1>2, <1>3 DEF ExclusionInv, ClashInv

LEMMA StepExcludes == IngestionInv /\ ExclusionInv /\ [FeedNext]_feedVars => ExclusionInv'
<1> SUFFICES ASSUME IngestionInv, ExclusionInv, [FeedNext]_feedVars PROVE ExclusionInv'
  OBVIOUS
<1> USE DEF IngestionInv, TypeInv
<1>1. ASSUME NEW w \in Workers, NEW rows, NEW s, Starts(w, rows, s) PROVE ExclusionInv'
  BY <1>1, QuietExcludes DEF Starts, tables
<1>2. ASSUME NEW w \in Workers, EndsEarly(w) \/ FlushFails(w) \/ Fails(w)
      PROVE  ExclusionInv'
  BY <1>2, QuietExcludes DEF EndsEarly, FlushFails, Fails, Ends, tables
<1>3. ASSUME NEW w \in Workers, SelectEnds(w) \/ Flush(w) PROVE ExclusionInv'
  BY <1>3, QuietExcludes DEF SelectEnds, Flush, Moves, tables
<1>4. ASSUME NEW w \in Workers, LockScope(w) PROVE ExclusionInv'
  BY <1>4, LockScopeExcludes
<1>5. ASSUME NEW w \in Workers, SelectBegins(w) PROVE ExclusionInv'
  BY <1>5, SelectBeginsExcludes
<1>6. ASSUME NEW w \in Workers, Commit(w) PROVE ExclusionInv'
  BY <1>6, CommitExcludes
<1>7. CASE UNCHANGED <<leads, at, batch, known>>
  BY <1>7 DEF ExclusionInv, ScopesExclusive, ClashInv, Locking, New, Named, Stored
<1>8. ASSUME NEW s \in Scopes, SourceChanges(s) PROVE ExclusionInv'
  BY <1>7, <1>8 DEF SourceChanges, tables
<1>9. ASSUME NEW x \in Identities, DraftIsGenerated(x) PROVE ExclusionInv'
  BY <1>7, <1>9 DEF DraftIsGenerated
<1> QED
  BY <1>1, <1>2, <1>3, <1>4, <1>5, <1>6, <1>7, <1>8, <1>9
     DEF FeedNext, Proceeds, DailySync, ManualSync, UploadCsv, feedVars, tables

(* Feeds of one scope never collide on an insert: their locks keep them    *)
(* apart, and two scopes share no identity but an explicit one.            *)
THEOREM Clash == FeedSpec => []OnlySharedIdsClash
<1>1. FeedInit => ExclusionInv
  BY DEF FeedInit, ExclusionInv, ScopesExclusive, ClashInv, Locking
<1>2. ExclusionInv => OnlySharedIdsClash
  BY DEF ExclusionInv, ClashInv, OnlySharedIdsClash, New
<1> QED
  BY <1>1, <1>2, Invariant, StepExcludes, PTL DEF FeedSpec

-----------------------------------------------------------------------------
(* Types.  A feed that is applied has valid rows only, and the row that    *)
(* counts for an identity is one of them.                                  *)

LEMMA LastOf ==
    ASSUME NEW n \in Nat, NEW S \in SUBSET (1..n), S # {}
    PROVE  \E i \in S : \A j \in i + 1..n : j \notin S
<1> DEFINE T == {n - i : i \in S}
<1>1. T \in SUBSET Nat /\ T # {}
  <2>1. \A i \in 1..n : n - i \in Nat
    OBVIOUS
  <2> QED
    BY <2>1, S # {}, \A i \in S : i \in 1..n
<1>2. PICK t \in T : \A u \in T : ~(<<u, t>> \in OpToRel(<, Nat))
  <2> HIDE DEF T
  <2> QED
    BY <1>1, NatLessThanWellFounded, WFMin
<1>3. \A u \in T : ~(u < t)
  BY <1>1, <1>2 DEF OpToRel
<1>4. PICK i \in S : t = n - i
  BY <1>2
<1>5. ASSUME NEW j \in i + 1..n, j \in S PROVE FALSE
  <2>1. n - j \in T /\ n - j < t
    BY <1>4, <1>5
  <2> QED
    BY <1>3, <2>1
<1> QED
  BY <1>5

LEMMA CountingRowIsValid ==
    ASSUME NEW rows \in Feeds, NEW s \in Scopes, ~Rejected(rows, s),
           NEW x \in DOMAIN Prepared(rows, s)
    PROVE  RowIsValid(Prepared(rows, s)[x])
<1> DEFINE S == {i \in DOMAIN rows : Identity(rows[i], s) = x}
           Last(i) == /\ Identity(rows[i], s) = x
                      /\ \A j \in i + 1..Len(rows) : Identity(rows[j], s) # x
<1>1. DOMAIN rows = 1..Len(rows) /\ Len(rows) \in Nat
  BY FeedsAreLists
<1>2. S # {} /\ S \in SUBSET (1..Len(rows))
  BY <1>1 DEF Prepared, Range
<1>3. PICK i \in S : \A j \in i + 1..Len(rows) : j \notin S
  <2> HIDE DEF S
  <2> QED
    BY <1>1, <1>2, LastOf
<1>4. i \in DOMAIN rows /\ Last(i)
  BY <1>1, <1>3
<1>5. Prepared(rows, s)[x] = rows[CHOOSE k \in DOMAIN rows : Last(k)]
  BY DEF Prepared
<1>6. Prepared(rows, s)[x] \in Range(rows)
  <2> HIDE DEF Last
  <2> QED
    BY <1>4, <1>5 DEF Range
<1> QED
  BY <1>6 DEF Rejected

LEMMA CommitTypes ==
    ASSUME IngestionInv, FeedTypeOK, NEW w \in Workers, Commit(w)
    PROVE  \A x \in Identities : Stored(x)' => RowIsValid(leads'[x].row) /\ leads'[x].scope \in Scopes
<1> SUFFICES ASSUME NEW x \in Identities, Stored(x)'
             PROVE  RowIsValid(leads'[x].row) /\ leads'[x].scope \in Scopes
  OBVIOUS
<1>1. leads'[x] = LeadAfter(w, x) /\ at[w] = "flushed"
  BY DEF Commit
<1>2. CASE x \in Named(w)
  <2>1. /\ batch[w].rows \in Feeds /\ batch[w].scope \in Scopes
        /\ ~Rejected(batch[w].rows, batch[w].scope)
    BY <1>1 DEF IngestionInv, BatchInv
  <2>2. leads'[x].row = Current(w)[x] /\ leads'[x].scope = batch[w].scope
    BY <1>1, <1>2 DEF LeadAfter
  <2> QED
    BY <1>2, <2>1, <2>2, CountingRowIsValid DEF Current, Named
<1>3. CASE x \notin Named(w)
  BY <1>1, <1>3 DEF LeadAfter, Stored, FeedTypeOK
<1> QED
  BY <1>2, <1>3

LEMMA StepTypes == IngestionInv /\ FeedTypeOK /\ [FeedNext]_feedVars => FeedTypeOK'
<1> SUFFICES ASSUME IngestionInv, FeedTypeOK, [FeedNext]_feedVars PROVE FeedTypeOK'
  OBVIOUS
<1>1. IngestionInv'
  BY StepInvariant
<1>2. drafts' \in [Identities -> Draft] /\ at' \in [Workers -> Stages]
  BY <1>1 DEF IngestionInv, TypeInv
<1>3. \A s \in Scopes : source'[s].rows \in Feeds /\ source'[s].version \in 0..MaxVersions
  <2>1. ASSUME NEW r \in Scopes, SourceChanges(r), NEW s \in Scopes
        PROVE  source'[s].rows \in Feeds /\ source'[s].version \in 0..MaxVersions
    <3>1. PICK f \in Feeds :
             source' = [source EXCEPT ![r] = [rows |-> f, version |-> @.version + 1]]
      BY <2>1 DEF SourceChanges
    <3>2. source[r].version \in 0..MaxVersions /\ source[r].version < MaxVersions
      BY <2>1 DEF SourceChanges, FeedTypeOK
    <3> QED
      BY <3>1, <3>2, BoundsAreNumbers DEF FeedTypeOK, IngestionInv, BatchInv
  <2>2. CASE UNCHANGED source
    BY <2>2 DEF FeedTypeOK
  <2>3. UNCHANGED source \/ \E r \in Scopes : SourceChanges(r)
    BY DEF FeedNext, Proceeds, DailySync, ManualSync, UploadCsv, Starts, EndsEarly, LockScope,
           SelectBegins, SelectEnds, Flush, FlushFails, Fails, Commit, DraftIsGenerated, feedVars
  <2> QED
    BY <2>1, <2>2, <2>3
<1>4. \A x \in Identities : Stored(x)' => RowIsValid(leads'[x].row) /\ leads'[x].scope \in Scopes
  <2>1. CASE \E w \in Workers : Commit(w)
    BY <2>1, CommitTypes
  <2>2. CASE ~\E w \in Workers : Commit(w)
    <3>1. UNCHANGED leads
      BY <2>2, OnlyTwoWrite DEF DraftIsGenerated
    <3> QED
      BY <3>1 DEF FeedTypeOK, Stored
  <2> QED
    BY <2>1, <2>2
<1>5. \A w \in Workers : known'[w] \subseteq Identities
  <2>1. ASSUME NEW w \in Workers, SelectBegins(w), NEW v \in Workers
        PROVE  known'[v] \subseteq Identities
    <3>1. at[w] = "locked" /\ known' = [known EXCEPT ![w] = {x \in Named(w) : Stored(x)}]
      BY <2>1 DEF SelectBegins, Moves
    <3>2. Named(w) \subseteq Identities
      BY <3>1, NamedAreIdentities DEF IngestionInv, BatchInv, Named
    <3> QED
      BY <3>1, <3>2 DEF FeedTypeOK, IngestionInv, TypeInv
  <2>2. ASSUME NEW w \in Workers, Ends(w), NEW v \in Workers
        PROVE  known'[v] \subseteq Identities
    BY <2>2 DEF Ends, FeedTypeOK, IngestionInv, TypeInv
  <2>3. CASE UNCHANGED known
    BY <2>3 DEF FeedTypeOK
  <2>4. \/ UNCHANGED known
        \/ \E w \in Workers : SelectBegins(w) \/ Ends(w)
    BY DEF FeedNext, Proceeds, SourceChanges, DailySync, ManualSync, UploadCsv, Starts, EndsEarly,
           LockScope, SelectEnds, Flush, FlushFails, Fails, Commit, DraftIsGenerated, feedVars
  <2> QED
    BY <2>1, <2>2, <2>3, <2>4
<1>6. manual' \in 0..MaxManual
  <2>1. UNCHANGED manual \/ (manual < MaxManual /\ manual' = manual + 1)
    BY DEF FeedNext, Proceeds, SourceChanges, DailySync, ManualSync, UploadCsv, Manually, EndsEarly,
           LockScope, SelectBegins, SelectEnds, Flush, FlushFails, Fails, Commit, DraftIsGenerated,
           feedVars
  <2> QED
    BY <2>1, BoundsAreNumbers DEF FeedTypeOK
<1> QED
  BY <1>2, <1>3, <1>4, <1>5, <1>6 DEF FeedTypeOK

(* Whatever feeds arrive, a lead that is stored has a valid row.           *)
THEOREM FeedTyping == FeedSpec => []FeedTypeOK
<1>1. FeedInit => FeedTypeOK
  BY BoundsAreNumbers DEF FeedInit, FeedTypeOK, Stages, Draft, Stored
<1> QED
  BY <1>1, Invariant, StepTypes, PTL DEF FeedSpec

(* Ingestion is safe, for any scopes, feeds and processes.                 *)
THEOREM Safe == FeedSpec => IngestionIsSafe
<1> QED
  BY FeedTyping, Refinement, DraftsFollow, Clash, DraftOnce, PTL DEF IngestionIsSafe
=============================================================================
