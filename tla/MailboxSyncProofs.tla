-------------------------- MODULE MailboxSyncProofs --------------------------
(***************************************************************************)
(* Proofs about MailboxSync, for any mailbox, workers and webhook calls.   *)
(*                                                                         *)
(* Types: a lease is held exactly by the worker that runs a pass, and a    *)
(* page is one its phase may have fetched.                                 *)
(*                                                                         *)
(* No row goes back: a version fetched under a lease is not older than any *)
(* stored before the lease was taken, and a worker that lost the lease     *)
(* stores nothing.                                                         *)
(*                                                                         *)
(* A rescan asked for in quiet is made: a scan under way began after the   *)
(* last such request, or a flag on its way says that it does not count.    *)
(*                                                                         *)
(* Nothing is skipped: to each change that no row shows leads a delta link *)
(* behind it, a scan that has not come to it, an unread row, or a          *)
(* notification under way or waiting.  What a worker has fetched and not   *)
(* yet stored is current, or the message is told of by a notification      *)
(* later than the one the worker works off; so storing it, and marking     *)
(* that one as done, leaves what leads to the change.                      *)
(***************************************************************************)
EXTENDS MailboxSync, WellFoundedInduction, TLAPS

-----------------------------------------------------------------------------
(* Workers: what one may be doing, and what a step makes of it.            *)

Asks       == [quiet: Nat, busy: Nat]
Pages      == [items: SUBSET Snapshots, next: Nat, last: BOOLEAN, base: Asks,
               full: BOOLEAN]
Works0     == [phase: Passes \cup {"idle", "finalize"}, page: Pages,
               todo: SUBSET Messages, note: 0..Size, noted: Nat, req: Nat,
               failed: BOOLEAN]
ScanPhases == {"sent_scan", "scan"}
FullPhases == {"subscribe", "sent_delta", "inbox_delta", "notified", "refreshing"}
                \cup ScanPhases

\* The page of a scan lists the message its link leads to, or nothing.
ScanLink(p) == /\ p.next \in 1..Size
               /\ p.last <=> p.next = Size
               /\ \A s \in p.items : s.m = p.next

GoodWork(r) ==
    /\ r \in Works0
    /\ \A s, t \in r.page.items : s = t
    /\ r.page.full => r.phase \in FullPhases
    /\ ~r.page.full => r.page = NoPage
    /\ r.page.full /\ r.phase \in ScanPhases => ScanLink(r.page)
    /\ r.phase = "notified" => /\ r.note \in Messages
                               /\ \A s \in r.page.items : s.m = r.note

LEMMA NoPageIsPage == NoPage \in Pages /\ NoPage.full = FALSE /\ NoPage.items = {}
BY DEF NoPage, NoAsk, Pages, Asks

LEMMA SizeFacts ==
    ASSUME MailboxSyncAssumption
    PROVE  Size \in Nat \ {0} /\ 0 \in 0..Size /\ Messages \subseteq 0..Size
BY DEF MailboxSyncAssumption, Messages

LEMMA NoWorkIsGood == ASSUME MailboxSyncAssumption PROVE GoodWork(NoWork)
<1>1. NoWork \in Works0
    BY NoPageIsPage, SizeFacts DEF NoWork, Works0
<1>2. QED
    BY <1>1, NoPageIsPage DEF NoWork, GoodWork

\* Goes, Raises, and the claims.
LEMMA GoingIsGood ==
    ASSUME MailboxSyncAssumption, NEW r, GoodWork(r)
    PROVE  /\ \A p \in (Passes \cup {"finalize"}) \ {"notified"} :
                GoodWork([r EXCEPT !.phase = p, !.page = NoPage])
           /\ GoodWork([r EXCEPT !.phase = "finalize", !.page = NoPage, !.note = 0,
                                 !.failed = TRUE])
           /\ GoodWork([r EXCEPT !.phase = "notify", !.page = NoPage, !.note = 0,
                                 !.noted = 0])
           /\ \A todo \in SUBSET Messages :
                r.phase = "refresh" => GoodWork([r EXCEPT !.phase = "refreshing", !.todo = todo])
           /\ \A m \in Messages, n \in Nat :
                r.phase = "notify" =>
                  GoodWork([r EXCEPT !.phase = "notified", !.note = m, !.noted = n])
<1>1. \A p \in (Passes \cup {"finalize"}) \ {"notified"} :
         GoodWork([r EXCEPT !.phase = p, !.page = NoPage])
    BY NoPageIsPage DEF GoodWork, Works0
<1>2. GoodWork([r EXCEPT !.phase = "finalize", !.page = NoPage, !.note = 0,
                         !.failed = TRUE])
    BY NoPageIsPage, SizeFacts DEF GoodWork, Works0
<1>3. GoodWork([r EXCEPT !.phase = "notify", !.page = NoPage, !.note = 0, !.noted = 0])
    BY NoPageIsPage, SizeFacts DEF GoodWork, Works0, Passes
<1>4. \A todo \in SUBSET Messages :
        r.phase = "refresh" => GoodWork([r EXCEPT !.phase = "refreshing", !.todo = todo])
    BY DEF GoodWork, Works0, Passes, FullPhases, ScanPhases
<1>5. \A m \in Messages, n \in Nat :
        r.phase = "notify" =>
          GoodWork([r EXCEPT !.phase = "notified", !.note = m, !.noted = n])
    BY NoPageIsPage, SizeFacts DEF GoodWork, Works0, Passes, FullPhases, ScanPhases
<1>6. QED
    BY <1>1, <1>2, <1>3, <1>4, <1>5

\* Fetched, with a page that suits the phase.
LEMMA FetchingIsGood ==
    ASSUME NEW r, GoodWork(r), NEW p \in Pages, p.full, \A s, t \in p.items : s = t,
           r.phase \in FullPhases, r.phase \in ScanPhases => ScanLink(p),
           r.phase = "notified" => \A s \in p.items : s.m = r.note
    PROVE  GoodWork([r EXCEPT !.page = p])
BY DEF GoodWork, Works0

\* StoreUnread.
LEMMA RefreshingIsGood ==
    ASSUME NEW r, GoodWork(r), NEW ms, r.phase = "refreshing"
    PROVE  GoodWork([r EXCEPT !.page = NoPage, !.todo = @ \ ms])
BY NoPageIsPage DEF GoodWork, Works0, ScanPhases, FullPhases

-----------------------------------------------------------------------------
(* Types.                                                                  *)

MailRows  == [folder: Folders \cup {"none", "other", "gone"}, read: BOOLEAN, at: Nat]
Owners    == Workers \cup {Null, "dead"}
StateRows == [status: {"initializing", "idle", "running", "error"},
              owner: Owners, sub: Nat, soon: BOOLEAN, inbox: Nat, sentitems: Nat,
              scan: 0..(Size - 1), sentScan: 0..(Size - 1), sentDone: BOOLEAN,
              force: BOOLEAN, next: {"now", "later"}, requested: Nat]
NoteRows  == [req: Nat, done: Nat, by: Owners]
MailKinds == {"none", "sent", "read", "unread", "removed"}
Events    == [kind: EventKinds, m: 0..Size, sub: Nat]
HookCalls == [event: Events, at: Nat, read: SUBSET Resets, quiet: BOOLEAN]

GraphInv ==
    /\ clock \in Nat \ {0} /\ graphSub \in Nat /\ lastSub \in Nat /\ graphSub <= lastSub
    /\ mail \in [Messages -> MailRows]
    /\ touched \in [Folders -> [Messages -> Nat]]
    /\ faults \in 0..MaxFaults
    /\ \A e \in channel : e \in Events /\ e.sub \in 1..lastSub

WorkersInv == /\ worker \in [Workers -> Works0]
              /\ \A w \in Workers : GoodWork(worker[w])

LeaseInv == state.status = "running" <=> state.owner # Null

TypeInv ==
    /\ GraphInv /\ WorkersInv /\ LeaseInv
    /\ state \in StateRows
    /\ note \in [Messages -> NoteRows]
    /\ row \in [Messages -> [at: Nat, kind: MailKinds]]
    /\ hook \in [Hooks -> HookCalls]
    /\ asked \in Asks /\ begun \in Asks /\ served \in Asks

LEMMA TypesFollow == ASSUME MailboxSyncAssumption, TypeInv PROVE TypeOK
<1>1. state \in StateRows /\ LeaseInv /\ GraphInv
    BY DEF TypeInv
<1>2. \A w \in Workers : /\ worker[w].phase \in Passes \cup {"idle", "finalize"}
                         /\ worker[w].page.items \subseteq Snapshots
                         /\ worker[w].todo \subseteq Messages
    BY DEF TypeInv, WorkersInv, GoodWork, Works0, Pages
<1>3. \A e \in channel : e.m \in 0..Size /\ e.sub \in 1..lastSub
    BY <1>1 DEF GraphInv, Events
<1>4. note \in [Messages -> [req: Nat, done: Nat, by: Owners]]
    BY DEF TypeInv, NoteRows
<1>5. row \in [Messages -> [at: Nat, kind: MailKinds]]
    BY DEF TypeInv
<1>6. hook \in [Hooks -> [event: Events, at: Nat, read: SUBSET Resets, quiet: BOOLEAN]]
    BY DEF TypeInv, HookCalls
<1>7. QED
    BY <1>1, <1>2, <1>3, <1>4, <1>5, <1>6
    DEF TypeOK, GraphInv, MailRows, StateRows, LeaseInv, Owners, MailKinds, Events

LEMMA InitTypes == ASSUME MailboxSyncAssumption, Init PROVE TypeInv
<1>1. GraphInv
    <2>1. mail \in [Messages -> MailRows]
        <3>1. /\ [folder |-> "none", read |-> FALSE, at |-> 0] \in MailRows
              /\ [folder |-> "other", read |-> TRUE, at |-> 1] \in MailRows
            BY DEF MailRows
        <3>2. QED
            BY <3>1 DEF Init
    <2>2. touched \in [Folders -> [Messages -> Nat]]
        BY DEF Init
    <2>3. QED
        BY <2>1, <2>2 DEF MailboxSyncAssumption, Init, GraphInv
<1>2. WorkersInv
    BY NoWorkIsGood DEF Init, WorkersInv, GoodWork
<1>3. LeaseInv /\ state \in StateRows
    BY DEF MailboxSyncAssumption, Init, LeaseInv, StateRows, Owners
<1>4. note \in [Messages -> NoteRows] /\ row \in [Messages -> [at: Nat, kind: MailKinds]]
    BY DEF Init, NoteRows, Owners, MailKinds
<1>5. NoCall \in HookCalls
    BY DEF MailboxSyncAssumption, HookCalls, NoCall, NoEvent, Events, EventKinds
<1>6. hook \in [Hooks -> HookCalls] /\ asked \in Asks /\ begun \in Asks /\ served \in Asks
    BY <1>5 DEF Init, NoAsk, Asks
<1>7. QED
    BY <1>1, <1>2, <1>3, <1>4, <1>6 DEF TypeInv

-----------------------------------------------------------------------------
(* The steps that change a variable.                                       *)

LEMMA GraphFrame ==
    ASSUME [Next]_vars
    PROVE  \/ UNCHANGED <<clock, graph, channel, faults>>
           \/ \E m \in Messages : Change(m)
           \/ SubscriptionEnds \/ Expiring
           \/ \E h \in Hooks : Receive(h)
           \/ \E w \in Workers :
                \/ RecoverStale(w) \/ Crash(w) \/ RequestFails(w) \/ Subscribe(w)
                \/ \E f \in Folders : DeltaExpired(w, f)
<1>1. CASE \E w \in Workers : Works(w)
    <2>1. PICK w \in Workers : Works(w)
        BY <1>1
    <2>2. CASE \/ ClaimMailbox(w) \/ LeaseLost(w) \/ PersistSubscription(w)
               \/ FetchSentScan(w) \/ StoreSentScan(w) \/ FetchScan(w) \/ StoreScan(w)
               \/ \E f \in Folders : FetchDelta(w, f) \/ StoreDelta(w, f)
        BY <2>2 DEF ClaimMailbox, LeaseLost, PersistSubscription, FetchSentScan,
               StoreSentScan, FetchScan, StoreScan, FetchDelta, StoreDelta
    <2>3. CASE \/ ClaimNotification(w) \/ FetchNotified(w) \/ StoreNotified(w)
               \/ ListUnread(w) \/ FetchUnread(w) \/ StoreUnread(w)
               \/ Reconcile(w) \/ Finalize(w)
        BY <2>3 DEF ClaimNotification, FetchNotified, StoreNotified, ListUnread,
               FetchUnread, StoreUnread, Reconcile, Finalize
    <2>4. QED
        BY <2>1, <2>2, <2>3 DEF Works
<1>2. CASE ~\E w \in Workers : Works(w)
    BY <1>2 DEF Next, vars, graph, TimePasses, Record
<1>3. QED
    BY <1>1, <1>2

LEMMA StateFrame ==
    ASSUME [Next]_vars
    PROVE  \/ UNCHANGED state
           \/ Expiring \/ TimePasses
           \/ \E h \in Hooks : Record(h)
           \/ \E w \in Workers :
                \/ RecoverStale(w) \/ ClaimMailbox(w) \/ Finalize(w) \/ Crash(w)
                \/ PersistSubscription(w) \/ StoreSentScan(w) \/ StoreScan(w)
                \/ \E f \in Folders : StoreDelta(w, f) \/ DeltaExpired(w, f)
<1>1. CASE \E w \in Workers : Works(w)
    <2>1. PICK w \in Workers : Works(w)
        BY <1>1
    <2>2. CASE \/ LeaseLost(w) \/ Subscribe(w) \/ FetchSentScan(w)
               \/ FetchScan(w)
               \/ \E f \in Folders : FetchDelta(w, f)
        BY <2>2 DEF LeaseLost, Subscribe, FetchSentScan, FetchScan, FetchDelta
    <2>3. CASE \/ ClaimNotification(w) \/ FetchNotified(w)
               \/ StoreNotified(w) \/ ListUnread(w) \/ FetchUnread(w)
               \/ StoreUnread(w) \/ Reconcile(w)
        BY <2>3 DEF ClaimNotification, FetchNotified, StoreNotified, ListUnread,
               FetchUnread, StoreUnread, Reconcile
    <2>4. QED
        BY <2>1, <2>2, <2>3 DEF Works
<1>2. CASE ~\E w \in Workers : Works(w)
    BY <1>2 DEF Next, vars, Change, SubscriptionEnds, Receive, RequestFails
<1>3. QED
    BY <1>1, <1>2

LEMMA NoteFrame ==
    ASSUME [Next]_vars
    PROVE  \/ UNCHANGED note
           \/ \E h \in Hooks : Record(h)
           \/ \E w \in Workers :
                \/ RecoverStale(w) \/ Finalize(w) \/ Crash(w) \/ RequestFails(w)
                \/ ClaimNotification(w) \/ StoreNotified(w)
<1>1. CASE \E w \in Workers : Works(w)
    <2>1. PICK w \in Workers : Works(w)
        BY <1>1
    <2>2. CASE \/ ClaimMailbox(w) \/ LeaseLost(w) \/ Subscribe(w)
               \/ PersistSubscription(w) \/ FetchSentScan(w)
               \/ StoreSentScan(w) \/ FetchScan(w) \/ StoreScan(w)
               \/ \E f \in Folders : FetchDelta(w, f) \/ StoreDelta(w, f)
        BY <2>2 DEF ClaimMailbox, LeaseLost, Subscribe, PersistSubscription,
               FetchSentScan, StoreSentScan, FetchScan, StoreScan, FetchDelta,
               StoreDelta
    <2>3. CASE \/ FetchNotified(w) \/ ListUnread(w) \/ FetchUnread(w)
               \/ StoreUnread(w) \/ Reconcile(w)
        BY <2>3 DEF FetchNotified, ListUnread, FetchUnread, StoreUnread, Reconcile
    <2>4. QED
        BY <2>1, <2>2, <2>3 DEF Works
<1>2. CASE ~\E w \in Workers : Works(w)
    BY <1>2 DEF Next, vars, Change, SubscriptionEnds, Expiring, TimePasses,
           Receive, DeltaExpired
<1>3. QED
    BY <1>1, <1>2

\* Every row the database holds was stored by the worker that has the mailbox.
LEMMA RowFrame ==
    ASSUME [Next]_vars
    PROVE  \/ UNCHANGED row
           \/ \E w \in Workers :
                \/ StoreSentScan(w) \/ StoreScan(w) \/ StoreNotified(w) \/ StoreUnread(w)
                \/ \E f \in Folders : StoreDelta(w, f)
<1>1. CASE \E w \in Workers : Works(w)
    <2>1. PICK w \in Workers : Works(w)
        BY <1>1
    <2>2. CASE \/ ClaimMailbox(w) \/ LeaseLost(w) \/ Subscribe(w)
               \/ PersistSubscription(w) \/ FetchSentScan(w) \/ FetchScan(w)
               \/ \E f \in Folders : FetchDelta(w, f)
        BY <2>2 DEF ClaimMailbox, LeaseLost, Subscribe, PersistSubscription,
               FetchSentScan, FetchScan, FetchDelta
    <2>3. CASE \/ ClaimNotification(w) \/ FetchNotified(w) \/ ListUnread(w)
               \/ FetchUnread(w) \/ Reconcile(w) \/ Finalize(w)
        BY <2>3 DEF ClaimNotification, FetchNotified, ListUnread, FetchUnread,
               Reconcile, Finalize
    <2>4. QED
        BY <2>1, <2>2, <2>3 DEF Works
<1>2. CASE ~\E w \in Workers : Works(w)
    BY <1>2 DEF Next, vars, Change, SubscriptionEnds, Expiring, TimePasses,
           Receive, Record, RecoverStale, Crash, RequestFails, DeltaExpired
<1>3. QED
    BY <1>1, <1>2

LEMMA HookFrame ==
    ASSUME [Next]_vars
    PROVE  \/ UNCHANGED hook
           \/ \E h \in Hooks : Receive(h) \/ Record(h)
           \/ \E w \in Workers : ClaimMailbox(w)
<1>1. CASE \E w \in Workers : Works(w)
    <2>1. PICK w \in Workers : Works(w)
        BY <1>1
    <2>2. CASE \/ LeaseLost(w) \/ Subscribe(w) \/ PersistSubscription(w)
               \/ FetchSentScan(w) \/ StoreSentScan(w) \/ FetchScan(w)
               \/ StoreScan(w)
               \/ \E f \in Folders : FetchDelta(w, f) \/ StoreDelta(w, f)
        BY <2>2 DEF LeaseLost, Subscribe, PersistSubscription, FetchSentScan,
               StoreSentScan, FetchScan, StoreScan, FetchDelta, StoreDelta
    <2>3. CASE \/ ClaimNotification(w) \/ FetchNotified(w)
               \/ StoreNotified(w) \/ ListUnread(w) \/ FetchUnread(w)
               \/ StoreUnread(w) \/ Reconcile(w) \/ Finalize(w)
        BY <2>3 DEF ClaimNotification, FetchNotified, StoreNotified, ListUnread,
               FetchUnread, StoreUnread, Reconcile, Finalize
    <2>4. QED
        BY <2>1, <2>2, <2>3 DEF Works
<1>2. CASE ~\E w \in Workers : Works(w)
    BY <1>2 DEF Next, vars, Change, SubscriptionEnds, Expiring, TimePasses,
           RecoverStale, Crash, RequestFails, DeltaExpired
<1>3. QED
    BY <1>1, <1>2

LEMMA HistoryFrame ==
    ASSUME [Next]_vars
    PROVE  \/ UNCHANGED history
           \/ \E h \in Hooks : Record(h)
           \/ \E w \in Workers : \/ RecoverStale(w) \/ StoreScan(w)
                                 \/ \E f \in Folders : DeltaExpired(w, f)
<1>1. CASE \E w \in Workers : Works(w)
    <2>1. PICK w \in Workers : Works(w)
        BY <1>1
    <2>2. CASE \/ ClaimMailbox(w) \/ LeaseLost(w) \/ Subscribe(w)
               \/ PersistSubscription(w) \/ FetchSentScan(w)
               \/ StoreSentScan(w) \/ FetchScan(w)
               \/ \E f \in Folders : FetchDelta(w, f) \/ StoreDelta(w, f)
        BY <2>2 DEF ClaimMailbox, LeaseLost, Subscribe, PersistSubscription,
               FetchSentScan, StoreSentScan, FetchScan, FetchDelta, StoreDelta
    <2>3. CASE \/ ClaimNotification(w) \/ FetchNotified(w)
               \/ StoreNotified(w) \/ ListUnread(w) \/ FetchUnread(w)
               \/ StoreUnread(w) \/ Reconcile(w) \/ Finalize(w)
        BY <2>3 DEF ClaimNotification, FetchNotified, StoreNotified, ListUnread,
               FetchUnread, StoreUnread, Reconcile, Finalize
    <2>4. QED
        BY <2>1, <2>2, <2>3 DEF Works
<1>2. CASE ~\E w \in Workers : Works(w)
    BY <1>2 DEF Next, vars, history, Change, SubscriptionEnds, Expiring,
           TimePasses, Receive, Crash, RequestFails
<1>3. QED
    BY <1>1, <1>2

LEMMA WorkerFrame ==
    ASSUME [Next]_vars
    PROVE  \/ UNCHANGED worker
           \/ \E w \in Workers : Works(w) \/ Crash(w) \/ RequestFails(w)
                                 \/ \E f \in Folders : DeltaExpired(w, f)
BY DEF Next, vars, Change, SubscriptionEnds, Expiring, TimePasses, Receive, Record,
       RecoverStale

-----------------------------------------------------------------------------
(* Numbers.                                                                *)

LEMMA Least ==
    ASSUME NEW T \in SUBSET Nat, T # {}
    PROVE  \E x \in T : \A y \in T : x <= y
<1>1. PICK x \in T : \A y \in T : ~ (<<y, x>> \in OpToRel(<, Nat))
    BY NatLessThanWellFounded, WFMin
<1>2. \A y \in T : ~ (y < x)
    BY <1>1 DEF OpToRel
<1>3. QED
    BY <1>2

LEMMA OldestBehind ==
    ASSUME GraphInv, NEW f \in Folders, Behind(f) # {}
    PROVE  LET m == CHOOSE m \in Behind(f) :
                       \A n \in Behind(f) : touched[f][m] <= touched[f][n]
           IN  m \in Behind(f) /\ \A n \in Behind(f) : touched[f][m] <= touched[f][n]
<1>1. \A n \in Messages : touched[f][n] \in Nat
    BY DEF GraphInv
<1>2. Behind(f) \subseteq Messages
    BY DEF Behind
<1>3. PICK x \in {touched[f][n] : n \in Behind(f)} :
            \A y \in {touched[f][n] : n \in Behind(f)} : x <= y
    BY <1>1, <1>2, Least
<1>4. QED
    BY <1>3

-----------------------------------------------------------------------------
(* Type correctness.                                                       *)

LEMMA BecomesTyped ==
    ASSUME GraphInv, NEW m \in Messages, NEW new \in MayBecome(m)
    PROVE  /\ new.folder \in Folders \cup {"other", "gone"} /\ new.read \in BOOLEAN
           /\ mail[m].folder # "gone"
<1>1. mail[m].folder \in Folders \cup {"none", "other", "gone"} /\ mail[m].read \in BOOLEAN
    BY DEF GraphInv, MailRows
<1>2. mail[m].folder # "gone"
    BY DEF MayBecome
<1>3. PICK f \in Folders \cup {"other", "gone"}, r \in BOOLEAN :
        new = [folder |-> f, read |-> r]
    <2>1. CASE mail[m].folder = "none"
        <3>1. (m \in Sent) \in BOOLEAN
            OBVIOUS
        <3>2. \/ \E f \in Folders : new = [folder |-> f, read |-> m \in Sent]
              \/ new = [folder |-> "other", read |-> FALSE]
            <4>1. CASE m \in Sent
                BY <2>1, <4>1 DEF MayBecome, Folders
            <4>2. CASE m \notin Sent
                BY <2>1, <4>2 DEF MayBecome, Folders
            <4>3. QED
                BY <4>1, <4>2
        <3>3. QED
            BY <3>1, <3>2
    <2>2. CASE mail[m].folder # "none"
        <3>1. PICK f \in Folders \cup {"other", "gone", mail[m].folder}, r \in {mail[m].read, ~mail[m].read} :
                new = [folder |-> f, read |-> r]
            BY <1>2, <2>2 DEF MayBecome, Folders
        <3>2. f \in Folders \cup {"other", "gone"} /\ r \in BOOLEAN
            BY <1>1, <1>2, <2>2, <3>1
        <3>3. QED
            BY <3>1, <3>2
    <2>3. QED
        BY <2>1, <2>2
<1>4. QED
    BY <1>2, <1>3

LEMMA GraphStep ==
    ASSUME MailboxSyncAssumption, TypeInv, [Next]_vars
    PROVE  GraphInv'
<1>1. GraphInv
    BY DEF TypeInv
<1>2. \A k : Fault(k) => faults' \in 0..MaxFaults
    BY <1>1 DEF Fault, GraphInv, MailboxSyncAssumption
<1>3. CASE UNCHANGED <<clock, graph, channel, faults>>
    BY <1>1, <1>3 DEF GraphInv, graph
<1>4. ASSUME NEW m \in Messages, Change(m) PROVE GraphInv'
    <2>1. PICK new \in MayBecome(m) :
            /\ mail' = [mail EXCEPT ![m] = [folder |-> new.folder, read |-> new.read,
                                            at |-> clock + 1]]
            /\ touched' = [f \in Folders |->
                             IF f \in {mail[m].folder, new.folder}
                             THEN [touched[f] EXCEPT ![m] = clock + 1]
                             ELSE touched[f]]
        BY <1>4 DEF Change
    <2>2. [folder |-> new.folder, read |-> new.read, at |-> clock + 1] \in MailRows
        BY <1>1, <2>1, BecomesTyped DEF GraphInv, MailRows
    <2>3. mail' \in [Messages -> MailRows] /\ touched' \in [Folders -> [Messages -> Nat]]
        BY <1>1, <2>1, <2>2 DEF GraphInv
    <2>4. [kind |-> "changed", m |-> m, sub |-> graphSub] \in Events
        BY <1>1, SizeFacts DEF GraphInv, Events, EventKinds
    <2>5. [kind |-> "missed", m |-> 0, sub |-> graphSub] \in Events
        BY <1>1, SizeFacts DEF GraphInv, Events, EventKinds
    <2>6. /\ clock' = clock + 1 /\ UNCHANGED <<graphSub, lastSub>>
          /\ faults' \in 0..MaxFaults
          /\ \/ channel' = channel
             \/ graphSub # 0 /\ channel' = channel \cup {[kind |-> "changed", m |-> m, sub |-> graphSub]}
             \/ graphSub # 0 /\ channel' = channel \cup {[kind |-> "missed", m |-> 0, sub |-> graphSub]}
        BY <1>1, <1>2, <1>4 DEF Change, GraphInv
    <2>7. QED
        BY <1>1, <2>3, <2>4, <2>5, <2>6 DEF GraphInv
<1>5. CASE SubscriptionEnds
    <2>1. [kind |-> "subscriptionRemoved", m |-> 0, sub |-> graphSub] \in Events
        BY <1>1, SizeFacts DEF GraphInv, Events, EventKinds
    <2>2. QED
        BY <1>1, <1>2, <1>5, <2>1 DEF SubscriptionEnds, GraphInv
<1>6. CASE Expiring
    <2>1. [kind |-> "reauthorizationRequired", m |-> 0, sub |-> graphSub] \in Events
        BY <1>1, SizeFacts DEF GraphInv, Events, EventKinds
    <2>2. QED
        BY <1>1, <1>2, <1>6, <2>1 DEF Expiring, GraphInv, graph
<1>7. ASSUME NEW h \in Hooks, Receive(h) PROVE GraphInv'
    BY <1>1, <1>2, <1>7 DEF Receive, GraphInv, graph
<1>8. ASSUME NEW w \in Workers, \/ RecoverStale(w) \/ Crash(w) \/ RequestFails(w)
                                \/ \E f \in Folders : DeltaExpired(w, f)
      PROVE  GraphInv'
    <2>1. UNCHANGED <<clock, graph, channel>> /\ faults' \in 0..MaxFaults
        BY <1>1, <1>2, <1>8 DEF RecoverStale, Crash, RequestFails, DeltaExpired, GraphInv
    <2>2. QED
        BY <1>1, <2>1 DEF GraphInv, graph
<1>9. ASSUME NEW w \in Workers, Subscribe(w) PROVE GraphInv'
    BY <1>1, <1>2, <1>9 DEF Subscribe, GraphInv
<1>10. QED
    BY <1>3, <1>4, <1>5, <1>6, <1>7, <1>8, <1>9, GraphFrame

\* The rows the webhook and the leases write.
LEMMA ResetTyped ==
    ASSUME MailboxSyncAssumption, NEW st \in StateRows, NEW cols
    PROVE  /\ ResetColumns(st, cols) \in StateRows
           /\ ResetColumns(st, cols).status = st.status
           /\ ResetColumns(st, cols).owner = st.owner
<1>1. 0 \in 0..(Size - 1)
    BY SizeFacts
<1>2. PICK force \in BOOLEAN, scan \in 0..(Size - 1), sentScan \in 0..(Size - 1),
          sentDone \in BOOLEAN :
        ResetColumns(st, cols) =
          [st EXCEPT !.force = force, !.scan = scan, !.sentScan = sentScan,
                     !.sentDone = sentDone]
    <2>1. /\ (st.force \/ "force" \in cols) \in BOOLEAN
          /\ (IF "scan" \in cols THEN 0 ELSE st.scan) \in 0..(Size - 1)
          /\ (IF "sentScan" \in cols THEN 0 ELSE st.sentScan) \in 0..(Size - 1)
          /\ (st.sentDone /\ "sentDone" \notin cols) \in BOOLEAN
        BY <1>1 DEF StateRows
    <2>2. QED
        BY <2>1, Zenon DEF ResetColumns
<1>3. QED
    BY <1>2 DEF StateRows

LEMMA SignalledTyped ==
    ASSUME MailboxSyncAssumption, NEW st \in StateRows, NEW c \in HookCalls
    PROVE  /\ Signalled(st, c) \in StateRows
           /\ Signalled(st, c).status = st.status /\ Signalled(st, c).owner = st.owner
<1>1. \A cols \in SUBSET Resets :
        /\ ResetColumns(st, cols) \in StateRows
        /\ ResetColumns(st, cols).status = st.status
        /\ ResetColumns(st, cols).owner = st.owner
    BY ResetTyped
<1>2. PICK asking : asking = IF WantsRescan(c.event) THEN ResetColumns(st, c.read) ELSE st
    OBVIOUS
<1>3. asking \in StateRows /\ asking.status = st.status /\ asking.owner = st.owner
    BY <1>1, <1>2 DEF HookCalls
<1>4. c.at \in Nat
    BY DEF HookCalls
<1>5. QED
    BY <1>2, <1>3, <1>4 DEF Signalled, StateRows

LEMMA NextLinkTyped ==
    ASSUME MailboxSyncAssumption, NEW p, ScanLink(p)
    PROVE  NextLink(p) \in 0..(Size - 1)
BY SizeFacts DEF ScanLink, NextLink

LEMMA StateStep ==
    ASSUME MailboxSyncAssumption, TypeInv, [Next]_vars
    PROVE  state' \in StateRows /\ LeaseInv'
<1>1. state \in StateRows /\ LeaseInv /\ WorkersInv
    BY DEF TypeInv
<1>2. \A w \in Workers : w # Null /\ w \in Owners
    BY DEF MailboxSyncAssumption, Owners
<1>3. "dead" # Null /\ "dead" \in Owners /\ Null \in Owners
    BY DEF MailboxSyncAssumption, Owners
<1>4. CASE UNCHANGED state
    BY <1>1, <1>4 DEF LeaseInv
<1>5. CASE Expiring \/ TimePasses
    BY <1>1, <1>5 DEF Expiring, TimePasses, StateRows, LeaseInv
<1>6. ASSUME NEW h \in Hooks, Record(h) PROVE state' \in StateRows /\ LeaseInv'
    <2>1. hook[h] \in HookCalls /\ state' = Signalled(state, hook[h])
        BY <1>6 DEF TypeInv, Record
    <2>2. QED
        BY <1>1, <2>1, SignalledTyped DEF LeaseInv
<1>7. ASSUME NEW w \in Workers, RecoverStale(w) PROVE state' \in StateRows /\ LeaseInv'
    <2>1. \/ state' = state
          \/ state' = [FromScratch(state) EXCEPT !.status = "error", !.owner = Null,
                                                 !.next = "now"]
        BY <1>7 DEF RecoverStale
    <2>2. FromScratch(state) \in StateRows
        BY <1>1, ResetTyped DEF FromScratch
    <2>3. QED
        BY <1>1, <1>3, <2>1, <2>2 DEF StateRows, LeaseInv
<1>8. ASSUME NEW w \in Workers, ClaimMailbox(w) PROVE state' \in StateRows /\ LeaseInv'
    BY <1>1, <1>2, <1>8 DEF ClaimMailbox, StateRows, LeaseInv
<1>9. ASSUME NEW w \in Workers, Finalize(w) PROVE state' \in StateRows /\ LeaseInv'
    <2>1. \/ state' = state
          \/ \E st \in {"error", "idle"}, n \in {"now", "later"} :
               state' = [state EXCEPT !.status = st, !.owner = Null, !.next = n]
        BY <1>9, Zenon DEF Finalize
    <2>2. QED
        BY <1>1, <1>3, <2>1 DEF StateRows, LeaseInv
<1>10. ASSUME NEW w \in Workers, Crash(w) PROVE state' \in StateRows /\ LeaseInv'
    BY <1>1, <1>3, <1>10 DEF Crash, Holds, StateRows, LeaseInv
<1>11. ASSUME NEW w \in Workers, PersistSubscription(w)
       PROVE  state' \in StateRows /\ LeaseInv'
    <2>1. worker[w].page.next \in Nat
        BY <1>1 DEF WorkersInv, GoodWork, Works0, Pages
    <2>2. QED
        BY <1>1, <1>11, <2>1 DEF PersistSubscription, StateRows, LeaseInv
<1>12. ASSUME NEW w \in Workers, StoreSentScan(w) \/ StoreScan(w)
       PROVE  state' \in StateRows /\ LeaseInv'
    <2>1. NextLink(worker[w].page) \in 0..(Size - 1) /\ worker[w].page.last \in BOOLEAN
        BY <1>1, <1>12, NextLinkTyped
        DEF StoreSentScan, StoreScan, Storing, WorkersInv, GoodWork, ScanPhases, Works0, Pages
    <2>2. \/ state' = [state EXCEPT !.sentScan = NextLink(worker[w].page),
                                    !.sentDone = worker[w].page.last]
          \/ state' = [state EXCEPT !.scan = NextLink(worker[w].page),
                                    !.force = @ /\ ~worker[w].page.last]
        BY <1>12 DEF StoreSentScan, StoreScan
    <2>3. (state.force /\ ~worker[w].page.last) \in BOOLEAN
        OBVIOUS
    <2>4. QED
        BY <1>1, <2>1, <2>2, <2>3 DEF StateRows, LeaseInv
<1>13. ASSUME NEW w \in Workers, NEW f \in Folders, StoreDelta(w, f)
       PROVE  state' \in StateRows /\ LeaseInv'
    <2>1. worker[w].page.next \in Nat
        BY <1>1 DEF WorkersInv, GoodWork, Works0, Pages
    <2>2. state' = [state EXCEPT ![f] = worker[w].page.next] /\ f \in {"inbox", "sentitems"}
        BY <1>13 DEF StoreDelta, Folders
    <2>3. QED
        BY <1>1, <2>1, <2>2 DEF StateRows, LeaseInv
<1>14. ASSUME NEW w \in Workers, NEW f \in Folders, DeltaExpired(w, f)
       PROVE  state' \in StateRows /\ LeaseInv'
    <2>1. state' = state \/ state' = [FromScratch(state) EXCEPT ![f] = 0]
        BY <1>14 DEF DeltaExpired
    <2>2. /\ FromScratch(state) \in StateRows /\ FromScratch(state).status = state.status
          /\ FromScratch(state).owner = state.owner
        BY <1>1, ResetTyped DEF FromScratch
    <2>3. f \in {"inbox", "sentitems"}
        BY DEF Folders
    <2>4. QED
        BY <1>1, <2>1, <2>2, <2>3 DEF StateRows, LeaseInv
<1>15. QED
    BY <1>4, <1>5, <1>6, <1>7, <1>8, <1>9, <1>10, <1>11, <1>12, <1>13, <1>14, StateFrame

LEMMA NoteStep ==
    ASSUME MailboxSyncAssumption, TypeInv, [Next]_vars
    PROVE  note' \in [Messages -> NoteRows]
<1>1. note \in [Messages -> NoteRows]
    BY DEF TypeInv
<1>2. Null \in Owners /\ "dead" \in Owners /\ Workers \subseteq Owners
    BY DEF Owners
<1>3. \A ms : ReleaseNotes(ms) \in [Messages -> NoteRows]
    BY <1>1, <1>2 DEF ReleaseNotes, NoteRows
<1>4. ASSUME NEW h \in Hooks, Record(h) PROVE note' \in [Messages -> NoteRows]
    <2>1. hook[h].at \in Nat
        BY DEF TypeInv, HookCalls
    <2>2. note' = note \/ note' = [note EXCEPT ![hook[h].event.m].req = hook[h].at]
        BY <1>4 DEF Record
    <2>3. QED
        BY <1>1, <2>1, <2>2 DEF NoteRows
<1>5. ASSUME NEW w \in Workers, RecoverStale(w) \/ Finalize(w)
      PROVE  note' \in [Messages -> NoteRows]
    BY <1>1, <1>3, <1>5 DEF RecoverStale, Finalize
<1>6. ASSUME NEW w \in Workers, Crash(w) PROVE note' \in [Messages -> NoteRows]
    BY <1>1, <1>2, <1>6 DEF Crash, NoteRows
<1>7. ASSUME NEW w \in Workers, RequestFails(w) \/ ClaimNotification(w)
      PROVE  note' \in [Messages -> NoteRows]
    <2>1. \/ note' = note
          \/ \E m, o : o \in Owners /\ note' = [note EXCEPT ![m].by = o]
        BY <1>2, <1>7 DEF RequestFails, ClaimNotification
    <2>2. QED
        BY <1>1, <2>1 DEF NoteRows
<1>8. ASSUME NEW w \in Workers, StoreNotified(w) PROVE note' \in [Messages -> NoteRows]
    <2>1. worker[w].noted \in Nat
        BY DEF TypeInv, WorkersInv, GoodWork, Works0
    <2>2. \/ note' = note
          \/ note' = [note EXCEPT ![worker[w].note].done = worker[w].noted,
                                  ![worker[w].note].by = Null]
        BY <1>8 DEF StoreNotified, ProcessedAt
    <2>3. QED
        BY <1>1, <1>2, <2>1, <2>2 DEF NoteRows
<1>9. QED
    BY <1>1, <1>4, <1>5, <1>6, <1>7, <1>8, NoteFrame

LEMMA StoredTyped ==
    ASSUME row \in [Messages -> [at: Nat, kind: MailKinds]], NEW items \in SUBSET Snapshots
    PROVE  Stored(items) \in [Messages -> [at: Nat, kind: MailKinds]]
BY DEF Stored, Snapshots, MailKinds

LEMMA StoresPage ==
    ASSUME TypeInv, NEW w \in Workers,
           \/ StoreSentScan(w) \/ StoreScan(w) \/ StoreNotified(w) \/ StoreUnread(w)
           \/ \E f \in Folders : StoreDelta(w, f)
    PROVE  /\ Holds(w) /\ worker[w].page.full
           /\ \/ row' = Stored(worker[w].page.items)
              \/ StoreNotified(w) /\ row' = row
BY DEF StoreSentScan, StoreScan, StoreNotified, StoreUnread, StoreDelta, Storing

LEMMA RowStep ==
    ASSUME MailboxSyncAssumption, TypeInv, [Next]_vars
    PROVE  row' \in [Messages -> [at: Nat, kind: MailKinds]]
<1>1. row \in [Messages -> [at: Nat, kind: MailKinds]]
    BY DEF TypeInv
<1>2. \A w \in Workers : worker[w].page.items \in SUBSET Snapshots
    BY DEF TypeInv, WorkersInv, GoodWork, Works0, Pages
<1>3. row' = row \/ \E w \in Workers : row' = Stored(worker[w].page.items)
    BY RowFrame, StoresPage
<1>4. QED
    BY <1>1, <1>2, <1>3, StoredTyped

LEMMA HookStep ==
    ASSUME MailboxSyncAssumption, TypeInv, [Next]_vars
    PROVE  hook' \in [Hooks -> HookCalls]
<1>1. hook \in [Hooks -> HookCalls] /\ GraphInv
    BY DEF TypeInv
<1>2. NoCall \in HookCalls
    BY DEF MailboxSyncAssumption, HookCalls, NoCall, NoEvent, Events, EventKinds
<1>3. ASSUME NEW h \in Hooks, Receive(h) PROVE hook' \in [Hooks -> HookCalls]
    <2>1. \/ hook' = hook
          \/ \E e \in channel : hook' = [hook EXCEPT ![h] =
                [event |-> e, at |-> clock + 1, read |-> ToReset,
                 quiet |-> state.status # "running"]]
        BY <1>3 DEF Receive
    <2>2. ToReset \in SUBSET Resets
        BY DEF ToReset
    <2>3. \A e \in channel : [event |-> e, at |-> clock + 1, read |-> ToReset,
                              quiet |-> state.status # "running"] \in HookCalls
        BY <1>1, <2>2 DEF GraphInv, HookCalls
    <2>4. QED
        BY <1>1, <2>1, <2>3
<1>4. ASSUME NEW h \in Hooks, Record(h) PROVE hook' \in [Hooks -> HookCalls]
    BY <1>1, <1>2, <1>4 DEF Record
<1>5. ASSUME NEW w \in Workers, ClaimMailbox(w) PROVE hook' \in [Hooks -> HookCalls]
    <2>1. hook' = [h \in Hooks |-> [hook[h] EXCEPT !.quiet = (hook[h] = NoCall)]]
        BY <1>5 DEF ClaimMailbox
    <2>2. \A h \in Hooks : [hook[h] EXCEPT !.quiet = (hook[h] = NoCall)] \in HookCalls
        BY <1>1 DEF HookCalls
    <2>3. QED
        BY <2>1, <2>2
<1>6. QED
    BY <1>1, <1>3, <1>4, <1>5, HookFrame

LEMMA SnapshotTyped ==
    ASSUME GraphInv, NEW m \in Messages
    PROVE  Snapshot(m) \in Snapshots /\ Snapshot(m).m = m /\ Snapshot(m).at = mail[m].at
BY DEF GraphInv, MailRows, Snapshot, Snapshots

\* What a fetch keeps: at most one message, and where the page leads.
LEMMA FilledPage ==
    ASSUME NEW p \in Pages
    PROVE  /\ [p EXCEPT !.full = TRUE] \in Pages
           /\ [p EXCEPT !.full = TRUE].full
           /\ [p EXCEPT !.full = TRUE].items = p.items
           /\ [p EXCEPT !.full = TRUE].next = p.next
           /\ [p EXCEPT !.full = TRUE].last = p.last
           /\ [p EXCEPT !.full = TRUE].base = p.base
BY DEF Pages

\* The kinds of step a worker takes.
WorkerMoves(w) ==
    \/ worker' = [worker EXCEPT ![w] = NoWork]
    \/ \E req \in Nat : worker' = [worker EXCEPT ![w] = [NoWork EXCEPT !.phase = "subscribe",
                                                                      !.req = req]]
    \/ \E p \in (Passes \cup {"finalize"}) \ {"notified"} : Goes(w, p)
    \/ Raises(w)
    \/ worker' = [worker EXCEPT ![w].phase = "notify", ![w].page = NoPage,
                                ![w].note = 0, ![w].noted = 0]
    \/ /\ worker[w].phase = "notify"
       /\ \E m \in Messages, n \in Nat :
            worker' = [worker EXCEPT ![w].phase = "notified", ![w].note = m, ![w].noted = n]
    \/ /\ worker[w].phase = "refresh"
       /\ \E todo \in SUBSET Messages :
            worker' = [worker EXCEPT ![w].phase = "refreshing", ![w].todo = todo]
    \/ /\ worker[w].phase = "refreshing"
       /\ \E ms : worker' = [worker EXCEPT ![w].page = NoPage, ![w].todo = @ \ ms]
    \/ \E p \in Pages :
         /\ worker' = [worker EXCEPT ![w].page = p]
         /\ p.full /\ \A s, t \in p.items : s = t
         /\ worker[w].phase \in FullPhases
         /\ worker[w].phase \in ScanPhases => ScanLink(p)
         /\ worker[w].phase = "notified" => \A s \in p.items : s.m = worker[w].note

LEMMA MovesAreGood ==
    ASSUME MailboxSyncAssumption, WorkersInv, NEW w \in Workers, WorkerMoves(w)
    PROVE  WorkersInv'
<1>1. ASSUME NEW r, GoodWork(r), worker' = [worker EXCEPT ![w] = r] PROVE WorkersInv'
    BY <1>1 DEF WorkersInv, GoodWork
<1>2. GoodWork(worker[w]) /\ worker \in [Workers -> Works0]
    BY DEF WorkersInv
<1>3. \E r : GoodWork(r) /\ worker' = [worker EXCEPT ![w] = r]
    <2>1. CASE worker' = [worker EXCEPT ![w] = NoWork]
        BY <2>1, NoWorkIsGood
    <2>2. ASSUME NEW req \in Nat,
                 worker' = [worker EXCEPT ![w] = [NoWork EXCEPT !.phase = "subscribe",
                                                               !.req = req]]
          PROVE  \E r : GoodWork(r) /\ worker' = [worker EXCEPT ![w] = r]
        <3>1. GoodWork([NoWork EXCEPT !.phase = "subscribe", !.req = req])
            BY SizeFacts, NoPageIsPage DEF NoWork, GoodWork, Works0, Passes
        <3>2. QED
            BY <2>2, <3>1
    <2>3. ASSUME NEW p \in (Passes \cup {"finalize"}) \ {"notified"}, Goes(w, p)
          PROVE  \E r : GoodWork(r) /\ worker' = [worker EXCEPT ![w] = r]
        <3>1. worker' = [worker EXCEPT ![w] = [worker[w] EXCEPT !.phase = p, !.page = NoPage]]
            BY <1>2, <2>3 DEF Goes
        <3>2. GoodWork([worker[w] EXCEPT !.phase = p, !.page = NoPage])
            BY <1>2, GoingIsGood
        <3>3. QED
            BY <3>1, <3>2
    <2>4. CASE Raises(w)
        <3>1. worker' = [worker EXCEPT ![w] =
                 [worker[w] EXCEPT !.phase = "finalize", !.page = NoPage, !.note = 0,
                                   !.failed = TRUE]]
            BY <1>2, <2>4 DEF Raises
        <3>2. GoodWork([worker[w] EXCEPT !.phase = "finalize", !.page = NoPage, !.note = 0,
                                         !.failed = TRUE])
            BY <1>2, GoingIsGood
        <3>3. QED
            BY <3>1, <3>2
    <2>5. CASE worker' = [worker EXCEPT ![w].phase = "notify", ![w].page = NoPage,
                                        ![w].note = 0, ![w].noted = 0]
        <3>1. worker' = [worker EXCEPT ![w] =
                 [worker[w] EXCEPT !.phase = "notify", !.page = NoPage, !.note = 0,
                                   !.noted = 0]]
            BY <1>2, <2>5
        <3>2. GoodWork([worker[w] EXCEPT !.phase = "notify", !.page = NoPage, !.note = 0,
                                         !.noted = 0])
            BY <1>2, GoingIsGood
        <3>3. QED
            BY <3>1, <3>2
    <2>6. ASSUME worker[w].phase = "notify", NEW m \in Messages, NEW n \in Nat,
                 worker' = [worker EXCEPT ![w].phase = "notified", ![w].note = m,
                                          ![w].noted = n]
          PROVE  \E r : GoodWork(r) /\ worker' = [worker EXCEPT ![w] = r]
        <3>1. worker' = [worker EXCEPT ![w] =
                 [worker[w] EXCEPT !.phase = "notified", !.note = m, !.noted = n]]
            BY <1>2, <2>6
        <3>2. GoodWork([worker[w] EXCEPT !.phase = "notified", !.note = m, !.noted = n])
            BY <1>2, <2>6, GoingIsGood
        <3>3. QED
            BY <3>1, <3>2
    <2>7. ASSUME worker[w].phase = "refresh", NEW todo \in SUBSET Messages,
                 worker' = [worker EXCEPT ![w].phase = "refreshing", ![w].todo = todo]
          PROVE  \E r : GoodWork(r) /\ worker' = [worker EXCEPT ![w] = r]
        <3>1. worker' = [worker EXCEPT ![w] =
                 [worker[w] EXCEPT !.phase = "refreshing", !.todo = todo]]
            BY <1>2, <2>7
        <3>2. GoodWork([worker[w] EXCEPT !.phase = "refreshing", !.todo = todo])
            BY <1>2, <2>7, GoingIsGood
        <3>3. QED
            BY <3>1, <3>2
    <2>8. ASSUME worker[w].phase = "refreshing", NEW ms,
                 worker' = [worker EXCEPT ![w].page = NoPage, ![w].todo = @ \ ms]
          PROVE  \E r : GoodWork(r) /\ worker' = [worker EXCEPT ![w] = r]
        <3>1. worker' = [worker EXCEPT ![w] =
                 [worker[w] EXCEPT !.page = NoPage, !.todo = @ \ ms]]
            BY <1>2, <2>8
        <3>2. GoodWork([worker[w] EXCEPT !.page = NoPage, !.todo = @ \ ms])
            BY <1>2, <2>8, RefreshingIsGood
        <3>3. QED
            BY <3>1, <3>2
    <2>9. ASSUME NEW p \in Pages,
                 worker' = [worker EXCEPT ![w].page = p],
                 p.full /\ \A s, t \in p.items : s = t,
                 worker[w].phase \in FullPhases,
                 worker[w].phase \in ScanPhases => ScanLink(p),
                 worker[w].phase = "notified" => \A s \in p.items : s.m = worker[w].note
          PROVE  \E r : GoodWork(r) /\ worker' = [worker EXCEPT ![w] = r]
        <3>1. worker' = [worker EXCEPT ![w] = [worker[w] EXCEPT !.page = p]]
            BY <1>2, <2>9
        <3>2. GoodWork([worker[w] EXCEPT !.page = p])
            BY <1>2, <2>9, FetchingIsGood
        <3>3. QED
            BY <3>1, <3>2
    <2>10. QED
        BY <2>1, <2>2, <2>3, <2>4, <2>5, <2>6, <2>7, <2>8, <2>9 DEF WorkerMoves
<1>4. QED
    BY <1>1, <1>3

LEMMA ScanPageTyped ==
    ASSUME MailboxSyncAssumption, GraphInv, NEW link \in 0..(Size - 1), NEW inScope
    PROVE  LET p == ScanPage(link, inScope)
           IN  /\ p \in Pages /\ ScanLink(p) /\ link + 1 \in Messages
               /\ p.items = IF inScope THEN {Snapshot(link + 1)} ELSE {}
               /\ p.next = link + 1
<1>1. link + 1 \in Messages /\ link + 1 \in Nat /\ Size \in Nat
    BY SizeFacts DEF Messages
<1>2. Snapshot(link + 1) \in Snapshots /\ Snapshot(link + 1).m = link + 1
    BY <1>1, SnapshotTyped
<1>3. PICK items \in SUBSET Snapshots : items = IF inScope THEN {Snapshot(link + 1)} ELSE {}
    BY <1>2
<1>4. PICK p \in Pages : /\ p = ScanPage(link, inScope)
                         /\ p.items = items /\ p.next = link + 1
                         /\ p.last = (link + 1 = Size)
    <2>1. PICK l \in BOOLEAN : l = (link + 1 = Size)
        OBVIOUS
    <2>2. ScanPage(link, inScope) = [NoPage EXCEPT !.items = items, !.next = link + 1, !.last = l]
        BY <1>3, <2>1, Zenon DEF ScanPage
    <2>3. [NoPage EXCEPT !.items = items, !.next = link + 1, !.last = l] \in Pages
        BY <1>1, NoPageIsPage DEF Pages
    <2>4. /\ [NoPage EXCEPT !.items = items, !.next = link + 1, !.last = l].items = items
          /\ [NoPage EXCEPT !.items = items, !.next = link + 1, !.last = l].next = link + 1
          /\ [NoPage EXCEPT !.items = items, !.next = link + 1, !.last = l].last = l
        BY DEF NoPage
    <2>5. QED
        BY <2>1, <2>2, <2>3, <2>4
<1>5. \A s \in items : s.m = link + 1
    BY <1>2, <1>3
<1>6. QED
    BY <1>1, <1>3, <1>4, <1>5 DEF ScanLink, Messages

LEMMA FetchDeltaPage ==
    ASSUME TypeInv, NEW w \in Workers, NEW f \in Folders, FetchDelta(w, f)
    PROVE  \E p \in Pages :
             /\ Fetched(w, p)
             /\ \/ Behind(f) = {} /\ p.items = {} /\ p.next = clock
                \/ \E m \in Behind(f) :
                     /\ p.items = {Snapshot(m)} /\ p.next \in {clock, touched[f][m]}
                     /\ \A n \in Behind(f) : touched[f][m] <= touched[f][n]
                     /\ p.next = clock => p.next = touched[f][m] \/ Behind(f) = {m}
<1>1. GraphInv /\ clock \in Nat /\ \A n \in Messages : touched[f][n] \in Nat
    BY DEF TypeInv, GraphInv
<1>2. CASE Behind(f) = {}
    <2>1. [NoPage EXCEPT !.next = clock, !.last = TRUE] \in Pages
        BY <1>1, NoPageIsPage DEF Pages
    <2>2. /\ [NoPage EXCEPT !.next = clock, !.last = TRUE].items = {}
          /\ [NoPage EXCEPT !.next = clock, !.last = TRUE].next = clock
        BY DEF NoPage
    <2>3. Fetched(w, [NoPage EXCEPT !.next = clock, !.last = TRUE])
        BY <1>2 DEF FetchDelta
    <2>4. QED
        BY <1>2, <2>1, <2>2, <2>3
<1>3. CASE Behind(f) # {}
    <2> DEFINE m == CHOOSE m \in Behind(f) :
                       \A n \in Behind(f) : touched[f][m] <= touched[f][n]
               n == IF Behind(f) = {m} THEN clock ELSE touched[f][m]
               p == [NoPage EXCEPT !.items = {Snapshot(m)}, !.last = Behind(f) = {m}, !.next = n]
    <2>1. m \in Behind(f) /\ \A o \in Behind(f) : touched[f][m] <= touched[f][o]
        BY <1>1, <1>3, OldestBehind
    <2>2. m \in Messages
        BY <2>1 DEF Behind
    <2>3. Snapshot(m) \in Snapshots
        BY <1>1, <2>2, SnapshotTyped
    <2>4. Fetched(w, p)
        BY <1>3 DEF FetchDelta
    <2> HIDE DEF m
    <2>5. n \in Nat /\ n \in {clock, touched[f][m]}
          /\ (n = clock => n = touched[f][m] \/ Behind(f) = {m})
        BY <1>1, <2>2
    <2> HIDE DEF n
    <2>6. p \in Pages /\ p.items = {Snapshot(m)} /\ p.next = n
        BY <2>3, <2>5, NoPageIsPage DEF Pages
    <2> HIDE DEF p
    <2>7. QED
        BY <2>1, <2>4, <2>5, <2>6
<1>4. QED
    BY <1>2, <1>3

LEMMA FetchedMoves ==
    ASSUME NEW w \in Workers, NEW p \in Pages, Fetched(w, p), \A s, t \in p.items : s = t,
           worker[w].phase \in FullPhases,
           worker[w].phase \in ScanPhases => ScanLink(p),
           worker[w].phase = "notified" => \A s \in p.items : s.m = worker[w].note
    PROVE  WorkerMoves(w)
<1>1. PICK q \in Pages : q = [p EXCEPT !.full = TRUE]
    BY FilledPage
<1>2. q.full /\ q.items = p.items /\ q.next = p.next /\ q.last = p.last
    BY <1>1, FilledPage
<1>3. worker' = [worker EXCEPT ![w].page = q]
    BY <1>1 DEF Fetched
<1>4. worker[w].phase \in ScanPhases => ScanLink(q)
    BY <1>2 DEF ScanLink
<1>5. \E r \in Pages :
         /\ worker' = [worker EXCEPT ![w].page = r]
         /\ r.full /\ \A s, t \in r.items : s = t
         /\ worker[w].phase \in FullPhases
         /\ worker[w].phase \in ScanPhases => ScanLink(r)
         /\ worker[w].phase = "notified" => \A s \in r.items : s.m = worker[w].note
    <2>1. q.full /\ \A s, t \in q.items : s = t
        BY <1>2
    <2>2. worker[w].phase = "notified" => \A s \in q.items : s.m = worker[w].note
        BY <1>2
    <2>3. QED
        BY <1>3, <1>4, <2>1, <2>2, Zenon
<1>6. QED
    BY <1>5 DEF WorkerMoves

\* A page without a message, or with one.
LEMMA SomePages ==
    ASSUME GraphInv
    PROVE  /\ \A n \in Nat : [NoPage EXCEPT !.next = n] \in Pages
           /\ \A n \in Nat : [NoPage EXCEPT !.next = n].items = {}
           /\ \A n \in Nat : [NoPage EXCEPT !.next = n].next = n
           /\ \A m \in Messages : [NoPage EXCEPT !.items = {Snapshot(m)}] \in Pages
           /\ \A m \in Messages : [NoPage EXCEPT !.items = {Snapshot(m)}].items = {Snapshot(m)}
<1>1. \A m \in Messages : Snapshot(m) \in Snapshots
    BY SnapshotTyped
<1>2. NoPage = [items |-> {}, next |-> 0, last |-> FALSE, base |-> NoAsk, full |-> FALSE]
    BY DEF NoPage
<1>3. NoAsk \in Asks
    BY DEF NoAsk, Asks
<1>4. QED
    BY <1>1, <1>2, <1>3 DEF Pages

LEMMA WorkersMove ==
    ASSUME MailboxSyncAssumption, TypeInv, NEW w \in Workers, [Next]_vars,
           \/ Works(w) \/ Crash(w) \/ RequestFails(w)
           \/ \E f \in Folders : DeltaExpired(w, f)
    PROVE  WorkerMoves(w)
<1>1. GoodWork(worker[w]) /\ worker[w] \in Works0 /\ GraphInv /\ state \in StateRows
    BY DEF TypeInv, WorkersInv, GoodWork
<1>2. state.requested \in Nat /\ state.scan \in 0..(Size - 1) /\ state.sentScan \in 0..(Size - 1)
    BY <1>1 DEF StateRows
<1>3. CASE Crash(w) \/ Finalize(w)
    BY <1>3 DEF Crash, Finalize, WorkerMoves
<1>4. CASE ClaimMailbox(w)
    BY <1>2, <1>4 DEF ClaimMailbox, WorkerMoves
<1>5. CASE \/ LeaseLost(w) \/ RequestFails(w) \/ \E f \in Folders : DeltaExpired(w, f)
    BY <1>5 DEF LeaseLost, RequestFails, DeltaExpired, WorkerMoves
<1>6. CASE PersistSubscription(w) \/ StoreSentScan(w) \/ StoreScan(w) \/ Reconcile(w)
    BY <1>6 DEF PersistSubscription, StoreSentScan, StoreScan, Reconcile, WorkerMoves, Passes
<1>7. ASSUME NEW f \in Folders, StoreDelta(w, f) PROVE WorkerMoves(w)
    <2>1. f \in {"inbox", "sentitems"}
        BY DEF Folders
    <2>2. \E p \in (Passes \cup {"finalize"}) \ {"notified"} : Goes(w, p)
        BY <1>7, <2>1 DEF StoreDelta, DeltaPhase, After, Passes
    <2>3. QED
        BY <2>2 DEF WorkerMoves
<1>8. CASE Subscribe(w)
    <2>1. GraphInv'
        BY GraphStep
    <2>2. graphSub' \in Nat
        BY <2>1 DEF GraphInv
    <2>3. worker[w].phase = "subscribe"
        BY <1>8 DEF Subscribe, Fetching
    <2>4. CASE Goes(w, "sent_scan") \/ Raises(w)
        BY <2>4 DEF WorkerMoves, Passes
    <2>5. CASE Fetched(w, [NoPage EXCEPT !.next = graphSub'])
        <3>1. [NoPage EXCEPT !.next = graphSub'] \in Pages
            BY <1>1, <2>2, SomePages
        <3>2. [NoPage EXCEPT !.next = graphSub'].items = {}
            BY <1>1, <2>2, SomePages
        <3>3. QED
            BY <2>3, <2>5, <3>1, <3>2, FetchedMoves DEF FullPhases, ScanPhases
    <2>6. QED
        BY <1>8, <2>4, <2>5 DEF Subscribe
<1>9. CASE FetchSentScan(w)
    <2>1. worker[w].phase = "sent_scan"
        BY <1>9 DEF FetchSentScan, Fetching
    <2>2. CASE Goes(w, "sent_delta")
        BY <2>2 DEF WorkerMoves, Passes
    <2>3. ASSUME NEW inScope, Fetched(w, ScanPage(state.sentScan, inScope))
          PROVE  WorkerMoves(w)
        <3>1. /\ ScanPage(state.sentScan, inScope) \in Pages
              /\ ScanLink(ScanPage(state.sentScan, inScope))
              /\ \A s, t \in ScanPage(state.sentScan, inScope).items : s = t
            BY <1>1, <1>2, ScanPageTyped
        <3>2. QED
            BY <2>1, <2>3, <3>1, FetchedMoves DEF FullPhases, ScanPhases
    <2>4. QED
        BY <1>9, <2>2, <2>3 DEF FetchSentScan
<1>10. CASE FetchScan(w)
    <2>1. worker[w].phase = "scan"
        BY <1>10 DEF FetchScan, Fetching
    <2>2. CASE Goes(w, "inbox_delta")
        BY <2>2 DEF WorkerMoves, Passes
    <2>3. CASE Fetched(w, [ScanPage(state.scan, Exists(state.scan + 1)) EXCEPT
                          !.base = IF state.scan = 0 THEN asked ELSE begun])
        <3>1. PICK b \in Asks : b = IF state.scan = 0 THEN asked ELSE begun
            BY DEF TypeInv
        <3>2. PICK q : q = ScanPage(state.scan, Exists(state.scan + 1))
            OBVIOUS
        <3>3. q \in Pages /\ ScanLink(q) /\ \A s, t \in q.items : s = t
            BY <1>1, <1>2, <3>2, ScanPageTyped
        <3>4. PICK p : p = [q EXCEPT !.base = b]
            OBVIOUS
        <3>5. p \in Pages /\ p.items = q.items /\ p.next = q.next /\ p.last = q.last
            BY <3>3, <3>4 DEF Pages
        <3>6. ScanLink(p)
            BY <3>3, <3>5 DEF ScanLink
        <3>7. Fetched(w, p)
            BY <2>3, <3>1, <3>2, <3>4
        <3>8. QED
            BY <2>1, <3>3, <3>5, <3>6, <3>7, FetchedMoves DEF FullPhases, ScanPhases
    <2>4. QED
        BY <1>10, <2>2, <2>3 DEF FetchScan
<1>11. ASSUME NEW f \in Folders, FetchDelta(w, f) PROVE WorkerMoves(w)
    <2>1. worker[w].phase \in {"inbox_delta", "sent_delta"}
        BY <1>11 DEF FetchDelta, Fetching, DeltaPhase, Folders
    <2>2. PICK p \in Pages : Fetched(w, p) /\ \A s, t \in p.items : s = t
        BY <1>11, FetchDeltaPage
    <2>3. QED
        BY <2>1, <2>2, FetchedMoves DEF FullPhases, ScanPhases
<1>12. CASE ClaimNotification(w)
    <2>1. \A m \in Messages : note[m].req \in Nat
        BY DEF TypeInv, NoteRows
    <2>2. CASE Goes(w, "refresh")
        BY <2>2 DEF WorkerMoves, Passes
    <2>3. QED
        BY <1>12, <2>1, <2>2 DEF ClaimNotification, WorkerMoves
<1>13. CASE FetchNotified(w)
    <2>1. worker[w].phase = "notified" /\ worker[w].note \in Messages
        BY <1>1, <1>13 DEF FetchNotified, Fetching, GoodWork
    <2>2. Snapshot(worker[w].note) \in Snapshots /\ Snapshot(worker[w].note).m = worker[w].note
        BY <1>1, <2>1, SnapshotTyped
    <2>3. PICK p \in Pages : /\ p = [NoPage EXCEPT !.items = {Snapshot(worker[w].note)}]
                             /\ p.items = {Snapshot(worker[w].note)}
        BY <1>1, <2>1, SomePages
    <2>4. Fetched(w, p)
        BY <1>13, <2>3 DEF FetchNotified
    <2>5. QED
        BY <2>1, <2>2, <2>3, <2>4, FetchedMoves DEF FullPhases, ScanPhases
<1>14. CASE StoreNotified(w)
    BY <1>14 DEF StoreNotified, WorkerMoves
<1>15. CASE ListUnread(w)
    <2>1. {m \in Replies : row[m].kind = "unread"} \in SUBSET Messages
        BY DEF MailboxSyncAssumption
    <2>2. QED
        BY <1>15, <2>1 DEF ListUnread, WorkerMoves
<1>16. CASE FetchUnread(w)
    <2>1. worker[w].phase = "refreshing" /\ worker[w].todo \subseteq Messages
        BY <1>1, <1>16 DEF FetchUnread, Fetching, Works0
    <2>2. CASE Goes(w, "reconcile")
        BY <2>2 DEF WorkerMoves, Passes
    <2>3. ASSUME NEW m \in Messages, Fetched(w, [NoPage EXCEPT !.items = {Snapshot(m)}])
          PROVE  WorkerMoves(w)
        <3>1. PICK p \in Pages : /\ p = [NoPage EXCEPT !.items = {Snapshot(m)}]
                                 /\ p.items = {Snapshot(m)}
            BY <1>1, SomePages
        <3>2. QED
            BY <2>1, <2>3, <3>1, FetchedMoves DEF FullPhases, ScanPhases
    <2>4. QED
        BY <1>16, <2>1, <2>2, <2>3 DEF FetchUnread
<1>17. CASE StoreUnread(w)
    BY <1>17 DEF StoreUnread, Storing, WorkerMoves
<1>18. QED
    BY <1>3, <1>4, <1>5, <1>6, <1>7, <1>8, <1>9, <1>10, <1>11, <1>12, <1>13, <1>14,
       <1>15, <1>16, <1>17 DEF Works

LEMMA WorkersStep ==
    ASSUME MailboxSyncAssumption, TypeInv, [Next]_vars
    PROVE  WorkersInv'
<1>1. CASE UNCHANGED worker
    BY <1>1 DEF TypeInv, WorkersInv
<1>2. QED
    BY <1>1, WorkerFrame, WorkersMove, MovesAreGood DEF TypeInv

LEMMA HistoryStep ==
    ASSUME MailboxSyncAssumption, TypeInv, [Next]_vars
    PROVE  asked' \in Asks /\ begun' \in Asks /\ served' \in Asks
<1>1. asked \in Asks /\ begun \in Asks /\ served \in Asks
    BY DEF TypeInv
<1>2. /\ [asked EXCEPT !.quiet = @ + 1] \in Asks
      /\ [asked EXCEPT !.busy = @ + 1] \in Asks
    BY <1>1 DEF Asks
<1>3. \A w \in Workers : worker[w].page.base \in Asks
    BY DEF TypeInv, WorkersInv, Works0, Pages
<1>4. CASE UNCHANGED history
    BY <1>1, <1>4 DEF history
<1>5. CASE \E h \in Hooks : Record(h)
    BY <1>1, <1>2, <1>5 DEF Record
<1>6. ASSUME NEW w \in Workers, RecoverStale(w) \/ \E f \in Folders : DeltaExpired(w, f)
      PROVE  asked' \in Asks /\ begun' \in Asks /\ served' \in Asks
    BY <1>1, <1>2, <1>6 DEF RecoverStale, DeltaExpired
<1>7. CASE \E w \in Workers : StoreScan(w)
    BY <1>1, <1>3, <1>7 DEF StoreScan
<1>8. QED
    BY <1>4, <1>5, <1>6, <1>7, HistoryFrame

LEMMA TypeStep ==
    ASSUME MailboxSyncAssumption, TypeInv, [Next]_vars
    PROVE  TypeInv'
BY GraphStep, StateStep, NoteStep, RowStep, HookStep, WorkersStep, HistoryStep DEF TypeInv

\* For every mailbox, webhook, worker and fault: what the tables hold is what
\* their columns allow, and a lease is held exactly while a pass is running
\* (ck_graph_mailbox_sync_states_lease).
THEOREM Typing == ASSUME MailboxSyncAssumption PROVE Spec => []TypeOK
<1>1. Init => TypeInv
    BY InitTypes
<1>2. TypeInv /\ [Next]_vars => TypeInv'
    BY TypeStep
<1>3. TypeInv => TypeOK
    BY TypesFollow
<1>4. QED
    BY <1>1, <1>2, <1>3, PTL DEF Spec

-----------------------------------------------------------------------------
(* What a step does to the mailbox, the lease, a page and a row.           *)

LEMMA MailStep ==
    ASSUME TypeInv, [Next]_vars, NEW m \in Messages
    PROVE  /\ clock' >= clock
           /\ \/ mail'[m] = mail[m] /\ \A f \in Folders : touched'[f][m] = touched[f][m]
              \/ Change(m) /\ mail'[m].at = clock + 1
<1>1. GraphInv /\ clock \in Nat /\ mail \in [Messages -> MailRows]
      /\ touched \in [Folders -> [Messages -> Nat]]
    BY DEF TypeInv, GraphInv
<1>2. CASE UNCHANGED <<clock, graph, channel, faults>>
    BY <1>1, <1>2 DEF graph
<1>3. ASSUME NEW n \in Messages, Change(n)
      PROVE  /\ clock' = clock + 1
             /\ \/ mail'[m] = mail[m] /\ \A f \in Folders : touched'[f][m] = touched[f][m]
                \/ Change(m) /\ mail'[m].at = clock + 1
    <2>1. PICK new \in MayBecome(n) :
            /\ mail' = [mail EXCEPT ![n] = [folder |-> new.folder, read |-> new.read,
                                            at |-> clock + 1]]
            /\ touched' = [f \in Folders |->
                             IF f \in {mail[n].folder, new.folder}
                             THEN [touched[f] EXCEPT ![n] = clock + 1]
                             ELSE touched[f]]
        BY <1>3 DEF Change
    <2>2. clock' = clock + 1
        BY <1>3 DEF Change
    <2>3. CASE n = m
        BY <1>1, <1>3, <2>1, <2>2, <2>3
    <2>4. CASE n # m
        BY <1>1, <2>1, <2>2, <2>4
    <2>5. QED
        BY <2>3, <2>4
<1>4. CASE SubscriptionEnds \/ Expiring
    BY <1>1, <1>4 DEF SubscriptionEnds, Expiring, graph
<1>5. CASE \E h \in Hooks : Receive(h)
    BY <1>1, <1>5 DEF Receive, graph
<1>6. CASE \E w \in Workers : \/ RecoverStale(w) \/ Crash(w) \/ RequestFails(w) \/ Subscribe(w)
                              \/ \E f \in Folders : DeltaExpired(w, f)
    BY <1>1, <1>6 DEF RecoverStale, Crash, RequestFails, Subscribe, DeltaExpired, graph
<1>7. QED
    BY <1>1, <1>2, <1>3, <1>4, <1>5, <1>6, GraphFrame

\* Only a claim, of a mailbox nobody holds, gives the lease away.
LEMMA HoldsStep ==
    ASSUME MailboxSyncAssumption, TypeInv, [Next]_vars, NEW w \in Workers, Holds(w)'
    PROVE  Holds(w) \/ ClaimMailbox(w)
<1>1. state \in StateRows
    BY DEF TypeInv
<1>2. w # "dead" /\ w # Null
    BY DEF MailboxSyncAssumption
<1>3. CASE UNCHANGED state
    BY <1>3 DEF Holds
<1>4. CASE Expiring \/ TimePasses
    BY <1>1, <1>4 DEF Expiring, TimePasses, Holds, StateRows
<1>5. ASSUME NEW h \in Hooks, Record(h) PROVE Holds(w)
    <2>1. hook[h] \in HookCalls /\ state' = Signalled(state, hook[h])
        BY <1>5 DEF TypeInv, Record
    <2>2. QED
        BY <1>1, <2>1, SignalledTyped DEF Holds
<1>6. ASSUME NEW v \in Workers, RecoverStale(v) PROVE Holds(w)
    <2>1. \/ state' = state
          \/ state' = [FromScratch(state) EXCEPT !.status = "error", !.owner = Null,
                                                 !.next = "now"]
        BY <1>6 DEF RecoverStale
    <2>2. FromScratch(state) \in StateRows
        BY <1>1, ResetTyped DEF FromScratch
    <2>3. QED
        BY <1>2, <2>1, <2>2 DEF StateRows, Holds
<1>7. ASSUME NEW v \in Workers, ClaimMailbox(v) PROVE ClaimMailbox(w)
    BY <1>1, <1>7 DEF ClaimMailbox, Holds, StateRows
<1>8. ASSUME NEW v \in Workers, Finalize(v) PROVE Holds(w)
    <2>1. state' = state \/ state'.owner = Null
        BY <1>1, <1>8 DEF Finalize, StateRows
    <2>2. QED
        BY <1>2, <2>1 DEF Holds
<1>9. ASSUME NEW v \in Workers, Crash(v) PROVE Holds(w)
    BY <1>1, <1>2, <1>9 DEF Crash, Holds, StateRows
<1>10. ASSUME NEW v \in Workers, \/ PersistSubscription(v) \/ StoreSentScan(v) \/ StoreScan(v)
       PROVE  Holds(w)
    BY <1>1, <1>10 DEF PersistSubscription, StoreSentScan, StoreScan, Holds, StateRows
<1>11. ASSUME NEW v \in Workers, NEW f \in Folders, StoreDelta(v, f) PROVE Holds(w)
    BY <1>1, <1>11 DEF StoreDelta, Holds, StateRows, Folders
<1>12. ASSUME NEW v \in Workers, NEW f \in Folders, DeltaExpired(v, f) PROVE Holds(w)
    <2>1. state' = state \/ state' = [FromScratch(state) EXCEPT ![f] = 0]
        BY <1>12 DEF DeltaExpired
    <2>2. /\ FromScratch(state) \in StateRows /\ FromScratch(state).status = state.status
          /\ FromScratch(state).owner = state.owner
        BY <1>1, ResetTyped DEF FromScratch
    <2>3. QED
        BY <2>1, <2>2 DEF StateRows, Holds, Folders
<1>13. QED
    BY <1>3, <1>4, <1>5, <1>6, <1>7, <1>8, <1>9, <1>10, <1>11, <1>12, StateFrame

\* The steps of one worker leave the others alone.
LEMMA OnlyItsOwn ==
    ASSUME TypeInv, NEW w \in Workers, WorkerMoves(w)
    PROVE  \A v \in Workers \ {w} : worker'[v] = worker[v]
BY DEF TypeInv, WorkersInv, WorkerMoves, Goes, Raises

\* A page appears only by a lookup of one message, which changes nothing else.
LEMMA ItemsStep ==
    ASSUME MailboxSyncAssumption, TypeInv, [Next]_vars, NEW w \in Workers
    PROVE  \/ worker'[w].page = worker[w].page
           \/ worker'[w].page.items = {}
           \/ /\ \E m \in Messages : worker'[w].page.items = {Snapshot(m)}
              /\ UNCHANGED <<clock, graph, channel, state, note, row, hook, history>>
<1>1. worker \in [Workers -> Works0] /\ GraphInv /\ state \in StateRows
    BY DEF TypeInv, WorkersInv
<1>2. state.scan \in 0..(Size - 1) /\ state.sentScan \in 0..(Size - 1)
    BY <1>1 DEF StateRows
<1>3. \A p : Goes(w, p) => worker'[w].page.items = {}
    BY <1>1, NoPageIsPage DEF Goes, Works0
<1>4. Raises(w) => worker'[w].page.items = {}
    BY <1>1, NoPageIsPage DEF Raises, Works0
<1>5. \A p \in Pages : Fetched(w, p) => worker'[w].page.items = p.items
    BY <1>1, FilledPage DEF Fetched, Works0
<1>6. \A n \in Nat : Fetched(w, [NoPage EXCEPT !.next = n]) => worker'[w].page.items = {}
    BY <1>1, <1>5, SomePages
<1>7. \A m \in Messages : Fetched(w, [NoPage EXCEPT !.items = {Snapshot(m)}])
                            => worker'[w].page.items = {Snapshot(m)}
    BY <1>1, <1>5, SomePages
<1>8. CASE UNCHANGED worker
    BY <1>8
<1>9. ASSUME NEW v \in Workers \ {w}, \/ Works(v) \/ Crash(v) \/ RequestFails(v)
                                      \/ \E f \in Folders : DeltaExpired(v, f)
      PROVE  worker'[w].page = worker[w].page
    BY <1>9, OnlyItsOwn, WorkersMove
<1>10. CASE \/ LeaseLost(w) \/ RequestFails(w) \/ \E f \in Folders : DeltaExpired(w, f)
    BY <1>4, <1>10 DEF LeaseLost, RequestFails, DeltaExpired
<1>11. CASE PersistSubscription(w) \/ StoreSentScan(w) \/ StoreScan(w) \/ Reconcile(w)
            \/ \E f \in Folders : StoreDelta(w, f)
    BY <1>3, <1>11 DEF PersistSubscription, StoreSentScan, StoreScan, Reconcile, StoreDelta
<1>12. CASE ClaimMailbox(w) \/ Crash(w) \/ Finalize(w)
    <2>1. \A r : worker' = [worker EXCEPT ![w] = r] => worker'[w] = r
        BY <1>1
    <2>2. NoWork.page = NoPage /\ \A n : [NoWork EXCEPT !.phase = "subscribe", !.req = n].page = NoPage
        BY DEF NoWork
    <2>3. worker'[w].page = NoPage
        BY <1>12, <2>1, <2>2 DEF ClaimMailbox, Crash, Finalize
    <2>4. QED
        BY <2>3, NoPageIsPage
<1>13. CASE Subscribe(w)
    <2>1. GraphInv'
        BY GraphStep
    <2>2. QED
        BY <1>3, <1>4, <1>6, <1>13, <2>1 DEF Subscribe, GraphInv
<1>14. CASE FetchSentScan(w)
    <2>1. CASE Goes(w, "sent_delta")
        BY <1>3, <2>1
    <2>2. ASSUME NEW inScope, Fetched(w, ScanPage(state.sentScan, inScope))
          PROVE  \/ worker'[w].page.items = {}
                 \/ \E m \in Messages : worker'[w].page.items = {Snapshot(m)}
        BY <1>1, <1>2, <1>5, <2>2, ScanPageTyped
    <2>3. QED
        BY <1>14, <2>1, <2>2 DEF FetchSentScan
<1>15. CASE FetchScan(w)
    <2>1. CASE Goes(w, "inbox_delta")
        BY <1>3, <2>1
    <2>2. ASSUME NEW b \in Asks,
                 Fetched(w, [ScanPage(state.scan, Exists(state.scan + 1)) EXCEPT !.base = b])
          PROVE  \/ worker'[w].page.items = {}
                 \/ \E m \in Messages : worker'[w].page.items = {Snapshot(m)}
        <3>1. PICK q : q = ScanPage(state.scan, Exists(state.scan + 1))
            OBVIOUS
        <3>2. q \in Pages
            BY <1>1, <1>2, <3>1, ScanPageTyped
        <3>3. [q EXCEPT !.base = b] \in Pages /\ [q EXCEPT !.base = b].items = q.items
            BY <3>2 DEF Pages
        <3>4. q.items = {} \/ \E m \in Messages : q.items = {Snapshot(m)}
            BY <1>1, <1>2, <3>1, ScanPageTyped
        <3>5. worker'[w].page.items = q.items
            BY <1>5, <2>2, <3>1, <3>3
        <3>6. QED
            BY <3>4, <3>5
    <2>3. asked \in Asks /\ begun \in Asks
        BY DEF TypeInv
    <2>4. QED
        BY <1>15, <2>1, <2>2, <2>3 DEF FetchScan
<1>16. ASSUME NEW f \in Folders, FetchDelta(w, f)
       PROVE  \/ worker'[w].page.items = {}
              \/ \E m \in Messages : worker'[w].page.items = {Snapshot(m)}
    BY <1>5, <1>16, FetchDeltaPage DEF Behind
<1>17. CASE ClaimNotification(w)
    <2>1. \A m, n : worker' = [worker EXCEPT ![w].phase = "notified", ![w].note = m, ![w].noted = n]
                      => worker'[w].page = worker[w].page
        BY <1>1 DEF Works0
    <2>2. Goes(w, "refresh") \/ \E m, n : worker' = [worker EXCEPT ![w].phase = "notified", ![w].note = m, ![w].noted = n]
        BY <1>17 DEF ClaimNotification
    <2>3. QED
        BY <1>3, <2>1, <2>2
<1>18. CASE FetchNotified(w)
    <2>1. worker[w].note \in Messages
        BY <1>18 DEF FetchNotified, Fetching, TypeInv, WorkersInv, GoodWork
    <2>2. QED
        BY <1>7, <1>18, <2>1 DEF FetchNotified
<1>19. CASE StoreNotified(w) \/ StoreUnread(w)
    BY <1>1, <1>4, <1>19, NoPageIsPage DEF StoreNotified, StoreUnread, Works0
<1>20. CASE ListUnread(w)
    BY <1>1, <1>20 DEF ListUnread, Works0
<1>21. CASE FetchUnread(w)
    <2>1. worker[w].todo \subseteq Messages
        BY <1>1 DEF Works0
    <2>2. QED
        BY <1>3, <1>7, <1>21, <2>1 DEF FetchUnread
<1>22. CASE \/ FetchSentScan(w) \/ FetchScan(w) \/ FetchNotified(w) \/ FetchUnread(w)
            \/ \E f \in Folders : FetchDelta(w, f)
    <2>1. UNCHANGED <<clock, graph, channel, state, note, row, hook, history>>
        BY <1>22 DEF FetchSentScan, FetchScan, FetchDelta, FetchNotified, FetchUnread
    <2>2. QED
        BY <1>14, <1>15, <1>16, <1>18, <1>21, <1>22, <2>1
<1>23. QED
    BY <1>8, <1>9, <1>10, <1>11, <1>12, <1>13, <1>17, <1>19, <1>20, <1>22, WorkerFrame
    DEF Works

Fetches(w) == \/ Subscribe(w) \/ FetchSentScan(w) \/ FetchScan(w) \/ FetchNotified(w)
              \/ FetchUnread(w) \/ \E f \in Folders : FetchDelta(w, f)

\* A page that is kept is kept with what it was fetched for.
LEMMA PageStep ==
    ASSUME MailboxSyncAssumption, TypeInv, [Next]_vars, NEW w \in Workers, worker'[w].page.full
    PROVE  /\ worker'[w].phase = worker[w].phase
           /\ worker'[w].note = worker[w].note /\ worker'[w].noted = worker[w].noted
           /\ worker'[w].page = worker[w].page \/ Fetches(w)
<1>1. worker \in [Workers -> Works0] /\ GoodWork(worker[w])
    BY DEF TypeInv, WorkersInv
<1>2. \A p : Goes(w, p) => ~worker'[w].page.full
    BY <1>1, NoPageIsPage DEF Goes, Works0
<1>3. Raises(w) => ~worker'[w].page.full
    BY <1>1, NoPageIsPage DEF Raises, Works0
<1>4. \A p : Fetched(w, p) => /\ worker'[w].phase = worker[w].phase
                              /\ worker'[w].note = worker[w].note
                              /\ worker'[w].noted = worker[w].noted
    BY <1>1 DEF Fetched, Works0
<1>5. CASE worker'[w] = worker[w]
    BY <1>5
<1>6. ASSUME NEW v \in Workers \ {w}, \/ Works(v) \/ Crash(v) \/ RequestFails(v)
                                      \/ \E f \in Folders : DeltaExpired(v, f)
      PROVE  worker'[w] = worker[w]
    BY <1>6, OnlyItsOwn, WorkersMove
<1>7. ~(\/ LeaseLost(w) \/ RequestFails(w) \/ \E f \in Folders : DeltaExpired(w, f))
    BY <1>3 DEF LeaseLost, RequestFails, DeltaExpired
<1>8. ~(\/ PersistSubscription(w) \/ StoreSentScan(w) \/ StoreScan(w) \/ Reconcile(w)
        \/ \E f \in Folders : StoreDelta(w, f))
    BY <1>2 DEF PersistSubscription, StoreSentScan, StoreScan, Reconcile, StoreDelta
<1>9. ~(ClaimMailbox(w) \/ Crash(w) \/ Finalize(w))
    <2>1. \A r : worker' = [worker EXCEPT ![w] = r] => worker'[w] = r
        BY <1>1
    <2>2. NoWork.page = NoPage /\ \A n : [NoWork EXCEPT !.phase = "subscribe", !.req = n].page = NoPage
        BY DEF NoWork
    <2>3. ClaimMailbox(w) \/ Crash(w) \/ Finalize(w) => worker'[w].page = NoPage
        BY <2>1, <2>2 DEF ClaimMailbox, Crash, Finalize
    <2>4. QED
        BY <2>3, NoPageIsPage
<1>10. ~ClaimNotification(w)
    <2>1. \A m, n : worker' = [worker EXCEPT ![w].phase = "notified", ![w].note = m, ![w].noted = n]
                      => worker'[w].page = worker[w].page
        BY <1>1 DEF Works0
    <2>2. ASSUME ClaimNotification(w)
          PROVE  /\ worker[w].phase = "notify"
                 /\ \/ Goes(w, "refresh")
                    \/ \E m, n : worker' = [worker EXCEPT ![w].phase = "notified",
                                                          ![w].note = m, ![w].noted = n]
        BY <2>2 DEF ClaimNotification
    <2>3. worker[w].phase = "notify" => ~worker[w].page.full
        BY <1>1 DEF GoodWork, FullPhases, ScanPhases
    <2>4. QED
        BY <1>2, <2>1, <2>2, <2>3
<1>11. ~(StoreNotified(w) \/ StoreUnread(w))
    <2>1. worker' = [worker EXCEPT ![w].phase = "notify", ![w].page = NoPage,
                                   ![w].note = 0, ![w].noted = 0] => ~worker'[w].page.full
        BY <1>1, NoPageIsPage DEF Works0
    <2>2. ~StoreNotified(w)
        BY <1>3, <2>1 DEF StoreNotified
    <2>3. ~StoreUnread(w)
        BY <1>1, NoPageIsPage DEF StoreUnread, Works0
    <2>4. QED
        BY <2>2, <2>3
<1>12. ~ListUnread(w)
    BY <1>1 DEF ListUnread, GoodWork, Works0, FullPhases, ScanPhases
<1>13. CASE Fetches(w)
    <2>1. \E p : Goes(w, p) \/ Raises(w) \/ Fetched(w, p)
        BY <1>13 DEF Fetches, Subscribe, FetchSentScan, FetchScan, FetchNotified, FetchUnread,
           FetchDelta
    <2>2. QED
        BY <1>2, <1>3, <1>4, <1>13, <2>1
<1>14. QED
    BY <1>5, <1>6, <1>7, <1>8, <1>9, <1>10, <1>11, <1>12, <1>13, WorkerFrame DEF Works, Fetches

\* A stored page changes the row of the message it holds, and no other.
LEMMA StoredIs ==
    ASSUME TypeInv, NEW w \in Workers, NEW m \in Messages
    PROVE  LET items == worker[w].page.items
           IN  /\ (\A s \in items : s.m # m) => Stored(items)[m] = row[m]
               /\ \A s \in items : s.m = m =>
                    /\ Stored(items)[m].at = s.at
                    /\ Stored(items)[m].kind =
                         IF s.kind = "removed" /\ row[m].kind \notin {"read", "unread"}
                         THEN row[m].kind ELSE s.kind
<1>1. \A s, t \in worker[w].page.items : s = t
    BY DEF TypeInv, WorkersInv, GoodWork
<1>2. ASSUME NEW s \in worker[w].page.items
      PROVE  (CHOOSE t \in worker[w].page.items : t.m = s.m) = s
    BY <1>1
<1>3. ASSUME NEW s \in worker[w].page.items, s.m = m
      PROVE  LET kept == Stored(worker[w].page.items)[m]
             IN  /\ kept.at = s.at
                 /\ kept.kind = IF s.kind = "removed" /\ row[m].kind \notin {"read", "unread"}
                                THEN row[m].kind ELSE s.kind
    <2>1. (CHOOSE t \in worker[w].page.items : t.m = m) = s
        BY <1>2, <1>3
    <2>2. Stored(worker[w].page.items)[m] =
            [at |-> s.at,
             kind |-> IF s.kind = "removed" /\ row[m].kind \notin {"read", "unread"}
                      THEN row[m].kind ELSE s.kind]
        BY <1>3, <2>1 DEF Stored
    <2>3. QED
        BY <2>2
<1>4. (\A s \in worker[w].page.items : s.m # m) => Stored(worker[w].page.items)[m] = row[m]
    BY DEF Stored
<1>5. QED
    BY <1>3, <1>4

\* Only the worker that holds the mailbox stores, and it is done with its page.
LEMMA RowChange ==
    ASSUME MailboxSyncAssumption, TypeInv, [Next]_vars
    PROVE  \/ row' = row
           \/ \E w \in Workers :
                /\ Holds(w) /\ worker[w].page.full
                /\ row' = Stored(worker[w].page.items)
                /\ state'.status = state.status /\ state'.owner = state.owner
                /\ worker'[w].page = NoPage
                /\ UNCHANGED <<clock, graph, channel, hook>>
                /\ \A v \in Workers \ {w} : worker'[v] = worker[v]
<1>1. worker \in [Workers -> Works0] /\ state \in StateRows
    BY DEF TypeInv, WorkersInv
<1>2. \A w \in Workers : \A p : Goes(w, p) => worker'[w].page = NoPage
    BY <1>1 DEF Goes, Works0
<1>3. ASSUME NEW w \in Workers, StoreSentScan(w) \/ StoreScan(w)
      PROVE  /\ row' = Stored(worker[w].page.items)
             /\ state'.status = state.status /\ state'.owner = state.owner
             /\ worker'[w].page = NoPage
             /\ UNCHANGED <<clock, graph, channel, hook>>
    BY <1>1, <1>2, <1>3 DEF StoreSentScan, StoreScan, StateRows
<1>4. ASSUME NEW w \in Workers, NEW f \in Folders, StoreDelta(w, f)
      PROVE  /\ row' = Stored(worker[w].page.items)
             /\ state'.status = state.status /\ state'.owner = state.owner
             /\ worker'[w].page = NoPage
             /\ UNCHANGED <<clock, graph, channel, hook>>
    BY <1>1, <1>2, <1>4 DEF StoreDelta, StateRows, Folders
<1>5. ASSUME NEW w \in Workers, StoreNotified(w), row' # row
      PROVE  /\ row' = Stored(worker[w].page.items)
             /\ state'.status = state.status /\ state'.owner = state.owner
             /\ worker'[w].page = NoPage
             /\ UNCHANGED <<clock, graph, channel, hook>>
    <2>1. worker' = [worker EXCEPT ![w].phase = "notify", ![w].page = NoPage,
                                   ![w].note = 0, ![w].noted = 0]
        BY <1>5 DEF StoreNotified
    <2>2. worker'[w].page = NoPage
        BY <1>1, <2>1 DEF Works0
    <2>3. QED
        BY <1>5, <2>2 DEF StoreNotified
<1>6. ASSUME NEW w \in Workers, StoreUnread(w)
      PROVE  /\ row' = Stored(worker[w].page.items)
             /\ state'.status = state.status /\ state'.owner = state.owner
             /\ worker'[w].page = NoPage
             /\ UNCHANGED <<clock, graph, channel, hook>>
    <2>1. worker'[w].page = NoPage
        BY <1>1, <1>6 DEF StoreUnread, Works0
    <2>2. QED
        BY <1>6, <2>1 DEF StoreUnread
<1>7. ASSUME NEW w \in Workers,
             \/ StoreSentScan(w) \/ StoreScan(w) \/ StoreNotified(w) \/ StoreUnread(w)
             \/ \E f \in Folders : StoreDelta(w, f)
      PROVE  /\ Holds(w) /\ worker[w].page.full
             /\ \A v \in Workers \ {w} : worker'[v] = worker[v]
    BY <1>7, StoresPage, WorkersMove, OnlyItsOwn DEF Works
<1>8. QED
    BY <1>3, <1>4, <1>5, <1>6, <1>7, RowFrame

-----------------------------------------------------------------------------
(* No row goes back.  What a pass has fetched is a version the mailbox has *)
(* had, and, while it holds the mailbox, no older than the row.            *)

FreshInv ==
    /\ \A m \in Messages : row[m].at <= mail[m].at /\ mail[m].at <= clock
    /\ \A w \in Workers : \A s \in worker[w].page.items :
         s.at <= mail[s.m].at /\ (Holds(w) => row[s.m].at <= s.at)

LEMMA InitFresh == ASSUME MailboxSyncAssumption, Init PROVE FreshInv
<1>1. \A w \in Workers : worker[w].page.items = {}
    BY NoPageIsPage DEF Init, NoWork
<1>2. \A m \in Messages : row[m].at = 0 /\ mail[m].at \in {0, 1}
    BY DEF Init
<1>3. QED
    BY <1>1, <1>2 DEF Init, FreshInv

LEMMA FreshStep ==
    ASSUME MailboxSyncAssumption, TypeInv, FreshInv, [Next]_vars
    PROVE  FreshInv' /\ NeverOlder
<1>1. TypeInv'
    BY TypeStep
<1>2. \A m \in Messages : /\ mail[m].at \in Nat /\ mail'[m].at \in Nat
                          /\ row[m].at \in Nat /\ row'[m].at \in Nat
    BY <1>1 DEF TypeInv, GraphInv, MailRows
<1>3. clock \in Nat /\ clock' \in Nat /\ clock' >= clock
    BY <1>1, MailStep, SizeFacts DEF TypeInv, GraphInv, Messages
<1>4. \A m \in Messages : mail'[m].at >= mail[m].at /\ mail'[m].at <= clock'
    BY <1>2, <1>3, MailStep DEF FreshInv, Change
<1>5. \A w \in Workers : \A s \in worker[w].page.items : s.m \in Messages /\ s.at \in Nat
    BY DEF TypeInv, WorkersInv, GoodWork, Works0, Pages, Snapshots
<1>6. \A m \in Messages : row'[m].at >= row[m].at /\ row'[m].at <= mail'[m].at
    <2>1. CASE row' = row
        BY <1>2, <1>4, <2>1 DEF FreshInv
    <2>2. ASSUME NEW w \in Workers, Holds(w), row' = Stored(worker[w].page.items),
                 NEW m \in Messages
          PROVE  row'[m].at >= row[m].at /\ row'[m].at <= mail'[m].at
        <3>1. CASE \A s \in worker[w].page.items : s.m # m
            BY <1>2, <1>4, <2>2, <3>1, StoredIs DEF FreshInv
        <3>2. ASSUME NEW s \in worker[w].page.items, s.m = m
              PROVE  row'[m].at >= row[m].at /\ row'[m].at <= mail'[m].at
            <4>1. row'[m].at = s.at
                BY <2>2, <3>2, StoredIs
            <4>2. s.at <= mail[m].at /\ row[m].at <= s.at
                BY <2>2, <3>2 DEF FreshInv
            <4>3. QED
                BY <1>2, <1>4, <4>1, <4>2
        <3>3. QED
            BY <3>1, <3>2
    <2>3. QED
        BY <2>1, <2>2, RowChange
<1>7. ASSUME NEW w \in Workers, NEW s \in worker'[w].page.items
      PROVE  s.at <= mail'[s.m].at /\ (Holds(w)' => row'[s.m].at <= s.at)
    <2>1. ASSUME NEW m \in Messages, s = Snapshot(m), UNCHANGED <<graph, row>>
          PROVE  s.at <= mail'[s.m].at /\ (Holds(w)' => row'[s.m].at <= s.at)
        <3>1. s.m = m /\ s.at = mail[m].at
            BY <2>1, SnapshotTyped DEF TypeInv
        <3>2. mail' = mail /\ row' = row
            BY <2>1 DEF graph
        <3>3. QED
            BY <1>2, <3>1, <3>2 DEF FreshInv
    <2>2. ASSUME worker'[w].page = worker[w].page
          PROVE  s.at <= mail'[s.m].at /\ (Holds(w)' => row'[s.m].at <= s.at)
        <3>1. s \in worker[w].page.items /\ s.m \in Messages /\ s.at \in Nat
            BY <1>5, <2>2
        <3>2. s.at <= mail'[s.m].at
            BY <1>2, <1>4, <3>1 DEF FreshInv
        <3>3. ASSUME Holds(w)' PROVE row'[s.m].at <= s.at
            <4>1. Holds(w)
                <5>1. ASSUME ClaimMailbox(w) PROVE worker'[w].page.items = {}
                    BY <5>1, NoPageIsPage DEF ClaimMailbox, NoWork, TypeInv, WorkersInv
                <5>2. QED
                    BY <3>3, <5>1, HoldsStep
            <4>2. CASE row' = row
                BY <3>1, <4>1, <4>2 DEF FreshInv
            <4>3. ASSUME NEW v \in Workers, Holds(v), worker'[v].page = NoPage PROVE FALSE
                <5>1. v = w
                    BY <4>1, <4>3 DEF Holds
                <5>2. QED
                    BY <4>3, <5>1, NoPageIsPage
            <4>4. QED
                BY <4>2, <4>3, RowChange
        <3>4. QED
            BY <3>2, <3>3
    <2>3. QED
        BY <2>1, <2>2, ItemsStep
<1>8. QED
    BY <1>4, <1>6, <1>7 DEF FreshInv, NeverOlder

\* For every interleaving of workers, restarts and paused processes: a page
\* fetched by a process that has since lost the mailbox never overwrites what
\* its successor stored (_lock_current_claim before every store).
THEOREM NeverOlderHolds == ASSUME MailboxSyncAssumption PROVE Spec => [][NeverOlder]_vars
<1>1. Init => TypeInv /\ FreshInv
    BY InitTypes, InitFresh
<1>2. TypeInv /\ FreshInv /\ [Next]_vars => (TypeInv /\ FreshInv)'
    BY TypeStep, FreshStep
<1>3. TypeInv /\ FreshInv /\ [Next]_vars => [NeverOlder]_vars
    BY FreshStep
<1>4. QED
    BY <1>1, <1>2, <1>3, PTL DEF Spec

-----------------------------------------------------------------------------
(* A rescan asked for with no pass running is served.  A scan under way    *)
(* began after the last such request, a page of it too, and a webhook call *)
(* that read the state row before a pass began has yet to write the        *)
(* columns that say so.                                                    *)

RescanInv ==
    /\ QuietRescanServed
    /\ state.scan # 0 => begun.quiet = asked.quiet
    /\ \A w \in Workers :
         Holds(w) /\ Storing(w, "scan") => worker[w].page.base.quiet = asked.quiet
    /\ \A h \in Hooks : hook[h] # NoCall /\ hook[h].quiet =>
         /\ state.status # "running"
         /\ state.force \/ "force" \in hook[h].read
         /\ state.scan = 0 \/ "scan" \in hook[h].read

LEMMA InitRescan == ASSUME MailboxSyncAssumption, Init PROVE RescanInv
<1>1. \A w \in Workers : ~worker[w].page.full
    BY NoPageIsPage DEF Init, NoWork
<1>2. \A h \in Hooks : hook[h] = NoCall
    BY DEF Init
<1>3. QED
    BY <1>1, <1>2 DEF Init, RescanInv, QuietRescanServed, Storing

LEMMA FetchedScan ==
    ASSUME MailboxSyncAssumption, TypeInv, NEW w \in Workers, FetchScan(w), worker'[w].page.full
    PROVE  LET p == worker'[w].page
           IN  /\ state.force
               /\ p.base = IF state.scan = 0 THEN asked ELSE begun
               /\ p.next = state.scan + 1 /\ p.next \in Messages
               /\ p.items = IF Exists(p.next) THEN {Snapshot(p.next)} ELSE {}
<1>1. worker \in [Workers -> Works0] /\ GraphInv /\ state.scan \in 0..(Size - 1)
    BY DEF TypeInv, WorkersInv, StateRows
<1>2. ~Goes(w, "inbox_delta")
    BY <1>1, NoPageIsPage DEF Goes, Works0
<1>3. PICK b : b = IF state.scan = 0 THEN asked ELSE begun
    OBVIOUS
<1>4. b \in Asks
    BY <1>3 DEF TypeInv
<1>5. PICK q : q = ScanPage(state.scan, Exists(state.scan + 1))
    OBVIOUS
<1>6. /\ q \in Pages /\ q.next = state.scan + 1 /\ state.scan + 1 \in Messages
      /\ q.items = IF Exists(state.scan + 1) THEN {Snapshot(state.scan + 1)} ELSE {}
    BY <1>1, <1>5, ScanPageTyped
<1>7. state.force /\ Fetched(w, [q EXCEPT !.base = b])
    BY <1>2, <1>3, <1>5 DEF FetchScan
<1>8. PICK p : p = [q EXCEPT !.base = b]
    OBVIOUS
<1>9. p \in Pages /\ p.base = b /\ p.next = q.next /\ p.items = q.items
    BY <1>4, <1>6, <1>8 DEF Pages
<1>10. worker'[w].page = [p EXCEPT !.full = TRUE]
    BY <1>1, <1>7, <1>8 DEF Fetched, Works0
<1>11. /\ worker'[w].page.base = b /\ worker'[w].page.next = q.next
       /\ worker'[w].page.items = q.items
    BY <1>9, <1>10, FilledPage
<1>12. QED
    BY <1>3, <1>6, <1>7, <1>11

LEMMA ScratchIs ==
    ASSUME NEW st \in StateRows
    PROVE  /\ FromScratch(st).force /\ FromScratch(st).scan = 0
           /\ FromScratch(st).sub = st.sub
           /\ \A f \in Folders : FromScratch(st)[f] = st[f]
BY DEF Folders, FromScratch, ResetColumns, StateRows, Resets

\* A step that asks for no rescan and serves none.
Calm == /\ state'.force = state.force /\ state'.scan = state.scan /\ UNCHANGED history
        /\ \/ state.status = "running" \/ state'.status # "running"
           \/ \E w \in Workers : ClaimMailbox(w)

\* A step that has a pass begin from scratch.
Restart == /\ state.status = "running" /\ state'.force /\ state'.scan = 0
           /\ UNCHANGED <<hook, served>>
           /\ \A w \in Workers : ~(Holds(w)' /\ worker'[w].page.full)

LEMMA RescanCases ==
    ASSUME MailboxSyncAssumption, TypeInv, [Next]_vars
    PROVE  \/ Calm \/ Restart
           \/ \E h \in Hooks : Record(h)
           \/ \E w \in Workers : StoreScan(w)
<1>1. state \in StateRows /\ worker \in [Workers -> Works0]
    BY DEF TypeInv, WorkersInv
<1>2. ASSUME UNCHANGED <<state, history>> PROVE Calm
    BY <1>2 DEF Calm
<1>3. CASE Expiring \/ TimePasses
    BY <1>1, <1>3 DEF Expiring, TimePasses, Calm, StateRows
<1>4. ASSUME NEW w \in Workers, RecoverStale(w) PROVE Calm \/ Restart
    <2>1. \/ UNCHANGED <<state, history>>
          \/ /\ state.status = "running" /\ UNCHANGED <<hook, served>>
             /\ state' = [FromScratch(state) EXCEPT !.status = "error", !.owner = Null,
                                                    !.next = "now"]
        BY <1>4 DEF RecoverStale, history
    <2>2. FromScratch(state) \in StateRows
        BY <1>1, ResetTyped DEF FromScratch
    <2>3. ASSUME state.status = "running", UNCHANGED <<hook, served>>,
                 state' = [FromScratch(state) EXCEPT !.status = "error", !.owner = Null,
                                                     !.next = "now"]
          PROVE  Restart
        <3>1. state'.force /\ state'.scan = 0 /\ state'.status = "error"
            BY <1>1, <2>2, <2>3, ScratchIs DEF StateRows
        <3>2. QED
            BY <2>3, <3>1 DEF Restart, Holds
    <2>4. QED
        BY <1>2, <2>1, <2>3
<1>5. ASSUME NEW w \in Workers, ClaimMailbox(w) PROVE Calm
    BY <1>1, <1>5 DEF ClaimMailbox, Calm, StateRows
<1>6. ASSUME NEW w \in Workers, Finalize(w) PROVE Calm
    <2>1. \/ state' = state
          \/ \E st \in {"error", "idle"}, n \in {"now", "later"} :
               state' = [state EXCEPT !.status = st, !.owner = Null, !.next = n]
        BY <1>6, Zenon DEF Finalize
    <2>2. state'.force = state.force /\ state'.scan = state.scan
          /\ (state' = state \/ state'.status # "running")
        BY <1>1, <2>1 DEF StateRows
    <2>3. UNCHANGED history
        BY <1>6 DEF Finalize
    <2>4. QED
        BY <2>2, <2>3 DEF Calm
<1>7. ASSUME NEW w \in Workers, Crash(w) PROVE Calm
    BY <1>1, <1>7 DEF Crash, Calm, StateRows
<1>8. ASSUME NEW w \in Workers, PersistSubscription(w) \/ StoreSentScan(w) PROVE Calm
    BY <1>1, <1>8 DEF PersistSubscription, StoreSentScan, Calm, StateRows
<1>9. ASSUME NEW w \in Workers, NEW f \in Folders, StoreDelta(w, f) PROVE Calm
    BY <1>1, <1>9 DEF StoreDelta, Calm, StateRows, Folders
<1>10. ASSUME NEW w \in Workers, NEW f \in Folders, DeltaExpired(w, f) PROVE Calm \/ Restart
    <2>1. CASE ~Holds(w)
        BY <1>2, <1>10, <2>1 DEF DeltaExpired, history
    <2>2. CASE Holds(w)
        <3>1. /\ state' = [FromScratch(state) EXCEPT ![f] = 0] /\ UNCHANGED <<hook, served>>
              /\ f \in {"inbox", "sentitems"}
            BY <1>10, <2>2 DEF DeltaExpired, Folders
        <3>2. /\ FromScratch(state) \in StateRows /\ FromScratch(state).status = state.status
              /\ FromScratch(state).owner = state.owner
            BY <1>1, ResetTyped DEF FromScratch
        <3>3. /\ state'.force /\ state'.scan = 0 /\ state'.owner = w
              /\ state.status = "running"
            BY <1>1, <2>2, <3>1, <3>2, ScratchIs DEF StateRows, Holds
        <3>4. ~worker'[w].page.full
            BY <1>1, <1>10, NoPageIsPage DEF DeltaExpired, Raises, Works0
        <3>5. QED
            BY <3>1, <3>3, <3>4 DEF Restart, Holds
    <2>3. QED
        BY <2>1, <2>2
<1>11. QED
    BY <1>2, <1>3, <1>4, <1>5, <1>6, <1>7, <1>8, <1>9, <1>10, StateFrame, HistoryFrame

LEMMA RecordIs ==
    ASSUME MailboxSyncAssumption, TypeInv, NEW h \in Hooks, Record(h)
    PROVE  LET c == hook[h]
           IN  /\ c \in HookCalls
               /\ state'.status = state.status /\ state'.owner = state.owner
               /\ state'.force = (state.force \/ (WantsRescan(c.event) /\ "force" \in c.read))
               /\ state'.scan = IF WantsRescan(c.event) /\ "scan" \in c.read THEN 0
                                ELSE state.scan
               /\ state'.sub = IF c.event.kind = "subscriptionRemoved" THEN 0 ELSE state.sub
               /\ \A f \in Folders : state'[f] = state[f]
<1>1. hook[h] \in HookCalls /\ state \in StateRows /\ state' = Signalled(state, hook[h])
    BY DEF TypeInv, Record
<1>2. PICK c : c = hook[h]
    OBVIOUS
<1>3. PICK asking : asking = IF WantsRescan(c.event) THEN ResetColumns(state, c.read) ELSE state
    OBVIOUS
<1>4. /\ asking \in StateRows /\ asking.status = state.status /\ asking.owner = state.owner
    BY <1>1, <1>3, ResetTyped
<1>5. /\ asking.force = (state.force \/ (WantsRescan(c.event) /\ "force" \in c.read))
      /\ asking.scan = IF WantsRescan(c.event) /\ "scan" \in c.read THEN 0 ELSE state.scan
      /\ asking.sub = state.sub
      /\ asking.inbox = state.inbox /\ asking.sentitems = state.sentitems
    BY <1>1, <1>3 DEF ResetColumns, StateRows
<1>6. state' = CASE c.event.kind = "subscriptionRemoved" ->
                      [asking EXCEPT !.requested = c.at, !.sub = 0, !.soon = FALSE]
                 [] c.event.kind = "reauthorizationRequired" ->
                      [asking EXCEPT !.requested = c.at, !.soon = TRUE]
                 [] OTHER -> [asking EXCEPT !.requested = c.at]
    BY <1>1, <1>2, <1>3, Zenon DEF Signalled
<1>7. /\ state'.status = asking.status /\ state'.owner = asking.owner
      /\ state'.force = asking.force /\ state'.scan = asking.scan
      /\ state'.sub = IF c.event.kind = "subscriptionRemoved" THEN 0 ELSE asking.sub
      /\ state'.inbox = asking.inbox /\ state'.sentitems = asking.sentitems
    BY <1>4, <1>6 DEF StateRows
<1>8. \A f \in Folders : state'[f] = state[f]
    BY <1>5, <1>7 DEF Folders
<1>9. QED
    BY <1>1, <1>2, <1>4, <1>5, <1>7, <1>8

LEMMA RescanStep ==
    ASSUME MailboxSyncAssumption, TypeInv, RescanInv, [Next]_vars
    PROVE  RescanInv'
<1>1. TypeInv'
    BY TypeStep
<1>2. /\ asked \in Asks /\ asked' \in Asks /\ begun \in Asks /\ begun' \in Asks
      /\ served \in Asks /\ served' \in Asks
      /\ state \in StateRows /\ state' \in StateRows /\ worker \in [Workers -> Works0]
    BY <1>1 DEF TypeInv, WorkersInv
<1>3. /\ asked.quiet \in Nat /\ asked'.quiet \in Nat /\ served.quiet \in Nat
    BY <1>2 DEF Asks
\* What is fetched while the requests and the scan stay as they are.
<1>4. ASSUME NEW w \in Workers, Holds(w)', Storing(w, "scan")',
             asked'.quiet = asked.quiet
      PROVE  worker'[w].page.base.quiet = asked'.quiet
    <2>1. worker'[w].page.full /\ worker'[w].phase = "scan"
        BY <1>4 DEF Storing
    <2>2. worker[w].phase = "scan" /\ (worker'[w].page = worker[w].page \/ Fetches(w))
        BY <2>1, PageStep
    <2>3. CASE worker'[w].page = worker[w].page
        <3>1. Holds(w)
            BY <1>4, <2>2, HoldsStep DEF ClaimMailbox
        <3>2. QED
            BY <1>4, <2>1, <2>2, <2>3, <3>1 DEF RescanInv, Storing
    <2>4. CASE Fetches(w)
        <3>1. FetchScan(w)
            BY <2>2, <2>4 DEF Fetches, Subscribe, FetchSentScan, FetchNotified, FetchUnread,
               FetchDelta, Fetching, DeltaPhase, Folders
        <3>2. worker'[w].page.base = IF state.scan = 0 THEN asked ELSE begun
            BY <2>1, <3>1, FetchedScan
        <3>3. QED
            BY <1>4, <3>2 DEF RescanInv
    <2>5. QED
        BY <2>2, <2>3, <2>4
<1>5. CASE Calm
    <2>1. asked' = asked /\ begun' = begun /\ served' = served
          /\ state'.force = state.force /\ state'.scan = state.scan
        BY <1>5 DEF Calm, history
    <2>2. ASSUME NEW h \in Hooks, hook'[h] # NoCall, hook'[h].quiet
          PROVE  /\ state'.status # "running"
                 /\ state'.force \/ "force" \in hook'[h].read
                 /\ state'.scan = 0 \/ "scan" \in hook'[h].read
        <3>1. ~\E w \in Workers : ClaimMailbox(w)
            <4>1. ASSUME NEW w \in Workers, ClaimMailbox(w) PROVE FALSE
                <5>1. hook' = [g \in Hooks |-> [hook[g] EXCEPT !.quiet = (hook[g] = NoCall)]]
                    BY <4>1 DEF ClaimMailbox
                <5>2. hook[h] \in HookCalls
                    BY DEF TypeInv
                <5>3. hook'[h].quiet = (hook[h] = NoCall) /\ (hook[h] = NoCall => hook'[h] = NoCall)
                    BY <5>1, <5>2 DEF HookCalls, NoCall
                <5>4. QED
                    BY <2>2, <5>3
            <4>2. QED
                BY <4>1
        <3>2. CASE hook'[h] = hook[h]
            BY <1>5, <2>1, <2>2, <3>1, <3>2 DEF RescanInv, Calm
        <3>3. CASE hook'[h] # hook[h]
            <4>1. PICK g \in Hooks : Receive(g) \/ Record(g)
                BY <3>1, <3>3, HookFrame
            <4>2. Receive(g) /\ g = h
                BY <2>2, <3>3, <4>1 DEF Receive, Record, TypeInv
            <4>3. PICK e : hook' = [hook EXCEPT ![h] =
                              [event |-> e, at |-> clock + 1, read |-> ToReset,
                               quiet |-> state.status # "running"]]
                BY <3>3, <4>2 DEF Receive
            <4>4. hook'[h] = [event |-> e, at |-> clock + 1, read |-> ToReset,
                              quiet |-> state.status # "running"]
                BY <4>3 DEF TypeInv
            <4>5. state.status # "running" /\ hook'[h].read = ToReset
                <5>1. PICK q \in BOOLEAN : q = (state.status # "running")
                    OBVIOUS
                <5>2. hook'[h] = [event |-> e, at |-> clock + 1, read |-> ToReset, quiet |-> q]
                    BY <4>4, <5>1, Zenon
                <5>3. hook'[h].quiet = q /\ hook'[h].read = ToReset
                    BY <5>2
                <5>4. q = TRUE
                    BY <2>2, <5>3, Zenon
                <5>5. QED
                    BY <5>1, <5>3, <5>4
            <4>6. (state.force \/ "force" \in ToReset) /\ (state.scan = 0 \/ "scan" \in ToReset)
                BY DEF ToReset, Resets
            <4>7. QED
                BY <1>5, <2>1, <3>1, <4>5, <4>6 DEF Calm
        <3>4. QED
            BY <3>2, <3>3
    <2>3. QED
        BY <1>4, <2>1, <2>2 DEF RescanInv, QuietRescanServed
<1>6. CASE Restart
    <2>1. /\ state'.force /\ state'.scan = 0 /\ hook' = hook
          /\ \A h \in Hooks : hook'[h] # NoCall => ~hook'[h].quiet
        BY <1>6 DEF Restart, RescanInv
    <2>2. \A w \in Workers : ~(Holds(w)' /\ Storing(w, "scan")')
        BY <1>6 DEF Restart, Storing
    <2>3. QED
        BY <2>1, <2>2 DEF RescanInv, QuietRescanServed
<1>7. ASSUME NEW h \in Hooks, Record(h) PROVE RescanInv'
    <2>1. PICK c : c = hook[h]
        OBVIOUS
    <2>2. /\ c \in HookCalls /\ state'.status = state.status
          /\ state'.force = (state.force \/ (WantsRescan(c.event) /\ "force" \in c.read))
          /\ state'.scan = IF WantsRescan(c.event) /\ "scan" \in c.read THEN 0 ELSE state.scan
        BY <1>7, <2>1, RecordIs
    <2>3. /\ c # NoCall /\ begun' = begun /\ served' = served /\ worker' = worker
          /\ asked' = IF ~WantsRescan(c.event) THEN asked
                      ELSE IF c.quiet THEN [asked EXCEPT !.quiet = @ + 1]
                      ELSE [asked EXCEPT !.busy = @ + 1]
        BY <1>7, <2>1 DEF Record
    <2>4. CASE WantsRescan(c.event) /\ c.quiet
        <3>1. state.status # "running" /\ state'.force /\ state'.scan = 0
            BY <2>1, <2>2, <2>3, <2>4 DEF RescanInv
        <3>2. \A w \in Workers : ~Holds(w)'
            BY <2>2, <3>1 DEF Holds
        <3>3. ASSUME NEW g \in Hooks, hook'[g] # NoCall, hook'[g].quiet
              PROVE  state'.status # "running"
            BY <2>2, <3>1
        <3>4. QED
            BY <3>1, <3>2, <3>3 DEF RescanInv, QuietRescanServed
    <2>5. CASE ~(WantsRescan(c.event) /\ c.quiet)
        <3>1. asked'.quiet = asked.quiet
            BY <1>2, <2>3, <2>5 DEF Asks
        <3>2. state'.scan \in {0, state.scan} /\ (state.force => state'.force)
            BY <2>2
        <3>3. ASSUME NEW g \in Hooks, hook'[g] # NoCall, hook'[g].quiet
              PROVE  /\ state'.status # "running"
                     /\ state'.force \/ "force" \in hook'[g].read
                     /\ state'.scan = 0 \/ "scan" \in hook'[g].read
            <4>1. hook' = [hook EXCEPT ![h] = NoCall]
                BY <1>7 DEF Record
            <4>2. g # h /\ hook'[g] = hook[g]
                BY <3>3, <4>1 DEF TypeInv
            <4>3. QED
                BY <2>2, <3>2, <3>3, <4>2 DEF RescanInv
        <3>4. QED
            BY <1>4, <2>3, <3>1, <3>2, <3>3 DEF RescanInv, QuietRescanServed
    <2>6. QED
        BY <2>4, <2>5
<1>8. ASSUME NEW w \in Workers, StoreScan(w) PROVE RescanInv'
    <2>1. /\ Holds(w) /\ Storing(w, "scan") /\ hook' = hook /\ asked' = asked
          /\ begun' = worker[w].page.base
          /\ served' = IF worker[w].page.last THEN worker[w].page.base ELSE served
          /\ state' = [state EXCEPT !.scan = NextLink(worker[w].page),
                                    !.force = @ /\ ~worker[w].page.last]
        BY <1>8 DEF StoreScan
    <2>2. worker[w].page.base.quiet = asked.quiet
        BY <2>1 DEF RescanInv
    <2>3. /\ state'.force = (state.force /\ ~worker[w].page.last)
          /\ state'.status = "running"
        BY <1>2, <2>1 DEF StateRows, Holds
    <2>4. \A h \in Hooks : hook'[h] # NoCall => ~hook'[h].quiet
        BY <2>1 DEF RescanInv, Holds
    <2>5. QED
        <3>1. served'.quiet < asked'.quiet => state'.force
            <4>1. CASE worker[w].page.last
                BY <1>3, <2>1, <2>2, <4>1
            <4>2. CASE ~worker[w].page.last
                BY <1>3, <2>1, <2>3, <4>2 DEF RescanInv, QuietRescanServed
            <4>3. QED
                BY <4>1, <4>2
        <3>2. begun'.quiet = asked'.quiet
            BY <2>1, <2>2
        <3>3. \A v \in Workers : Holds(v)' /\ Storing(v, "scan")' =>
                worker'[v].page.base.quiet = asked'.quiet
            BY <1>4, <2>1
        <3>4. QED
            BY <2>4, <3>1, <3>2, <3>3 DEF RescanInv, QuietRescanServed
<1>9. QED
    BY <1>5, <1>6, <1>7, <1>8, RescanCases

\* For every interleaving of webhook calls, workers and restarts: a rescan
\* asked for while no pass was running, by an expired delta link or by an
\* expired lease stays asked for until a scan begun later is finished
\* (_reset_reconciliation, the force_rescan flag).
THEOREM QuietRescanHolds == ASSUME MailboxSyncAssumption PROVE Spec => []QuietRescanServed
<1>1. Init => TypeInv /\ RescanInv
    BY InitTypes, InitRescan
<1>2. TypeInv /\ RescanInv /\ [Next]_vars => (TypeInv /\ RescanInv)'
    BY TypeStep, RescanStep
<1>3. RescanInv => QuietRescanServed
    BY DEF RescanInv
<1>4. QED
    BY <1>1, <1>2, <1>3, PTL DEF Spec

-----------------------------------------------------------------------------
(* Nothing is skipped.  First the subscription: while notifications are    *)
(* dropped for want of it, nothing is stored and everything has yet to be  *)
(* scanned.                                                                *)

SubInv ==
    /\ graphSub = 0 => channel = {} /\ state.sub = 0
    /\ \A e \in channel : e.kind \in {"changed", "reauthorizationRequired"} /\ e.sub = graphSub
    /\ \A h \in Hooks : hook[h].event.kind \in {"none", "changed", "reauthorizationRequired"}
    /\ state.sub \in {0, graphSub}
    /\ \A h \in Hooks : hook[h] # NoCall => state.sub # 0
    /\ state.sub = 0 => /\ state.force /\ state.scan = 0
                        /\ \A m \in Messages : row[m].kind = "none"
    /\ \A w \in Workers :
         /\ Storing(w, "subscribe") => worker[w].page.items = {}
         /\ Holds(w) =>
              /\ Storing(w, "subscribe") => worker[w].page.next = graphSub /\ graphSub # 0
              /\ worker[w].phase \notin {"subscribe", "finalize", "idle"} => state.sub # 0

\* What a step makes of the columns that say what has yet to be read.
Kept == /\ state'.force = state.force /\ state'.scan = state.scan /\ state'.sub = state.sub
        /\ \A f \in Folders : state'[f] = state[f]

Rescans == /\ state'.force /\ state'.scan = 0 /\ state'.sub = state.sub
           /\ \A f \in Folders : state'[f] \in {0, state[f]}
           /\ \A w \in Workers : ~(Holds(w)' /\ worker'[w].page.full)
           /\ UNCHANGED <<clock, graph, channel, row, hook>>

Scanned(w) == /\ StoreScan(w)
              /\ state'.scan = NextLink(worker[w].page)
              /\ state'.force = (state.force /\ ~worker[w].page.last)
              /\ state'.sub = state.sub
              /\ \A f \in Folders : state'[f] = state[f]

Followed(w, f) == /\ StoreDelta(w, f)
                  /\ state'[f] = worker[w].page.next
                  /\ \A g \in Folders \ {f} : state'[g] = state[g]
                  /\ state'.force = state.force /\ state'.scan = state.scan
                  /\ state'.sub = state.sub

Subscribed(w) == /\ PersistSubscription(w)
                 /\ state'.sub = worker[w].page.next
                 /\ state'.force = state.force /\ state'.scan = state.scan
                 /\ \A f \in Folders : state'[f] = state[f]

LEMMA StateCases ==
    ASSUME MailboxSyncAssumption, TypeInv, SubInv, [Next]_vars
    PROVE  \/ Kept \/ Rescans
           \/ \E w \in Workers : \/ Scanned(w) \/ Subscribed(w)
                                 \/ \E f \in Folders : Followed(w, f)
<1>1. state \in StateRows /\ worker \in [Workers -> Works0] /\ WorkersInv
    BY DEF TypeInv, WorkersInv
<1>2. ASSUME state' = state PROVE Kept
    BY <1>2 DEF Kept
<1>3. CASE Expiring \/ TimePasses
    BY <1>1, <1>3 DEF Expiring, TimePasses, Kept, StateRows, Folders
<1>4. ASSUME NEW h \in Hooks, Record(h) PROVE Kept
    <2>1. /\ state'.force = (state.force \/ (WantsRescan(hook[h].event) /\ "force" \in hook[h].read))
          /\ state'.scan = IF WantsRescan(hook[h].event) /\ "scan" \in hook[h].read THEN 0
                           ELSE state.scan
          /\ state'.sub = IF hook[h].event.kind = "subscriptionRemoved" THEN 0 ELSE state.sub
          /\ \A f \in Folders : state'[f] = state[f]
        BY <1>4, RecordIs
    <2>2. hook[h].event.kind # "subscriptionRemoved" /\ ~WantsRescan(hook[h].event)
        BY DEF SubInv, WantsRescan
    <2>3. state.force \in BOOLEAN
        BY <1>1 DEF StateRows
    <2>4. QED
        BY <2>1, <2>2, <2>3 DEF Kept
<1>5. ASSUME NEW w \in Workers, RecoverStale(w) PROVE Kept \/ Rescans
    <2>1. \/ state' = state
          \/ state' = [FromScratch(state) EXCEPT !.status = "error", !.owner = Null,
                                                 !.next = "now"]
        BY <1>5 DEF RecoverStale
    <2>2. FromScratch(state) \in StateRows
        BY <1>1, ResetTyped DEF FromScratch
    <2>3. ASSUME state' = [FromScratch(state) EXCEPT !.status = "error", !.owner = Null,
                                                     !.next = "now"]
          PROVE  Rescans
        <3>1. /\ state'.force = FromScratch(state).force /\ state'.scan = FromScratch(state).scan
              /\ state'.sub = FromScratch(state).sub /\ state'.status = "error"
              /\ \A f \in Folders : state'[f] = FromScratch(state)[f]
            BY <2>2, <2>3 DEF StateRows, Folders
        <3>2. UNCHANGED <<clock, graph, channel, row, hook>>
            BY <1>5 DEF RecoverStale
        <3>3. QED
            BY <1>1, <3>1, <3>2, ScratchIs DEF Rescans, Holds
    <2>4. QED
        BY <1>2, <2>1, <2>3
<1>6. ASSUME NEW w \in Workers, ClaimMailbox(w) PROVE Kept
    BY <1>1, <1>6 DEF ClaimMailbox, Kept, StateRows, Folders
<1>7. ASSUME NEW w \in Workers, Finalize(w) PROVE Kept
    <2>1. \/ state' = state
          \/ \E st \in {"error", "idle"}, n \in {"now", "later"} :
               state' = [state EXCEPT !.status = st, !.owner = Null, !.next = n]
        BY <1>7, Zenon DEF Finalize
    <2>2. QED
        BY <1>1, <2>1 DEF Kept, StateRows, Folders
<1>8. ASSUME NEW w \in Workers, Crash(w) PROVE Kept
    BY <1>1, <1>8 DEF Crash, Kept, StateRows, Folders
<1>9. ASSUME NEW w \in Workers, PersistSubscription(w) PROVE Subscribed(w)
    BY <1>1, <1>9 DEF PersistSubscription, Subscribed, StateRows, Folders
<1>10. ASSUME NEW w \in Workers, StoreSentScan(w) PROVE Kept
    BY <1>1, <1>10 DEF StoreSentScan, Kept, StateRows, Folders
<1>11. ASSUME NEW w \in Workers, StoreScan(w) PROVE Scanned(w)
    <2>1. state' = [state EXCEPT !.scan = NextLink(worker[w].page),
                                 !.force = @ /\ ~worker[w].page.last]
        BY <1>11 DEF StoreScan
    <2>2. PICK b \in BOOLEAN : b = (state.force /\ ~worker[w].page.last)
        OBVIOUS
    <2>3. state' = [state EXCEPT !.scan = NextLink(worker[w].page), !.force = b]
        BY <2>1, <2>2, Zenon
    <2>4. state'.scan = NextLink(worker[w].page) /\ state'.force = b /\ state'.sub = state.sub
          /\ \A f \in Folders : state'[f] = state[f]
        BY <1>1, <2>3 DEF StateRows, Folders
    <2>5. QED
        BY <1>11, <2>2, <2>4 DEF Scanned
<1>12. ASSUME NEW w \in Workers, NEW f \in Folders, StoreDelta(w, f) PROVE Followed(w, f)
    <2>1. state' = [state EXCEPT ![f] = worker[w].page.next] /\ f \in {"inbox", "sentitems"}
        BY <1>12 DEF StoreDelta, Folders
    <2>2. /\ state'[f] = worker[w].page.next /\ \A g \in Folders \ {f} : state'[g] = state[g]
          /\ state'.force = state.force /\ state'.scan = state.scan /\ state'.sub = state.sub
        BY <1>1, <2>1 DEF StateRows, Folders
    <2>3. QED
        BY <1>12, <2>2 DEF Followed
<1>13. ASSUME NEW w \in Workers, NEW f \in Folders, DeltaExpired(w, f) PROVE Kept \/ Rescans
    <2>1. CASE ~Holds(w)
        BY <1>2, <1>13, <2>1 DEF DeltaExpired
    <2>2. CASE Holds(w)
        <3>1. state' = [FromScratch(state) EXCEPT ![f] = 0] /\ f \in {"inbox", "sentitems"}
            BY <1>13, <2>2 DEF DeltaExpired, Folders
        <3>2. /\ FromScratch(state) \in StateRows /\ FromScratch(state).status = state.status
              /\ FromScratch(state).owner = state.owner
            BY <1>1, ResetTyped DEF FromScratch
        <3>3. /\ state'.force = FromScratch(state).force /\ state'.scan = FromScratch(state).scan
              /\ state'.sub = FromScratch(state).sub /\ state'.owner = w
              /\ \A g \in Folders : state'[g] \in {0, FromScratch(state)[g]}
            BY <2>2, <3>1, <3>2 DEF StateRows, Folders, Holds
        <3>4. ~worker'[w].page.full
            BY <1>1, <1>13, NoPageIsPage DEF DeltaExpired, Raises, Works0
        <3>5. UNCHANGED <<clock, graph, channel, row, hook>>
            BY <1>13 DEF DeltaExpired
        <3>6. QED
            BY <1>1, <3>3, <3>4, <3>5, ScratchIs DEF Rescans, Holds
    <2>3. QED
        BY <2>1, <2>2
<1>14. QED
    BY <1>2, <1>3, <1>4, <1>5, <1>6, <1>7, <1>8, <1>9, <1>10, <1>11, <1>12, <1>13, StateFrame

LEMMA InitSub == ASSUME MailboxSyncAssumption, Init PROVE SubInv
<1>1. \A w \in Workers : ~worker[w].page.full /\ worker[w].phase = "idle"
    BY NoPageIsPage DEF Init, NoWork
<1>2. \A h \in Hooks : hook[h] = NoCall /\ hook[h].event.kind = "none"
    BY DEF Init, NoCall, NoEvent
<1>3. \A m \in Messages : row[m].kind = "none"
    BY DEF Init
<1>4. /\ graphSub = 0 /\ channel = {} /\ state.sub = 0 /\ state.force /\ state.scan = 0
    BY DEF Init
<1>5. QED
    BY <1>1, <1>2, <1>3, <1>4 DEF SubInv, Storing

LEMMA ChannelStep ==
    ASSUME MailboxSyncAssumption, Reliable, TypeInv, [Next]_vars
    PROVE  /\ \/ graphSub' = graphSub
              \/ graphSub = 0 /\ graphSub' # 0 /\ channel' = channel
           /\ \A e \in channel' \ channel :
                /\ graphSub # 0 /\ e.sub = graphSub
                /\ e.kind \in {"changed", "reauthorizationRequired"}
           /\ \A e \in channel \ channel' : \E h \in Hooks :
                /\ Receive(h) /\ hook[h] = NoCall /\ UNCHANGED <<graph, state, note, row, worker>>
                /\ \/ state.sub # 0 /\ e.sub = state.sub /\ hook'[h].event = e
                   \/ state.sub = 0 \/ e.sub # state.sub
<1>1. graphSub \in Nat /\ lastSub \in Nat /\ hook \in [Hooks -> HookCalls]
    BY DEF TypeInv, GraphInv
<1>2. \A k \in {"lost", "removed", "expired"} : ~Fault(k)
    BY DEF Reliable, Fault
<1>3. CASE UNCHANGED <<clock, graph, channel, faults>>
    BY <1>3 DEF graph
<1>4. ASSUME NEW m \in Messages, Change(m)
      PROVE  /\ graphSub' = graphSub
             /\ \/ channel' = channel
                \/ /\ graphSub # 0
                   /\ channel' = channel \cup {[kind |-> "changed", m |-> m, sub |-> graphSub]}
    BY <1>2, <1>4 DEF Change
<1>5. ~SubscriptionEnds
    BY <1>2 DEF SubscriptionEnds
<1>6. ASSUME Expiring
      PROVE  /\ graphSub' = graphSub
             /\ \/ channel' = channel
                \/ /\ graphSub # 0
                   /\ channel' = channel \cup
                        {[kind |-> "reauthorizationRequired", m |-> 0, sub |-> graphSub]}
    BY <1>6 DEF Expiring, graph
<1>7. ASSUME NEW h \in Hooks, Receive(h)
      PROVE  /\ graphSub' = graphSub /\ channel' \subseteq channel
             /\ \A e \in channel \ channel' :
                  /\ hook[h] = NoCall /\ UNCHANGED <<graph, state, note, row, worker>>
                  /\ \/ state.sub # 0 /\ e.sub = state.sub /\ hook'[h].event = e
                     \/ state.sub = 0 \/ e.sub # state.sub
    <2>1. PICK e \in channel :
            /\ channel' = channel \ {e} \/ channel' = channel
            /\ state.sub = 0 \/ e.sub # state.sub \/
               hook' = [hook EXCEPT ![h] = [event |-> e, at |-> clock + 1, read |-> ToReset,
                                            quiet |-> state.status # "running"]]
        BY <1>7 DEF Receive
    <2>2. graphSub' = graphSub /\ UNCHANGED <<graph, state, note, row, worker>> /\ hook[h] = NoCall
        BY <1>7 DEF Receive, graph
    <2>3. state.sub # 0 /\ e.sub = state.sub => hook'[h].event = e
        BY <1>1, <2>1
    <2>4. QED
        BY <2>1, <2>2, <2>3
<1>8. CASE \E w \in Workers : RecoverStale(w) \/ Crash(w) \/ RequestFails(w)
                              \/ \E f \in Folders : DeltaExpired(w, f)
    BY <1>8 DEF RecoverStale, Crash, RequestFails, DeltaExpired, graph
<1>9. ASSUME NEW w \in Workers, Subscribe(w)
      PROVE  /\ channel' = channel
             /\ graphSub' = graphSub \/ (graphSub = 0 /\ graphSub' # 0)
    BY <1>1, <1>9 DEF Subscribe
<1>10. QED
    BY <1>3, <1>4, <1>5, <1>6, <1>7, <1>8, <1>9, GraphFrame

LEMMA HookCases ==
    ASSUME MailboxSyncAssumption, TypeInv, [Next]_vars, NEW h \in Hooks
    PROVE  \/ /\ hook'[h].event = hook[h].event /\ hook'[h].at = hook[h].at
              /\ hook'[h] # NoCall => hook[h] # NoCall
              /\ ~Record(h)
           \/ Record(h) /\ hook[h] # NoCall /\ hook'[h] = NoCall
           \/ /\ Receive(h) /\ hook[h] = NoCall
              /\ UNCHANGED <<graph, state, note, row, worker>>
              /\ \E e \in channel : /\ state.sub # 0 /\ e.sub = state.sub
                                    /\ hook'[h].event = e /\ hook'[h].at = clock + 1
                                    /\ clock' = clock + 1
<1>1. hook \in [Hooks -> HookCalls]
    BY DEF TypeInv
<1>2. CASE Record(h)
    BY <1>1, <1>2 DEF Record
<1>3. CASE ~Record(h) /\ hook'[h] = hook[h]
    BY <1>3
<1>4. ASSUME NEW w \in Workers, ClaimMailbox(w), ~Record(h)
      PROVE  /\ hook'[h].event = hook[h].event /\ hook'[h].at = hook[h].at
             /\ hook'[h] # NoCall => hook[h] # NoCall
    <2>1. PICK b \in BOOLEAN : b = (hook[h] = NoCall)
        OBVIOUS
    <2>2. hook'[h] = [hook[h] EXCEPT !.quiet = b]
        BY <1>4, <2>1 DEF ClaimMailbox
    <2>3. hook[h] = NoCall => hook'[h] = NoCall
        <3>1. [NoCall EXCEPT !.quiet = TRUE] = NoCall
            <4>1. PICK q : q = TRUE
                OBVIOUS
            <4>2. NoCall = [event |-> NoEvent, at |-> 0, read |-> {}, quiet |-> q]
                BY <4>1, Zenon DEF NoCall
            <4>3. [NoCall EXCEPT !.quiet = q] = NoCall
                BY <4>2
            <4>4. QED
                BY <4>1, <4>3
        <3>2. QED
            BY <2>1, <2>2, <3>1
    <2>4. QED
        BY <1>1, <2>2, <2>3 DEF HookCalls
<1>5. ASSUME NEW g \in Hooks \ {h}, Receive(g) \/ Record(g) PROVE hook'[h] = hook[h]
    BY <1>1, <1>5 DEF Receive, Record
<1>6. CASE Receive(h)
    <2>1. PICK e \in channel :
            \/ hook' = hook
            \/ /\ state.sub # 0 /\ e.sub = state.sub /\ clock' = clock + 1
               /\ hook' = [hook EXCEPT ![h] = [event |-> e, at |-> clock + 1, read |-> ToReset,
                                               quiet |-> state.status # "running"]]
        BY <1>6 DEF Receive
    <2>2. hook[h] = NoCall /\ UNCHANGED <<graph, state, note, row, worker>>
        BY <1>6 DEF Receive
    <2>3. ~Record(h)
        BY <2>2 DEF Record
    <2>4. CASE hook' = hook
        BY <2>3, <2>4
    <2>5. CASE hook' # hook
        <3>1. hook'[h].event = e /\ hook'[h].at = clock + 1
            BY <1>1, <2>1, <2>5
        <3>2. QED
            BY <1>6, <2>1, <2>2, <2>5, <3>1
    <2>6. QED
        BY <2>4, <2>5
<1>7. QED
    BY <1>2, <1>3, <1>4, <1>5, <1>6, HookFrame

\* A worker passes the subscription only with one.
LEMMA PhaseStep ==
    ASSUME MailboxSyncAssumption, TypeInv, [Next]_vars, NEW w \in Workers,
           worker'[w].phase \notin {"subscribe", "finalize", "idle"}
    PROVE  \/ worker[w].phase \notin {"subscribe", "finalize", "idle"}
           \/ PersistSubscription(w)
           \/ Subscribe(w) /\ state.sub # 0 /\ UNCHANGED graphSub
<1>1. worker \in [Workers -> Works0]
    BY DEF TypeInv, WorkersInv
<1>2. CASE worker'[w] = worker[w]
    BY <1>2
<1>3. ASSUME NEW v \in Workers \ {w}, \/ Works(v) \/ Crash(v) \/ RequestFails(v)
                                      \/ \E f \in Folders : DeltaExpired(v, f)
      PROVE  worker'[w] = worker[w]
    BY <1>3, OnlyItsOwn, WorkersMove
<1>4. Raises(w) => worker'[w].phase = "finalize"
    BY <1>1 DEF Raises, Works0
<1>5. ~(LeaseLost(w) \/ RequestFails(w) \/ \E f \in Folders : DeltaExpired(w, f))
    BY <1>4 DEF LeaseLost, RequestFails, DeltaExpired
<1>6. ~(ClaimMailbox(w) \/ Crash(w) \/ Finalize(w))
    <2>1. \A r : worker' = [worker EXCEPT ![w] = r] => worker'[w] = r
        BY <1>1
    <2>2. /\ NoWork.phase = "idle"
          /\ \A n : [NoWork EXCEPT !.phase = "subscribe", !.req = n].phase = "subscribe"
        BY DEF NoWork
    <2>3. ClaimMailbox(w) => worker'[w].phase = "subscribe"
        BY <2>1, <2>2 DEF ClaimMailbox
    <2>4. Crash(w) \/ Finalize(w) => worker'[w].phase = "idle"
        BY <2>1, <2>2 DEF Crash, Finalize
    <2>5. QED
        BY <2>3, <2>4
<1>7. ASSUME Subscribe(w) PROVE state.sub # 0 /\ UNCHANGED graphSub
    <2>1. worker[w].phase = "subscribe"
        BY <1>7 DEF Subscribe, Fetching
    <2>2. \A p : Fetched(w, p) => worker'[w].phase = worker[w].phase
        BY <1>1 DEF Fetched, Works0
    <2>3. QED
        BY <1>4, <1>7, <2>1, <2>2 DEF Subscribe
<1>8. CASE \/ FetchSentScan(w) \/ StoreSentScan(w) \/ FetchScan(w) \/ StoreScan(w)
           \/ FetchNotified(w) \/ StoreNotified(w) \/ FetchUnread(w) \/ StoreUnread(w)
           \/ \E f \in Folders : FetchDelta(w, f) \/ StoreDelta(w, f)
    BY <1>8 DEF FetchSentScan, StoreSentScan, FetchScan, StoreScan, FetchNotified, StoreNotified,
       FetchUnread, StoreUnread, FetchDelta, StoreDelta, Fetching, Storing, DeltaPhase, Folders
<1>9. CASE ClaimNotification(w) \/ ListUnread(w) \/ Reconcile(w)
    BY <1>9 DEF ClaimNotification, ListUnread, Reconcile
<1>10. QED
    BY <1>2, <1>3, <1>5, <1>6, <1>7, <1>8, <1>9, WorkerFrame DEF Works

LEMMA SubscribeIs ==
    ASSUME MailboxSyncAssumption, TypeInv, NEW w \in Workers, Subscribe(w), [Next]_vars,
           worker'[w].page.full
    PROVE  worker'[w].page.items = {} /\ worker'[w].page.next = graphSub' /\ graphSub' # 0
<1>1. worker \in [Workers -> Works0] /\ GraphInv /\ graphSub' \in Nat
    BY GraphStep DEF TypeInv, WorkersInv, GraphInv
<1>2. ~Goes(w, "sent_scan") /\ ~Raises(w)
    BY <1>1, NoPageIsPage DEF Goes, Raises, Works0
<1>3. /\ Fetched(w, [NoPage EXCEPT !.next = graphSub'])
      /\ IF graphSub = 0 THEN lastSub' = lastSub + 1 /\ graphSub' = lastSub'
         ELSE UNCHANGED <<graphSub, lastSub>>
    BY <1>2 DEF Subscribe
<1>4. graphSub' # 0
    BY <1>1, <1>3 DEF GraphInv
<1>5. worker'[w].page = [[NoPage EXCEPT !.next = graphSub'] EXCEPT !.full = TRUE]
    BY <1>1, <1>3 DEF Fetched, Works0
<1>6. QED
    BY <1>1, <1>4, <1>5, SomePages, FilledPage

LEMMA SubStep ==
    ASSUME MailboxSyncAssumption, Reliable, TypeInv, SubInv, [Next]_vars
    PROVE  SubInv'
<1>1. worker \in [Workers -> Works0] /\ worker' \in [Workers -> Works0]
    BY WorkersStep DEF TypeInv, WorkersInv
<1>2. /\ \/ graphSub' = graphSub
         \/ graphSub = 0 /\ graphSub' # 0 /\ channel' = channel
      /\ \A e \in channel' \ channel :
           /\ graphSub # 0 /\ e.sub = graphSub
           /\ e.kind \in {"changed", "reauthorizationRequired"}
    BY ChannelStep
<1>3. ASSUME NEW w \in Workers, Subscribed(w)
      PROVE  state'.sub = graphSub /\ graphSub # 0 /\ graphSub' = graphSub
    BY <1>2, <1>3 DEF SubInv, Subscribed, PersistSubscription
<1>4. \/ state'.sub = state.sub
      \/ state'.sub = graphSub /\ graphSub # 0 /\ graphSub' = graphSub
    BY <1>3, StateCases DEF Kept, Rescans, Scanned, Followed
<1>5. graphSub' = 0 => channel' = {} /\ state'.sub = 0
    BY <1>2, <1>4 DEF SubInv
<1>6. \A e \in channel' : /\ e.kind \in {"changed", "reauthorizationRequired"}
                          /\ e.sub = graphSub'
    BY <1>2 DEF SubInv
<1>7. state'.sub \in {0, graphSub'}
    BY <1>2, <1>4 DEF SubInv
<1>8. ASSUME NEW h \in Hooks
      PROVE  /\ hook'[h].event.kind \in {"none", "changed", "reauthorizationRequired"}
             /\ hook'[h] # NoCall => state'.sub # 0
    <2>1. state.sub # 0 => state'.sub # 0
        BY <1>4
    <2>2. NoCall.event.kind = "none"
        BY DEF NoCall, NoEvent
    <2>3. CASE /\ hook'[h].event = hook[h].event /\ hook'[h].at = hook[h].at
               /\ hook'[h] # NoCall => hook[h] # NoCall
        BY <2>1, <2>3 DEF SubInv
    <2>4. CASE hook'[h] = NoCall
        BY <2>2, <2>4
    <2>5. ASSUME NEW e \in channel, state.sub # 0, hook'[h].event = e
          PROVE  /\ hook'[h].event.kind \in {"none", "changed", "reauthorizationRequired"}
                 /\ hook'[h] # NoCall => state'.sub # 0
        BY <2>1, <2>5 DEF SubInv
    <2>6. QED
        BY <2>3, <2>4, <2>5, HookCases
<1>9. ASSUME state'.sub = 0
      PROVE  /\ state'.force /\ state'.scan = 0
             /\ \A m \in Messages : row'[m].kind = "none"
    <2>1. state.sub = 0
        BY <1>4, <1>9
    <2>2. \A w \in Workers : Holds(w) /\ worker[w].page.full =>
            worker[w].phase = "subscribe" /\ worker[w].page.items = {}
        BY <2>1 DEF SubInv, Storing, TypeInv, WorkersInv, GoodWork, FullPhases, ScanPhases
    <2>3. \A m \in Messages : row'[m] = row[m]
        <3>1. ASSUME NEW w \in Workers, Holds(w), worker[w].page.full,
                     row' = Stored(worker[w].page.items)
              PROVE  \A m \in Messages : row'[m] = row[m]
            BY <2>2, <3>1, StoredIs
        <3>2. QED
            BY <3>1, RowChange
    <2>4. \A w \in Workers : ~Scanned(w)
        BY <2>2 DEF Scanned, StoreScan, Storing
    <2>5. \A w \in Workers, f \in Folders : ~Followed(w, f)
        BY <2>2 DEF Followed, StoreDelta, Storing, DeltaPhase, Folders
    <2>6. \A w \in Workers : ~Subscribed(w)
        BY <1>3, <1>9 DEF SubInv, Subscribed
    <2>7. (Kept => state'.force = state.force /\ state'.scan = state.scan)
          /\ (Rescans => state'.force /\ state'.scan = 0)
        BY DEF Kept, Rescans
    <2>8. QED
        BY <2>1, <2>3, <2>4, <2>5, <2>6, <2>7, StateCases DEF SubInv
<1>10. ASSUME NEW w \in Workers
       PROVE  /\ Storing(w, "subscribe")' => worker'[w].page.items = {}
              /\ Holds(w)' =>
                   /\ Storing(w, "subscribe")' => worker'[w].page.next = graphSub' /\ graphSub' # 0
                   /\ worker'[w].phase \notin {"subscribe", "finalize", "idle"} => state'.sub # 0
    <2>1. ASSUME worker'[w].page.full, worker'[w].phase = "subscribe"
          PROVE  /\ worker'[w].page.items = {}
                 /\ Holds(w)' => worker'[w].page.next = graphSub' /\ graphSub' # 0
        <3>1. worker[w].phase = "subscribe" /\ (worker'[w].page = worker[w].page \/ Fetches(w))
            BY <2>1, PageStep
        <3>2. CASE worker'[w].page = worker[w].page
            <4>1. Storing(w, "subscribe") /\ worker'[w].page.items = {}
                BY <2>1, <3>1, <3>2 DEF SubInv, Storing
            <4>2. Holds(w)' => Holds(w)
                BY <4>1, HoldsStep, <1>1, NoPageIsPage DEF ClaimMailbox, Storing, TypeInv, WorkersInv, GoodWork,
                   FullPhases, ScanPhases
            <4>3. QED
                BY <1>2, <3>2, <4>1, <4>2 DEF SubInv
        <3>3. CASE Fetches(w)
            <4>1. Subscribe(w)
                BY <3>1, <3>3 DEF Fetches, FetchSentScan, FetchScan, FetchNotified, FetchUnread,
                   FetchDelta, Fetching, DeltaPhase, Folders
            <4>2. QED
                BY <2>1, <4>1, SubscribeIs
        <3>4. QED
            BY <3>1, <3>2, <3>3
    <2>2. ASSUME Holds(w)', worker'[w].phase \notin {"subscribe", "finalize", "idle"}
          PROVE  state'.sub # 0
        <3>1. CASE worker[w].phase \notin {"subscribe", "finalize", "idle"}
            <4>1. Holds(w)
                BY <2>2, <3>1, HoldsStep DEF ClaimMailbox
            <4>2. QED
                BY <1>4, <3>1, <4>1 DEF SubInv
        <3>2. CASE PersistSubscription(w)
            <4>1. state'.sub = worker[w].page.next
                BY <3>2 DEF PersistSubscription, TypeInv, StateRows
            <4>2. worker[w].page.next # 0
                BY <3>2 DEF PersistSubscription, SubInv
            <4>3. QED
                BY <4>1, <4>2
        <3>3. CASE Subscribe(w) /\ state.sub # 0
            BY <1>4, <3>3
        <3>4. QED
            BY <2>2, <3>1, <3>2, <3>3, PhaseStep
    <2>3. QED
        BY <2>1, <2>2 DEF Storing
<1>11. QED
    BY <1>5, <1>6, <1>7, <1>8, <1>9, <1>10 DEF SubInv

-----------------------------------------------------------------------------
(* Notifications: the later a call is, the later the time it writes; what  *)
(* a lookup marks as processed is no later than what it was made for; and  *)
(* no two changes of a folder have the same time.                          *)

NoteInv ==
    /\ \A m \in Messages : note[m].done <= note[m].req /\ note[m].req <= clock
    /\ \A h \in Hooks : hook[h] # NoCall =>
         hook[h].at <= clock /\ \A m \in Messages : note[m].req < hook[h].at
    /\ \A w \in Workers : worker[w].phase = "notified" =>
         worker[w].noted <= note[worker[w].note].req

TouchInv ==
    /\ \A f \in Folders, m \in Messages : touched[f][m] <= clock
    /\ \A f \in Folders, m, n \in Messages :
         touched[f][m] = touched[f][n] /\ touched[f][m] # 0 => m = n

LEMMA InitNote == ASSUME MailboxSyncAssumption, Init PROVE NoteInv /\ TouchInv
<1>1. \A w \in Workers : worker[w].phase = "idle"
    BY DEF Init, NoWork
<1>2. \A m \in Messages : note[m].req = 0 /\ note[m].done = 0
    BY DEF Init
<1>3. clock = 1 /\ \A h \in Hooks : hook[h] = NoCall
    BY DEF Init
<1>4. \A f \in Folders, m \in Messages : touched[f][m] = 0
    BY DEF Init
<1>5. QED
    BY <1>1, <1>2, <1>3, <1>4 DEF NoteInv, TouchInv

LEMMA NoteCases ==
    ASSUME MailboxSyncAssumption, TypeInv, [Next]_vars, NEW m \in Messages
    PROVE  \/ note'[m].req = note[m].req /\ note'[m].done = note[m].done
           \/ \E h \in Hooks :
                /\ Record(h) /\ hook[h] # NoCall
                /\ hook[h].event.kind = "changed" /\ hook[h].event.m = m
                /\ note'[m].req = hook[h].at /\ note'[m].done = note[m].done
           \/ \E w \in Workers :
                /\ StoreNotified(w) /\ Holds(w) /\ worker[w].page.full
                /\ worker[w].phase = "notified" /\ worker[w].note = m
                /\ row' = Stored(worker[w].page.items)
                /\ note'[m].req = note[m].req /\ note'[m].done = worker[w].noted
<1>1. note \in [Messages -> NoteRows]
    BY DEF TypeInv
<1>2. CASE UNCHANGED note
    BY <1>2
<1>3. \A ms : ReleaseNotes(ms)[m].req = note[m].req /\ ReleaseNotes(ms)[m].done = note[m].done
    BY <1>1 DEF ReleaseNotes, NoteRows
<1>4. ASSUME NEW h \in Hooks, Record(h), ~(note'[m].req = note[m].req /\ note'[m].done = note[m].done)
      PROVE  /\ hook[h] # NoCall
             /\ hook[h].event.kind = "changed" /\ hook[h].event.m = m
             /\ note'[m].req = hook[h].at /\ note'[m].done = note[m].done
    <2>1. /\ hook[h] # NoCall /\ hook[h].event.kind = "changed"
          /\ note' = [note EXCEPT ![hook[h].event.m].req = hook[h].at]
        BY <1>4 DEF Record
    <2>2. hook[h].event.m = m
        BY <1>1, <1>4, <2>1 DEF NoteRows
    <2>3. QED
        BY <1>1, <2>1, <2>2 DEF NoteRows
<1>5. CASE \E w \in Workers : RecoverStale(w) \/ Finalize(w)
    BY <1>3, <1>5 DEF RecoverStale, Finalize
<1>6. ASSUME NEW w \in Workers, Crash(w)
      PROVE  note'[m].req = note[m].req /\ note'[m].done = note[m].done
    BY <1>1, <1>6 DEF Crash, NoteRows
<1>7. ASSUME NEW w \in Workers, RequestFails(w) \/ ClaimNotification(w)
      PROVE  note'[m].req = note[m].req /\ note'[m].done = note[m].done
    <2>1. note' = note \/ \E n, o : note' = [note EXCEPT ![n].by = o]
        BY <1>7 DEF RequestFails, ClaimNotification
    <2>2. QED
        BY <1>1, <2>1 DEF NoteRows
<1>8. ASSUME NEW w \in Workers, StoreNotified(w), ~(note'[m].req = note[m].req /\ note'[m].done = note[m].done)
      PROVE  /\ Holds(w) /\ worker[w].page.full
             /\ worker[w].phase = "notified" /\ worker[w].note = m
             /\ row' = Stored(worker[w].page.items)
             /\ note'[m].req = note[m].req /\ note'[m].done = worker[w].noted
    <2>1. /\ Holds(w) /\ worker[w].page.full /\ worker[w].phase = "notified"
          /\ row' = Stored(worker[w].page.items)
          /\ note' = [note EXCEPT ![worker[w].note].done = worker[w].noted,
                                  ![worker[w].note].by = Null]
        BY <1>8 DEF StoreNotified, Storing, ProcessedAt
    <2>2. worker[w].note = m
        BY <1>1, <1>8, <2>1 DEF NoteRows
    <2>3. QED
        BY <1>1, <2>1, <2>2 DEF NoteRows
<1>9. QED
    BY <1>2, <1>4, <1>5, <1>6, <1>7, <1>8, NoteFrame

LEMMA NotedStep ==
    ASSUME MailboxSyncAssumption, TypeInv, [Next]_vars, NEW w \in Workers,
           worker'[w].phase = "notified"
    PROVE  \/ /\ worker[w].phase = "notified"
              /\ worker'[w].note = worker[w].note /\ worker'[w].noted = worker[w].noted
           \/ /\ worker'[w].note \in Messages
              /\ worker'[w].noted = note[worker'[w].note].req
<1>1. worker \in [Workers -> Works0]
    BY DEF TypeInv, WorkersInv
<1>2. CASE worker'[w] = worker[w]
    BY <1>2
<1>3. ASSUME NEW v \in Workers \ {w}, \/ Works(v) \/ Crash(v) \/ RequestFails(v)
                                      \/ \E f \in Folders : DeltaExpired(v, f)
      PROVE  worker'[w] = worker[w]
    BY <1>3, OnlyItsOwn, WorkersMove
<1>4. Raises(w) => worker'[w].phase = "finalize"
    BY <1>1 DEF Raises, Works0
<1>5. \A p : Goes(w, p) => worker'[w].phase = p
    BY <1>1 DEF Goes, Works0
<1>6. \A p : Fetched(w, p) => /\ worker'[w].phase = worker[w].phase
                              /\ worker'[w].note = worker[w].note
                              /\ worker'[w].noted = worker[w].noted
    BY <1>1 DEF Fetched, Works0
<1>7. ~(LeaseLost(w) \/ RequestFails(w) \/ \E f \in Folders : DeltaExpired(w, f))
    BY <1>4 DEF LeaseLost, RequestFails, DeltaExpired
<1>8. ~(ClaimMailbox(w) \/ Crash(w) \/ Finalize(w))
    <2>1. \A r : worker' = [worker EXCEPT ![w] = r] => worker'[w] = r
        BY <1>1
    <2>2. /\ NoWork.phase = "idle"
          /\ \A n : [NoWork EXCEPT !.phase = "subscribe", !.req = n].phase = "subscribe"
        BY DEF NoWork
    <2>3. ~ClaimMailbox(w)
        BY <2>1, <2>2 DEF ClaimMailbox
    <2>4. ~(Crash(w) \/ Finalize(w))
        BY <2>1, <2>2 DEF Crash, Finalize
    <2>5. QED
        BY <2>3, <2>4
<1>9. ~(PersistSubscription(w) \/ StoreSentScan(w) \/ StoreScan(w) \/ Reconcile(w))
    BY <1>5 DEF PersistSubscription, StoreSentScan, StoreScan, Reconcile
<1>10. ~\E f \in Folders : StoreDelta(w, f)
    BY <1>5 DEF StoreDelta, After, DeltaPhase, Folders
<1>11. CASE Fetches(w)
    <2>1. \/ \E p : Fetched(w, p)
          \/ Raises(w)
          \/ \E p : p # "notified" /\ Goes(w, p)
        BY <1>11 DEF Fetches, Subscribe, FetchSentScan, FetchScan, FetchNotified, FetchUnread,
           FetchDelta
    <2>2. QED
        BY <1>4, <1>5, <1>6, <2>1
<1>12. CASE ClaimNotification(w)
    <2>1. ~Goes(w, "refresh")
        BY <1>5
    <2>2. PICK m \in Messages :
            worker' = [worker EXCEPT ![w].phase = "notified", ![w].note = m,
                                     ![w].noted = note[m].req]
        BY <1>12, <2>1 DEF ClaimNotification
    <2>3. worker'[w].note = m /\ worker'[w].noted = note[m].req
        BY <1>1, <2>2 DEF Works0
    <2>4. QED
        BY <2>3
<1>13. ~(StoreNotified(w) \/ StoreUnread(w) \/ ListUnread(w))
    <2>1. ~(worker' = [worker EXCEPT ![w].phase = "notify", ![w].page = NoPage,
                                     ![w].note = 0, ![w].noted = 0])
        BY <1>1 DEF Works0
    <2>2. ~StoreNotified(w)
        BY <1>4, <2>1 DEF StoreNotified
    <2>3. ~StoreUnread(w)
        BY <1>1 DEF StoreUnread, Storing, Works0
    <2>4. ~ListUnread(w)
        BY <1>1 DEF ListUnread, Works0
    <2>5. QED
        BY <2>2, <2>3, <2>4
<1>14. QED
    BY <1>2, <1>3, <1>7, <1>8, <1>9, <1>10, <1>11, <1>12, <1>13, WorkerFrame DEF Works, Fetches

LEMMA NoteKept ==
    ASSUME MailboxSyncAssumption, Reliable, TypeInv, NoteInv, [Next]_vars
    PROVE  NoteInv' /\ \A m \in Messages : note'[m].req >= note[m].req
<1>1. TypeInv'
    BY TypeStep
<1>2. /\ \A m \in Messages : /\ note[m].req \in Nat /\ note[m].done \in Nat
                             /\ note'[m].req \in Nat /\ note'[m].done \in Nat
      /\ \A h \in Hooks : hook[h].at \in Nat /\ hook'[h].at \in Nat
      /\ \A w \in Workers : worker[w].noted \in Nat /\ worker'[w].noted \in Nat
      /\ clock \in Nat /\ clock' \in Nat
    BY <1>1 DEF TypeInv, NoteRows, HookCalls, WorkersInv, Works0, GraphInv
<1>3. clock' >= clock
    BY MailStep, SizeFacts DEF Messages
<1>4. \A m \in Messages : note'[m].req >= note[m].req /\ note'[m].req <= clock'
    BY <1>2, <1>3, NoteCases DEF NoteInv
<1>5. ASSUME NEW m \in Messages PROVE note'[m].done <= note'[m].req
    <2>1. CASE note'[m].req = note[m].req /\ note'[m].done = note[m].done
        BY <2>1 DEF NoteInv
    <2>2. CASE note'[m].done = note[m].done
        BY <1>2, <1>4, <2>2 DEF NoteInv
    <2>3. ASSUME NEW w \in Workers, worker[w].phase = "notified", worker[w].note = m,
                 note'[m].req = note[m].req, note'[m].done = worker[w].noted
          PROVE  note'[m].done <= note'[m].req
        BY <2>3 DEF NoteInv
    <2>4. QED
        BY <2>1, <2>2, <2>3, NoteCases
<1>6. ASSUME NEW h \in Hooks, hook'[h] # NoCall
      PROVE  hook'[h].at <= clock' /\ \A m \in Messages : note'[m].req < hook'[h].at
    <2>1. CASE hook[h] # NoCall /\ hook'[h].at = hook[h].at /\ ~Record(h)
        <3>1. ASSUME NEW m \in Messages PROVE note'[m].req = note[m].req
            BY <2>1, NoteCases DEF Reliable
        <3>2. QED
            BY <1>2, <1>3, <2>1, <3>1 DEF NoteInv
    <2>2. CASE hook'[h].at = clock + 1 /\ clock' = clock + 1 /\ note' = note
        BY <1>2, <2>2 DEF NoteInv
    <2>3. QED
        BY <1>6, <2>1, <2>2, HookCases
<1>7. ASSUME NEW w \in Workers, worker'[w].phase = "notified"
      PROVE  worker'[w].noted <= note'[worker'[w].note].req
    <2>1. worker'[w].note \in Messages
        BY <1>1, <1>7 DEF TypeInv, WorkersInv, GoodWork
    <2>2. QED
        BY <1>2, <1>4, <1>7, <2>1, NotedStep DEF NoteInv
<1>8. QED
    BY <1>4, <1>5, <1>6, <1>7 DEF NoteInv

LEMMA TouchStep ==
    ASSUME MailboxSyncAssumption, TypeInv, TouchInv, [Next]_vars
    PROVE  TouchInv'
<1>1. touched \in [Folders -> [Messages -> Nat]] /\ clock \in Nat
    BY DEF TypeInv, GraphInv
<1>2. ASSUME NEW m \in Messages, Change(m) PROVE TouchInv'
    <2>1. clock' = clock + 1
        BY <1>2 DEF Change
    <2>2. \A f \in Folders : \/ touched'[f] = touched[f]
                             \/ touched'[f] = [touched[f] EXCEPT ![m] = clock + 1]
        BY <1>2 DEF Change
    <2>3. ASSUME NEW f \in Folders, NEW n \in Messages, NEW o \in Messages
          PROVE  /\ touched'[f][n] <= clock'
                 /\ touched'[f][n] = touched'[f][o] /\ touched'[f][n] # 0 => n = o
        <3>1. /\ touched[f][n] \in Nat /\ touched[f][o] \in Nat
              /\ touched[f][n] <= clock /\ touched[f][o] <= clock
              /\ touched[f][n] = touched[f][o] /\ touched[f][n] # 0 => n = o
            BY <1>1 DEF TouchInv
        <3>2. CASE touched'[f] = touched[f]
            BY <1>1, <2>1, <3>1, <3>2
        <3>3. CASE touched'[f] = [touched[f] EXCEPT ![m] = clock + 1]
            <4>1. /\ touched'[f][n] = IF n = m THEN clock + 1 ELSE touched[f][n]
                  /\ touched'[f][o] = IF o = m THEN clock + 1 ELSE touched[f][o]
                BY <1>1, <3>3
            <4>2. QED
                BY <1>1, <2>1, <3>1, <4>1
        <3>4. QED
            BY <2>2, <3>2, <3>3
    <2>4. QED
        BY <2>3 DEF TouchInv
<1>3. CASE ~\E m \in Messages : Change(m)
    <2>1. \A f \in Folders, m \in Messages : touched'[f][m] = touched[f][m]
        BY <1>3, MailStep
    <2>2. clock' \in Nat /\ clock' >= clock
        BY GraphStep, MailStep, SizeFacts DEF GraphInv, Messages
    <2>3. \A f \in Folders, m \in Messages : touched[f][m] \in Nat
        BY <1>1
    <2>4. QED
        BY <1>1, <2>1, <2>2, <2>3 DEF TouchInv
<1>4. QED
    BY <1>2, <1>3

-----------------------------------------------------------------------------
(* What a worker has fetched and not yet stored is current, or a later     *)
(* notification of the message is on its way.                              *)

Told(m) == Underway(m) \/ Pending(m)

StillTold(w, m) ==
    Underway(m) \/ note[m].req > (IF worker[w].phase = "notified" THEN worker[w].noted
                                  ELSE note[m].done)

SawScan(w) ==
    LET p == worker[w].page
    IN  /\ p.next = state.scan + 1
        /\ \/ \E s \in p.items : s.m = p.next
           \/ ~Exists(p.next) \/ Told(p.next)

SawDelta(w, f) ==
    LET p == worker[w].page
    IN  /\ p.next \in 1..clock
        /\ \A m \in Behind(f) : touched[f][m] > p.next \/ \E s \in p.items : s.m = m

Saw(w) ==
    /\ Storing(w, "notified") => \E s \in worker[w].page.items : s.m = worker[w].note
    /\ \A s \in worker[w].page.items : s.at = mail[s.m].at \/ StillTold(w, s.m)
    /\ Storing(w, "scan") => SawScan(w)
    /\ \A f \in Folders : Storing(w, DeltaPhase[f]) => SawDelta(w, f)

SawInv == \A w \in Workers : Holds(w) => Saw(w)

LEMMA UnderwayStep ==
    ASSUME MailboxSyncAssumption, Reliable, TypeInv, SubInv, NoteInv, [Next]_vars,
           NEW m \in Messages, Underway(m), state.sub # 0
    PROVE  Underway(m)' \/ note'[m].req > note[m].req
<1>1. \A e \in channel : e.sub = state.sub
    BY DEF SubInv
<1>2. ASSUME NEW e \in channel, e.kind = "changed", e.m = m PROVE Underway(m)'
    <2>1. CASE e \in channel'
        BY <1>2, <2>1 DEF Underway
    <2>2. CASE e \notin channel'
        <3>1. PICK h \in Hooks : hook'[h].event = e
            BY <1>1, <2>2, ChannelStep
        <3>2. QED
            BY <1>2, <3>1 DEF Underway
    <2>3. QED
        BY <2>1, <2>2
<1>3. ASSUME NEW h \in Hooks, hook[h].event.kind = "changed", hook[h].event.m = m
      PROVE  Underway(m)' \/ note'[m].req > note[m].req
    <2>1. hook[h] # NoCall
        BY <1>3 DEF NoCall, NoEvent
    <2>2. CASE hook'[h].event = hook[h].event
        BY <1>3, <2>2 DEF Underway
    <2>3. CASE Record(h)
        <3>1. note' = [note EXCEPT ![m].req = hook[h].at]
            BY <1>3, <2>3 DEF Record
        <3>2. note'[m].req = hook[h].at
            BY <3>1 DEF TypeInv, NoteRows
        <3>3. hook[h].at > note[m].req
            BY <2>1 DEF NoteInv, TypeInv, NoteRows, HookCalls
        <3>4. QED
            BY <3>2, <3>3
    <2>4. QED
        BY <2>1, <2>2, <2>3, HookCases
<1>4. QED
    BY <1>2, <1>3 DEF Underway

LEMMA ToldStep ==
    ASSUME MailboxSyncAssumption, Reliable, TypeInv, SubInv, NoteInv, [Next]_vars,
           NEW m \in Messages, Told(m), state.sub # 0
    PROVE  \/ Told(m)'
           \/ \E w \in Workers :
                /\ StoreNotified(w) /\ Holds(w) /\ worker[w].page.full
                /\ worker[w].phase = "notified" /\ worker[w].note = m
                /\ row' = Stored(worker[w].page.items)
                /\ note'[m].req = note[m].req /\ note'[m].done = worker[w].noted
<1>1. /\ note[m].req \in Nat /\ note[m].done \in Nat /\ note'[m].req \in Nat
      /\ note[m].done <= note[m].req
    BY NoteStep DEF TypeInv, NoteRows, NoteInv
<1>2. CASE Underway(m)
    <2>1. CASE Underway(m)'
        BY <2>1 DEF Told
    <2>2. CASE note'[m].req > note[m].req
        BY <1>1, <2>2, NoteCases DEF Told, Pending
    <2>3. QED
        BY <1>2, <2>1, <2>2, UnderwayStep
<1>3. CASE Pending(m)
    <2>1. CASE note'[m].req = note[m].req /\ note'[m].done = note[m].done
        BY <1>3, <2>1 DEF Told, Pending
    <2>2. ASSUME NEW h \in Hooks, hook[h] # NoCall, note'[m].req = hook[h].at,
                 note'[m].done = note[m].done
          PROVE  Told(m)'
        <3>1. hook[h].at > note[m].req /\ hook[h].at \in Nat
            BY <2>2 DEF NoteInv, TypeInv, NoteRows, HookCalls
        <3>2. QED
            BY <1>1, <2>2, <3>1 DEF Told, Pending
    <2>3. QED
        BY <2>1, <2>2, NoteCases
<1>4. QED
    BY <1>2, <1>3 DEF Told

LEMMA ChangeTold ==
    ASSUME MailboxSyncAssumption, Reliable, TypeInv, NEW m \in Messages, Change(m)
    PROVE  /\ graphSub # 0 => Underway(m)'
           /\ clock' = clock + 1
           /\ UNCHANGED <<state, note, row, hook, worker, graphSub>>
           /\ \A f \in Folders : \/ touched'[f][m] = clock + 1
                                 \/ touched'[f][m] = touched[f][m] /\ mail'[m].folder # f
<1>1. ~Fault("lost")
    BY DEF Reliable, Fault
<1>2. graphSub # 0 => Underway(m)'
    <2>1. graphSub # 0 => [kind |-> "changed", m |-> m, sub |-> graphSub] \in channel'
        BY <1>1 DEF Change
    <2>2. QED
        BY <2>1 DEF Underway
<1>3. /\ mail \in [Messages -> MailRows] /\ touched \in [Folders -> [Messages -> Nat]]
    BY DEF TypeInv, GraphInv
<1>4. PICK new \in MayBecome(m) :
        /\ mail' = [mail EXCEPT ![m] = [folder |-> new.folder, read |-> new.read,
                                        at |-> clock + 1]]
        /\ touched' = [f \in Folders |->
                         IF f \in {mail[m].folder, new.folder}
                         THEN [touched[f] EXCEPT ![m] = clock + 1]
                         ELSE touched[f]]
    BY DEF Change
<1>5. mail'[m].folder = new.folder
    BY <1>3, <1>4
<1>6. ASSUME NEW f \in Folders
      PROVE  \/ touched'[f][m] = clock + 1
             \/ touched'[f][m] = touched[f][m] /\ mail'[m].folder # f
    <2>1. touched'[f] = IF f \in {mail[m].folder, new.folder}
                        THEN [touched[f] EXCEPT ![m] = clock + 1] ELSE touched[f]
        BY <1>4
    <2>2. touched[f] \in [Messages -> Nat]
        BY <1>3
    <2>3. QED
        BY <1>5, <2>1, <2>2
<1>7. QED
    BY <1>2, <1>6 DEF Change

\* A page that is kept: the scan and the links behind it stay as they are.
LEMMA KeptPage ==
    ASSUME MailboxSyncAssumption, TypeInv, SubInv, [Next]_vars, NEW w \in Workers,
           Holds(w)', worker'[w].page.full, worker'[w].page = worker[w].page,
           worker[w].phase # "subscribe"
    PROVE  /\ Holds(w) /\ worker[w].phase \in FullPhases
           /\ state.sub # 0 /\ graphSub # 0
           /\ state'.scan = state.scan /\ \A f \in Folders : state'[f] = state[f]
           /\ \A v \in Workers : Holds(v) /\ worker[v].page.full => ~StoreNotified(v)
<1>1. worker \in [Workers -> Works0] /\ GoodWork(worker[w])
    BY DEF TypeInv, WorkersInv
<1>2. worker[w].phase \in FullPhases
    BY <1>1 DEF GoodWork
<1>3. Holds(w)
    BY <1>2, HoldsStep DEF ClaimMailbox, FullPhases, ScanPhases
<1>4. state.sub # 0 /\ graphSub # 0
    BY <1>2, <1>3 DEF SubInv, FullPhases, ScanPhases
<1>5. \A v \in Workers : Holds(v) => v = w
    BY <1>3 DEF Holds
<1>6. \A p : ~Goes(w, p)
    BY <1>1, NoPageIsPage DEF Goes, Works0
<1>7. ~StoreNotified(w)
    <2>1. ~Raises(w)
        BY <1>1, NoPageIsPage DEF Raises, Works0
    <2>2. ~(worker' = [worker EXCEPT ![w].phase = "notify", ![w].page = NoPage,
                                     ![w].note = 0, ![w].noted = 0])
        BY <1>1, NoPageIsPage DEF Works0
    <2>3. QED
        BY <2>1, <2>2 DEF StoreNotified
<1>8. \A v \in Workers : ~Scanned(v)
    BY <1>5, <1>6 DEF Scanned, StoreScan
<1>9. \A v \in Workers, f \in Folders : ~Followed(v, f)
    BY <1>5, <1>6 DEF Followed, StoreDelta
<1>10. state'.scan = state.scan /\ \A f \in Folders : state'[f] = state[f]
    BY <1>8, <1>9, StateCases DEF Kept, Rescans, Subscribed
<1>11. QED
    BY <1>2, <1>3, <1>4, <1>5, <1>7, <1>10

LEMMA StillToldStep ==
    ASSUME MailboxSyncAssumption, Reliable, TypeInv, SubInv, NoteInv, [Next]_vars,
           NEW w \in Workers, Holds(w)', worker'[w].page.full, worker'[w].page = worker[w].page,
           worker[w].phase # "subscribe", NEW m \in Messages,
           worker[w].phase = "notified" => worker[w].note = m, StillTold(w, m)
    PROVE  StillTold(w, m)'
<1>1. /\ note[m].req \in Nat /\ note[m].done \in Nat /\ note'[m].req \in Nat
      /\ note[m].done <= note[m].req /\ worker[w].noted \in Nat
      /\ worker[w].phase = "notified" => worker[w].noted <= note[m].req
    BY NoteStep DEF TypeInv, NoteRows, NoteInv, WorkersInv, Works0
<1>2. worker'[w].phase = worker[w].phase /\ worker'[w].noted = worker[w].noted
    BY PageStep
<1>3. note'[m].done = note[m].done /\ note'[m].req >= note[m].req
    BY NoteKept, NoteCases, KeptPage
<1>4. CASE Underway(m)
    <2>1. Underway(m)' \/ note'[m].req > note[m].req
        BY <1>4, UnderwayStep, KeptPage
    <2>2. QED
        BY <1>1, <1>2, <1>3, <2>1 DEF StillTold
<1>5. CASE ~Underway(m)
    BY <1>1, <1>2, <1>3, <1>5 DEF StillTold
<1>6. QED
    BY <1>4, <1>5

LEMMA InitSaw == ASSUME MailboxSyncAssumption, Init PROVE SawInv
BY DEF Init, SawInv, Holds

LEMMA KeptSaw ==
    ASSUME MailboxSyncAssumption, Reliable, TypeInv, SubInv, NoteInv, TouchInv, SawInv,
           [Next]_vars, NEW w \in Workers, Holds(w)', worker'[w].page.full,
           worker'[w].page = worker[w].page, worker[w].phase # "subscribe"
    PROVE  Saw(w)'
<1>1. /\ Holds(w) /\ state.sub # 0 /\ graphSub # 0 /\ state'.scan = state.scan
      /\ \A f \in Folders : state'[f] = state[f]
      /\ \A v \in Workers : Holds(v) /\ worker[v].page.full => ~StoreNotified(v)
    BY KeptPage
<1>2. /\ worker'[w].phase = worker[w].phase /\ worker'[w].note = worker[w].note
      /\ \A p : Storing(w, p)' => Storing(w, p)
    BY PageStep DEF Storing
<1>3. Saw(w) /\ GoodWork(worker[w])
    BY <1>1 DEF SawInv, TypeInv, WorkersInv
<1>4. \A s \in worker[w].page.items : s.m \in Messages
    BY <1>3 DEF GoodWork, Works0, Pages, Snapshots
<1>5. \A m \in Messages : \/ mail'[m] = mail[m] /\ \A f \in Folders : touched'[f][m] = touched[f][m]
                          \/ Change(m) /\ mail'[m].at = clock + 1
    BY MailStep
<1>6. \A m \in Messages : Told(m) => Told(m)'
    BY <1>1, ToldStep
<1>7. \A m \in Messages : Change(m) => Underway(m)'
    BY <1>1, ChangeTold
<1>8. ASSUME NEW s \in worker'[w].page.items
      PROVE  s.at = mail'[s.m].at \/ StillTold(w, s.m)'
    <2>1. s \in worker[w].page.items /\ s.m \in Messages
          /\ (worker[w].phase = "notified" => worker[w].note = s.m)
        BY <1>3, <1>4, <1>8 DEF GoodWork
    <2>2. CASE Change(s.m)
        BY <1>7, <2>1, <2>2 DEF StillTold
    <2>3. CASE mail'[s.m] = mail[s.m]
        BY <1>3, <2>1, <2>3, StillToldStep DEF Saw
    <2>4. QED
        BY <1>5, <2>1, <2>2, <2>3
<1>9. ASSUME Storing(w, "scan")' PROVE SawScan(w)'
    <2>1. SawScan(w)
        BY <1>2, <1>3, <1>9 DEF Saw
    <2>2. PICK n \in Messages : n = worker[w].page.next /\ n = worker'[w].page.next
        BY <1>2, <1>3, <1>9 DEF Storing, GoodWork, ScanPhases, ScanLink, Messages
    <2>3. ~Exists(n) => ~Exists(n)' \/ Told(n)'
        BY <1>5, <1>7 DEF Exists, Told
    <2>4. \/ \E s \in worker'[w].page.items : s.m = n
          \/ ~Exists(n)' \/ Told(n)'
        BY <1>6, <2>1, <2>2, <2>3 DEF SawScan
    <2>5. QED
        BY <1>1, <2>1, <2>2, <2>4 DEF SawScan
<1>10. ASSUME NEW f \in Folders, Storing(w, DeltaPhase[f])' PROVE SawDelta(w, f)'
    <2>1. SawDelta(w, f) /\ clock \in Nat /\ clock' \in Nat /\ clock' >= clock
        BY <1>2, <1>3, <1>10, GraphStep, MailStep, SizeFacts DEF Saw, TypeInv, GraphInv, Messages
    <2>2. worker'[w].page.next \in 1..clock'
        BY <2>1 DEF SawDelta
    <2>3. ASSUME NEW m \in Behind(f)'
          PROVE  \/ touched'[f][m] > worker'[w].page.next
                 \/ \E s \in worker'[w].page.items : s.m = m
        <3>1. m \in Messages /\ touched'[f][m] > state'[f] /\ (state'[f] = 0 => mail'[m].folder = f)
            BY <2>3 DEF Behind
        <3>2. CASE touched'[f][m] = clock + 1
            BY <2>1, <3>2 DEF SawDelta
        <3>3. CASE m \in Behind(f) /\ touched'[f][m] = touched[f][m]
            BY <2>1, <3>3 DEF SawDelta
        <3>4. CASE mail'[m] = mail[m] /\ touched'[f][m] = touched[f][m]
            <4>1. m \in Behind(f)
                BY <1>1, <3>1, <3>4 DEF Behind
            <4>2. QED
                BY <3>3, <3>4, <4>1
        <3>5. CASE Change(m) /\ touched'[f][m] = touched[f][m] /\ mail'[m].folder # f
            <4>1. m \in Behind(f)
                BY <1>1, <3>1, <3>5 DEF Behind
            <4>2. QED
                BY <3>3, <3>5, <4>1
        <3>6. QED
            BY <1>5, <3>1, <3>2, <3>4, <3>5, ChangeTold
    <2>4. QED
        BY <2>2, <2>3 DEF SawDelta
<1>11. Storing(w, "notified")' => \E s \in worker'[w].page.items : s.m = worker'[w].note
    BY <1>2, <1>3 DEF Saw
<1>12. QED
    BY <1>8, <1>9, <1>10, <1>11 DEF Saw

LEMMA FetchSaw ==
    ASSUME MailboxSyncAssumption, TypeInv, TouchInv, [Next]_vars,
           NEW w \in Workers, worker'[w].page.full, Fetches(w), ~Subscribe(w)
    PROVE  Saw(w)'
<1>1. /\ UNCHANGED <<clock, graph, channel, state, note, row, hook, history>>
      /\ ~worker[w].page.full
    BY DEF Fetches, FetchSentScan, FetchScan, FetchDelta, FetchNotified, FetchUnread, Fetching
<1>2. mail' = mail /\ touched' = touched /\ state' = state /\ clock' = clock
    BY <1>1 DEF graph
<1>3. /\ worker \in [Workers -> Works0] /\ GoodWork(worker[w]) /\ GraphInv
      /\ clock \in Nat \ {0} /\ state \in StateRows
      /\ \A f \in Folders, m \in Messages : touched[f][m] \in Nat
    BY DEF TypeInv, WorkersInv, GraphInv
<1>4. worker'[w].phase = worker[w].phase /\ worker'[w].note = worker[w].note
    BY PageStep
<1>5. \A s \in worker'[w].page.items : s.at = mail'[s.m].at
    BY <1>1, <1>2, <1>3, ItemsStep, SnapshotTyped
<1>6. ASSUME worker'[w].phase = "notified"
      PROVE  \E s \in worker'[w].page.items : s.m = worker'[w].note
    <2>1. FetchNotified(w) /\ worker[w].note \in Messages
        BY <1>3, <1>4, <1>6 DEF Fetches, FetchSentScan, FetchScan, FetchUnread, FetchDelta,
           Fetching, DeltaPhase, Folders, GoodWork
    <2>2. worker'[w].page = [[NoPage EXCEPT !.items = {Snapshot(worker[w].note)}] EXCEPT !.full = TRUE]
        BY <1>3, <2>1 DEF FetchNotified, Fetched, Works0
    <2>3. worker'[w].page.items = {Snapshot(worker[w].note)}
        BY <1>3, <2>1, <2>2, SomePages, FilledPage
    <2>4. QED
        BY <1>3, <1>4, <2>1, <2>3, SnapshotTyped
<1>7. ASSUME worker'[w].phase = "scan" PROVE SawScan(w)'
    <2>1. FetchScan(w)
        BY <1>4, <1>7 DEF Fetches, FetchSentScan, FetchNotified, FetchUnread, FetchDelta,
           Fetching, DeltaPhase, Folders
    <2>2. PICK n \in Messages : n = worker'[w].page.next /\ n = state.scan + 1
            /\ worker'[w].page.items = IF Exists(n) THEN {Snapshot(n)} ELSE {}
        BY <2>1, FetchedScan
    <2>3. Exists(n) => \E s \in worker'[w].page.items : s.m = n
        BY <1>3, <2>2, SnapshotTyped
    <2>4. Exists(n)' => Exists(n)
        BY <1>2 DEF Exists
    <2>5. QED
        BY <1>2, <2>2, <2>3, <2>4 DEF SawScan
<1>8. ASSUME NEW f \in Folders, worker'[w].phase = DeltaPhase[f] PROVE SawDelta(w, f)'
    <2>1. FetchDelta(w, f)
        <3>1. DeltaPhase[f] \in {"inbox_delta", "sent_delta"}
            BY DEF DeltaPhase, Folders
        <3>2. PICK g \in Folders : FetchDelta(w, g)
            BY <1>4, <1>8, <3>1 DEF Fetches, FetchSentScan, FetchScan, FetchNotified, FetchUnread,
               Fetching
        <3>3. DeltaPhase[g] = DeltaPhase[f]
            BY <1>4, <1>8, <3>2 DEF FetchDelta, Fetching
        <3>4. g = f
            BY <3>3 DEF DeltaPhase, Folders
        <3>5. QED
            BY <3>2, <3>4
    <2>2. PICK p \in Pages :
            /\ Fetched(w, p)
            /\ \/ Behind(f) = {} /\ p.items = {} /\ p.next = clock
               \/ \E m \in Behind(f) :
                    /\ p.items = {Snapshot(m)} /\ p.next \in {clock, touched[f][m]}
                    /\ \A n \in Behind(f) : touched[f][m] <= touched[f][n]
                    /\ p.next = clock => p.next = touched[f][m] \/ Behind(f) = {m}
        BY <2>1, FetchDeltaPage
    <2>3. worker'[w].page.next = p.next /\ worker'[w].page.items = p.items
        <3>1. worker'[w].page = [p EXCEPT !.full = TRUE]
            BY <1>3, <2>2 DEF Fetched, Works0
        <3>2. QED
            BY <3>1, FilledPage
    <2>4. Behind(f)' = Behind(f)
        BY <1>2 DEF Behind
    <2>5. CASE Behind(f) = {}
        BY <1>2, <1>3, <2>2, <2>3, <2>4, <2>5 DEF SawDelta
    <2>6. ASSUME NEW m \in Behind(f),
                 p.items = {Snapshot(m)}, p.next \in {clock, touched[f][m]},
                 \A n \in Behind(f) : touched[f][m] <= touched[f][n],
                 p.next = clock => p.next = touched[f][m] \/ Behind(f) = {m}
          PROVE  SawDelta(w, f)'
        <3>1. /\ m \in Messages /\ touched[f][m] \in Nat /\ touched[f][m] <= clock
              /\ touched[f][m] > state[f] /\ state[f] \in Nat
            BY <1>3 DEF Behind, TouchInv, StateRows, Folders
        <3>2. p.next \in 1..clock
            BY <1>3, <2>6, <3>1
        <3>3. \E s \in p.items : s.m = m
            BY <1>3, <2>6, <3>1, SnapshotTyped
        <3>4. ASSUME NEW n \in Behind(f) PROVE touched[f][n] > p.next \/ n = m
            <4>1. n \in Messages /\ touched[f][n] \in Nat /\ touched[f][m] <= touched[f][n]
                BY <1>3, <2>6 DEF Behind
            <4>2. touched[f][m] = touched[f][n] => n = m
                BY <3>1, <4>1 DEF TouchInv
            <4>3. Behind(f) = {m} => n = m
                OBVIOUS
            <4>4. QED
                BY <1>3, <2>6, <3>1, <4>1, <4>2, <4>3
        <3>5. QED
            BY <1>2, <2>3, <2>4, <3>2, <3>3, <3>4 DEF SawDelta
    <2>7. QED
        BY <2>2, <2>5, <2>6
<1>9. QED
    BY <1>5, <1>6, <1>7, <1>8 DEF Saw, Storing

LEMMA SawStep ==
    ASSUME MailboxSyncAssumption, Reliable, TypeInv, SubInv, NoteInv, TouchInv, SawInv,
           [Next]_vars
    PROVE  SawInv'
<1> SUFFICES ASSUME NEW w \in Workers, Holds(w)' PROVE Saw(w)'
    BY DEF SawInv
<1>1. GoodWork(worker'[w]) /\ SubInv'
    BY WorkersStep, SubStep DEF WorkersInv
<1>2. CASE ~worker'[w].page.full
    BY <1>1, <1>2, NoPageIsPage DEF Saw, Storing, GoodWork
<1>3. CASE worker'[w].page.full /\ worker'[w].phase = "subscribe"
    <2>1. worker'[w].page.items = {}
        BY <1>1, <1>3 DEF SubInv, Storing
    <2>2. QED
        BY <1>3, <2>1 DEF Saw, Storing, DeltaPhase, Folders
<1>4. CASE worker'[w].page.full /\ worker'[w].phase # "subscribe"
    <2>1. worker[w].phase # "subscribe" /\ (worker'[w].page = worker[w].page \/ Fetches(w))
        BY <1>4, PageStep
    <2>2. CASE worker'[w].page = worker[w].page
        BY <1>4, <2>1, <2>2, KeptSaw
    <2>3. CASE Fetches(w)
        BY <1>4, <2>1, <2>3, FetchSaw DEF Subscribe, Fetching
    <2>4. QED
        BY <2>1, <2>2, <2>3
<1>5. QED
    BY <1>2, <1>3, <1>4

-----------------------------------------------------------------------------
(* So every message whose row is not current is told of or, when it still  *)
(* exists, has yet to be read; one that is gone is told of.                *)

Covered(m) ==
    \/ Current(m) \/ Told(m)
    \/ /\ Exists(m)
       /\ \/ \E f \in Folders : m \in Behind(f)
          \/ state.force /\ state.scan < m
          \/ m \in Replies /\ row[m].kind = "unread"

SkipInv == \A m \in Messages : Covered(m)

\* A page is stored, with the notification it was looked up for.
Puts(w) ==
    /\ Holds(w) /\ worker[w].page.full /\ row' = Stored(worker[w].page.items)
    /\ worker[w].phase # "notified" => note' = note
    /\ worker[w].phase = "notified" =>
         /\ note'[worker[w].note].req = note[worker[w].note].req
         /\ note'[worker[w].note].done = worker[w].noted

LEMMA InitSkip == ASSUME MailboxSyncAssumption, Init PROVE SkipInv
<1>1. \A m \in Messages : row[m].kind = "none"
    BY DEF Init
<1>2. \A m \in Messages : Exists(m) => state.force /\ state.scan < m
    BY SizeFacts DEF Init, Messages
<1>3. QED
    BY <1>1, <1>2 DEF SkipInv, Covered, Current

LEMMA PutsAre ==
    ASSUME MailboxSyncAssumption, TypeInv, NEW w \in Workers
    PROVE  /\ \/ StoreSentScan(w) \/ StoreScan(w) \/ StoreUnread(w)
              \/ \E f \in Folders : StoreDelta(w, f)
              => Puts(w)
           /\ StoreNotified(w) => Puts(w) \/ row' = row
<1>1. ASSUME \/ StoreSentScan(w) \/ StoreScan(w) \/ StoreUnread(w)
             \/ \E f \in Folders : StoreDelta(w, f)
      PROVE  Puts(w)
    <2>1. Holds(w) /\ worker[w].page.full /\ row' = Stored(worker[w].page.items) /\ note' = note
        BY <1>1 DEF StoreSentScan, StoreScan, StoreUnread, StoreDelta, Storing
    <2>2. worker[w].phase # "notified"
        BY <1>1 DEF StoreSentScan, StoreScan, StoreUnread, StoreDelta, Storing, DeltaPhase, Folders
    <2>3. QED
        BY <2>1, <2>2 DEF Puts
<1>2. ASSUME StoreNotified(w), row' # row PROVE Puts(w)
    <2>1. /\ Holds(w) /\ worker[w].page.full /\ worker[w].phase = "notified"
          /\ row' = Stored(worker[w].page.items)
          /\ note' = [note EXCEPT ![worker[w].note].done = worker[w].noted,
                                  ![worker[w].note].by = Null]
        BY <1>2 DEF StoreNotified, Storing, ProcessedAt
    <2>2. worker[w].note \in Messages /\ note \in [Messages -> NoteRows]
        BY <2>1 DEF TypeInv, WorkersInv, GoodWork
    <2>3. QED
        BY <2>1, <2>2 DEF Puts, NoteRows
<1>3. QED
    BY <1>1, <1>2

LEMMA PutsItem ==
    ASSUME MailboxSyncAssumption, Reliable, TypeInv, SubInv, NoteInv, SawInv, [Next]_vars,
           NEW w \in Workers, Puts(w), NEW s \in worker[w].page.items, mail'[s.m] = mail[s.m]
    PROVE  Covered(s.m)'
<1>1. PICK m \in Messages : m = s.m /\ (worker[w].phase = "notified" => worker[w].note = m)
    BY DEF TypeInv, WorkersInv, GoodWork, Works0, Pages, Snapshots
<1>2. Holds(w) /\ worker[w].page.full /\ Saw(w) /\ row'[m].at = s.at
    BY <1>1, StoredIs DEF Puts, SawInv
<1>3. state.sub # 0
    BY <1>2 DEF SubInv, Storing, TypeInv, WorkersInv, GoodWork, FullPhases, ScanPhases
<1>4. /\ note'[m].req = note[m].req
      /\ note'[m].done = IF worker[w].phase = "notified" THEN worker[w].noted ELSE note[m].done
    BY <1>1 DEF Puts
<1>5. CASE s.at = mail[m].at
    BY <1>1, <1>2, <1>5 DEF Covered, Current
<1>6. CASE StillTold(w, m)
    <2>1. CASE Underway(m)
        <3>1. note[m].req \in Nat
            BY DEF TypeInv, NoteRows
        <3>2. Underway(m)'
            BY <1>3, <1>4, <2>1, <3>1, UnderwayStep
        <3>3. QED
            BY <1>1, <3>2 DEF Covered, Told
    <2>2. CASE note[m].req > IF worker[w].phase = "notified" THEN worker[w].noted
                             ELSE note[m].done
        BY <1>1, <1>4, <2>2 DEF Covered, Told, Pending
    <2>3. QED
        BY <1>6, <2>1, <2>2 DEF StillTold
<1>7. QED
    BY <1>1, <1>2, <1>5, <1>6 DEF Saw

LEMMA SkipStep ==
    ASSUME MailboxSyncAssumption, Reliable, TypeInv, SubInv, NoteInv, TouchInv, SawInv, SkipInv,
           [Next]_vars
    PROVE  SkipInv'
<1> SUFFICES ASSUME NEW m \in Messages PROVE Covered(m)'
    BY DEF SkipInv
<1>1. SubInv' /\ m \in Nat /\ m > 0 /\ m <= Size /\ Size \in Nat
    BY SubStep, SizeFacts DEF Messages
<1>2. ASSUME row'[m].kind = "none", state'.force, state'.scan = 0 PROVE Covered(m)'
    BY <1>1, <1>2 DEF Covered, Current
<1>3. CASE Change(m)
    <2>1. CASE graphSub # 0
        BY <1>3, <2>1, ChangeTold DEF Covered, Told
    <2>2. CASE graphSub = 0
        <3>1. row' = row /\ state' = state
            BY <1>3, ChangeTold
        <3>2. row[m].kind = "none" /\ state.force /\ state.scan = 0
            BY <2>2 DEF SubInv
        <3>3. QED
            BY <1>2, <3>1, <3>2
    <2>3. QED
        BY <2>1, <2>2
<1>4. ASSUME NEW w \in Workers, Puts(w), NEW s \in worker[w].page.items, s.m = m, ~Change(m)
      PROVE  Covered(m)'
    BY <1>4, PutsItem, MailStep
<1>5. CASE /\ ~Change(m)
           /\ \A w \in Workers : Puts(w) => \A s \in worker[w].page.items : s.m # m
    <2>1. mail'[m] = mail[m] /\ \A f \in Folders : touched'[f][m] = touched[f][m]
        BY <1>5, MailStep
    <2>2. row'[m] = row[m]
        <3>1. row' = row \/ \E w \in Workers : Puts(w)
            BY RowFrame, PutsAre
        <3>2. QED
            BY <1>5, <3>1, StoredIs DEF Puts
    <2>3. CASE Current(m)
        BY <2>1, <2>2, <2>3 DEF Covered, Current, Exists
    <2>4. CASE state.sub = 0
        <3>1. row[m].kind = "none" /\ state.force /\ state.scan = 0
            BY <2>4 DEF SubInv
        <3>2. CASE state'.sub = 0
            BY <1>1, <1>2, <3>2 DEF SubInv
        <3>3. CASE state'.sub # 0
            <4>1. \A w \in Workers : Holds(w) /\ worker[w].page.full =>
                    worker[w].phase = "subscribe"
                BY <2>4 DEF SubInv, TypeInv, WorkersInv, GoodWork, FullPhases, ScanPhases
            <4>2. \A w \in Workers : ~Scanned(w)
                BY <4>1 DEF Scanned, StoreScan, Storing
            <4>3. \A w \in Workers, f \in Folders : ~Followed(w, f)
                BY <4>1 DEF Followed, StoreDelta, Storing, DeltaPhase, Folders
            <4>4. state'.force = state.force /\ state'.scan = state.scan
                BY <2>4, <3>3, <4>2, <4>3, StateCases DEF Kept, Rescans, Subscribed
            <4>5. QED
                BY <1>2, <2>2, <3>1, <4>4
        <3>4. QED
            BY <3>2, <3>3
    <2>5. ASSUME Told(m), state.sub # 0 PROVE Told(m)'
        <3>1. ASSUME NEW w \in Workers, Holds(w), worker[w].page.full,
                     worker[w].phase = "notified", worker[w].note = m,
                     row' = Stored(worker[w].page.items),
                     note'[m].req = note[m].req, note'[m].done = worker[w].noted
              PROVE  FALSE
            <4>1. Puts(w)
                BY <3>1 DEF Puts
            <4>2. \E s \in worker[w].page.items : s.m = m
                BY <3>1 DEF SawInv, Saw, Storing
            <4>3. QED
                BY <1>5, <4>1, <4>2
        <3>2. QED
            BY <2>5, <3>1, ToldStep
    <2>6. ASSUME state.sub # 0, Exists(m), NEW f \in Folders, m \in Behind(f) PROVE Covered(m)'
        <3>1. CASE state'[f] = state[f]
            BY <2>1, <2>6, <3>1 DEF Covered, Behind, Exists
        <3>2. CASE Rescans
            BY <1>1, <2>1, <2>6, <3>2 DEF Rescans, Covered, Exists
        <3>3. ASSUME NEW w \in Workers, Followed(w, f) PROVE Covered(m)'
            <4>1. Puts(w) /\ Holds(w) /\ Storing(w, DeltaPhase[f]) /\ state'[f] = worker[w].page.next
                BY <3>3, PutsAre DEF Followed, StoreDelta
            <4>2. SawDelta(w, f) /\ \A s \in worker[w].page.items : s.m # m
                BY <1>5, <4>1 DEF SawInv, Saw
            <4>3. touched[f][m] > state'[f] /\ state'[f] # 0
                BY <2>6, <4>1, <4>2 DEF SawDelta
            <4>4. QED
                BY <2>1, <2>6, <4>3 DEF Covered, Behind, Exists
        <3>4. QED
            BY <3>1, <3>2, <3>3, StateCases DEF Kept, Scanned, Subscribed, Followed
    <2>7. ASSUME state.sub # 0, Exists(m), state.force, state.scan < m PROVE Covered(m)'
        <3>1. CASE state'.force = state.force /\ state'.scan = state.scan
            BY <2>1, <2>7, <3>1 DEF Covered, Exists
        <3>2. CASE Rescans
            BY <1>1, <2>1, <2>7, <3>2 DEF Rescans, Covered, Exists
        <3>3. ASSUME NEW w \in Workers, Scanned(w) PROVE Covered(m)'
            <4>1. Puts(w) /\ Holds(w) /\ Storing(w, "scan")
                BY <3>3, PutsAre DEF Scanned, StoreScan
            <4>2. SawScan(w) /\ \A s \in worker[w].page.items : s.m # m
                BY <1>5, <4>1 DEF SawInv, Saw
            <4>3. ScanLink(worker[w].page) /\ state.scan \in Nat
                BY <4>1, SizeFacts DEF TypeInv, WorkersInv, GoodWork, Storing, ScanPhases, StateRows
            <4>4. CASE m = worker[w].page.next
                <5>1. Told(m)
                    BY <2>7, <4>2, <4>4 DEF SawScan
                <5>2. QED
                    BY <2>5, <2>7, <5>1 DEF Covered
            <4>5. CASE m # worker[w].page.next
                <5>1. worker[w].page.next < m /\ ~worker[w].page.last
                    BY <1>1, <2>7, <4>2, <4>3, <4>5 DEF SawScan, ScanLink
                <5>2. state'.force /\ state'.scan = worker[w].page.next
                    BY <2>7, <3>3, <5>1 DEF Scanned, NextLink
                <5>3. QED
                    BY <2>1, <2>7, <5>1, <5>2 DEF Covered, Exists
            <4>6. QED
                BY <4>4, <4>5
        <3>4. QED
            BY <3>1, <3>2, <3>3, StateCases DEF Kept, Subscribed, Followed
    <2>8. ASSUME Exists(m), m \in Replies, row[m].kind = "unread" PROVE Covered(m)'
        BY <2>1, <2>2, <2>8 DEF Covered, Exists
    <2>9. Told(m) /\ state.sub # 0 => Covered(m)'
        BY <2>5 DEF Covered
    <2>10. Covered(m)
        BY DEF SkipInv
    <2>11. QED
        BY <2>3, <2>4, <2>6, <2>7, <2>8, <2>9, <2>10 DEF Covered
<1>6. QED
    BY <1>3, <1>4, <1>5

LEMMA CoveredIsReachable ==
    ASSUME SkipInv PROVE NothingSkipped
BY DEF SkipInv, Covered, NothingSkipped, Reachable, Told

\* For every mailbox, worker and fault but those that Reliable rules out: a
\* message whose row is not current can be reached from durable state alone,
\* wherever the workers die and whatever page they held.
THEOREM NothingSkippedHolds ==
    ASSUME MailboxSyncAssumption, Reliable PROVE Spec => []NothingSkipped
<1> DEFINE Inv == TypeInv /\ SubInv /\ NoteInv /\ TouchInv /\ SawInv /\ SkipInv
<1>1. Init => Inv
    BY InitTypes, InitSub, InitNote, InitSaw, InitSkip
<1>2. Inv /\ [Next]_vars => Inv'
    BY TypeStep, SubStep, NoteKept, TouchStep, SawStep, SkipStep
<1>3. Inv => NothingSkipped
    BY CoveredIsReachable
<1>4. QED
    BY <1>1, <1>2, <1>3, PTL DEF Spec

-----------------------------------------------------------------------------
(* The backlog: messages that have not changed since the mailbox was       *)
(* connected.  A page that lists one shows it as it still is, so once its  *)
(* row is current it stays so; and every write of the scan's columns but   *)
(* the one that ends a page makes the scan list more.                      *)

Untouched(m) == mail[m].at <= 1

BacklogInv ==
    /\ BacklogIsScanned
    /\ \A w \in Workers : \A s \in worker[w].page.items :
         Untouched(s.m) => s = Snapshot(s.m)
    /\ \A w \in Workers : Storing(w, "scan") =>
         \A m \in Messages : Untouched(m) /\ m <= worker[w].page.next =>
           \/ Current(m)
           \/ m = worker[w].page.next /\ \E s \in worker[w].page.items : s.m = m

\* A step after which no message has still to be scanned that had not before.
Rewinds == /\ state.force => state'.force
           /\ state'.scan \in {0, state.scan}

LEMMA ScanCases ==
    ASSUME MailboxSyncAssumption, TypeInv, [Next]_vars
    PROVE  Rewinds \/ \E w \in Workers : StoreScan(w)
<1>1. ASSUME NEW h \in Hooks, Record(h) PROVE Rewinds
    BY <1>1, RecordIs DEF Rewinds
<1>2. QED
    BY <1>1, RescanCases DEF Calm, Restart, Rewinds

LEMMA InitBacklog == ASSUME MailboxSyncAssumption, Init PROVE BacklogInv
<1>1. \A w \in Workers : worker[w].page.items = {} /\ ~worker[w].page.full
    BY NoPageIsPage DEF Init, NoWork
<1>2. ASSUME NEW m \in Messages
      PROVE  Current(m) \/ (state.force /\ Exists(m) /\ state.scan < m)
    BY <1>2 DEF Init, Current, Exists, Messages, MailboxSyncAssumption
<1>3. QED
    BY <1>1, <1>2 DEF BacklogInv, BacklogIsScanned, Storing

\* What has not changed after a step is what it was before, and a lookup of it
\* answers the same.
LEMMA UntouchedStep ==
    ASSUME TypeInv, [Next]_vars, NEW m \in Messages, Untouched(m)'
    PROVE  /\ mail'[m] = mail[m] /\ Untouched(m)
           /\ Exists(m)' <=> Exists(m)
           /\ Snapshot(m)' = Snapshot(m)
<1>1. clock \in Nat /\ clock # 0
    BY DEF TypeInv, GraphInv
<1>2. mail'[m] = mail[m]
    BY <1>1, MailStep DEF Untouched
<1>3. QED
    BY <1>2 DEF Untouched, Exists, Snapshot

\* A row that shows such a message as it is goes on doing so, and storing a
\* page that lists it has it do so.
LEMMA CurrentStays ==
    ASSUME MailboxSyncAssumption, TypeInv, BacklogInv, [Next]_vars,
           NEW m \in Messages, Untouched(m)'
    PROVE  /\ Current(m) => Current(m)'
           /\ \A w \in Workers : \A s \in worker[w].page.items :
                s.m = m /\ row' = Stored(worker[w].page.items) => Current(m)'
<1>1. mail'[m] = mail[m] /\ Untouched(m) /\ (Exists(m)' <=> Exists(m))
    BY UntouchedStep
<1>2. ASSUME NEW w \in Workers, NEW s \in worker[w].page.items, s.m = m,
             row' = Stored(worker[w].page.items)
      PROVE  Current(m)'
    <2>1. s = Snapshot(m)
        BY <1>1, <1>2 DEF BacklogInv
    <2>2. s.at = mail[m].at
        BY <2>1, SnapshotTyped DEF TypeInv
    <2>3. row'[m].at = s.at
        BY <1>2, StoredIs
    <2>4. QED
        BY <1>1, <2>2, <2>3 DEF Current
<1>3. ASSUME Current(m) PROVE Current(m)'
    <2>1. CASE row'[m] = row[m]
        BY <1>1, <1>3, <2>1 DEF Current
    <2>2. CASE row'[m] # row[m]
        <3>1. PICK w \in Workers : row' = Stored(worker[w].page.items)
            BY <2>2, RowChange
        <3>2. PICK s \in worker[w].page.items : s.m = m
            BY <2>2, <3>1, StoredIs
        <3>3. QED
            BY <1>2, <3>1, <3>2
    <2>3. QED
        BY <2>1, <2>2
<1>4. QED
    BY <1>2, <1>3

LEMMA BacklogStep ==
    ASSUME MailboxSyncAssumption, TypeInv, BacklogInv, [Next]_vars
    PROVE  BacklogInv'
<1>1. TypeInv'
    BY TypeStep
<1>2. state.scan \in 0..(Size - 1) /\ state'.scan \in 0..(Size - 1) /\ Messages = 1..Size
      /\ Size \in Nat
    BY <1>1, SizeFacts DEF TypeInv, StateRows, Messages
<1>3. ASSUME NEW m \in Messages, Untouched(m)'
      PROVE  (Current(m) \/ (state.force /\ Exists(m) /\ state.scan < m))'
    <2>1. Untouched(m) /\ (Exists(m)' <=> Exists(m))
        BY <1>3, UntouchedStep
    <2>2. CASE Current(m)
        BY <1>3, <2>2, CurrentStays
    <2>3. ASSUME ~Current(m), NEW w \in Workers, StoreScan(w)
          PROVE  (Current(m) \/ (state.force /\ Exists(m) /\ state.scan < m))'
        <3>1. /\ Storing(w, "scan") /\ row' = Stored(worker[w].page.items)
              /\ state' = [state EXCEPT !.scan = NextLink(worker[w].page),
                                        !.force = @ /\ ~worker[w].page.last]
            BY <2>3 DEF StoreScan
        <3>2. ScanLink(worker[w].page)
            BY <3>1 DEF TypeInv, WorkersInv, GoodWork, Storing, ScanPhases
        <3>3. CASE m <= worker[w].page.next
            <4>1. \E s \in worker[w].page.items : s.m = m
                BY <2>1, <2>3, <3>1, <3>3 DEF BacklogInv
            <4>2. QED
                BY <1>3, <3>1, <4>1, CurrentStays
        <3>4. CASE ~(m <= worker[w].page.next)
            <4>1. worker[w].page.next < m /\ ~worker[w].page.last
                BY <1>2, <3>2, <3>4 DEF ScanLink
            <4>2. state.force /\ Exists(m)
                BY <2>1, <2>3 DEF BacklogInv, BacklogIsScanned, Untouched
            <4>3. state'.force /\ state'.scan = worker[w].page.next
                BY <3>1, <4>1, <4>2 DEF TypeInv, StateRows, NextLink
            <4>4. QED
                BY <2>1, <4>1, <4>2, <4>3
        <3>5. QED
            BY <3>3, <3>4
    <2>4. CASE ~Current(m) /\ Rewinds
        <3>1. state.force /\ Exists(m) /\ state.scan < m
            BY <2>1, <2>4 DEF BacklogInv, BacklogIsScanned, Untouched
        <3>2. state'.force /\ state'.scan < m
            BY <1>2, <2>4, <3>1 DEF Rewinds
        <3>3. QED
            BY <2>1, <3>1, <3>2
    <2>5. QED
        BY <2>2, <2>3, <2>4, ScanCases
<1>4. ASSUME NEW w \in Workers, NEW s \in worker'[w].page.items, Untouched(s.m)'
      PROVE  s = Snapshot(s.m)'
    <2>1. s.m \in Messages
        BY <1>1 DEF TypeInv, WorkersInv, GoodWork, Works0, Pages, Snapshots
    <2>2. Untouched(s.m) /\ Snapshot(s.m)' = Snapshot(s.m)
        BY <1>4, <2>1, UntouchedStep
    <2>3. CASE worker'[w].page = worker[w].page
        BY <1>4, <2>2, <2>3 DEF BacklogInv
    <2>4. ASSUME NEW m \in Messages, worker'[w].page.items = {Snapshot(m)}
          PROVE  s = Snapshot(s.m)
        BY <1>4, <2>4 DEF Snapshot
    <2>5. QED
        BY <1>4, <2>2, <2>3, <2>4, ItemsStep
<1>5. ASSUME NEW w \in Workers, Storing(w, "scan")', NEW m \in Messages, Untouched(m)',
             m <= worker'[w].page.next
      PROVE  \/ Current(m)'
             \/ m = worker'[w].page.next /\ \E s \in worker'[w].page.items : s.m = m
    <2>1. Untouched(m) /\ (Current(m) => Current(m)')
        BY <1>5, UntouchedStep, CurrentStays
    <2>2. worker'[w].page.full /\ worker[w].phase = "scan"
        BY <1>5, PageStep DEF Storing
    <2>3. CASE worker'[w].page = worker[w].page
        <3>1. Storing(w, "scan")
            BY <2>2, <2>3 DEF Storing
        <3>2. QED
            BY <1>5, <2>1, <2>3, <3>1 DEF BacklogInv
    <2>4. CASE Fetches(w)
        <3>1. FetchScan(w)
            BY <2>2, <2>4 DEF Fetches, Subscribe, FetchSentScan, FetchNotified, FetchUnread,
                              FetchDelta, Fetching, DeltaPhase, Folders
        <3>2. /\ worker'[w].page.next = state.scan + 1
              /\ worker'[w].page.items = IF Exists(worker'[w].page.next)
                                         THEN {Snapshot(worker'[w].page.next)} ELSE {}
            BY <2>2, <3>1, FetchedScan
        <3>3. CASE Current(m)
            BY <2>1, <3>3
        <3>4. CASE ~Current(m)
            <4>1. Exists(m) /\ state.scan < m
                BY <2>1, <3>4 DEF BacklogInv, BacklogIsScanned, Untouched
            <4>2. m = worker'[w].page.next
                BY <1>2, <1>5, <3>2, <4>1
            <4>3. QED
                BY <3>2, <4>1, <4>2, SnapshotTyped DEF TypeInv
        <3>5. QED
            BY <3>3, <3>4
    <2>5. QED
        BY <2>2, <2>3, <2>4, PageStep
<1>6. QED
    BY <1>3, <1>4, <1>5 DEF BacklogInv, BacklogIsScanned, Untouched

\* Whatever Graph loses and however webhook calls overlap, a message that has
\* not changed since the mailbox was connected is scanned.
THEOREM BacklogHolds ==
    ASSUME MailboxSyncAssumption PROVE Spec => []BacklogIsScanned
<1>1. Init => TypeInv /\ BacklogInv
    BY InitTypes, InitBacklog
<1>2. TypeInv /\ BacklogInv /\ [Next]_vars => (TypeInv /\ BacklogInv)'
    BY TypeStep, BacklogStep
<1>3. BacklogInv => BacklogIsScanned
    BY DEF BacklogInv
<1>4. QED
    BY <1>1, <1>2, <1>3, PTL DEF Spec

\* In a mailbox that never changes nothing is skipped, also where subscriptions
\* end and notifications get lost.
Still == MaxClock <= 1

LEMMA StillStep ==
    ASSUME MailboxSyncAssumption, Still, TypeInv, \A m \in Messages : Untouched(m), [Next]_vars
    PROVE  \A m \in Messages : Untouched(m)'
<1>1. ~\E m \in Messages : Change(m)
    BY DEF Change, Still, TypeInv, GraphInv, MailboxSyncAssumption
<1>2. QED
    BY <1>1, MailStep DEF Untouched

THEOREM StillMailbox ==
    ASSUME MailboxSyncAssumption, Still PROVE Spec => []NothingSkipped
<1> DEFINE Lies == \A m \in Messages : Untouched(m)
<1>1. Init => TypeInv /\ Lies
    BY InitTypes DEF Init, Untouched
<1>2. TypeInv /\ Lies /\ [Next]_vars => (TypeInv /\ Lies)'
    BY TypeStep, StillStep
<1>3. Lies /\ BacklogIsScanned => NothingSkipped
    BY DEF BacklogIsScanned, Untouched, NothingSkipped, Reachable
<1>4. QED
    BY <1>1, <1>2, <1>3, BacklogHolds, PTL DEF Spec

\* Whatever a worker loses, the mailbox does not, for every mailbox and every
\* interleaving of its workers: the results above in one.
THEOREM NothingForgottenHolds ==
    ASSUME MailboxSyncAssumption, Reliable \/ Still PROVE Spec => NothingForgotten
<1>1. Spec => []NothingSkipped
    BY NothingSkippedHolds, StillMailbox
<1>2. QED
    BY <1>1, Typing, NeverOlderHolds, QuietRescanHolds, BacklogHolds, PTL DEF NothingForgotten
=============================================================================
