---------------------------- MODULE MailboxSync ----------------------------
(***************************************************************************)
(* The synchronization of one Microsoft Graph mailbox: the webhook that    *)
(* records change notifications, and the reply workers that lease the      *)
(* mailbox, renew its subscription, scan it, follow the delta links of the *)
(* Inbox and Sent Items, look up notified messages and refresh the unread  *)
(* replies.  No Graph call is made with a transaction open: every page is  *)
(* fetched in one step and stored, under the lock of the mailbox row and   *)
(* after checking the lease, in another.  What a stored message means is   *)
(* ReplyMatching's subject; here a row keeps the version last stored.      *)
(*                                                                         *)
(* Graph is external.  Time is a counter of mailbox changes and of webhook *)
(* calls; a delta link is a position in it, a scan link the number of      *)
(* messages already listed, and 0 is the None of either.  A page holds at  *)
(* most one message.                                                       *)
(*                                                                         *)
(* clock     the time.                                                     *)
(* mail      the mailbox: folder, read flag and time of change per message.*)
(* touched   when a message last entered, changed in or left a folder.     *)
(* graphSub  the subscription alive at Graph, 0 when there is none.        *)
(* lastSub   the last subscription id given out.                           *)
(* channel   notifications Graph has sent and the webhook has not taken.   *)
(* faults    how often something out of the ordinary has happened.         *)
(* state     the graph_mailbox_sync_states row.                            *)
(* note      graph_mail_notifications: requested_at, processed_at and      *)
(*           claimed_by per message; requested_at 0 when there is no row.  *)
(* row       per message, the version the database holds and what it says. *)
(* hook      what each webhook call is doing.                              *)
(* worker    what each reply worker is doing.                              *)
(* asked     history: requests for a full rescan, those that arrived with  *)
(*           no pass running (quiet) and the others (busy).                *)
(* begun     history: asked when the scan under way fetched its first page.*)
(* served    history: begun of the last scan that was finished.            *)
(***************************************************************************)
EXTENDS Naturals, FiniteSets

CONSTANTS
    Size,       \* the messages are 1..Size, in the order a scan lists them
    Sent,       \* the messages the mailbox itself sent
    Replies,    \* the incoming messages attributed to an opportunity
    Hooks,      \* concurrent webhook calls
    Workers,    \* reply worker processes
    Faults,     \* the faults and rare events that happen
    MaxFaults,  \* bound: faults in a behaviour
    MaxClock,   \* bound: no message changes after this time
    Null

Messages == 1..Size
Folders  == {"inbox", "sentitems"}
FaultKinds == {"lost", "duplicate", "removed", "expiring", "expired", "crash",
               "stale", "error", "delta_expired"}

MailboxSyncAssumption ==
    /\ Size \in Nat \ {0} /\ MaxClock \in Nat /\ MaxFaults \in Nat
    /\ Sent \subseteq Messages /\ Replies \subseteq Messages \ Sent
    /\ Faults \subseteq FaultKinds
    /\ Null \notin Workers \cup Hooks \cup {"dead"} /\ "dead" \notin Workers

VARIABLES clock, mail, touched, graphSub, lastSub, channel, faults,
          state, note, row, hook, worker, asked, begun, served

graph   == <<mail, touched, graphSub, lastSub>>
history == <<asked, begun, served>>
vars == <<clock, graph, channel, faults, state, note, row, hook, worker,
          history>>

Passes == {"subscribe", "sent_scan", "sent_delta", "scan", "inbox_delta",
           "notify", "notified", "refresh", "refreshing", "reconcile"}

After == [subscribe |-> "sent_scan", sent_scan |-> "sent_delta",
          sent_delta |-> "scan", scan |-> "inbox_delta",
          inbox_delta |-> "notify", notify |-> "refresh",
          refreshing |-> "reconcile", reconcile |-> "finalize"]

NoAsk   == [quiet |-> 0, busy |-> 0]
NoPage  == [items |-> {}, next |-> 0, last |-> FALSE, base |-> NoAsk,
            full |-> FALSE]
NoWork  == [phase |-> "idle", page |-> NoPage, todo |-> {}, note |-> 0,
            noted |-> 0, req |-> 0, failed |-> FALSE]
NoEvent == [kind |-> "none", m |-> 0, sub |-> 0]
NoCall  == [event |-> NoEvent, at |-> 0, read |-> {}, quiet |-> TRUE]

EventKinds == {"none", "changed", "missed", "subscriptionRemoved",
               "reauthorizationRequired"}
Snapshots == [m: Messages, at: Nat, kind: {"sent", "read", "unread", "removed"}]
Resets    == {"force", "scan", "sentScan", "sentDone"}

TypeOK ==
    /\ clock \in Nat /\ graphSub \in Nat /\ lastSub \in Nat
    /\ mail \in [Messages -> [folder: Folders \cup {"none", "other", "gone"},
                              read: BOOLEAN, at: Nat]]
    /\ touched \in [Folders -> [Messages -> Nat]]
    /\ faults \in 0..MaxFaults
    /\ \A e \in channel : e.m \in 0..Size /\ e.sub \in 1..lastSub
    /\ state \in [status: {"initializing", "idle", "running", "error"},
                  owner: Workers \cup {Null, "dead"}, sub: Nat, soon: BOOLEAN,
                  inbox: Nat, sentitems: Nat, scan: 0..(Size - 1), sentScan: 0..(Size - 1),
                  sentDone: BOOLEAN, force: BOOLEAN, next: {"now", "later"},
                  requested: Nat]
    /\ note \in [Messages -> [req: Nat, done: Nat,
                              by: Workers \cup {Null, "dead"}]]
    /\ row \in [Messages -> [at: Nat, kind: {"none", "sent", "read", "unread",
                                             "removed"}]]
    /\ hook \in [Hooks -> [event: [kind: EventKinds, m: 0..Size, sub: Nat],
                           at: Nat, read: SUBSET Resets, quiet: BOOLEAN]]
    /\ \A w \in Workers :
         /\ worker[w].phase \in Passes \cup {"idle", "finalize"}
         /\ worker[w].page.items \subseteq Snapshots
         /\ worker[w].todo \subseteq Messages
    \* ck_graph_mailbox_sync_states_lease
    /\ state.status = "running" <=> state.owner # Null

-----------------------------------------------------------------------------
(* ensure_mailbox_state, over a mailbox that may already hold mail.        *)

Init ==
    /\ clock = 1
    /\ mail \in [Messages -> {[folder |-> "none", read |-> FALSE, at |-> 0],
                              [folder |-> "other", read |-> TRUE, at |-> 1]}]
    /\ touched = [f \in Folders |-> [m \in Messages |-> 0]]
    /\ graphSub = 0 /\ lastSub = 0 /\ channel = {} /\ faults = 0
    /\ state = [status |-> "initializing", owner |-> Null, sub |-> 0,
                soon |-> FALSE, inbox |-> 0, sentitems |-> 0, scan |-> 0,
                sentScan |-> 0, sentDone |-> FALSE, force |-> TRUE,
                next |-> "now", requested |-> 1]
    /\ note = [m \in Messages |-> [req |-> 0, done |-> 0, by |-> Null]]
    /\ row = [m \in Messages |-> [at |-> 0, kind |-> "none"]]
    /\ hook = [h \in Hooks |-> NoCall]
    /\ worker = [w \in Workers |-> NoWork]
    /\ asked = NoAsk /\ begun = NoAsk /\ served = NoAsk

Fault(kind) == /\ kind \in Faults
               /\ faults < MaxFaults
               /\ faults' = faults + 1

-----------------------------------------------------------------------------
(* The mailbox and Graph.                                                  *)

Exists(m) == mail[m].folder \notin {"none", "gone"}

\* What a lookup of m returns; a 404 is the removed kind.
Snapshot(m) ==
    [m |-> m, at |-> mail[m].at,
     kind |-> IF ~Exists(m) THEN "removed"
              ELSE IF m \in Sent THEN "sent"
              ELSE IF mail[m].read THEN "read" ELSE "unread"]

\* The places a message is delivered to or moved to.
MayBecome(m) ==
    LET old == mail[m]
        homes == IF m \in Sent THEN {"sentitems", "other"} ELSE {"inbox", "other"}
    IN  IF old.folder = "none"
        THEN {[folder |-> f, read |-> m \in Sent] : f \in homes \ {"other"}}
               \cup (IF m \in Sent THEN {} ELSE {[folder |-> "other", read |-> FALSE]})
        ELSE IF old.folder = "gone" THEN {}
        ELSE {[folder |-> f, read |-> old.read] : f \in (homes \cup {"gone"}) \ {old.folder}}
               \cup (IF m \in Sent THEN {} ELSE {[folder |-> old.folder, read |-> ~old.read]})

\* A message arrives, is moved, deleted, read or marked unread.  Graph
\* notifies the live subscription; a notification it loses it makes up for
\* with a "missed" lifecycle event.
Change(m) ==
    /\ clock < MaxClock
    /\ \E new \in MayBecome(m) :
         /\ mail' = [mail EXCEPT ![m] = [folder |-> new.folder, read |-> new.read,
                                         at |-> clock + 1]]
         /\ touched' = [f \in Folders |->
                          IF f \in {mail[m].folder, new.folder}
                          THEN [touched[f] EXCEPT ![m] = clock + 1]
                          ELSE touched[f]]
    /\ clock' = clock + 1
    /\ IF graphSub = 0
       THEN UNCHANGED <<channel, faults>>
       ELSE \/ /\ channel' = channel \cup {[kind |-> "changed", m |-> m, sub |-> graphSub]}
               /\ UNCHANGED faults
            \/ /\ Fault("lost")
               /\ channel' = channel \cup {[kind |-> "missed", m |-> 0, sub |-> graphSub]}
    /\ UNCHANGED <<graphSub, lastSub, state, note, row, hook, worker, history>>

\* Graph drops the subscription and says so, or lets it run out silently.
SubscriptionEnds ==
    /\ graphSub # 0
    /\ \/ /\ Fault("removed")
          /\ channel' = channel \cup
               {[kind |-> "subscriptionRemoved", m |-> 0, sub |-> graphSub]}
       \/ /\ Fault("expired")
          /\ state.soon
          /\ UNCHANGED channel
    /\ graphSub' = 0
    /\ UNCHANGED <<clock, mail, touched, lastSub, state, note, row, hook, worker, history>>

\* Less than a day is left of the subscription, or Graph asks to renew it.
Expiring ==
    /\ Fault("expiring")
    /\ \/ /\ state.sub # 0 /\ ~state.soon
          /\ state' = [state EXCEPT !.soon = TRUE]
          /\ UNCHANGED channel
       \/ /\ graphSub # 0
          /\ channel' = channel \cup
               {[kind |-> "reauthorizationRequired", m |-> 0, sub |-> graphSub]}
          /\ UNCHANGED state
    /\ UNCHANGED <<clock, graph, note, row, hook, worker, history>>

\* reconcile_seconds pass.
TimePasses ==
    /\ state.next = "later"
    /\ state' = [state EXCEPT !.next = "now"]
    /\ UNCHANGED <<clock, graph, channel, faults, note, row, hook, worker, history>>

-----------------------------------------------------------------------------
(* record_notifications: the state row is read without a lock; what is     *)
(* written later are the columns whose new value differs from the one read.*)

\* Mutant of ResetColumns: a scan under way is resumed where it stopped.
ResumesScan(st, cols) ==
    [st EXCEPT !.force    = @ \/ "force" \in cols,
               !.sentDone = @ /\ "sentDone" \notin cols]

ResetColumns(st, cols) ==
    [st EXCEPT !.force    = @ \/ "force" \in cols,
               !.scan     = IF "scan" \in cols THEN 0 ELSE @,
               !.sentScan = IF "sentScan" \in cols THEN 0 ELSE @,
               !.sentDone = @ /\ "sentDone" \notin cols]

\* The columns a rescan request changes, by the values read.
ToReset == {c \in Resets : CASE c = "force"    -> ~state.force
                             [] c = "scan"     -> state.scan # 0
                             [] c = "sentScan" -> state.sentScan # 0
                             [] c = "sentDone" -> state.sentDone}

Receive(h) ==
    /\ hook[h] = NoCall
    /\ \E e \in channel :
         /\ \/ channel' = channel \ {e} /\ UNCHANGED faults
            \/ Fault("duplicate") /\ UNCHANGED channel
         /\ IF state.sub = 0 \/ e.sub # state.sub
            THEN UNCHANGED <<hook, clock>>
            ELSE /\ clock' = clock + 1
                 /\ hook' = [hook EXCEPT ![h] =
                               [event |-> e, at |-> clock + 1, read |-> ToReset,
                                quiet |-> state.status # "running"]]
    /\ UNCHANGED <<graph, state, note, row, worker, history>>

WantsRescan(e) == e.kind \in {"missed", "subscriptionRemoved"}

\* The row after call c has written its lifecycle event.
Signalled(st, c) ==
    LET asking == IF WantsRescan(c.event) THEN ResetColumns(st, c.read) ELSE st
    IN  CASE c.event.kind = "subscriptionRemoved" ->
               [asking EXCEPT !.requested = c.at, !.sub = 0, !.soon = FALSE]
          [] c.event.kind = "reauthorizationRequired" ->
               [asking EXCEPT !.requested = c.at, !.soon = TRUE]
          [] OTHER -> [asking EXCEPT !.requested = c.at]

Record(h) ==
    LET c == hook[h] IN
    /\ c # NoCall
    /\ state' = Signalled(state, c)
    /\ note' = IF c.event.kind = "changed"
               THEN [note EXCEPT ![c.event.m].req = c.at] ELSE note
    /\ asked' = IF ~WantsRescan(c.event) THEN asked
                ELSE IF c.quiet THEN [asked EXCEPT !.quiet = @ + 1]
                ELSE [asked EXCEPT !.busy = @ + 1]
    /\ hook' = [hook EXCEPT ![h] = NoCall]
    /\ UNCHANGED <<clock, graph, channel, faults, row, worker, begun, served>>

-----------------------------------------------------------------------------
(* The lease.                                                              *)

Pending(m) == note[m].req > note[m].done

\* Mutant of Holds: the lease is checked, but not who has it.
SomebodyHolds(w) == state.status = "running"

\* _claim_is_current
Holds(w) == state.status = "running" /\ state.owner = w

\* Everything an expired lease or delta link leaves behind is scanned again.
FromScratch(st) == ResetColumns(st, Resets)

\* Mutant of ReleaseNotes: only the mailbox is released.
KeepNotes(ms) == note

ReleaseNotes(ms) ==
    [m \in Messages |-> IF m \in ms THEN [note[m] EXCEPT !.by = Null] ELSE note[m]]

\* recover_stale_sync: an idle worker releases the mailbox, the notifications
\* or both when their heartbeats are old.  The heartbeat of a live pass is old
\* only when its process was paused; that of an abandoned claim always gets old.
RecoverStale(w) ==
    /\ worker[w].phase = "idle"
    /\ \E mailbox \in BOOLEAN, released \in SUBSET {m \in Messages : note[m].by # Null} :
         /\ mailbox \/ released # {}
         /\ mailbox => state.status = "running"
         /\ \/ /\ mailbox => state.owner = "dead"
               /\ \A m \in released : \A v \in Workers :
                    note[m].by = v => worker[v].note # m
               /\ UNCHANGED faults
            \/ Fault("stale")
         /\ state' = IF mailbox
                     THEN [FromScratch(state) EXCEPT !.status = "error",
                             !.owner = Null, !.next = "now"]
                     ELSE state
         /\ asked' = IF mailbox THEN [asked EXCEPT !.quiet = @ + 1] ELSE asked
         /\ note' = ReleaseNotes(released)
    /\ UNCHANGED <<clock, graph, channel, row, hook, worker, begun, served>>

Due == /\ state.status # "running"
       /\ ~(state.status = "error" /\ state.next = "later")
       /\ \/ state.next = "now"
          \/ \E m \in Messages : Pending(m)
          \/ state.sub = 0
          \/ state.soon

ClaimMailbox(w) ==
    /\ worker[w].phase = "idle"
    /\ Due
    /\ state' = [state EXCEPT !.status = "running", !.owner = w]
    /\ worker' = [worker EXCEPT ![w] = [NoWork EXCEPT !.phase = "subscribe",
                                          !.req = state.requested]]
    /\ hook' = [h \in Hooks |-> [hook[h] EXCEPT !.quiet = (hook[h] = NoCall)]]
    /\ UNCHANGED <<clock, graph, channel, faults, note, row, history>>

\* finalize_mailbox_sync
Finalize(w) ==
    /\ worker[w].phase = "finalize"
    /\ IF Holds(w)
       THEN /\ state' = [state EXCEPT
                 !.status = IF worker[w].failed THEN "error" ELSE "idle",
                 !.owner = Null,
                 !.next = IF ~worker[w].failed /\ state.requested > worker[w].req
                          THEN "now" ELSE "later"]
            /\ note' = ReleaseNotes({m \in Messages : worker[w].failed /\ note[m].by = w})
       ELSE UNCHANGED <<state, note>>
    /\ worker' = [worker EXCEPT ![w] = NoWork]
    /\ UNCHANGED <<clock, graph, channel, faults, row, hook, history>>

\* The process dies; its successor has another worker id.
Crash(w) ==
    /\ worker[w].phase # "idle"
    /\ Fault("crash")
    /\ state' = IF Holds(w) THEN [state EXCEPT !.owner = "dead"] ELSE state
    /\ note' = [m \in Messages |-> IF note[m].by = w
                                   THEN [note[m] EXCEPT !.by = "dead"] ELSE note[m]]
    /\ worker' = [worker EXCEPT ![w] = NoWork]
    /\ UNCHANGED <<clock, graph, channel, row, hook, history>>

-----------------------------------------------------------------------------
(* One pass: synchronize_mailbox.                                          *)

Goes(w, p)   == worker' = [worker EXCEPT ![w].phase = p, ![w].page = NoPage]
Raises(w)    == worker' = [worker EXCEPT ![w].phase = "finalize", ![w].page = NoPage,
                                         ![w].note = 0, ![w].failed = TRUE]
Fetched(w, p) == worker' = [worker EXCEPT ![w].page = [p EXCEPT !.full = TRUE]]

Fetching(w, p) == worker[w].phase = p /\ ~worker[w].page.full
Storing(w, p)  == worker[w].phase = p /\ worker[w].page.full

\* reply_sync_lease_lost: every read of the mailbox row and every write of a
\* page finds the lease gone; the notification claim and the list of unread
\* replies do not look.
LeaseLost(w) ==
    /\ ~Holds(w)
    /\ \/ worker[w].page.full
       \/ worker[w].phase \in {"subscribe", "sent_scan", "sent_delta", "scan",
                               "inbox_delta", "reconcile"}
    /\ Raises(w)
    /\ UNCHANGED <<clock, graph, channel, faults, state, note, row, hook, history>>

\* A Graph request fails for good; the claimed notification is released.
RequestFails(w) ==
    /\ worker[w].phase \in Passes \ {"notify", "refresh", "reconcile"}
    /\ ~worker[w].page.full
    /\ Fault("error")
    /\ note' = IF worker[w].phase = "notified" /\ note[worker[w].note].by = w
               THEN [note EXCEPT ![worker[w].note].by = Null] ELSE note
    /\ Raises(w)
    /\ UNCHANGED <<clock, graph, channel, state, row, hook, history>>

\* _ensure_subscription: renew, create, or adopt the one a lost answer left.
Subscribe(w) ==
    /\ Fetching(w, "subscribe") /\ Holds(w)
    /\ IF state.sub # 0 /\ ~state.soon
       THEN Goes(w, "sent_scan") /\ UNCHANGED <<graphSub, lastSub, faults>>
       ELSE /\ IF graphSub = 0
               THEN lastSub' = lastSub + 1 /\ graphSub' = lastSub'
               ELSE UNCHANGED <<graphSub, lastSub>>
            /\ \/ Fetched(w, [NoPage EXCEPT !.next = graphSub']) /\ UNCHANGED faults
               \/ Fault("error") /\ Raises(w)
    /\ UNCHANGED <<clock, mail, touched, channel, state, note, row, hook, history>>

PersistSubscription(w) ==
    /\ Storing(w, "subscribe") /\ Holds(w)
    /\ state' = [state EXCEPT !.sub = worker[w].page.next, !.soon = FALSE]
    /\ Goes(w, "sent_scan")
    /\ UNCHANGED <<clock, graph, channel, faults, note, row, hook, history>>

\* Mutant of Stored: a message that is known is not stored again.
StoredOnce(items) ==
    [m \in Messages |->
       IF row[m].kind = "none" /\ \E s \in items : s.m = m /\ s.kind # "removed"
       THEN LET s == CHOOSE s \in items : s.m = m IN [at |-> s.at, kind |-> s.kind]
       ELSE row[m]]

\* What storing a page leaves in the database: process_graph_message and
\* mark_graph_message_removed.
Stored(items) ==
    [m \in Messages |->
       IF \E s \in items : s.m = m
       THEN LET s == CHOOSE s \in items : s.m = m
            IN [at |-> s.at,
                kind |-> IF s.kind = "removed" /\ row[m].kind \notin {"read", "unread"}
                         THEN row[m].kind ELSE s.kind]
       ELSE row[m]]

\* Mutant of ScanPage: the last page is recognized too early.
ShortScanPage(link, inScope) ==
    [NoPage EXCEPT !.items = IF inScope THEN {Snapshot(link + 1)} ELSE {},
                   !.next = link + 1, !.last = link + 2 >= Size]

\* A page of a scan lists the next message, if the scanned folder holds it.
ScanPage(link, inScope) ==
    [NoPage EXCEPT !.items = IF inScope THEN {Snapshot(link + 1)} ELSE {},
                   !.next = link + 1, !.last = link + 1 = Size]

\* Mutant of NextLink: a finished scan leaves its link behind.
LinkReached(page) == page.next

NextLink(page) == IF page.last THEN 0 ELSE page.next

FetchSentScan(w) ==
    /\ Fetching(w, "sent_scan") /\ Holds(w)
    /\ IF state.force /\ ~state.sentDone
       THEN Fetched(w, ScanPage(state.sentScan,
                                mail[state.sentScan + 1].folder = "sentitems"))
       ELSE Goes(w, "sent_delta")
    /\ UNCHANGED <<clock, graph, channel, faults, state, note, row, hook, history>>

StoreSentScan(w) ==
    LET page == worker[w].page IN
    /\ Storing(w, "sent_scan") /\ Holds(w)
    /\ row' = Stored(page.items)
    /\ state' = [state EXCEPT !.sentScan = NextLink(page), !.sentDone = page.last]
    /\ Goes(w, IF page.last THEN "sent_delta" ELSE "sent_scan")
    /\ UNCHANGED <<clock, graph, channel, faults, note, hook, history>>

FetchScan(w) ==
    /\ Fetching(w, "scan") /\ Holds(w)
    /\ IF state.force
       THEN Fetched(w, [ScanPage(state.scan, Exists(state.scan + 1)) EXCEPT
                          !.base = IF state.scan = 0 THEN asked ELSE begun])
       ELSE Goes(w, "inbox_delta")
    /\ UNCHANGED <<clock, graph, channel, faults, state, note, row, hook, history>>

StoreScan(w) ==
    LET page == worker[w].page IN
    /\ Storing(w, "scan") /\ Holds(w)
    /\ row' = Stored(page.items)
    /\ state' = [state EXCEPT !.scan = NextLink(page), !.force = @ /\ ~page.last]
    /\ begun' = page.base
    /\ served' = IF page.last THEN page.base ELSE served
    /\ Goes(w, IF page.last THEN "inbox_delta" ELSE "scan")
    /\ UNCHANGED <<clock, graph, channel, faults, note, hook, asked>>

DeltaPhase == [inbox |-> "inbox_delta", sentitems |-> "sent_delta"]

\* The changes a delta link still has to report: from no link, the messages
\* of the folder; from a link, also those that left it since.
Behind(f) == {m \in Messages : /\ touched[f][m] > state[f]
                               /\ state[f] = 0 => mail[m].folder = f}

\* The oldest unreported change, looked up when it is a removal.
FetchDelta(w, f) ==
    /\ Fetching(w, DeltaPhase[f]) /\ Holds(w)
    /\ IF Behind(f) = {}
       THEN Fetched(w, [NoPage EXCEPT !.next = clock, !.last = TRUE])
       ELSE LET m == CHOOSE m \in Behind(f) :
                       \A n \in Behind(f) : touched[f][m] <= touched[f][n]
            IN  Fetched(w, [NoPage EXCEPT
                   !.items = {Snapshot(m)},
                   !.last = Behind(f) = {m},
                   !.next = IF Behind(f) = {m} THEN clock ELSE touched[f][m]])
    /\ UNCHANGED <<clock, graph, channel, faults, state, note, row, hook, history>>

StoreDelta(w, f) ==
    LET page == worker[w].page IN
    /\ Storing(w, DeltaPhase[f]) /\ Holds(w)
    /\ row' = Stored(page.items)
    /\ state' = [state EXCEPT ![f] = page.next]
    /\ Goes(w, IF page.last THEN After[DeltaPhase[f]] ELSE DeltaPhase[f])
    /\ UNCHANGED <<clock, graph, channel, faults, note, hook, history>>

\* Graph answers 410: the delta link has expired.
DeltaExpired(w, f) ==
    /\ Fetching(w, DeltaPhase[f]) /\ state[f] # 0
    /\ Fault("delta_expired")
    /\ IF Holds(w)
       THEN /\ state' = [FromScratch(state) EXCEPT ![f] = 0]
            /\ asked' = [asked EXCEPT !.quiet = @ + 1]
       ELSE UNCHANGED <<state, asked>>
    /\ Raises(w)
    /\ UNCHANGED <<clock, graph, channel, note, row, hook, begun, served>>

ClaimNotification(w) ==
    LET waiting == {m \in Messages : Pending(m) /\ note[m].by = Null} IN
    /\ worker[w].phase = "notify"
    /\ IF waiting = {}
       THEN Goes(w, "refresh") /\ UNCHANGED note
       ELSE \E m \in waiting :
              /\ \A n \in waiting : note[m].req <= note[n].req
              /\ note' = [note EXCEPT ![m].by = w]
              /\ worker' = [worker EXCEPT ![w].phase = "notified", ![w].note = m,
                                          ![w].noted = note[m].req]
    /\ UNCHANGED <<clock, graph, channel, faults, state, row, hook, history>>

FetchNotified(w) ==
    /\ Fetching(w, "notified")
    /\ Fetched(w, [NoPage EXCEPT !.items = {Snapshot(worker[w].note)}])
    /\ UNCHANGED <<clock, graph, channel, faults, state, note, row, hook, history>>

ProcessedAt(w) == worker[w].noted

StoreNotified(w) ==
    LET m == worker[w].note IN
    /\ Storing(w, "notified") /\ Holds(w)
    /\ IF note[m].by # w
       THEN Raises(w) /\ UNCHANGED <<row, note>>
       ELSE /\ row' = Stored(worker[w].page.items)
            /\ note' = [note EXCEPT ![m].done = ProcessedAt(w), ![m].by = Null]
            /\ worker' = [worker EXCEPT ![w].phase = "notify", ![w].page = NoPage,
                                        ![w].note = 0, ![w].noted = 0]
    /\ UNCHANGED <<clock, graph, channel, faults, state, hook, history>>

\* _refresh_unread_replies
ListUnread(w) ==
    /\ worker[w].phase = "refresh"
    /\ worker' = [worker EXCEPT ![w].phase = "refreshing",
                     ![w].todo = {m \in Replies : row[m].kind = "unread"}]
    /\ UNCHANGED <<clock, graph, channel, faults, state, note, row, hook, history>>

FetchUnread(w) ==
    /\ Fetching(w, "refreshing")
    /\ IF worker[w].todo = {} THEN Goes(w, "reconcile")
       ELSE \E m \in worker[w].todo :
              Fetched(w, [NoPage EXCEPT !.items = {Snapshot(m)}])
    /\ UNCHANGED <<clock, graph, channel, faults, state, note, row, hook, history>>

StoreUnread(w) ==
    LET items == worker[w].page.items IN
    /\ Storing(w, "refreshing") /\ Holds(w)
    /\ row' = Stored(items)
    /\ worker' = [worker EXCEPT ![w].page = NoPage,
                                ![w].todo = @ \ {s.m : s \in items}]
    /\ UNCHANGED <<clock, graph, channel, faults, state, note, hook, history>>

\* reconcile_pending_replies, whose effect on the replies is ReplyMatching's.
Reconcile(w) ==
    /\ worker[w].phase = "reconcile" /\ Holds(w)
    /\ Goes(w, "finalize")
    /\ UNCHANGED <<clock, graph, channel, faults, state, note, row, hook, history>>

-----------------------------------------------------------------------------
Works(w) ==
    \/ ClaimMailbox(w) \/ LeaseLost(w) \/ Subscribe(w) \/ PersistSubscription(w)
    \/ FetchSentScan(w) \/ StoreSentScan(w) \/ FetchScan(w) \/ StoreScan(w)
    \/ \E f \in Folders : FetchDelta(w, f) \/ StoreDelta(w, f)
    \/ ClaimNotification(w) \/ FetchNotified(w) \/ StoreNotified(w)
    \/ ListUnread(w) \/ FetchUnread(w) \/ StoreUnread(w)
    \/ Reconcile(w) \/ Finalize(w)

Next ==
    \/ \E m \in Messages : Change(m)
    \/ SubscriptionEnds \/ Expiring \/ TimePasses
    \/ \E h \in Hooks : Receive(h) \/ Record(h)
    \/ \E w \in Workers : \/ Works(w) \/ RecoverStale(w) \/ Crash(w)
                          \/ RequestFails(w)
                          \/ \E f \in Folders : DeltaExpired(w, f)

Spec == Init /\ [][Next]_vars

\* A worker polls and works on; every poll looks for stale heartbeats before
\* it claims, so what stays stale is recovered; Graph repeats a notification
\* until it is taken; and time passes.
Fairness ==
    /\ \A w \in Workers : WF_vars(Works(w)) /\ SF_vars(RecoverStale(w))
    /\ \A h \in Hooks : WF_vars(Receive(h)) /\ WF_vars(Record(h))
    /\ WF_vars(TimePasses)

FairSpec == Spec /\ Fairness

-----------------------------------------------------------------------------
(* Properties.                                                             *)

\* Graph loses no notification and ends no subscription; and webhook calls are
\* recorded one after another: the handler of the one API process has no await
\* between its read of the state row and its commit.
Reliable == /\ Faults \cap {"lost", "removed", "expired"} = {}
            /\ \A g, h \in Hooks : g = h

\* A page fetched by a process that has since lost the mailbox never
\* overwrites what its successor stored: no row goes back to an older
\* version of its message (_lock_current_claim before every store).
NeverOlder == \A m \in Messages : row'[m].at >= row[m].at

\* What the database says of m is what the mailbox holds.
Current(m) == \/ row[m].at = mail[m].at
              \/ ~Exists(m) /\ row[m].kind \notin {"read", "unread"}

Underway(m) == \/ \E e \in channel : e.kind = "changed" /\ e.m = m
               \/ \E h \in Hooks : hook[h].event.kind = "changed" /\ hook[h].event.m = m

\* What is stored still leads to m: a delta link behind its last change, a
\* scan that has yet to list it, a notification, or its being unread.
Reachable(m) ==
    \/ \E f \in Folders : m \in Behind(f)
    \/ state.force /\ Exists(m) /\ state.scan < m
    \/ Underway(m) \/ Pending(m)
    \/ m \in Replies /\ row[m].kind = "unread"

\* No change of the mailbox is skipped: a message whose row is not current
\* can still be reached from durable state alone, wherever the workers die.
NothingSkipped == \A m \in Messages : Current(m) \/ Reachable(m)

\* Whatever Graph loses, a message that has not changed since the mailbox was
\* connected is read by the first scan: no restart, resumption or request for
\* another scan, however late, leaves it out.
BacklogIsScanned ==
    \A m \in Messages : mail[m].at <= 1 =>
        Current(m) \/ (state.force /\ Exists(m) /\ state.scan < m)

\* A rescan asked for while no pass was running, by an expired delta link or
\* by an expired lease stays asked for until a scan begun later is finished.
QuietRescanServed == served.quiet < asked.quiet => state.force

\* Together: whatever a worker loses, the mailbox does not.
NothingForgotten ==
    /\ [](TypeOK /\ NothingSkipped /\ BacklogIsScanned /\ QuietRescanServed)
    /\ [][NeverOlder]_vars

\* finalize_mailbox_sync: "Release the lease without losing notifications
\* received during the run": the same of a request that arrives during a run.
RescanServed == asked # served => state.force

\* Once the mailbox is left alone and nothing fails any more, every row
\* becomes and stays current.
EventuallyCurrent == <>[](\A m \in Messages : Current(m))

\* A signal recorded by the webhook is worked off.
NotificationsProcessed == \A m \in Messages : Pending(m) ~> ~Pending(m)
=============================================================================
