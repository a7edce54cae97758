---------------------------- MODULE MCProgress -----------------------------
(***************************************************************************)
(* Small instances of the components that owe somebody an answer, for TLC. *)
(* As in MCServices, service names the component a behaviour is about and  *)
(* the variables of the others keep their first value.  Every liveness     *)
(* property is stated under the fairness of its own component.             *)
(*                                                                         *)
(*   feed      a changing feed and the daily and manual ingestions of it   *)
(*   daily     the schedule of the daily synchronization, one process      *)
(*   mailbox   the synchronization of a mailbox                            *)
(*   matching  the attribution of two replies                              *)
(*   agent     one attempt of the agent                                    *)
(*   claims    a request, feeds and the generation worker, that lock rows  *)
(*   pages     a request, pages of replies and the generation worker       *)
(***************************************************************************)
EXTENDS Integers, Sequences, FiniteSets

CONSTANTS Null, Rank, Wharf, Scope, Id

VARIABLES
    service,
    source, leads, drafts, manual, at, batch, known, seen,
    today, upstream, run, worker, applied,
    clock, mail, touched, graphSub, lastSub, channel, faults, state, note, row,
    hook, replyWorker, asked, begun, served,
    fact, job, reply,
    lead, setup, node, attempt, agentState, requests, result, recorded,
    gen, del, task, todo, held

(***************************************************************************)
(* The instances.                                                          *)
(***************************************************************************)
Spellings == {"wharf", "WHARF", " "}

Natural(name, status) == [id |-> Null, name |-> name, status |-> status]

(* Leads with and without an identifier, spelled differently.              *)
ChangingFeeds ==
    {<<Natural("wharf", "active")>>, <<Natural("WHARF", "deleted")>>,
     <<Natural("wharf", "deleted"), Natural(" ", "active")>>,
     <<[id |-> Id, name |-> "wharf", status |-> "active"]>>}

Feed == INSTANCE FeedIngestion WITH
    Scopes <- {Scope}, Ids <- {Id}, Names <- Spellings,
    Canonical <- [n \in Spellings |-> IF n = " " THEN Null ELSE Wharf],
    Feeds <- ChangingFeeds, Configured <- Scope,
    Workers <- {"daily", "manual"}, Daily <- {"daily"},
    MaxVersions <- 1, MaxManual <- 1

Daily == INSTANCE EarlyBidSync WITH
    LastDay <- 1, LastVersion <- 0, Workers <- {"w1"}, MaxAttempts <- 4

Mailbox == INSTANCE MailboxSync WITH
    Size <- 1, Sent <- {}, Replies <- {1}, Hooks <- {"h1"}, Workers <- {"w1"},
    Faults <- {"crash", "error", "delta_expired", "duplicate"}, MaxFaults <- 1, MaxClock <- 2,
    worker <- replyWorker

Replies == {"r1", "r2"}

(* Every fact, up to the names of the first job's lead and conversation,   *)
(* with an automatic answer or a reply outside of the conversations only   *)
(* next to replies that are neither.                                       *)
Everything ==
    [lead: {f \in [{1, 2} -> {"l1", "l2"}] : f[1] = "l1"},
     jobConv: {f \in [{1, 2} -> {"c1", "c2"}] : f[1] = "c1"},
     refs: [Replies -> SUBSET {1, 2}], conv: [Replies -> {"c1", "c2", Null}],
     auto: [Replies -> BOOLEAN]]
SomeFacts ==
    {f \in Everything :
        /\ ~f.auto["r2"] /\ f.conv["r2"] # Null
        /\ f.auto["r1"] \/ f.conv["r1"] = Null => f.refs["r1"] # {} /\ f.refs["r2"] = {}}

Matching == INSTANCE ReplyMatching WITH
    Jobs <- {1, 2}, Leads <- {"l1", "l2"}, Convs <- {"c1", "c2"}, GraphIds <- {1},
    Scenarios <- SomeFacts

(* One answer that can be used and one that cannot, for a lead with and    *)
(* one without routing evidence: whether an attempt ends does not depend   *)
(* on what it writes about.                                                *)
SomeAnswers ==
    {[family |-> "accoya_wood", application |-> "bridges", confident |-> c] : c \in BOOLEAN}
SomeLeads ==
    {[evidence |-> {}, stage |-> "planning"],
     [evidence |-> {"deck"}, stage |-> "procurement"]}

Agent == INSTANCE AgentWorkflow WITH
    FamilyAliases <- {}, ApplicationAliases <- {},
    Selections <- SomeAnswers, Drafts <- {<<"accoya_wood", "bridges">>},
    LeadTexts <- SomeLeads, Chunks <- {<<>>, <<"d1">>}, MaxAttempts <- 3,
    Nothing <- Null, state <- agentState

(* A request among transactions that wait for each other in cycles again   *)
(* and again: feeds or pages of replies, and the generation worker.        *)
Locks == INSTANCE RowLocks WITH
    Lead <- {"lead"}, Ingestions <- {"upload"}, ScopeOf <- [f \in {"upload"} |-> Scope],
    Background <- {"generation", "replies"}, Requests <- {"send"}, MaxMessages <- 2

ASSUME /\ Daily!EarlyBidSyncAssumption /\ Mailbox!MailboxSyncAssumption
       /\ Matching!ReplyMatchingAssumption
       /\ Agent!AliasesNameOneFamily /\ Agent!AttemptsPositive /\ Agent!NothingIsNothing
       /\ Locks!ProcessesAndBounds

(***************************************************************************)
(* The components side by side.  A component that does not run is in some  *)
(* initial state of its own.                                               *)
(***************************************************************************)
Services == {"feed", "daily", "mailbox", "matching", "agent", "claims", "pages"}

Runs(s, fixed) == service = s \/ fixed

Init ==
    /\ service \in Services
    /\ Feed!FeedInit
    /\ Runs("feed", source[Scope].rows = <<Natural("wharf", "active")>>)
    /\ Daily!Init
    /\ Mailbox!Init
    /\ Runs("mailbox", mail[1].folder = "none")
    /\ Matching!MatchingInit
    /\ Runs("matching", fact = CHOOSE f \in SomeFacts : TRUE)
    /\ Agent!AttemptInit
    /\ Runs("agent", setup.model /\ setup.retriever /\ lead.stage = "planning")
    /\ Locks!LocksInit
    /\ service = "claims" \/ Runs("pages", gen["lead"] = "done" /\ del["lead"] = "none")

feed == <<source, leads, drafts, manual, at, batch, known, seen>>
daily == <<today, upstream, run, worker, applied>>
mailbox == <<clock, mail, touched, graphSub, lastSub, channel, faults, state, note,
             row, hook, replyWorker, asked, begun, served>>
matching == <<fact, job, reply>>
agent == <<lead, setup, node, attempt, agentState, requests, result, recorded>>
locks == <<gen, del, task, todo, held>>

Next ==
    /\ UNCHANGED service
    /\ \/ /\ service = "feed" /\ Feed!FeedNext
          /\ UNCHANGED <<daily, mailbox, matching, agent, locks>>
       \/ /\ service = "daily" /\ Daily!Next
          /\ UNCHANGED <<feed, mailbox, matching, agent, locks>>
       \/ /\ service = "mailbox" /\ Mailbox!Next
          /\ UNCHANGED <<feed, daily, matching, agent, locks>>
       \/ /\ service = "matching" /\ Matching!MatchingNext
          /\ UNCHANGED <<feed, daily, mailbox, agent, locks>>
       \/ /\ service = "agent" /\ Agent!AttemptNext
          /\ UNCHANGED <<feed, daily, mailbox, matching, locks>>
       \/ /\ service \in {"claims", "pages"} /\ Locks!LocksNext
          /\ service = "claims" => task'["replies"] = Locks!NoTask
          /\ service = "pages" => task'["upload"] = Locks!NoTask
          /\ UNCHANGED <<feed, daily, mailbox, matching, agent>>

Spec == Init /\ [][Next]_<<service, feed, daily, mailbox, matching, agent, locks>>

(***************************************************************************)
(* Properties.                                                             *)
(***************************************************************************)

\* Every daily run ends within its attempt budget.
EveryRunEnds == Daily!Fairness => Daily!EveryRunEnds

\* Every day that does not pass gets its run.
EveryDayIsScheduled == Daily!Fairness => Daily!EveryDayIsScheduled

(* The daily run restores what a manual sync has overwritten with older    *)
(* rows, and leads without an identifier never stand for the same project. *)
LeadsSettle ==
    /\ []Feed!OneLeadPerProject
    /\ Feed!Fairness => Feed!Repaired

(* Once the mailbox is left alone every row becomes and stays current, and *)
(* what the webhook has recorded is worked off; attributions last only     *)
(* while the evidence allows them and do not depend on the order of        *)
(* arrival.                                                                *)
RepliesSettle ==
    /\ Mailbox!Fairness => Mailbox!EventuallyCurrent
    /\ Mailbox!Fairness => Mailbox!NotificationsProcessed
    /\ Matching!MatchingFairness => Matching!FallbackIsSupported
    /\ Matching!MatchingFairness => Matching!OrderIndependent

(* An attempt of the agent ends however the providers behave, and every    *)
(* request ends, by its commit or as the victim of a deadlock, among       *)
(* feeds, claims and pages that abort each other again and again.          *)
AnswersArrive ==
    /\ Agent!AttemptFairness => Agent!AttemptEnds
    /\ Locks!LocksFairness => Locks!RequestsEnd
=============================================================================
