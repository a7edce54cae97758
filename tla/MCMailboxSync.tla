--------------------------- MODULE MCMailboxSync ---------------------------
(***************************************************************************)
(* Small instances of the synchronization of replies for TLC.  As in       *)
(* MCServices, service names the instance a behaviour is about, and the    *)
(* variables of the other component keep their first value.                *)
(*                                                                         *)
(*   lease     two processes, which crash, pause and meet expired links,   *)
(*             over a mailbox of one message                               *)
(*   pages     one process over a mailbox a reply and a sent message come  *)
(*             to                                                          *)
(*   rescan    one process over a mailbox that holds two messages already, *)
(*             notifications lost and requests failing                     *)
(*   busy      the same, for the finding                                   *)
(*   renewal   one process over a mailbox that holds one message and does  *)
(*             not change, subscriptions renewed and ending in every way   *)
(*   matching  what the stored messages mean: two jobs, two replies and    *)
(*             copies of each                                              *)
(***************************************************************************)
EXTENDS ReplyMatching, TLC

CONSTANTS Pair, Single,     \* the reply workers of lease, and of the others
          Hooks, Services

VARIABLES service,
          clock, mail, touched, graphSub, lastSub, channel, faults, state, note,
          row, hook, worker, asked, begun, served

Lease == INSTANCE MailboxSync WITH
    Size <- 1, Sent <- {}, Replies <- {1}, Workers <- Pair,
    Faults <- {"crash", "stale", "delta_expired"}, MaxFaults <- 2, MaxClock <- 2
Pages == INSTANCE MailboxSync WITH
    Size <- 2, Sent <- {2}, Replies <- {1}, Workers <- Single,
    Faults <- {"crash", "error", "duplicate"}, MaxFaults <- 1, MaxClock <- 3
Rescan == INSTANCE MailboxSync WITH
    Size <- 2, Sent <- {}, Replies <- {1}, Workers <- Single,
    Faults <- {"lost", "error"}, MaxFaults <- 2, MaxClock <- 2
Renewal == INSTANCE MailboxSync WITH
    Size <- 1, Sent <- {}, Replies <- {1}, Workers <- Single,
    Faults <- {"expiring", "expired", "removed"}, MaxFaults <- 2, MaxClock <- 1

(* The first job's lead is l1, its conversation c1.                        *)
Everything ==
    {f \in Facts : f.lead[1] = "l1" /\ f.jobConv[1] = "c1"}

(* Every fact, up to the names of the first job's lead and conversation,   *)
(* with an automatic answer or a reply outside of the conversations only   *)
(* next to a reply that is neither and refers to nothing.                  *)
SomeFacts ==
    {f \in Everything :
        /\ ~f.auto["r2"] /\ f.conv["r2"] # Null
        /\ f.auto["r1"] \/ f.conv["r1"] = Null => f.refs["r2"] = {}}

ASSUME /\ Lease!MailboxSyncAssumption /\ Pages!MailboxSyncAssumption
       /\ Rescan!MailboxSyncAssumption /\ Renewal!MailboxSyncAssumption
       /\ Lease!Reliable /\ Pages!Reliable

Init ==
    /\ service \in Services
    /\ CASE service = "lease"   -> Lease!Init
         [] service = "renewal" -> Renewal!Init
         [] OTHER               -> Pages!Init
    /\ service \in {"pages", "matching"} => \A m \in {1, 2} : mail[m].folder = "none"
    /\ service \in {"rescan", "busy"} => \A m \in {1, 2} : mail[m].folder = "other"
    /\ service = "lease" => mail[1].folder = "none"
    /\ service = "renewal" => mail[1].folder = "other"
    /\ MatchingInit
    /\ service = "matching" \/ fact = CHOOSE f \in SomeFacts : TRUE

mailbox == <<clock, mail, touched, graphSub, lastSub, channel, faults, state, note,
             row, hook, worker, asked, begun, served>>

Next ==
    /\ UNCHANGED service
    /\ \/ /\ \/ service = "lease" /\ Lease!Next
             \/ service = "pages" /\ Pages!Next
             \/ service \in {"rescan", "busy"} /\ Rescan!Next
             \/ service = "renewal" /\ Renewal!Next
          /\ UNCHANGED matchingVars
       \/ service = "matching" /\ MatchingNext /\ UNCHANGED mailbox

Spec == Init /\ [][Next]_<<service, mailbox, matchingVars>>

PairAlike == Permutations(Pair)

(***************************************************************************)
(* Properties: those of the components, each for its services.             *)
(***************************************************************************)
Of(ss, property) == service \in ss => property

(* Whatever a worker loses, the mailbox does not: no change is skipped, no *)
(* late page puts an older version of a message over a newer one, and a    *)
(* rescan asked for while no pass was running is made.                     *)
NothingForgotten ==
    /\ [](/\ Of({"lease"}, Lease!TypeOK /\ Lease!NothingSkipped)
          /\ Of({"pages"}, Pages!TypeOK /\ Pages!NothingSkipped)
          /\ Of({"rescan"}, Rescan!TypeOK /\ Rescan!BacklogIsScanned)
          /\ Of({"renewal"}, Renewal!TypeOK /\ Renewal!NothingSkipped)
          /\ Of({"lease", "rescan", "renewal"}, Lease!QuietRescanServed))
    /\ [][/\ Of({"lease", "renewal"}, Lease!NeverOlder)
          /\ Of({"pages", "rescan"}, Pages!NeverOlder)]_<<service, mailbox, matchingVars>>

(* finalize_mailbox_sync: "Release the lease without losing notifications  *)
(* received during the run": a rescan asked for during a pass is made too. *)
RescanServed == Of({"busy"}, Rescan!RescanServed)
=============================================================================
