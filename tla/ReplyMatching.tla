--------------------------- MODULE ReplyMatching ---------------------------
(***************************************************************************)
(* What storing one Graph message means: a sent item is recognized by the  *)
(* header Accoya put into it and gives its delivery job its identity at    *)
(* Graph; an incoming message is attributed to the opportunity whose       *)
(* messages it refers to, or else to that of its conversation.  Messages   *)
(* arrive, are repeated, copied and removed in any order, so a reply may   *)
(* come before the message it answers.  Each action is one message of a    *)
(* page, stored under the mailbox lease (MailboxSync).                     *)
(*                                                                         *)
(* A delivery job is known by its number, in the order of queued_at, and   *)
(* so is the internet message id of what it sent.  A message and its       *)
(* copies have one internet message id and different Graph ids.            *)
(*                                                                         *)
(* fact  what does not change: the lead and the conversation of each job,  *)
(*       and what the headers of each incoming message say.                *)
(* job   graph_message_id of each delivery job, 0 while it is unknown;     *)
(*       its other identities are stored together with it.                 *)
(* reply email_replies, one row per internet message id.                   *)
(***************************************************************************)
EXTENDS Naturals, FiniteSets

CONSTANTS
    Jobs,      \* delivery jobs, numbered in the order they were queued
    Replies,   \* incoming messages
    Leads,
    Convs,     \* Graph conversations
    GraphIds,  \* Graph ids of a message and its copies, positive numbers
    Scenarios, \* the facts considered
    Null

\* auto stands for the headers of automatic answers and delivery reports.
Facts == [lead: [Jobs -> Leads], jobConv: [Jobs -> Convs],
          refs: [Replies -> SUBSET Jobs], conv: [Replies -> Convs \cup {Null}],
          auto: [Replies -> BOOLEAN]]

ASSUME ReplyMatchingAssumption ==
    /\ IsFiniteSet(Jobs)
    /\ Jobs \subseteq Nat \ {0} /\ GraphIds \subseteq Nat \ {0}
    /\ Null \notin Leads \cup Convs /\ Null \notin Jobs
    /\ Scenarios \subseteq Facts

VARIABLES fact, job, reply

matchingVars == <<fact, job, reply>>

Methods == {"references", "conversation", "none"}
Classes == {"human", "automatic", "ambiguous", "unmatched"}

NoMatch == [lead |-> Null, job |-> Null, method |-> "none"]
Matches == [lead: Leads \cup {Null}, job: Jobs \cup {Null}, method: Methods]
NoRow   == [graph |-> 0, removed |-> FALSE, match |-> NoMatch,
            class |-> "unmatched"]
Rows    == [graph: GraphIds \cup {0}, removed: BOOLEAN, match: Matches,
            class: Classes]

MatchingTypeOK ==
    /\ fact \in Facts
    /\ job \in [Jobs -> GraphIds \cup {0}]
    /\ reply \in [Replies -> Rows]
    \* lead, job and method are set and cleared together
    /\ \A r \in Replies : LET m == reply[r].match
                         IN  /\ m.lead = Null <=> m.job = Null
                             /\ m.lead = Null <=> m.method = "none"

MatchingInit ==
    /\ fact \in Scenarios
    /\ job = [j \in Jobs |-> 0]
    /\ reply = [r \in Replies |-> NoRow]

-----------------------------------------------------------------------------
(* _match_reply, over the jobs a transaction sees.                         *)

Stored(r) == reply[r].graph # 0

LeadsOf(jobs) == {fact.lead[j] : j \in jobs}

Newest(jobs) == CHOOSE j \in jobs : \A k \in jobs : k <= j

\* _unique_delivery_match
MatchedTo(jobs, method) ==
    LET j == Newest(jobs)
    IN  [lead |-> fact.lead[j], job |-> j, method |-> method]

\* Mutant of Witnesses: replies attributed by conversation vouch for each other.
AnyAttributed(c) == {r \in Replies : /\ Stored(r) /\ fact.conv[r] = c
                                     /\ reply[r].match.lead # Null}

\* The replies of conversation c that were attributed by their references; one
\* attributed by its conversation is no evidence of its own.
Witnesses(c) == {r \in Replies : /\ Stored(r) /\ fact.conv[r] = c
                                 /\ reply[r].match.method = "references"}

\* Mutant of NoneFound: a lost attribution leaves its method behind.
LeadLost(ambiguous) == {[match |-> [NoMatch EXCEPT !.method = "conversation"],
                         ambiguous |-> ambiguous]}

NoneFound(ambiguous) == {[match |-> NoMatch, ambiguous |-> ambiguous]}
Found(matches)       == {[match |-> m, ambiguous |-> FALSE] : m \in matches}

\* What may be found for r when the jobs in seen have their identity.  A match
\* by an earlier reply takes any of them: the query has no order.
Match(r, seen) ==
    LET c        == fact.conv[r]
        referred == fact.refs[r] \cap seen
        together == {j \in seen : fact.jobConv[j] = c}
        leads    == LeadsOf(together) \cup {reply[q].match.lead : q \in Witnesses(c)}
    IN  IF referred # {}
        THEN IF Cardinality(LeadsOf(referred)) = 1
             THEN Found({MatchedTo(referred, "references")})
             ELSE NoneFound(TRUE)
        ELSE IF c = Null \/ Cardinality(leads) # 1
        THEN NoneFound(c # Null /\ leads # {})
        ELSE IF together # {}
        THEN Found({MatchedTo(together, "conversation")})
        ELSE Found({[reply[q].match EXCEPT !.method = "conversation"] : q \in Witnesses(c)})

\* Mutant of Seen: a job counts before its sent item was observed.
Queued == Jobs

Seen == {j \in Jobs : job[j] # 0}

-----------------------------------------------------------------------------
(* reconcile_pending_replies: every row is matched against the rows as     *)
(* they were before the pass, because sessions do not flush by themselves. *)

\* Mutant of Rechecked: only replies nobody was found for are looked at again.
RecheckedUnmatched(r) == Stored(r) /\ ~reply[r].removed /\ reply[r].match.lead = Null

Rechecked(r) == /\ Stored(r) /\ ~reply[r].removed
                /\ \/ reply[r].match.lead = Null
                   \/ reply[r].match.method = "conversation"

\* Mutant of Reclassified: the classification keeps what it said first.
ClassKept(old, found) == old

Reclassified(old, found) ==
    IF old = "automatic" THEN old
    ELSE IF found.match.lead # Null THEN "human"
    ELSE IF found.ambiguous THEN "ambiguous" ELSE "unmatched"

\* The rows a pass may leave: every candidate is matched anew.
ReconciledRows(seen) ==
    {[r \in Replies |->
        IF Rechecked(r)
        THEN [reply[r] EXCEPT !.match = pick[r].match, !.class = Reclassified(@, pick[r])]
        ELSE reply[r]] :
     pick \in {f \in [Replies -> UNION {Match(r, seen) : r \in Replies}] :
                 \A r \in Replies : f[r] \in Match(r, seen)}}

\* The pass at the end of a synchronization.
Reconcile ==
    /\ reply' \in ReconciledRows(Seen)
    /\ UNCHANGED <<fact, job>>

-----------------------------------------------------------------------------
(* process_graph_message and mark_graph_message_removed.                   *)

\* sent_message_graph_identity_conflict: the page is rolled back.
Identifies(j, g) == job[j] \in {0, g}

\* A sent item with the header of job j: the identity is stored and the
\* pending replies are matched again with it.
SentItem(j, g) ==
    /\ Identifies(j, g)
    /\ job' = [job EXCEPT ![j] = g]
    /\ reply' \in ReconciledRows(Seen \cup {j})
    /\ UNCHANGED fact

\* An incoming message, or its copy, under Graph id g.
Incoming(r, g) ==
    /\ \E found \in Match(r, Seen) :
         reply' = [reply EXCEPT ![r] =
                   [graph |-> g, removed |-> FALSE,
                    match |-> found.match,
                    class |-> Reclassified(IF fact.auto[r] THEN "automatic"
                                           ELSE "unmatched", found)]]
    /\ UNCHANGED <<fact, job>>

\* Graph no longer has the message with id g.
Removed(r, g) ==
    /\ reply[r].graph = g /\ ~reply[r].removed
    /\ reply' = [reply EXCEPT ![r].removed = TRUE]
    /\ UNCHANGED <<fact, job>>

MatchingNext ==
    \/ Reconcile
    \/ \E j \in Jobs, g \in GraphIds : SentItem(j, g)
    \/ \E r \in Replies, g \in GraphIds : Incoming(r, g) \/ Removed(r, g)

MatchingSpec == MatchingInit /\ [][MatchingNext]_matchingVars

\* The mailbox is reconciled again and again.
MatchingFairness == WF_matchingVars(Reconcile)

FairMatchingSpec == MatchingSpec /\ MatchingFairness

-----------------------------------------------------------------------------
(* Properties.                                                             *)

\* A counted reply belongs to an opportunity and is no automatic answer; a
\* reply that could belong to two is never counted, however its messages
\* arrived and were rechecked.
CountedIsAttributed ==
    \A r \in Replies : Stored(r) =>
        /\ reply[r].class = "human" => reply[r].match.lead # Null
        /\ reply[r].class \in {"ambiguous", "unmatched"} => reply[r].match.lead = Null
        /\ fact.auto[r] <=> reply[r].class = "automatic"

\* The evidence for a lead among the leads: messages r refers to, the ones of
\* its conversation, and replies of its conversation that refer to some.
Evidence(r) ==
    LeadsOf({j \in Seen : j \in fact.refs[r] \/ fact.jobConv[j] = fact.conv[r]})
      \cup {reply[q].match.lead : q \in {q \in Replies :
               /\ reply[q].match.method = "references"
               /\ fact.conv[q] = fact.conv[r]}}

\* Whom a reply is attributed to is never made up: at every moment some sent
\* item was observed that it refers to, or one of its conversation, or one an
\* earlier reply of its conversation refers to.
AttributionObserved ==
    \A r \in Replies : reply[r].match.lead # Null =>
        LET near == {q \in Replies : q = r \/ fact.conv[q] = fact.conv[r]}
        IN  \E j \in Jobs : /\ job[j] # 0 /\ fact.lead[j] = reply[r].match.lead
                            /\ \/ \E q \in near : j \in fact.refs[q]
                               \/ fact.jobConv[j] = fact.conv[r]

\* A reply that is counted belongs to an opportunity and is not automatic, and
\* some sent item that was observed leads to that opportunity.
AttributionIsSound ==
    /\ MatchingTypeOK
    /\ CountedIsAttributed
    /\ AttributionObserved

\* _match_reply: "A fallback attribution is not independent evidence: retaining
\* it here would let stale matches perpetuate themselves": a reply in the list
\* stays attributed by its conversation only to the one lead the evidence
\* still allows.
FallbackIsSupported ==
    <>[](\A r \in Replies :
           reply[r].match.method = "conversation" /\ ~reply[r].removed =>
               Evidence(r) = {reply[r].match.lead})

\* The lead of r by what all messages say, whoever arrived first.
RefLeads(r) == LeadsOf(fact.refs[r])
ConvLeads(c) == LeadsOf({j \in Jobs : fact.jobConv[j] = c})
                  \cup UNION {RefLeads(q) : q \in {q \in Replies : fact.conv[q] = c}}
TrueLeads(r) == IF RefLeads(r) # {} THEN RefLeads(r)
                ELSE IF fact.conv[r] = Null THEN {} ELSE ConvLeads(fact.conv[r])

AllSeen == Seen = Jobs /\ \A r \in Replies : Stored(r) /\ ~reply[r].removed

\* When no reply refers to messages of two leads, the attributions that are
\* reached do not depend on the order in which sent items, replies and their
\* repetitions arrive: all of them seen, each reply ends with the one lead
\* there is evidence for, and with none when there are two.
OrderIndependent ==
    (\A r \in Replies : Cardinality(RefLeads(r)) <= 1) /\ <>[]AllSeen
      => <>[](\A r \in Replies :
                IF Cardinality(TrueLeads(r)) = 1
                THEN TrueLeads(r) = {reply[r].match.lead}
                ELSE reply[r].match.lead = Null)
=============================================================================
