---------------------------- MODULE RecordsProofs ----------------------------
(***************************************************************************)
(* Proofs about the components that leave records: AgentRuns, RunHistory,  *)
(* Chat, Documents, AgentWorkflow and ReplyMatching.  They share nothing;  *)
(* each has a part of its own, which begins with its argument.             *)
(***************************************************************************)
EXTENDS AgentRuns, RunHistory, Chat, Documents, ReplyMatching, AgentWorkflow,
        FiniteSetTheorems, WellFoundedInduction, TLAPS

(***************************************************************************)
(* Proofs about AgentRuns, for any number of concurrent executions.        *)
(*                                                                         *)
(* The argument: until the commit of its result a run is running or not    *)
(* there, and what reaches that commit is a valid result; after it nothing *)
(* but _persist_system_error may write, which looks at the status first.   *)
(***************************************************************************)

StoredStatus == {"generated", "insufficient_context", "provider_error"}

StageInv ==
    \A r \in Runs :
        /\ stage[r] \in {"none", "opened"} => runStatus[r] = NoValue
        /\ stage[r] \in {"generating", "answered"} => runStatus[r] = "running"
        /\ stage[r] = "answered" => outcome[r] \in StoredStatus

RunInv == RunTypeOK /\ StageInv /\ DraftIffGenerated

-----------------------------------------------------------------------------
LEMMA RunInitInvariant == RunInit => RunInv
BY NullIsNoValue DEF RunInit, RunInv, RunTypeOK, StageInv, DraftIffGenerated, Terminal, RunStages, Results

(* The steps that leave every row alone: the agent, failures and crashes.  *)
LEMMA RunQuietPreserves ==
    ASSUME RunInv, NEW r \in Runs,
           \/ AgentRaises(r) \/ (\E answer \in Results : AgentReturns(r, answer))
           \/ InitializationFails(r) \/ RecordErrorFails(r) \/ Crash(r)
    PROVE  RunInv' /\ UNCHANGED runStatus
<1>1. UNCHANGED <<runStatus, retryOf, email>>
  BY DEF AgentRaises, AgentReturns, InitializationFails, RecordErrorFails, Crash, rows
<1>2. DraftIffGenerated'
  BY <1>1 DEF RunInv, DraftIffGenerated
<1>3. RunTypeOK'
  <2>1. stage' \in [Runs -> RunStages]
    BY DEF RunInv, RunTypeOK, AgentRaises, AgentReturns, InitializationFails, RecordErrorFails,
           Crash, RunMoves, RunStages
  <2>2. outcome' \in [Runs -> Results \cup {NoValue}]
    <3>1. UNCHANGED outcome \/ \E answer \in Results : outcome' = [outcome EXCEPT ![r] = answer]
      BY DEF AgentRaises, AgentReturns, InitializationFails, RecordErrorFails, Crash, rows
    <3> QED
      BY <3>1 DEF RunInv, RunTypeOK
  <2>3. UNCHANGED told \/ told' = [told EXCEPT ![r] = "persistence_error"]
    BY DEF AgentRaises, AgentReturns, InitializationFails, RecordErrorFails, Crash, Tells
  <2> QED
    BY <1>1, <2>1, <2>2, <2>3 DEF RunInv, RunTypeOK
<1>4. ASSUME AgentRaises(r) PROVE StageInv'
  <2>1. /\ stage[r] = "generating" /\ stage' = [stage EXCEPT ![r] = "erring"]
        /\ UNCHANGED outcome
    BY <1>4 DEF AgentRaises, RunMoves
  <2> QED
    BY <1>1, <2>1 DEF RunInv, RunTypeOK, StageInv
<1>5. ASSUME NEW answer \in Results, AgentReturns(r, answer) PROVE StageInv'
  <2>1. /\ stage[r] = "generating"
        /\ stage' = [stage EXCEPT ![r] = IF answer \in Terminal THEN "answered" ELSE "erring"]
        /\ outcome' = [outcome EXCEPT ![r] = answer]
    BY <1>5 DEF AgentReturns, RunMoves
  <2>2. answer \in Terminal => answer \in StoredStatus
    BY DEF Results, Terminal, StoredStatus
  <2> QED
    BY <1>1, <2>1, <2>2 DEF RunInv, RunTypeOK, StageInv
<1>6. ASSUME InitializationFails(r) \/ RecordErrorFails(r) \/ Crash(r) PROVE StageInv'
  <2>1. stage' = [stage EXCEPT ![r] = "ended"] /\ UNCHANGED outcome
    BY <1>6 DEF InitializationFails, RecordErrorFails, Crash, RunMoves, rows
  <2> QED
    BY <1>1, <2>1 DEF RunInv, RunTypeOK, StageInv
<1> QED
  BY <1>1, <1>2, <1>3, <1>4, <1>5, <1>6 DEF RunInv

LEMMA OpensPreserves ==
    ASSUME RunInv, NEW r \in Runs, NEW previous \in Runs \cup {NoValue}, Opens(r, previous)
    PROVE  RunInv' /\ UNCHANGED runStatus
BY DEF RunInv, RunTypeOK, StageInv, DraftIffGenerated, Opens, RunMoves, RunStages

LEMMA InitializedPreserves ==
    ASSUME RunInv, NEW r \in Runs, Initialized(r)
    PROVE  /\ RunInv'
           /\ \A q \in Runs : runStatus[q] \in Terminal => runStatus'[q] = runStatus[q]
<1>1. runStatus[r] = NoValue
  BY DEF RunInv, StageInv, Initialized, RunMoves
<1>2. /\ runStatus' = [runStatus EXCEPT ![r] = "running"] /\ stage' = [stage EXCEPT ![r] = "generating"]
      /\ UNCHANGED <<retryOf, email, outcome, told>>
  BY DEF Initialized, RunMoves
<1> QED
  BY <1>1, <1>2, NullIsNoValue DEF RunInv, RunTypeOK, StageInv, DraftIffGenerated, RunStages, Terminal

(* The terminal commit, whether or not it is acknowledged.                 *)
LEMMA StorePreserves ==
    ASSUME RunInv, NEW r \in Runs, Persist(r) \/ PersistFails(r)
    PROVE  /\ RunInv'
           /\ \A q \in Runs : runStatus[q] \in Terminal => runStatus'[q] = runStatus[q]
<1>1. outcome[r] \in StoredStatus /\ runStatus[r] = "running" /\ ~email[r]
  BY DEF RunInv, RunTypeOK, StageInv, DraftIffGenerated, Persist, PersistFails, RunMoves, Terminal
<1>2. /\ UNCHANGED <<retryOf, outcome>>
      /\ stage' = [stage EXCEPT ![r] = "ended"] \/ stage' = [stage EXCEPT ![r] = "erring"]
      /\ \/ UNCHANGED told
         \/ told' = [told EXCEPT ![r] = "completed"]
      /\ \/ UNCHANGED <<runStatus, email>>
         \/ /\ runStatus' = [runStatus EXCEPT ![r] = outcome[r]]
            /\ email' = [email EXCEPT ![r] = outcome[r] = "generated"]
  BY DEF Persist, PersistFails, Stores, RunMoves, Tells, rows
<1>3. RunTypeOK'
  <2>1. email' \in [Runs -> BOOLEAN]
    <3>1. (outcome[r] = "generated") \in BOOLEAN
      OBVIOUS
    <3> QED
      BY <1>2, <3>1 DEF RunInv, RunTypeOK
  <2>2. /\ runStatus' \in [Runs -> Terminal \cup {"running", NoValue}]
        /\ stage' \in [Runs -> RunStages]
    BY <1>1, <1>2 DEF RunInv, RunTypeOK, RunStages, Terminal, StoredStatus
  <2>3. told' \in [Runs -> {"completed", "system_error", "persistence_error", NoValue}]
    BY <1>2 DEF RunInv, RunTypeOK
  <2> QED
    BY <1>2, <2>1, <2>2, <2>3 DEF RunInv, RunTypeOK
<1>4. StageInv'
  BY <1>1, <1>2 DEF RunInv, RunTypeOK, StageInv
<1>5. DraftIffGenerated'
  <2>1. \A q \in Runs \ {r} : email'[q] = email[q] /\ runStatus'[q] = runStatus[q]
    BY <1>2 DEF RunInv, RunTypeOK
  <2>2. email'[r] <=> runStatus'[r] = "generated"
    BY <1>1, <1>2 DEF RunInv, RunTypeOK
  <2> QED
    BY <2>1, <2>2 DEF RunInv, DraftIffGenerated
<1>6. \A q \in Runs : runStatus[q] \in Terminal => runStatus'[q] = runStatus[q]
  BY <1>1, <1>2 DEF RunInv, RunTypeOK, Terminal
<1> QED
  BY <1>3, <1>4, <1>5, <1>6 DEF RunInv

LEMMA ErrorPreserves ==
    ASSUME RunInv, NEW r \in Runs, RecordError(r)
    PROVE  /\ RunInv'
           /\ \A q \in Runs : runStatus[q] \in Terminal => runStatus'[q] = runStatus[q]
<1>1. /\ UNCHANGED <<retryOf, email, outcome>>
      /\ stage' = [stage EXCEPT ![r] = "ended"]
      /\ told' = [told EXCEPT ![r] = "system_error"]
      /\ \/ UNCHANGED runStatus
         \/ runStatus[r] = "running" /\ runStatus' = [runStatus EXCEPT ![r] = "system_error"]
  BY DEF RecordError, SystemError, RunMoves, Tells
<1>2. RunTypeOK'
  BY <1>1 DEF RunInv, RunTypeOK, RunStages, Terminal
<1>3. StageInv'
  BY <1>1 DEF RunInv, RunTypeOK, StageInv
<1>4. DraftIffGenerated'
  BY <1>1 DEF RunInv, RunTypeOK, DraftIffGenerated
<1>5. \A q \in Runs : runStatus[q] \in Terminal => runStatus'[q] = runStatus[q]
  BY <1>1 DEF RunInv, RunTypeOK, Terminal
<1> QED
  BY <1>2, <1>3, <1>4, <1>5 DEF RunInv

-----------------------------------------------------------------------------
LEMMA RunStepInvariant ==
    RunInv /\ [RunNext]_runVars =>
        /\ RunInv'
        /\ \A r \in Runs : runStatus[r] \in Terminal => runStatus'[r] = runStatus[r]
<1> DEFINE Goal == /\ RunInv'
                   /\ \A r \in Runs : runStatus[r] \in Terminal => runStatus'[r] = runStatus[r]
<1> SUFFICES ASSUME RunInv, [RunNext]_runVars PROVE Goal
  OBVIOUS
<1>1. ASSUME NEW r \in Runs, NEW previous \in Runs \cup {NoValue}, Opens(r, previous) PROVE Goal
  BY <1>1, OpensPreserves
<1>2. ASSUME NEW r \in Runs, Initialized(r) PROVE Goal
  BY <1>2, InitializedPreserves
<1>3. ASSUME NEW r \in Runs, Persist(r) \/ PersistFails(r) PROVE Goal
  BY <1>3, StorePreserves
<1>4. ASSUME NEW r \in Runs, RecordError(r) PROVE Goal
  BY <1>4, ErrorPreserves
<1>5. ASSUME NEW r \in Runs,
             \/ AgentRaises(r) \/ (\E answer \in Results : AgentReturns(r, answer))
             \/ InitializationFails(r) \/ RecordErrorFails(r) \/ Crash(r)
      PROVE  Goal
  BY <1>5, RunQuietPreserves
<1>6. CASE UNCHANGED runVars
  BY <1>6 DEF runVars, rows, RunInv, RunTypeOK, StageInv, DraftIffGenerated
<1> QED
  BY <1>1, <1>2, <1>3, <1>4, <1>5, <1>6 DEF RunNext, Executes

LEMMA RunInvariant == RunSpec => []RunInv
  BY RunInitInvariant, RunStepInvariant, PTL DEF RunSpec

(* A draft email exists exactly for the runs that ended as generated.      *)
THEOREM DraftsMatch == RunSpec => [](RunTypeOK /\ DraftIffGenerated)
<1>1. RunInv => RunTypeOK /\ DraftIffGenerated
  BY DEF RunInv
<1> QED
  BY <1>1, RunInvariant, PTL

(* No failure after the terminal commit changes what it stored.            *)
THEOREM Final == RunSpec => TerminalIsFinal
  BY RunInvariant, RunStepInvariant, PTL DEF RunSpec, TerminalIsFinal

(* What is recorded of a run is true and stays so, for any number of runs. *)
THEOREM Truthful == RunSpec => RunsAreTruthful
  BY DraftsMatch, Final, PTL DEF RunsAreTruthful

-----------------------------------------------------------------------------

(***************************************************************************)
(* Proofs about RunHistory, for any runs, page size and interleaving of    *)
(* runs with pages.                                                        *)
(*                                                                         *)
(* The argument: every run listed so far is the one the cursor names or a  *)
(* newer one, and every run the reader is owed is listed or follows the    *)
(* cursor.  Neither changes when runs do, since started_at is fixed before *)
(* a run is committed.                                                     *)
(***************************************************************************)

Committed(r) == stored[r] # Unset
IsListed(r) == \E i \in DOMAIN listed : r \in listed[i]

(* What is committed has its started_at, and the reader sees only that.    *)
CommittedInv ==
    /\ \A r \in ListedRuns : Committed(r) => r \in begun
    /\ \A i \in DOMAIN listed : \A q \in listed[i] : Committed(q)
    /\ cursor # Unset => Committed(cursor)

CursorInv ==
    reading = "paging" =>
        \A i \in DOMAIN listed : \A q \in listed[i] :
            cursor # Unset /\ (q = cursor \/ Newer(q, cursor))

(* A run that has ended keeps the status it was asked for with.            *)
SinceInv ==
    \A r \in since : Committed(r) /\ (filter \in Outcomes => stored[r] = filter)

CoveredInv ==
    reading = "paging" =>
        \A r \in since : Shows(filter, r) => Follows(r) \/ IsListed(r)

ReaderInv ==
    /\ HistoryTypeOK /\ CommittedInv /\ CursorInv /\ SinceInv /\ CoveredInv
    /\ NewestFirst /\ NothingMissed

-----------------------------------------------------------------------------
(* The order of the list is a strict total order on runs.                  *)
LEMMA NewerIsTransitive ==
    ASSUME HistoryTypeOK, NEW p \in ListedRuns, NEW q \in ListedRuns, NEW r \in ListedRuns,
           Newer(p, q), Newer(q, r)
    PROVE  Newer(p, r)
BY RunsAreOrdered, TimeIsBounded DEF HistoryTypeOK, Newer

LEMMA HistoryInitInvariant == HistoryInit => ReaderInv
<1> SUFFICES ASSUME HistoryInit PROVE ReaderInv
  OBVIOUS
<1>1. HistoryTypeOK
  BY TimeIsBounded DEF HistoryInit, HistoryTypeOK
<1>2. CommittedInv /\ CursorInv /\ SinceInv /\ CoveredInv /\ NewestFirst /\ NothingMissed
  BY DEF HistoryInit, CommittedInv, CursorInv, SinceInv, CoveredInv, NewestFirst, NothingMissed,
         Committed
<1> QED
  BY <1>1, <1>2 DEF ReaderInv

-----------------------------------------------------------------------------
(* Steps of the runs.                                                      *)

(* What is committed keeps its place in the list, and what the reader is   *)
(* owed shows only if it did before.                                       *)
LEMMA RunsPreserve ==
    ASSUME ReaderInv, HistoryTypeOK', UNCHANGED walk,
           \A r \in ListedRuns : Committed(r) => Committed(r)' /\ started'[r] = started[r],
           \A r \in ListedRuns : Committed(r)' => r \in begun',
           \A r \in since : filter \in Outcomes => stored'[r] = filter,
           \A r \in since : Shows(filter, r)' => Shows(filter, r)
    PROVE  ReaderInv'
<1> USE DEF ReaderInv
<1>1. UNCHANGED <<reading, filter, cursor, listed, since>>
  BY DEF walk
<1>2. since \subseteq ListedRuns /\ (cursor # Unset => cursor \in ListedRuns)
      /\ \A i \in DOMAIN listed : listed[i] \subseteq ListedRuns
  BY DEF HistoryTypeOK
<1>3. \A q, r \in ListedRuns : Committed(q) /\ Committed(r) => (Newer(q, r)' <=> Newer(q, r))
  BY DEF Newer
<1>4. CommittedInv'
  BY <1>1, <1>2 DEF CommittedInv, Committed
<1>5. CursorInv' /\ NewestFirst'
  <2>1. \A i \in DOMAIN listed : \A q \in listed[i] : q \in ListedRuns /\ Committed(q)
    BY <1>2 DEF CommittedInv
  <2>2. cursor # Unset => cursor \in ListedRuns /\ Committed(cursor)
    BY <1>2 DEF CommittedInv
  <2>3. CursorInv'
    BY <1>1, <1>3, <2>1, <2>2 DEF CursorInv
  <2>4. NewestFirst'
    BY <1>1, <1>3, <2>1 DEF NewestFirst
  <2> QED
    BY <2>3, <2>4
<1>6. SinceInv'
  BY <1>1, <1>2 DEF SinceInv
<1>7. CoveredInv'
  <2> SUFFICES ASSUME reading = "paging", NEW r \in since, Shows(filter, r)'
               PROVE  Follows(r)' \/ IsListed(r)'
    BY <1>1 DEF CoveredInv
  <2>1. Follows(r) \/ IsListed(r)
    BY DEF CoveredInv
  <2>2. Committed(r) /\ r \in ListedRuns
    BY <1>2 DEF SinceInv
  <2>3. Follows(r) => Follows(r)'
    BY <1>1, <1>2, <1>3, <2>2 DEF Follows, CommittedInv
  <2>4. IsListed(r) => IsListed(r)'
    BY <1>1 DEF IsListed
  <2> QED
    BY <2>1, <2>3, <2>4
<1>8. NothingMissed'
  BY <1>1 DEF NothingMissed
<1> QED
  BY <1>4, <1>5, <1>6, <1>7, <1>8

LEMMA RunStepPreserves ==
    ASSUME ReaderInv, NEW r \in ListedRuns, Begins(r) \/ Appears(r) \/ (\E o \in Outcomes : EndsAs(r, o))
    PROVE  ReaderInv'
<1> USE RunningIsNoOutcome, TimeIsBounded
<1>1. HistoryTypeOK /\ CommittedInv /\ SinceInv /\ since \subseteq ListedRuns
  BY DEF ReaderInv, HistoryTypeOK
<1>2. CASE Begins(r)
  <2>1. HistoryTypeOK'
    BY <1>1, <1>2 DEF HistoryTypeOK, Begins, walk
  <2>2. stored[r] = Unset
    BY <1>1, <1>2 DEF CommittedInv, Committed, Begins
  <2>3. \A q \in ListedRuns : Committed(q) => Committed(q)' /\ started'[q] = started[q]
    BY <1>1, <1>2, <2>2 DEF HistoryTypeOK, Begins, Committed
  <2>4. \A q \in ListedRuns : Committed(q)' => q \in begun'
    BY <1>1, <1>2 DEF CommittedInv, Committed, Begins
  <2>5. UNCHANGED walk /\ UNCHANGED <<stored, filter>>
    BY <1>2 DEF Begins, walk
  <2> QED
    BY <1>1, <2>1, <2>3, <2>4, <2>5, RunsPreserve DEF SinceInv, Shows
<1>3. CASE Appears(r)
  <2>1. HistoryTypeOK'
    BY <1>1, <1>3 DEF HistoryTypeOK, Appears, walk
  <2>2. r \notin since
    BY <1>1, <1>3 DEF SinceInv, Committed, Appears
  <2>3. \A q \in ListedRuns : Committed(q) => Committed(q)' /\ started'[q] = started[q]
    BY <1>1, <1>3 DEF HistoryTypeOK, Appears, Committed
  <2>4. \A q \in ListedRuns : Committed(q)' => q \in begun'
    BY <1>1, <1>3 DEF CommittedInv, Committed, Appears, HistoryTypeOK
  <2>5. UNCHANGED walk /\ UNCHANGED filter /\ \A q \in since : stored'[q] = stored[q]
    BY <1>1, <1>3, <2>2 DEF Appears, walk, HistoryTypeOK
  <2> QED
    BY <1>1, <2>1, <2>3, <2>4, <2>5, RunsPreserve DEF SinceInv, Shows
<1>4. ASSUME NEW o \in Outcomes, EndsAs(r, o) PROVE ReaderInv'
  <2>1. HistoryTypeOK'
    BY <1>1, <1>4 DEF HistoryTypeOK, EndsAs, walk
  <2>2. \A q \in ListedRuns : Committed(q) => Committed(q)' /\ started'[q] = started[q]
    BY <1>1, <1>4 DEF HistoryTypeOK, EndsAs, Committed
  <2>3. \A q \in ListedRuns : Committed(q)' => q \in begun'
    BY <1>1, <1>4 DEF CommittedInv, Committed, EndsAs, HistoryTypeOK
  <2>4. UNCHANGED walk /\ UNCHANGED filter
    BY <1>4 DEF EndsAs, walk
  <2>5. \A q \in since : filter \in Outcomes => stored'[q] = filter
    BY <1>1, <1>4 DEF SinceInv, EndsAs, HistoryTypeOK
  <2>6. \A q \in since : Shows(filter, q)' => Shows(filter, q)
    BY <1>1, <1>4, <2>4 DEF SinceInv, EndsAs, HistoryTypeOK, Shows, Committed
  <2> QED
    BY <2>1, <2>2, <2>3, <2>4, <2>5, <2>6, RunsPreserve
<1> QED
  BY <1>2, <1>3, <1>4

-----------------------------------------------------------------------------
(* Steps of the reader.                                                    *)

LEMMA BeginPreserves ==
    ASSUME ReaderInv, NEW st \in Outcomes \cup {"running", Unset}, BeginReading(st)
    PROVE  ReaderInv'
<1> USE RunningIsNoOutcome DEF ReaderInv
<1>1. /\ UNCHANGED <<now, begun, started, stored>> /\ listed' = <<>> /\ cursor' = Unset
      /\ reading' = "paging" /\ filter' = st /\ since' = {r \in ListedRuns : Shows(st, r)}
  BY DEF BeginReading, runs
<1>2. HistoryTypeOK'
  BY <1>1 DEF HistoryTypeOK
<1>3. CommittedInv'
  BY <1>1 DEF CommittedInv, Committed
<1>4. CursorInv' /\ NewestFirst' /\ NothingMissed'
  BY <1>1 DEF CursorInv, NewestFirst, NothingMissed
<1>5. SinceInv'
  BY <1>1 DEF SinceInv, Shows, Committed
<1>6. CoveredInv'
  BY <1>1 DEF CoveredInv, Follows
<1> QED
  BY <1>2, <1>3, <1>4, <1>5, <1>6

LEMMA NextPagePreserves ==
    ASSUME ReaderInv, NextPage
    PROVE  ReaderInv'
<1> USE DEF ReaderInv
<1>1. PICK items \in SUBSET Remaining :
         /\ IsPage(items)
         /\ listed' = Append(listed, items)
         /\ \/ /\ HasMore
               /\ \E r \in items : IsLast(r, items) /\ cursor' = r
               /\ UNCHANGED reading
            \/ ~HasMore /\ reading' = "done" /\ UNCHANGED cursor
  BY DEF NextPage
<1>2. UNCHANGED <<now, begun, started, stored, filter, since>> /\ reading = "paging"
  BY DEF NextPage, runs
<1>3. items \subseteq ListedRuns /\ \A r \in items : Shows(filter, r) /\ Follows(r)
  BY <1>1 DEF Remaining
<1>4. HistoryTypeOK'
  BY <1>1, <1>2, <1>3 DEF HistoryTypeOK
<1>5. /\ DOMAIN listed' = DOMAIN listed \cup {Len(listed) + 1}
      /\ listed'[Len(listed) + 1] = items
      /\ \A i \in DOMAIN listed : listed'[i] = listed[i] /\ i < Len(listed) + 1
  BY <1>1 DEF HistoryTypeOK
<1>6. \A i \in DOMAIN listed : \A q \in listed[i] : q \in ListedRuns
  BY DEF HistoryTypeOK
<1>7. \A q, r \in ListedRuns : Newer(q, r)' <=> Newer(q, r)
  BY <1>2 DEF Newer
<1>8. CommittedInv'
  BY <1>1, <1>2, <1>3, <1>5 DEF CommittedInv, Committed, Shows
<1>9. \A i \in DOMAIN listed : \A q \in listed[i], r \in items : Newer(q, r)
  <2> SUFFICES ASSUME NEW i \in DOMAIN listed, NEW q \in listed[i], NEW r \in items
               PROVE  Newer(q, r)
    OBVIOUS
  <2>1. cursor # Unset /\ (q = cursor \/ Newer(q, cursor))
    BY <1>2 DEF CursorInv
  <2>2. cursor \in ListedRuns /\ Newer(cursor, r)
    BY <1>3, <2>1 DEF Follows, HistoryTypeOK
  <2> QED
    BY <1>3, <1>6, <2>1, <2>2, NewerIsTransitive
<1>10. NewestFirst'
  <2> SUFFICES ASSUME NEW i \in DOMAIN listed', NEW j \in DOMAIN listed', i < j,
                      NEW q \in listed'[i], NEW r \in listed'[j]
               PROVE  Newer(q, r)'
    BY DEF NewestFirst
  <2>1. i \in DOMAIN listed
    BY <1>5 DEF HistoryTypeOK
  <2>2. CASE j \in DOMAIN listed
    BY <1>5, <1>6, <1>7, <2>1, <2>2 DEF NewestFirst
  <2>3. CASE j = Len(listed) + 1
    BY <1>3, <1>5, <1>6, <1>7, <1>9, <2>1, <2>3
  <2> QED
    BY <1>5, <2>2, <2>3
<1>11. SinceInv'
  BY <1>2 DEF SinceInv, Committed
<1>12. CursorInv' /\ CoveredInv'
  <2> SUFFICES ASSUME reading' = "paging" PROVE CursorInv' /\ CoveredInv'
    BY DEF CursorInv, CoveredInv
  <2>1. PICK last \in items : IsLast(last, items) /\ cursor' = last
    BY <1>1
  <2>2. last \in ListedRuns /\ last # Unset
    BY <1>3, RunsAreOrdered
  <2>3. \A i \in DOMAIN listed' : \A q \in listed'[i] : q \in ListedRuns
    BY <1>3, <1>5, <1>6
  <2>4. \A i \in DOMAIN listed' : \A q \in listed'[i] : q = last \/ Newer(q, last)
    BY <1>5, <1>9, <2>1 DEF IsLast
  <2>5. CursorInv'
    BY <1>7, <2>1, <2>2, <2>3, <2>4 DEF CursorInv
  <2>6. ASSUME NEW r \in since, Shows(filter, r) PROVE Follows(r)' \/ IsListed(r)'
    <3>1. Follows(r) \/ IsListed(r)
      BY <1>2, <2>6 DEF CoveredInv
    <3>2. IsListed(r) => IsListed(r)'
      BY <1>5 DEF IsListed
    <3>3. r \in items => IsListed(r)'
      BY <1>5 DEF IsListed
    <3>4. r \in ListedRuns
      BY DEF HistoryTypeOK
    <3>5. Follows(r) /\ r \notin items => Follows(r)'
      BY <1>1, <1>7, <2>1, <2>2, <2>6, <3>4 DEF IsPage, Remaining, Follows
    <3> QED
      BY <3>1, <3>2, <3>3, <3>5
  <2>7. CoveredInv'
    BY <1>2, <2>6 DEF CoveredInv, Shows
  <2> QED
    BY <2>5, <2>7
<1>13. NothingMissed'
  <2> SUFFICES ASSUME reading' = "done", NEW r \in since, Shows(filter, r)
               PROVE  IsListed(r)'
    BY <1>2 DEF NothingMissed, Shows, IsListed
  <2>1. items = Remaining
    BY <1>1, <1>2 DEF IsPage
  <2>2. Follows(r) \/ IsListed(r)
    BY <1>2 DEF CoveredInv
  <2>3. r \in ListedRuns
    BY DEF HistoryTypeOK
  <2> QED
    BY <1>5, <2>1, <2>2, <2>3 DEF IsListed, Remaining
<1> QED
  BY <1>4, <1>8, <1>10, <1>11, <1>12, <1>13

-----------------------------------------------------------------------------
LEMMA HistoryStepInvariant == ReaderInv /\ [HistoryNext]_historyVars => ReaderInv'
<1> SUFFICES ASSUME ReaderInv, [HistoryNext]_historyVars PROVE ReaderInv'
  OBVIOUS
<1>1. CASE Tick
  <2>1. HistoryTypeOK'
    BY <1>1, TimeIsBounded DEF Tick, ReaderInv, HistoryTypeOK, walk
  <2>2. UNCHANGED walk /\ UNCHANGED <<begun, started, stored>> /\ UNCHANGED filter
    BY <1>1 DEF Tick, walk
  <2> QED
    BY <2>1, <2>2, RunsPreserve DEF ReaderInv, CommittedInv, SinceInv, Committed, Shows, HistoryTypeOK
<1>2. ASSUME NEW r \in ListedRuns, Begins(r) \/ Appears(r) \/ (\E o \in Outcomes : EndsAs(r, o))
      PROVE  ReaderInv'
  BY <1>2, RunStepPreserves
<1>3. ASSUME NEW st \in Outcomes \cup {"running", Unset}, BeginReading(st) PROVE ReaderInv'
  BY <1>3, BeginPreserves
<1>4. CASE NextPage
  BY <1>4, NextPagePreserves
<1>5. CASE UNCHANGED historyVars
  <2>1. UNCHANGED <<now, begun, started, stored, reading, filter, cursor, listed, since>>
    BY <1>5 DEF historyVars, runs, walk
  <2> QED
    BY <2>1 DEF ReaderInv, HistoryTypeOK, CommittedInv, CursorInv, SinceInv, CoveredInv, NewestFirst,
                NothingMissed, Committed, IsListed, Newer, Shows, Follows
<1> QED
  BY <1>1, <1>2, <1>3, <1>4, <1>5 DEF HistoryNext

LEMMA HistoryInvariant == HistorySpec => []ReaderInv
  BY HistoryInitInvariant, HistoryStepInvariant, PTL DEF HistorySpec

(* No run is listed twice or after an older one, for any number of runs    *)
(* and pages.                                                              *)
THEOREM HistoryInOrder == HistorySpec => []NewestFirst
<1>1. ReaderInv => NewestFirst
  BY DEF ReaderInv
<1> QED
  BY <1>1, HistoryInvariant, PTL

(* A reader who reaches the end has seen every run that was there when it  *)
(* began and still matches.                                                *)
THEOREM Complete == HistorySpec => []NothingMissed
<1>1. ReaderInv => NothingMissed
  BY DEF ReaderInv
<1> QED
  BY <1>1, HistoryInvariant, PTL

(* Reading the list page by page gives every run once and in order, for    *)
(* any number of runs and any page size.                                   *)
THEOREM Pages == HistorySpec => []PagesAreComplete
<1>1. ReaderInv => PagesAreComplete
  BY DEF ReaderInv, PagesAreComplete
<1> QED
  BY <1>1, HistoryInvariant, PTL

-----------------------------------------------------------------------------

(***************************************************************************)
(* Proofs about Chat, for any sessions, number of posts and deletions.     *)
(*                                                                         *)
(* The argument: a commit adds a whole turn under two numbers the unique   *)
(* constraint has found free.  In a session that was not deleted under a   *)
(* post the numbers stored have no gap, and all numbers below the one a    *)
(* post has computed are stored, so a free number is the next one.  Whole  *)
(* turns are an even number of messages, and so are those after an answer; *)
(* so a window of an even number of messages does not split a turn.        *)
(***************************************************************************)

Numbers(s) == {x.seq : x \in messages[s]}

TypeInv ==
    /\ DOMAIN messages = Sessions
    /\ \A s \in Sessions : Numbers(s) \subseteq Nat \ {0}
    /\ DOMAIN post = Posts /\ DOMAIN session = Posts /\ DOMAIN seq = Posts
    /\ \A p \in Posts : post[p] \in {"asked", "answered"} => session[p] \in Sessions
    /\ \A p \in Posts : post[p] = "answered" => seq[p] \in Nat \ {0}

NoGaps ==
    \A s \in Sessions \ disturbed : \A n \in Numbers(s) : 1..n \subseteq Numbers(s)

SeqIsNext ==
    \A p \in Posts :
        post[p] = "answered" /\ session[p] \notin disturbed =>
            1..(seq[p] - 1) \subseteq Numbers(session[p])

ChatInv == TypeInv /\ SessionsAreTurns /\ NoGaps /\ SeqIsNext

-----------------------------------------------------------------------------
(* A whole turn under free numbers leaves the session in whole turns.      *)
LEMMA TurnsAdd ==
    ASSUME NEW m, NEW n \in Nat, NEW p, WholeTurns(m), \A x \in m : x.seq \in Nat,
           \A x \in m : x.seq \notin {n, n + 1}
    PROVE  WholeTurns(m \cup Turn(n, p))
<1> DEFINE h == Message(n, "human", p)
           a == Message(n + 1, "ai", p)
           m2 == m \cup Turn(n, p)
<1>1. Turn(n, p) = {h, a} /\ h.seq = n /\ a.seq = n + 1 /\ h.turn = p /\ a.turn = p
  BY DEF Turn, Message
<1>2. \A x, y \in m2 : x.seq = y.seq => x = y
  BY <1>1 DEF WholeTurns
<1>3. ASSUME NEW x \in m2
      PROVE  \E k \in {x.seq, x.seq - 1} : x \in Turn(k, x.turn) /\ Turn(k, x.turn) \subseteq m2
  <2>1. CASE x \in m
    BY <2>1 DEF WholeTurns
  <2>2. CASE x = h
    BY <1>1, <2>2
  <2>3. CASE x = a
    <3>1. x.seq - 1 = n
      BY <1>1, <2>3
    <3> QED
      BY <1>1, <2>3, <3>1
  <2> QED
    BY <1>1, <1>3, <2>1, <2>2, <2>3
<1> QED
  BY <1>2, <1>3 DEF WholeTurns

LEMMA ChatInitInvariant == ChatInit => ChatInv
BY DEF ChatInit, ChatInv, TypeInv, SessionsAreTurns, WholeTurns, NoGaps, SeqIsNext, Numbers

(* Steps of a post that store nothing.                                     *)
LEMMA ChatQuietPreserves ==
    ASSUME ChatInv, NEW p \in Posts,
           \/ \E s \in Sessions : Ask(p, s)
           \/ AnswerFails(p) \/ SaveFails(p) \/ Abandoned(p)
    PROVE  ChatInv' /\ UNCHANGED messages
<1>1. UNCHANGED <<messages, seq, disturbed>>
      /\ \E after \in {"asked", "ended"} : post' = [post EXCEPT ![p] = after]
      /\ \/ UNCHANGED session /\ (post'[p] = "ended" \/ post[p] = "asked")
         \/ \E s \in Sessions : session' = [session EXCEPT ![p] = s]
  BY DEF Ask, AnswerFails, SaveFails, Abandoned, PostMoves, ChatInv, TypeInv
<1>2. TypeInv' /\ SeqIsNext'
  BY <1>1 DEF ChatInv, TypeInv, SeqIsNext, Numbers
<1>3. SessionsAreTurns' /\ NoGaps'
  BY <1>1 DEF ChatInv, SessionsAreTurns, NoGaps, Numbers
<1> QED
  BY <1>1, <1>2, <1>3 DEF ChatInv

LEMMA AnsweredPreserves ==
    ASSUME ChatInv, NEW p \in Posts, Answered(p)
    PROVE  ChatInv' /\ UNCHANGED messages
<1> DEFINE s == session[p]
<1>1. UNCHANGED <<messages, session, disturbed>> /\ post' = [post EXCEPT ![p] = "answered"]
      /\ s \in Sessions
  BY DEF Answered, PostMoves, ChatInv, TypeInv
<1>2. PICK n : IsNextSeq(n, messages[s]) /\ seq' = [seq EXCEPT ![p] = n]
  BY DEF Answered
<1>3. n \in Nat \ {0} /\ (n = 1 \/ n - 1 \in Numbers(s))
  BY <1>1, <1>2 DEF IsNextSeq, Numbers, ChatInv, TypeInv
<1>4. TypeInv'
  BY <1>1, <1>2, <1>3 DEF ChatInv, TypeInv, Numbers
<1>5. s \notin disturbed => 1..(n - 1) \subseteq Numbers(s)
  BY <1>1, <1>3 DEF ChatInv, NoGaps
<1>6. SeqIsNext'
  BY <1>1, <1>2, <1>5 DEF ChatInv, TypeInv, SeqIsNext, Numbers
<1>7. SessionsAreTurns' /\ NoGaps'
  BY <1>1 DEF ChatInv, SessionsAreTurns, NoGaps, Numbers
<1> QED
  BY <1>1, <1>4, <1>6, <1>7 DEF ChatInv

(* What is saved goes to the end of a session that was not disturbed.      *)
LEMMA SaveAppends ==
    ASSUME ChatInv, NEW p \in Posts, Save(p), session[p] \notin disturbed
    PROVE  \A n \in Numbers(session[p]) : n < seq[p]
<1> DEFINE s == session[p]
<1> SUFFICES ASSUME NEW n \in Numbers(s), n >= seq[p] PROVE FALSE
  BY DEF Save, PostMoves, ChatInv, TypeInv
<1>1. s \in Sessions /\ seq[p] \in Nat \ {0} /\ n \in Nat
  BY DEF Save, PostMoves, ChatInv, TypeInv
<1>2. seq[p] \in Numbers(s)
  BY <1>1 DEF ChatInv, NoGaps
<1> QED
  BY <1>2 DEF Save, IsFree, Numbers

LEMMA SavePreserves ==
    ASSUME ChatInv, NEW p \in Posts, Save(p), NEW s, NEW n, s = session[p], n = seq[p]
    PROVE  ChatInv'
<1>1. /\ s \in Sessions /\ n \in Nat \ {0}
      /\ UNCHANGED <<session, seq, disturbed>> /\ post' = [post EXCEPT ![p] = "ended"]
      /\ messages' = [messages EXCEPT ![s] = @ \cup Turn(n, p)]
  BY DEF Save, PostMoves, ChatInv, TypeInv
<1>2. \A q \in Posts : post'[q] = "answered" => post[q] = "answered" /\ q # p
  BY <1>1 DEF ChatInv, TypeInv
<1>3. Numbers(s)' = Numbers(s) \cup {n, n + 1}
      /\ \A t \in Sessions \ {s} : Numbers(t)' = Numbers(t) /\ messages'[t] = messages[t]
  <2>1. messages'[s] = messages[s] \cup Turn(n, p)
        /\ \A t \in Sessions \ {s} : messages'[t] = messages[t]
    BY <1>1 DEF ChatInv, TypeInv
  <2>2. Numbers(s)' = Numbers(s) \cup {x.seq : x \in Turn(n, p)}
    BY <2>1 DEF Numbers
  <2>3. {x.seq : x \in Turn(n, p)} = {n, n + 1}
    BY DEF Turn, Message
  <2> QED
    BY <2>1, <2>2, <2>3 DEF Numbers
<1>4. TypeInv'
  <2>1. \A t \in Sessions : Numbers(t)' \subseteq Nat \ {0}
    BY <1>1, <1>3 DEF ChatInv, TypeInv
  <2> QED
    BY <1>1, <1>2, <2>1 DEF ChatInv, TypeInv
<1>5. SessionsAreTurns'
  <2>1. WholeTurns(messages[s] \cup Turn(n, p))
    BY <1>1, TurnsAdd DEF Save, IsFree, ChatInv, SessionsAreTurns, TypeInv, Numbers
  <2>2. messages'[s] = messages[s] \cup Turn(n, p)
    BY <1>1 DEF ChatInv, TypeInv
  <2> QED
    BY <1>3, <2>1, <2>2 DEF ChatInv, SessionsAreTurns
<1>6. NoGaps'
  <2> SUFFICES ASSUME NEW t \in Sessions \ disturbed, NEW k \in Numbers(t)',
                      NEW i \in 1..k
               PROVE  i \in Numbers(t)'
    BY <1>1 DEF NoGaps
  <2>1. CASE t # s
    BY <1>3, <2>1 DEF ChatInv, NoGaps
  <2>2. CASE t = s
    <3>1. 1..(n - 1) \subseteq Numbers(s)
      BY <2>2 DEF Save, PostMoves, ChatInv, SeqIsNext
    <3>2. \A j \in Numbers(s) : j < n
      BY <2>2, SaveAppends
    <3>3. k \in Nat /\ k <= n + 1
      BY <1>1, <1>3, <2>2, <3>2 DEF ChatInv, TypeInv
    <3> QED
      BY <1>1, <1>3, <2>2, <3>1, <3>3
  <2> QED
    BY <2>1, <2>2
<1>7. SeqIsNext'
  <2>1. \A t \in Sessions : Numbers(t) \subseteq Numbers(t)'
    BY <1>3
  <2> QED
    BY <1>1, <1>2, <2>1 DEF ChatInv, TypeInv, SeqIsNext
<1> QED
  BY <1>4, <1>5, <1>6, <1>7 DEF ChatInv

LEMMA DeletePreserves ==
    ASSUME ChatInv, NEW s \in Sessions, DeleteSession(s)
    PROVE  ChatInv'
<1>1. /\ UNCHANGED <<post, session, seq>>
      /\ messages' = [messages EXCEPT ![s] = {}]
      /\ disturbed' = IF UnderWay(s) THEN disturbed \cup {s} ELSE disturbed
  BY DEF DeleteSession
<1>2. /\ messages'[s] = {} /\ Numbers(s)' = {}
      /\ \A t \in Sessions \ {s} : messages'[t] = messages[t] /\ Numbers(t)' = Numbers(t)
  BY <1>1 DEF ChatInv, TypeInv, Numbers
<1>3. TypeInv'
  BY <1>1, <1>2 DEF ChatInv, TypeInv
<1>4. SessionsAreTurns' /\ NoGaps'
  BY <1>1, <1>2 DEF ChatInv, SessionsAreTurns, WholeTurns, NoGaps
<1>5. SeqIsNext'
  <2> SUFFICES ASSUME NEW p \in Posts, post[p] = "answered", session[p] \notin disturbed'
               PROVE  1..(seq[p] - 1) \subseteq Numbers(session[p])'
    BY <1>1 DEF SeqIsNext
  <2>1. session[p] # s
    BY <1>1 DEF UnderWay
  <2> QED
    BY <1>1, <1>2, <2>1 DEF ChatInv, TypeInv, SeqIsNext
<1> QED
  BY <1>3, <1>4, <1>5 DEF ChatInv

LEMMA ChatStepInvariant == ChatInv /\ [ChatNext]_chatVars => ChatInv'
<1> SUFFICES ASSUME ChatInv, [ChatNext]_chatVars PROVE ChatInv'
  OBVIOUS
<1>1. ASSUME NEW p \in Posts,
             \/ \E s \in Sessions : Ask(p, s)
             \/ AnswerFails(p) \/ SaveFails(p) \/ Abandoned(p)
      PROVE  ChatInv'
  BY <1>1, ChatQuietPreserves
<1>2. ASSUME NEW p \in Posts, Answered(p) PROVE ChatInv'
  BY <1>2, AnsweredPreserves
<1>3. ASSUME NEW p \in Posts, Save(p) PROVE ChatInv'
  BY <1>3, SavePreserves
<1>4. ASSUME NEW s \in Sessions, DeleteSession(s) PROVE ChatInv'
  BY <1>4, DeletePreserves
<1>5. CASE UNCHANGED chatVars
  BY <1>5 DEF chatVars, ChatInv, TypeInv, SessionsAreTurns, NoGaps, SeqIsNext, Numbers
<1> QED
  BY <1>1, <1>2, <1>3, <1>4, <1>5 DEF ChatNext

LEMMA ChatInvariant == ChatSpec => []ChatInv
  BY ChatInitInvariant, ChatStepInvariant, PTL DEF ChatSpec

(* Sessions consist of whole turns, however posts and deletions overlap.   *)
THEOREM Turns == ChatSpec => []SessionsAreTurns
<1>1. ChatInv => SessionsAreTurns
  BY DEF ChatInv
<1> QED
  BY <1>1, ChatInvariant, PTL

(* Turns are numbered in the order they are stored, except in a session    *)
(* that was deleted under a post.                                          *)
THEOREM ChatInOrder == ChatSpec => AppendsAtEnd
<1> DEFINE Appends ==
      \A s \in Sessions \ disturbed :
          \A x \in messages'[s] \ messages[s] : \A y \in messages[s] \cap messages'[s] :
              x.seq > y.seq
<1>1. ChatInv /\ [ChatNext]_chatVars => Appends
  <2> SUFFICES ASSUME ChatInv, [ChatNext]_chatVars PROVE Appends
    OBVIOUS
  <2>1. ASSUME NEW p \in Posts, Save(p) PROVE Appends
    <3> SUFFICES ASSUME NEW s \in Sessions \ disturbed, NEW x \in messages'[s] \ messages[s],
                        NEW y \in messages[s]
                 PROVE  x.seq > y.seq
      OBVIOUS
    <3>1. s = session[p] /\ x \in Turn(seq[p], p)
      BY <2>1 DEF Save, ChatInv, TypeInv
    <3>2. seq[p] \in Nat /\ y.seq \in Nat /\ x.seq \in {seq[p], seq[p] + 1}
      BY <2>1, <3>1 DEF Save, PostMoves, ChatInv, TypeInv, Numbers, Turn, Message
    <3>3. y.seq < seq[p]
      BY <2>1, <3>1, SaveAppends DEF Numbers
    <3> QED
      BY <3>2, <3>3
  <2>2. ASSUME NEW s \in Sessions, DeleteSession(s) PROVE Appends
    BY <2>2 DEF DeleteSession, ChatInv, TypeInv
  <2>3. CASE UNCHANGED messages
    BY <2>3
  <2> QED
    BY <2>1, <2>2, <2>3, ChatQuietPreserves, AnsweredPreserves DEF ChatNext, chatVars
<1> QED
  BY <1>1, ChatInvariant, PTL DEF ChatSpec, AppendsAtEnd

-----------------------------------------------------------------------------
(* The window of history.                                                  *)

(* A message of whole turns is a question before its answer, or an answer  *)
(* after its question.                                                     *)
LEMMA HasPartner ==
    ASSUME NEW m, WholeTurns(m), \A x \in m : x.seq \in Nat, NEW x \in m
    PROVE  \/ /\ x = Message(x.seq, "human", x.turn) /\ x.role = "human"
              /\ Message(x.seq + 1, "ai", x.turn) \in m
           \/ /\ x = Message(x.seq, "ai", x.turn) /\ x.role = "ai"
              /\ Message(x.seq - 1, "human", x.turn) \in m
<1>1. PICK n \in {x.seq, x.seq - 1} : x \in Turn(n, x.turn) /\ Turn(n, x.turn) \subseteq m
  BY DEF WholeTurns
<1>2. CASE x = Message(n, "human", x.turn)
  <2>1. n = x.seq /\ x.role = "human"
    BY <1>2 DEF Message
  <2> QED
    BY <1>1, <1>2, <2>1 DEF Turn
<1>3. CASE x = Message(n + 1, "ai", x.turn)
  <2>1. n + 1 = x.seq /\ x.role = "ai"
    BY <1>3 DEF Message
  <2>2. n = x.seq - 1
    BY <1>1, <2>1
  <2> QED
    BY <1>1, <1>3, <2>1, <2>2 DEF Turn
<1> QED
  BY <1>1, <1>2, <1>3 DEF Turn

(* Questions and answers are paired, so whole turns are an even number of  *)
(* messages.                                                               *)
LEMMA TurnsAreEven ==
    ASSUME NEW m, WholeTurns(m), \A x \in m : x.seq \in Nat, IsFiniteSet(m)
    PROVE  \E k \in Nat : Cardinality(m) = 2 * k
<1> DEFINE H == {x \in m : x.role = "human"}
           A == {x \in m : x.role # "human"}
           f == [x \in H |-> Message(x.seq + 1, "ai", x.turn)]
<1>1. m = H \cup A /\ H \cap A = {}
  OBVIOUS
<1>2. IsFiniteSet(H) /\ IsFiniteSet(A)
  BY FS_Subset
<1>3. ASSUME NEW x \in H PROVE f[x] \in A /\ f[x].seq = x.seq + 1
  <2>1. Message(x.seq + 1, "ai", x.turn) \in m
    BY HasPartner
  <2> QED
    BY <2>1 DEF Message
<1>4. ASSUME NEW x \in H, NEW y \in H, f[x] = f[y] PROVE x = y
  <2>1. x.seq + 1 = y.seq + 1 /\ x.seq \in Nat /\ y.seq \in Nat
    BY <1>3, <1>4
  <2>2. x.seq = y.seq
    BY <2>1
  <2> QED
    BY <2>2 DEF WholeTurns
<1>5. ASSUME NEW a \in A PROVE \E x \in H : f[x] = a
  <2> DEFINE x == Message(a.seq - 1, "human", a.turn)
  <2>1. a = Message(a.seq, "ai", a.turn) /\ x \in m
    BY HasPartner
  <2>2. x \in H /\ x.seq + 1 = a.seq /\ x.turn = a.turn
    BY <2>1 DEF Message
  <2>3. f[x] = a
    BY <2>1, <2>2
  <2> QED
    BY <2>2, <2>3
<1>6. f \in Bijection(H, A)
  BY <1>3, <1>4, <1>5 DEF Bijection, Injection, Surjection, IsInjective
<1>7. Cardinality(A) = Cardinality(H)
  BY <1>2, <1>6, FS_Bijection DEF ExistsBijection
<1>8. Cardinality(m) = Cardinality(H) + Cardinality(A) - Cardinality(H \cap A)
  BY <1>1, <1>2, FS_Union
<1>9. Cardinality(H \cap A) = 0
  BY <1>1, FS_EmptySet
<1>10. Cardinality(H) \in Nat
  BY <1>2, FS_CardinalityType
<1> HIDE DEF H, A
<1>11. Cardinality(m) = 2 * Cardinality(H)
  BY <1>7, <1>8, <1>9, <1>10
<1> QED
  BY <1>10, <1>11

(* What comes after an answer is whole turns.                              *)
LEMMA AfterAnswer ==
    ASSUME NEW m, WholeTurns(m), \A x \in m : x.seq \in Nat, NEW x \in m, x.role = "ai"
    PROVE  WholeTurns(After(x, m))
<1>1. ASSUME NEW y \in After(x, m)
      PROVE  \E k \in {y.seq, y.seq - 1} :
                 y \in Turn(k, y.turn) /\ Turn(k, y.turn) \subseteq After(x, m)
  <2>1. y \in m /\ y.seq > x.seq /\ y.seq \in Nat /\ x.seq \in Nat
    BY DEF After
  <2>2. CASE y = Message(y.seq, "human", y.turn) /\ Message(y.seq + 1, "ai", y.turn) \in m
    <3>1. Message(y.seq + 1, "ai", y.turn).seq > x.seq
      BY <2>1 DEF Message
    <3>2. Turn(y.seq, y.turn) \subseteq After(x, m) /\ y \in Turn(y.seq, y.turn)
      BY <2>2, <3>1 DEF Turn, After
    <3> QED
      BY <3>2
  <2>3. CASE y = Message(y.seq, "ai", y.turn) /\ Message(y.seq - 1, "human", y.turn) \in m
    <3> DEFINE h == Message(y.seq - 1, "human", y.turn)
    <3>1. h.seq = y.seq - 1 /\ h.role = "human"
      BY DEF Message
    <3>2. h.seq # x.seq
      BY <2>3, <3>1 DEF WholeTurns
    <3>3. h.seq > x.seq
      BY <2>1, <3>1, <3>2
    <3>4. (y.seq - 1) + 1 = y.seq
      BY <2>1
    <3>5. Turn(y.seq - 1, y.turn) = {h, y}
      BY <2>3, <3>4 DEF Turn
    <3> QED
      BY <2>3, <3>3, <3>5 DEF After
  <2> QED
    BY <2>1, <2>2, <2>3, HasPartner
<1>2. \A y, z \in After(x, m) : y.seq = z.seq => y = z
  BY DEF After, WholeTurns
<1> QED
  BY <1>1, <1>2 DEF WholeTurns

(* The last 2 * MaxTurns messages of whole turns are whole turns.          *)
LEMMA WindowIsTurns ==
    ASSUME NEW m, WholeTurns(m), \A x \in m : x.seq \in Nat, IsFiniteSet(m)
    PROVE  WholeTurns(Window(m))
<1>1. CASE ~(MaxTurns > 0)
  BY <1>1 DEF Window
<1>2. CASE MaxTurns > 0
  <2> DEFINE W == {x \in m : Cardinality(After(x, m)) < 2 * MaxTurns}
  <2>1. Window(m) = W /\ MaxTurns \in Nat
    BY <1>2, TurnsAreCounted DEF Window
  <2>2. ASSUME NEW x \in m
        PROVE  IsFiniteSet(After(x, m)) /\ Cardinality(After(x, m)) \in Nat
    BY FS_Subset, FS_CardinalityType DEF After
  <2>3. ASSUME NEW x \in W, x = Message(x.seq, "human", x.turn),
               Message(x.seq + 1, "ai", x.turn) \in m
        PROVE  x \in Turn(x.seq, x.turn) /\ Turn(x.seq, x.turn) \subseteq W
    <3> DEFINE a == Message(x.seq + 1, "ai", x.turn)
    <3>1. a \in m /\ a.seq = x.seq + 1
      BY <2>3 DEF Message
    <3>2. After(a, m) \subseteq After(x, m)
      BY <3>1 DEF After
    <3>3. Cardinality(After(a, m)) <= Cardinality(After(x, m))
      BY <2>2, <3>2, FS_Subset
    <3>4. a \in W
      BY <2>1, <2>2, <3>1, <3>3
    <3> QED
      BY <2>3, <3>4 DEF Turn
  <2>4. ASSUME NEW x \in W, x = Message(x.seq, "ai", x.turn), x.role = "ai",
               Message(x.seq - 1, "human", x.turn) \in m
        PROVE  x \in Turn(x.seq - 1, x.turn) /\ Turn(x.seq - 1, x.turn) \subseteq W
    <3> DEFINE h == Message(x.seq - 1, "human", x.turn)
    <3>1. h \in m /\ h.seq = x.seq - 1 /\ (x.seq - 1) + 1 = x.seq
      BY <2>4 DEF Message
    <3>2. After(h, m) = After(x, m) \cup {x} /\ x \notin After(x, m)
      <4>1. ASSUME NEW y \in m PROVE y.seq > h.seq <=> y.seq > x.seq \/ y = x
        BY <3>1 DEF WholeTurns
      <4> QED
        BY <4>1 DEF After
    <3>3. Cardinality(After(h, m)) = Cardinality(After(x, m)) + 1
      BY <2>2, <3>2, FS_AddElement
    <3>4. \A y \in After(x, m) : y.seq \in Nat
      BY DEF After
    <3>5. PICK k \in Nat : Cardinality(After(x, m)) = 2 * k
      BY <2>2, <2>4, <3>4, AfterAnswer, TurnsAreEven
    <3>6. h \in W
      BY <2>1, <3>1, <3>3, <3>5
    <3> QED
      BY <2>4, <3>1, <3>6 DEF Turn
  <2>5. \A x \in W : \E n \in {x.seq, x.seq - 1} :
            x \in Turn(n, x.turn) /\ Turn(n, x.turn) \subseteq W
    BY <2>3, <2>4, HasPartner
  <2> QED
    BY <2>1, <2>5 DEF WholeTurns
<1> QED
  BY <1>1, <1>2

Finite == \A s \in Sessions : IsFiniteSet(messages[s])
WindowInv == Finite /\ DOMAIN history = Posts /\ HistoryIsTurns

LEMMA StepWindow == ChatInv /\ WindowInv /\ [ChatNext]_chatVars => WindowInv'
<1> SUFFICES ASSUME ChatInv, WindowInv, [ChatNext]_chatVars PROVE WindowInv'
  OBVIOUS
<1>1. ASSUME NEW p \in Posts, NEW s \in Sessions, Ask(p, s) PROVE WindowInv'
  <2>1. WholeTurns(Window(messages[s]))
    BY WindowIsTurns DEF ChatInv, SessionsAreTurns, TypeInv, Numbers, WindowInv, Finite
  <2> QED
    BY <1>1, <2>1 DEF Ask, WindowInv, Finite, HistoryIsTurns
<1>2. ASSUME NEW p \in Posts, Save(p) PROVE WindowInv'
  <2>1. IsFiniteSet(Turn(seq[p], p))
    <3> DEFINE h == Message(seq[p], "human", p)
               a == Message(seq[p] + 1, "ai", p)
    <3>1. Turn(seq[p], p) = {h} \cup {a}
      BY DEF Turn
    <3> HIDE DEF h, a
    <3>2. IsFiniteSet({h} \cup {a})
      BY FS_Singleton, FS_AddElement
    <3> QED
      BY <3>1, <3>2
  <2>2. ASSUME NEW s \in Sessions PROVE IsFiniteSet(messages'[s])
    BY <1>2, <2>1, FS_Union DEF Save, ChatInv, TypeInv, WindowInv, Finite
  <2> QED
    BY <1>2, <2>2 DEF Save, WindowInv, Finite, HistoryIsTurns
<1>3. ASSUME NEW s \in Sessions, DeleteSession(s) PROVE WindowInv'
  BY <1>3, FS_EmptySet DEF DeleteSession, ChatInv, TypeInv, WindowInv, Finite, HistoryIsTurns
<1>4. CASE UNCHANGED <<messages, history>>
  BY <1>4 DEF WindowInv, Finite, HistoryIsTurns
<1> QED
  BY <1>1, <1>2, <1>3, <1>4
     DEF ChatNext, Answered, AnswerFails, SaveFails, Abandoned, chatVars

(* A question is always answered with whole turns of history.              *)
THEOREM WholeHistory == ChatSpec => []HistoryIsTurns
<1>1. ChatInit => WindowInv
  BY FS_EmptySet DEF ChatInit, WindowInv, Finite, HistoryIsTurns, WholeTurns
<1>2. WindowInv => HistoryIsTurns
  BY DEF WindowInv
<1> QED
  BY <1>1, <1>2, ChatInvariant, StepWindow, PTL DEF ChatSpec

(* A session is whole turns in the order of their commits, and answered    *)
(* with whole turns, for any number of posts and sessions.                                               *)
THEOREM Kept == ChatSpec => TurnsAreKept
  BY Turns, WholeHistory, ChatInOrder, PTL DEF TurnsAreKept

-----------------------------------------------------------------------------
(***************************************************************************)
(* Documents, for any requests and names.                                  *)
(*                                                                         *)
(* The argument: a row is inserted after its object was stored, and from   *)
(* then on only an upload or a deletion under the same name, which has     *)
(* passed its first write and never goes back before it, touches either.   *)
(***************************************************************************)
Untouched == {"new", "accepted"}

Explained(u) ==
    \/ bucket[name[u]] = u
    \/ \E v \in Uploads \ {u} : name[v] = name[u] /\ progress[v] \notin Untouched
    \/ \E d \in Deletions : name[d] = name[u] /\ progress[d] \notin Untouched

FilesInv ==
    /\ DOMAIN bucket = FileNames
    /\ DOMAIN name = Uploads \cup Deletions /\ DOMAIN progress = Uploads \cup Deletions
    /\ \A q \in Uploads \cup Deletions :
          progress[q] \notin {"new", "failed"} => name[q] \in FileNames
    /\ records \subseteq {u \in Uploads : progress[u] = "succeeded"}
    /\ \A u \in Uploads : progress[u] = "stored" \/ u \in records => Explained(u)

(* A step of one request other than the two that write to the bucket.      *)
LEMMA ExplanationStays ==
    ASSUME FilesInv, NEW q \in Uploads \cup Deletions, NEW after,
           progress' = [progress EXCEPT ![q] = after],
           UNCHANGED <<bucket, name>>,
           progress[q] \notin Untouched => after \notin Untouched,
           NEW u \in Uploads, Explained(u)
    PROVE  Explained(u)'
BY DEF FilesInv, Explained

LEMMA FilesStep == FilesInv /\ [FilesNext]_fileVars => FilesInv'
<1> SUFFICES ASSUME FilesInv, [FilesNext]_fileVars PROVE FilesInv'
  OBVIOUS
<1>1. ASSUME NEW q \in FileRequests, Receive(q) PROVE FilesInv'
  <2>1. progress[q] = "new" /\ q \in Uploads \cup Deletions
    BY <1>1 DEF Receive, Goes, FileRequests
  <2>2. PICK k \in FileNames : /\ progress' = [progress EXCEPT ![q] = "accepted"]
                           /\ name' = [name EXCEPT ![q] = k]
                           /\ UNCHANGED <<bucket, records>>
    BY <1>1 DEF Receive, Goes
  <2>3. ASSUME NEW u \in Uploads, progress'[u] = "stored" \/ u \in records
        PROVE  Explained(u)'
    <3>1. u # q /\ Explained(u)
      BY <2>1, <2>2, <2>3 DEF FilesInv
    <3> QED
      BY <2>1, <2>2, <3>1 DEF FilesInv, Explained, Untouched
  <2> QED
    BY <2>1, <2>2, <2>3 DEF FilesInv
<1>2. ASSUME NEW q \in FileRequests, RejectBlank(q) \/ FileFails(q) PROVE FilesInv'
  <2>1. /\ progress[q] # "succeeded" /\ q \in Uploads \cup Deletions
        /\ progress' = [progress EXCEPT ![q] = "failed"]
        /\ UNCHANGED <<bucket, name, records>>
    BY <1>2 DEF RejectBlank, FileFails, Goes, FileRequests
  <2>2. ASSUME NEW u \in Uploads, progress'[u] = "stored" \/ u \in records
        PROVE  Explained(u)'
    BY <2>1, <2>2, ExplanationStays DEF FilesInv, Untouched
  <2> QED
    BY <2>1, <2>2 DEF FilesInv
<1>3. ASSUME NEW q \in FileRequests, PutObject(q) PROVE FilesInv'
  <2>1. /\ progress[q] = "accepted" /\ q \in Uploads /\ name[q] \in FileNames
        /\ progress' = [progress EXCEPT ![q] = "stored"]
        /\ bucket' = [bucket EXCEPT ![name[q]] = q]
        /\ UNCHANGED <<name, records>>
    BY <1>3 DEF PutObject, Goes, FilesInv
  <2>2. ASSUME NEW u \in Uploads, progress'[u] = "stored" \/ u \in records
        PROVE  Explained(u)'
    <3>1. CASE u = q
      BY <2>1, <3>1 DEF FilesInv, Explained
    <3>2. CASE u # q
      BY <2>1, <2>2, <3>2 DEF FilesInv, Explained, Untouched
    <3> QED
      BY <3>1, <3>2
  <2> QED
    BY <2>1, <2>2 DEF FilesInv
<1>4. ASSUME NEW q \in FileRequests, InsertRow(q) PROVE FilesInv'
  <2>1. /\ progress[q] = "stored" /\ q \in Uploads
        /\ progress' = [progress EXCEPT ![q] = "succeeded"]
        /\ records' = records \cup {q} /\ UNCHANGED <<bucket, name>>
    BY <1>4 DEF InsertRow, Goes
  <2>2. ASSUME NEW u \in Uploads, progress'[u] = "stored" \/ u \in records'
        PROVE  Explained(u)'
    BY <2>1, <2>2, ExplanationStays DEF FilesInv, Untouched
  <2> QED
    BY <2>1, <2>2 DEF FilesInv
<1>5. ASSUME NEW q \in FileRequests, DeleteObject(q) PROVE FilesInv'
  <2>1. /\ progress[q] = "accepted" /\ q \in Deletions /\ name[q] \in FileNames
        /\ progress' = [progress EXCEPT ![q] = "removed"]
        /\ bucket' = [bucket EXCEPT ![name[q]] = NoFile]
        /\ UNCHANGED <<name, records>>
    BY <1>5 DEF DeleteObject, Goes, FilesInv
  <2>2. ASSUME NEW u \in Uploads, progress'[u] = "stored" \/ u \in records
        PROVE  Explained(u)'
    BY <2>1, <2>2 DEF FilesInv, Explained, Untouched
  <2> QED
    BY <2>1, <2>2 DEF FilesInv
<1>6. ASSUME NEW q \in FileRequests, SelectRow(q) \/ DeleteRow(q) PROVE FilesInv'
  <2>1. PICK after \in {"succeeded", "selected"} :
           /\ progress[q] \in {"removed", "selected"} /\ q \in Uploads \cup Deletions
           /\ progress' = [progress EXCEPT ![q] = after]
           /\ records' \subseteq records /\ UNCHANGED <<bucket, name>>
    BY <1>6 DEF SelectRow, DeleteRow, Goes, FileRequests
  <2>2. ASSUME NEW u \in Uploads, progress'[u] = "stored" \/ u \in records'
        PROVE  Explained(u)'
    BY <2>1, <2>2, ExplanationStays DEF FilesInv, Untouched
  <2> QED
    BY <2>1, <2>2 DEF FilesInv
<1>7. CASE UNCHANGED fileVars
  BY <1>7 DEF fileVars, FilesInv, Explained
<1> QED
  BY <1>1, <1>2, <1>3, <1>4, <1>5, <1>6, <1>7 DEF FilesNext

(* A row without its object is never left behind by an upload that failed  *)
(* half way: every row has its object, or another upload or a deletion of  *)
(* the same name that explains why not.                                    *)
THEOREM Documented == FilesSpec => []RowsAreExplained
<1>1. FilesInit => FilesInv
  BY DEF FilesInit, FileRequests, FilesInv
<1>2. FilesInv => RowsAreExplained
  BY DEF FilesInv, Explained, Untouched, RowsAreExplained
<1> QED
  BY <1>1, <1>2, FilesStep, PTL DEF FilesSpec

-----------------------------------------------------------------------------
(***************************************************************************)
(* Proofs about ReplyMatching.                                             *)
(*                                                                         *)
(* For any delivery jobs, replies, leads and conversations: a reply that   *)
(* is counted belongs to one opportunity, and an observed sent item leads  *)
(* to it (AttributionIsSound).                                             *)
(*                                                                         *)
(* What a reply is attributed to was right when it was stored; the         *)
(* invariant says why it stays right: an attribution by references names   *)
(* the lead of a job the reply refers to, one by conversation the lead of  *)
(* a job of the conversation, or of a job a reply of that conversation     *)
(* refers to.  Neither depends on other rows, and jobs keep their          *)
(* identity, so nothing a later pass does to other rows can undo it.       *)
(***************************************************************************)

-----------------------------------------------------------------------------
(* The jobs are finitely many numbers, so some jobs have a newest.         *)

LEMMA SomeNewest ==
    ASSUME NEW jobs \in SUBSET Jobs, jobs # {}
    PROVE  \E j \in jobs : \A k \in jobs : k <= j
<1> DEFINE HasNewest(S) == \E j \in S : \A k \in S : k <= j
           Bad == {S \in SUBSET Jobs : S # {} /\ ~HasNewest(S)}
<1>1. SUFFICES ASSUME Bad # {} PROVE FALSE
    OBVIOUS
<1>2. IsFiniteSet(Jobs) /\ Jobs \subseteq Nat
    BY ReplyMatchingAssumption DEF ReplyMatchingAssumption
<1>3. FiniteSubsetsOf(Jobs) = SUBSET Jobs
    BY <1>2, FS_FiniteSubsetsOfFinite
<1>4. IsWellFoundedOn(StrictSubsetOrdering(Jobs), SUBSET Jobs)
    BY <1>3, FS_StrictSubsetOrderingWellFounded
<1>5. PICK S \in Bad : \A R \in Bad : <<R, S>> \notin StrictSubsetOrdering(Jobs)
    BY <1>1, <1>4, WFMin
<1>6. PICK j \in S : TRUE
    BY <1>5
<1> DEFINE R == S \ {j}
<1>7. /\ R \in SUBSET Jobs /\ S \in SUBSET Jobs
      /\ <<R, S>> \in StrictSubsetOrdering(Jobs)
    BY <1>5, <1>6 DEF StrictSubsetOrdering
<1>8. R \notin Bad
    BY <1>5, <1>7
<1>9. CASE R = {}
    BY <1>2, <1>5, <1>6, <1>7, <1>9
<1>10. CASE R # {}
    <2>1. PICK k \in R : \A m \in R : m <= k
        BY <1>7, <1>8, <1>10
    <2>2. HasNewest(S)
        BY <1>2, <1>6, <1>7, <2>1
    <2>3. QED
        BY <1>5, <2>2
<1>11. QED
    BY <1>9, <1>10

LEMMA NewestIsOne ==
    ASSUME NEW jobs \in SUBSET Jobs, jobs # {}
    PROVE  Newest(jobs) \in jobs
BY SomeNewest DEF Newest

-----------------------------------------------------------------------------
(* The invariant.                                                          *)

\* Lead l is that of an observed job in js.
ObservedIn(js, l) == \E j \in Jobs : j \in js /\ job[j] # 0 /\ fact.lead[j] = l

\* What a reply can refer to itself, and what its conversation leads to.
ConvJobs(c) == {j \in Jobs : \/ fact.jobConv[j] = c
                             \/ \E q \in Replies : fact.conv[q] = c /\ j \in fact.refs[q]}

Justified(r, match) ==
    /\ match.method = "references"   => ObservedIn(fact.refs[r], match.lead)
    /\ match.method = "conversation" => ObservedIn(ConvJobs(fact.conv[r]), match.lead)

\* lead, job and method of an attribution belong together.
WholeMatch(match) == /\ match \in Matches
                     /\ match.lead = Null <=> match.job = Null
                     /\ match.lead = Null <=> match.method = "none"

AttributionInv ==
    /\ MatchingTypeOK
    /\ CountedIsAttributed
    /\ \A r \in Replies : Justified(r, reply[r].match)

LEMMA AttributionSound == AttributionInv => AttributionIsSound
<1> SUFFICES ASSUME AttributionInv PROVE AttributionObserved
    BY DEF AttributionInv, AttributionIsSound
<1> SUFFICES ASSUME NEW r \in Replies, reply[r].match.lead # Null
    PROVE LET near == {q \in Replies : q = r \/ fact.conv[q] = fact.conv[r]}
          IN  \E j \in Jobs : /\ job[j] # 0 /\ fact.lead[j] = reply[r].match.lead
                              /\ \/ \E q \in near : j \in fact.refs[q]
                                 \/ fact.jobConv[j] = fact.conv[r]
    BY DEF AttributionObserved
<1>1. reply[r].match.method \in {"references", "conversation"}
    BY DEF AttributionInv, MatchingTypeOK, Rows, Matches, Methods
<1>2. Justified(r, reply[r].match)
    BY DEF AttributionInv
<1>3. CASE reply[r].match.method = "references"
    BY <1>2, <1>3 DEF Justified, ObservedIn
<1>4. CASE reply[r].match.method = "conversation"
    BY <1>2, <1>4 DEF Justified, ObservedIn, ConvJobs
<1>5. QED
    BY <1>1, <1>3, <1>4

-----------------------------------------------------------------------------
(* _match_reply.                                                           *)

LEMMA FactTypes ==
    ASSUME MatchingTypeOK
    PROVE  /\ \A j \in Jobs : fact.lead[j] \in Leads /\ fact.lead[j] # Null /\ j # Null
           /\ \A r \in Replies : /\ fact.refs[r] \subseteq Jobs
                                 /\ fact.conv[r] \in Convs \cup {Null}
                                 /\ fact.auto[r] \in BOOLEAN
BY ReplyMatchingAssumption DEF MatchingTypeOK, Facts, ReplyMatchingAssumption

\* The jobs an identity is matched to.
LEMMA SomebodyFound ==
    ASSUME MatchingTypeOK, NEW jobs \in SUBSET Jobs, jobs # {},
           NEW method \in {"references", "conversation"}
    PROVE  LET m == MatchedTo(jobs, method)
           IN  /\ WholeMatch(m) /\ m.method = method
               /\ m.job \in jobs /\ m.lead = fact.lead[m.job]
<1>1. Newest(jobs) \in jobs
    BY NewestIsOne
<1>2. /\ Newest(jobs) \in Jobs /\ Newest(jobs) # Null
      /\ fact.lead[Newest(jobs)] \in Leads /\ fact.lead[Newest(jobs)] # Null
    BY <1>1, FactTypes
<1>3. QED
    BY <1>1, <1>2 DEF MatchedTo, WholeMatch, Matches, Methods

\* seen is what the transaction sees: the jobs that have their identity, and
\* perhaps the one it gives it to.
LEMMA MatchFinds ==
    ASSUME AttributionInv, NEW r \in Replies, NEW seen \in SUBSET Jobs,
           NEW found \in Match(r, seen)
    PROVE  /\ WholeMatch(found.match)
           /\ found.match.method = "references" =>
                \E j \in seen : j \in fact.refs[r] /\ fact.lead[j] = found.match.lead
           /\ found.match.method = "conversation" =>
                \/ \E j \in seen : /\ fact.jobConv[j] = fact.conv[r]
                                   /\ fact.lead[j] = found.match.lead
                \/ ObservedIn(ConvJobs(fact.conv[r]), found.match.lead)
<1> DEFINE c        == fact.conv[r]
           referred == fact.refs[r] \cap seen
           together == {j \in seen : fact.jobConv[j] = c}
           leads    == LeadsOf(together) \cup {reply[q].match.lead : q \in Witnesses(c)}
           Goal(f) ==
             /\ WholeMatch(f.match)
             /\ f.match.method = "references" =>
                  \E j \in seen : j \in fact.refs[r] /\ fact.lead[j] = f.match.lead
             /\ f.match.method = "conversation" =>
                  \/ \E j \in seen : /\ fact.jobConv[j] = fact.conv[r]
                                     /\ fact.lead[j] = f.match.lead
                  \/ ObservedIn(ConvJobs(fact.conv[r]), f.match.lead)
<1>1. MatchingTypeOK /\ referred \in SUBSET Jobs /\ together \in SUBSET Jobs
    BY DEF AttributionInv
<1>2. ASSUME NEW a, found \in NoneFound(a) PROVE Goal(found)
    BY <1>2 DEF NoneFound, WholeMatch, NoMatch, Matches, Methods
<1>3. ASSUME referred # {}, found \in Found({MatchedTo(referred, "references")})
      PROVE  Goal(found)
    BY <1>1, <1>3, SomebodyFound DEF Found
<1>4. ASSUME together # {}, found \in Found({MatchedTo(together, "conversation")})
      PROVE  Goal(found)
    BY <1>1, <1>4, SomebodyFound DEF Found
<1>5. ASSUME found \in Found({[reply[q].match EXCEPT !.method = "conversation"] :
                               q \in Witnesses(c)})
      PROVE  Goal(found)
    <2>1. PICK q \in Witnesses(c) :
            found.match = [reply[q].match EXCEPT !.method = "conversation"]
        BY <1>5 DEF Found
    <2>2. /\ q \in Replies /\ fact.conv[q] = c
          /\ reply[q].match.method = "references"
        BY <2>1 DEF Witnesses
    <2>3. WholeMatch(reply[q].match) /\ Justified(q, reply[q].match)
        BY <2>2 DEF AttributionInv, MatchingTypeOK, WholeMatch, Rows
    <2>4. /\ found.match.lead = reply[q].match.lead
          /\ found.match.job = reply[q].match.job
          /\ found.match.method = "conversation"
          /\ found.match \in Matches
        BY <2>1, <2>3 DEF WholeMatch, Matches, Methods
    <2>5. ObservedIn(ConvJobs(c), found.match.lead)
        BY <2>2, <2>3, <2>4 DEF Justified, ObservedIn, ConvJobs
    <2>6. QED
        BY <2>2, <2>3, <2>4, <2>5 DEF WholeMatch
<1>6. QED
    BY <1>2, <1>3, <1>4, <1>5 DEF Match

-----------------------------------------------------------------------------
(* Steps.                                                                  *)

\* Jobs that are observed stay so, hence so do the reasons that rest on them.
LEMMA ReasonsStay ==
    ASSUME fact' = fact, \A j \in Jobs : job[j] # 0 => job'[j] # 0
    PROVE  \A r \in Replies, m \in Matches : Justified(r, m) => Justified(r, m)'
BY DEF Justified, ObservedIn, ConvJobs

LEMMA FoundIsJustified ==
    ASSUME AttributionInv, fact' = fact,
           NEW seen \in SUBSET Jobs, \A j \in seen : job'[j] # 0,
           \A j \in Jobs : job[j] # 0 => job'[j] # 0,
           NEW r \in Replies, NEW found \in Match(r, seen)
    PROVE  WholeMatch(found.match) /\ Justified(r, found.match)'
<1>1. WholeMatch(found.match)
    BY MatchFinds
<1>2. found.match.method = "references" => ObservedIn(fact.refs[r], found.match.lead)'
    BY MatchFinds DEF ObservedIn
<1>3. ASSUME found.match.method = "conversation"
      PROVE  ObservedIn(ConvJobs(fact.conv[r]), found.match.lead)'
    <2>1. CASE \E j \in seen : /\ fact.jobConv[j] = fact.conv[r]
                               /\ fact.lead[j] = found.match.lead
        BY <2>1 DEF ObservedIn, ConvJobs
    <2>2. CASE ObservedIn(ConvJobs(fact.conv[r]), found.match.lead)
        BY <2>2 DEF ObservedIn, ConvJobs
    <2>3. QED
        BY <1>3, <2>1, <2>2, MatchFinds
<1>4. QED
    BY <1>1, <1>2, <1>3 DEF Justified

LEMMA Classified ==
    ASSUME NEW old \in Classes, NEW found
    PROVE  LET c == Reclassified(old, found)
           IN  /\ c \in Classes
               /\ c = "automatic" <=> old = "automatic"
               /\ c = "human" => found.match.lead # Null
               /\ c \in {"ambiguous", "unmatched"} => found.match.lead = Null
<1>1. CASE old = "automatic"
    BY <1>1 DEF Reclassified, Classes
<1>2. CASE old # "automatic" /\ found.match.lead # Null
    BY <1>2 DEF Reclassified, Classes
<1>3. CASE old # "automatic" /\ found.match.lead = Null /\ found.ambiguous
    BY <1>3 DEF Reclassified, Classes
<1>4. CASE old # "automatic" /\ found.match.lead = Null /\ ~found.ambiguous
    BY <1>4 DEF Reclassified, Classes
<1>5. QED
    BY <1>1, <1>2, <1>3, <1>4

\* A row the invariant allows, in a table of its own type.
GoodRow(r, v) ==
    /\ v \in Rows /\ WholeMatch(v.match)
    /\ v.graph # 0 => /\ v.class = "human" => v.match.lead # Null
                      /\ v.class \in {"ambiguous", "unmatched"} => v.match.lead = Null
                      /\ fact.auto[r] <=> v.class = "automatic"
    /\ Justified(r, v.match)

LEMMA InvByRows ==
    AttributionInv <=> /\ fact \in Facts
                       /\ job \in [Jobs -> GraphIds \cup {0}]
                       /\ reply \in [Replies -> Rows]
                       /\ \A r \in Replies : GoodRow(r, reply[r])
BY DEF AttributionInv, MatchingTypeOK, CountedIsAttributed, Stored, GoodRow, WholeMatch, Rows

LEMMA NextInvByRows ==
    ASSUME fact' \in Facts, job' \in [Jobs -> GraphIds \cup {0}],
           reply' \in [Replies -> Rows], \A r \in Replies : GoodRow(r, reply[r])'
    PROVE  AttributionInv'
BY DEF AttributionInv, MatchingTypeOK, CountedIsAttributed, Stored, GoodRow, WholeMatch, Rows

LEMMA RowsStayGood ==
    ASSUME fact' = fact, \A j \in Jobs : job[j] # 0 => job'[j] # 0
    PROVE  \A r \in Replies, v \in Rows : GoodRow(r, v) => GoodRow(r, v)'
BY ReasonsStay DEF GoodRow, Rows

\* A row that was matched anew, whatever it was before.
LEMMA MatchedIsGood ==
    ASSUME AttributionInv, fact' = fact,
           NEW seen \in SUBSET Jobs, \A j \in seen : job'[j] # 0,
           \A j \in Jobs : job[j] # 0 => job'[j] # 0,
           NEW r \in Replies, NEW found \in Match(r, seen),
           NEW old \in Classes, fact.auto[r] <=> old = "automatic",
           NEW g \in GraphIds \cup {0}, NEW removed \in BOOLEAN
    PROVE  LET v == [graph |-> g, removed |-> removed, match |-> found.match,
                     class |-> Reclassified(old, found)]
           IN  v \in Rows /\ GoodRow(r, v)'
<1>1. WholeMatch(found.match) /\ Justified(r, found.match)'
    BY FoundIsJustified
<1>2. PICK c : c = Reclassified(old, found)
    OBVIOUS
<1>3. /\ c \in Classes
      /\ c = "automatic" <=> old = "automatic"
      /\ c = "human" => found.match.lead # Null
      /\ c \in {"ambiguous", "unmatched"} => found.match.lead = Null
    BY <1>2, Classified
<1> DEFINE v == [graph |-> g, removed |-> removed, match |-> found.match, class |-> c]
<1>4. v \in Rows
    BY <1>1, <1>3 DEF Rows, WholeMatch
<1>5. GoodRow(r, v)'
    BY <1>1, <1>3, <1>4 DEF GoodRow
<1>6. QED
    BY <1>2, <1>4, <1>5

\* reconcile_pending_replies, with the jobs in seen.
LEMMA ReconciledIsGood ==
    ASSUME AttributionInv, fact' = fact, job' \in [Jobs -> GraphIds \cup {0}],
           NEW seen \in SUBSET Jobs, \A j \in seen : job'[j] # 0,
           \A j \in Jobs : job[j] # 0 => job'[j] # 0,
           reply' \in ReconciledRows(seen)
    PROVE  AttributionInv'
<1>1. PICK pick :
        /\ \A r \in Replies : pick[r] \in Match(r, seen)
        /\ reply' = [r \in Replies |->
              IF Rechecked(r)
              THEN [reply[r] EXCEPT !.match = pick[r].match,
                                    !.class = Reclassified(@, pick[r])]
              ELSE reply[r]]
    BY DEF ReconciledRows
<1>2. ASSUME NEW r \in Replies
      PROVE  reply'[r] \in Rows /\ GoodRow(r, reply[r])'
    <2>1. PICK v : v = reply[r]
        OBVIOUS
    <2>2. v \in Rows /\ GoodRow(r, v)
        BY <2>1, InvByRows
    <2>3. CASE ~Rechecked(r)
        <3>1. reply'[r] = v
            BY <1>1, <2>1, <2>3
        <3>2. GoodRow(r, v)'
            BY <2>2, RowsStayGood
        <3>3. QED
            BY <2>2, <3>1, <3>2 DEF GoodRow
    <2>4. CASE Rechecked(r)
        <3>1. PICK found : found = pick[r]
            OBVIOUS
        <3>2. PICK u : u = [graph |-> v.graph, removed |-> v.removed, match |-> found.match,
                            class |-> Reclassified(v.class, found)]
            OBVIOUS
        <3>3. reply'[r] = u
            BY <1>1, <2>1, <2>2, <2>4, <3>1, <3>2 DEF Rows
        <3>4. /\ v.class \in Classes /\ v.graph \in GraphIds \cup {0}
              /\ v.removed \in BOOLEAN
              /\ fact.auto[r] <=> v.class = "automatic"
            BY <2>1, <2>2, <2>4 DEF Rows, GoodRow, Rechecked, Stored
        <3>5. u \in Rows /\ GoodRow(r, u)'
            BY <1>1, <3>1, <3>2, <3>4, MatchedIsGood
        <3>6. QED
            BY <3>3, <3>5 DEF GoodRow
    <2>5. QED
        BY <2>3, <2>4
<1>3. reply' \in [Replies -> Rows] /\ fact' \in Facts
    BY <1>1, <1>2, InvByRows
<1>4. QED
    BY <1>2, <1>3, NextInvByRows

LEMMA InitInv == MatchingInit => AttributionInv
<1> SUFFICES ASSUME MatchingInit PROVE AttributionInv
    OBVIOUS
<1>1. fact \in Facts
    BY ReplyMatchingAssumption DEF ReplyMatchingAssumption, MatchingInit
<1>2. NoRow \in Rows /\ WholeMatch(NoRow.match)
    BY DEF NoRow, Rows, NoMatch, Matches, Methods, Classes, WholeMatch
<1>3. \A r \in Replies : GoodRow(r, NoRow)
    BY <1>2 DEF GoodRow, NoRow, Justified, NoMatch
<1>4. QED
    BY <1>1, <1>2, <1>3, InvByRows DEF MatchingInit

LEMMA ReconcileInv == AttributionInv /\ Reconcile => AttributionInv'
BY ReconciledIsGood DEF AttributionInv, MatchingTypeOK, Reconcile, Seen

LEMMA SentItemInv ==
    ASSUME AttributionInv, NEW j \in Jobs, NEW g \in GraphIds, SentItem(j, g)
    PROVE  AttributionInv'
<1>1. g # 0
    BY ReplyMatchingAssumption DEF ReplyMatchingAssumption
<1>2. job \in [Jobs -> GraphIds \cup {0}]
    BY DEF AttributionInv, MatchingTypeOK
<1>3. /\ job' \in [Jobs -> GraphIds \cup {0}]
      /\ \A k \in Jobs : job[k] # 0 => job'[k] # 0
      /\ \A k \in Seen \cup {j} : job'[k] # 0
      /\ Seen \cup {j} \in SUBSET Jobs
    BY <1>1, <1>2 DEF SentItem, Seen
<1>4. QED
    BY <1>3, ReconciledIsGood DEF SentItem

LEMMA OneRowInv ==
    ASSUME AttributionInv, UNCHANGED <<fact, job>>, NEW r \in Replies, NEW v \in Rows,
           reply' = [reply EXCEPT ![r] = v], GoodRow(r, v)'
    PROVE  AttributionInv'
<1>1. reply' \in [Replies -> Rows]
    BY InvByRows
<1>2. ASSUME NEW q \in Replies PROVE GoodRow(q, reply[q])'
    <2>1. CASE q = r
        <3>1. reply'[q] = v
            BY <2>1, InvByRows
        <3>2. QED
            BY <2>1, <3>1 DEF GoodRow
    <2>2. CASE q # r
        <3>1. PICK u : u = reply[q]
            OBVIOUS
        <3>2. reply'[q] = u /\ u \in Rows /\ GoodRow(q, u)
            BY <2>2, <3>1, InvByRows
        <3>3. GoodRow(q, u)'
            BY <3>2, RowsStayGood
        <3>4. QED
            BY <3>2, <3>3 DEF GoodRow
    <2>3. QED
        BY <2>1, <2>2
<1>3. fact' \in Facts /\ job' \in [Jobs -> GraphIds \cup {0}]
    BY InvByRows
<1>4. QED
    BY <1>1, <1>2, <1>3, NextInvByRows

LEMMA IncomingInv ==
    ASSUME AttributionInv, NEW r \in Replies, NEW g \in GraphIds, Incoming(r, g)
    PROVE  AttributionInv'
<1>1. PICK found \in Match(r, Seen) :
        reply' = [reply EXCEPT ![r] =
                    [graph |-> g, removed |-> FALSE, match |-> found.match,
                     class |-> Reclassified(IF fact.auto[r] THEN "automatic"
                                            ELSE "unmatched", found)]]
    BY DEF Incoming
<1>2. PICK old : old = IF fact.auto[r] THEN "automatic" ELSE "unmatched"
    OBVIOUS
<1>3. old \in Classes /\ (fact.auto[r] <=> old = "automatic")
    BY <1>2 DEF Classes
<1>4. PICK v : v = [graph |-> g, removed |-> FALSE, match |-> found.match,
                    class |-> Reclassified(old, found)]
    OBVIOUS
<1>5. v \in Rows /\ GoodRow(r, v)'
    BY <1>3, <1>4, MatchedIsGood DEF Incoming, Seen
<1>6. QED
    BY <1>1, <1>2, <1>4, <1>5, OneRowInv DEF Incoming

LEMMA RemovedInv ==
    ASSUME AttributionInv, NEW r \in Replies, NEW g \in GraphIds, Removed(r, g)
    PROVE  AttributionInv'
<1>1. PICK v : v = [reply[r] EXCEPT !.removed = TRUE]
    OBVIOUS
<1>2. PICK u : u = reply[r]
    OBVIOUS
<1>3. u \in Rows /\ GoodRow(r, u)
    BY <1>2, InvByRows
<1>4. GoodRow(r, u)'
    BY <1>3, RowsStayGood DEF Removed
<1>5. /\ v \in Rows /\ v.match = u.match /\ v.class = u.class /\ v.graph = u.graph
    BY <1>1, <1>2, <1>3 DEF Rows
<1>6. GoodRow(r, v)'
    BY <1>4, <1>5 DEF GoodRow
<1>7. reply' = [reply EXCEPT ![r] = v]
    BY <1>1 DEF Removed
<1>8. QED
    BY <1>5, <1>6, <1>7, OneRowInv DEF Removed

LEMMA StepInv == AttributionInv /\ [MatchingNext]_matchingVars => AttributionInv'
<1> SUFFICES ASSUME AttributionInv, [MatchingNext]_matchingVars PROVE AttributionInv'
    OBVIOUS
<1>1. CASE Reconcile
    BY <1>1, ReconcileInv
<1>2. ASSUME NEW j \in Jobs, NEW g \in GraphIds, SentItem(j, g) PROVE AttributionInv'
    BY <1>2, SentItemInv
<1>3. ASSUME NEW r \in Replies, NEW g \in GraphIds, Incoming(r, g) PROVE AttributionInv'
    BY <1>3, IncomingInv
<1>4. ASSUME NEW r \in Replies, NEW g \in GraphIds, Removed(r, g) PROVE AttributionInv'
    BY <1>4, RemovedInv
<1>5. CASE UNCHANGED matchingVars
    BY <1>5 DEF matchingVars, AttributionInv, MatchingTypeOK, CountedIsAttributed, Stored,
                Justified, ObservedIn, ConvJobs
<1>6. QED
    BY <1>1, <1>2, <1>3, <1>4, <1>5 DEF MatchingNext

-----------------------------------------------------------------------------
(* Theorems.                                                               *)

(* Every attribution keeps a reason that does not depend on other rows.    *)
THEOREM Attribution == MatchingSpec => []AttributionInv
BY InitInv, StepInv, PTL DEF MatchingSpec

(* A reply that is counted belongs to an opportunity and is not automatic, *)
(* and some sent item that was observed leads to that opportunity,         *)
(* whatever the order in which messages and their copies come and go.      *)
THEOREM Sound == MatchingSpec => []AttributionIsSound
BY Attribution, AttributionSound, PTL

-----------------------------------------------------------------------------
(***************************************************************************)
(* Proofs about AgentWorkflow, for any answers, drafts, leads, results of  *)
(* retrieval and number of attempts.                                       *)
(*                                                                         *)
(* The argument follows the graph: what a node may rely on is what the     *)
(* nodes before it leave behind on every path that leads there.  After the *)
(* analysis the selection is a catalog pair or of low confidence           *)
(* (SelectionInv); the calls made so far are those of the path (PathInv),  *)
(* which the counter counts (CountInv); whatever context is missing has    *)
(* its warning (WarningInv); and the result repeats all this (ResultInv),  *)
(* after which nothing changes but the record of it (RecordInv).           *)
(***************************************************************************)
Chosen == {LowConfidence} \cup {Selected(p) : p \in CatalogPairs}
Fields == {"selection", "route", "strategy", "template", "warnings", "error", "calls",
           "documents"}
Abouts == CatalogPairs \cup {Nothing} \cup 1..7
HasAsked(c) == \E i \in DOMAIN requests : requests[i].call = c
OnlyAnalysis == \A c \in Nodes : HasAsked(c) => c = "analysis"
IsLow == state.selection.status = "low_confidence"

ShapeInv ==
    /\ DOMAIN state = Fields
    /\ requests \in Seq([call : Nodes, about : Abouts])
    /\ state.error \in BOOLEAN

SelectionInv ==
    /\ node # "analysis" => state.selection \in Chosen
    /\ node \in {"route", "template"} => ~IsLow
    /\ state.error => node \in {"strategy", "draft", "end"} /\ IsLow
    /\ node = "analysis" \/ state.error => OnlyAnalysis

(* Which of the model's calls were made, when there is a model.            *)
PathInv ==
    setup.model =>
        /\ node # "analysis" => HasAsked("analysis")
        /\ node \in {"analysis", "strategy"} => ~HasAsked("route")
        /\ node = "template" => HasAsked("route")
        /\ node \in {"draft", "end"} => (HasAsked("route") <=> state.calls = 2)
        /\ node \notin {"draft", "end"} => ~HasAsked("draft")

CountInv ==
    /\ node = "analysis" => state.calls = 0
    /\ node \in {"strategy", "route"} => state.calls = 1
    /\ node = "template" => state.calls = 2
    /\ node \in {"draft", "end"} => state.calls \in {1, 2}

ContextInv ==
    /\ node \in {"analysis", "strategy"} =>
          state.strategy = <<>> /\ state.template = <<>> /\ state.documents = <<>>
    /\ node \in {"draft", "end"} => state.documents = state.strategy \o state.template

WarningInv ==
    /\ "limited_context" \notin state.warnings
    /\ "hint_fallback" \in state.warnings =>
          /\ node # "analysis"
          /\ FirstHint(lead.evidence) # Nothing
          /\ state.selection = Selected(FirstHint(lead.evidence))
    /\ node \in {"route", "template", "draft", "end"} /\ state.strategy = <<>> =>
          "strategy_unavailable" \in state.warnings \/ IsLow
    /\ node \in {"draft", "end"} /\ state.template = <<>> =>
          "template_unavailable" \in state.warnings \/ IsLow

ResultInv ==
    /\ result # Nothing => node = "end"
    /\ node = "end" =>
          /\ result.status \in {"generated", "provider_error"}
          /\ result.documents = state.documents
          /\ state.warnings \subseteq result.warnings
          /\ "hint_fallback" \in result.warnings => "hint_fallback" \in state.warnings
          /\ "limited_context" \in result.warnings <=> IsLow /\ ~state.error
          /\ setup.model =>
                result.calls = state.calls + (IF HasAsked("draft") THEN 1 ELSE 0)
          /\ result.status = "generated" =>
                /\ ~state.error
                /\ result.pair = ComposeSelection.pair
                /\ result.draft = result.pair
                /\ requests[Len(requests)] = [call |-> "draft", about |-> result.pair]

RecordInv ==
    recorded.status = "generated" =>
        /\ node = "end"
        /\ result.status = "generated"
        /\ recorded = RecordedAs(result)

AttemptInv ==
    /\ AttemptTypeOK /\ ShapeInv /\ SelectionInv /\ PathInv /\ CountInv
    /\ ContextInv /\ WarningInv /\ ResultInv /\ RecordInv

-----------------------------------------------------------------------------
(* The catalog and the routing rules.                                      *)

LEMMA PairOfCatalog ==
    ASSUME NEW f \in {AccoyaWood, AccoyaColorGrey, TricoyaPanels},
           NEW i \in DOMAIN f.applications
    PROVE  <<f.id, f.applications[i]>> \in CatalogPairs
<1>1. Catalog[1] = AccoyaWood /\ Catalog[2] = AccoyaColorGrey /\ Catalog[3] = TricoyaPanels
  BY DEF Catalog
<1>2. DOMAIN Catalog = {1, 2, 3}
  BY DEF Catalog
<1>3. f \in ToSet(Catalog)
  BY <1>1, <1>2 DEF ToSet
<1>4. f.applications[i] \in ToSet(f.applications)
  BY DEF ToSet
<1> QED
  BY <1>3, <1>4 DEF CatalogPairs

LEMMA PairsArePairs == \A p \in CatalogPairs : p = <<p[1], p[2]>>
BY DEF CatalogPairs

LEMMA RulePairs ==
    /\ <<"accoya_color_grey", "color_grey_decking">> \in CatalogPairs
    /\ <<"accoya_color_grey", "color_grey_siding_cladding">> \in CatalogPairs
    /\ <<"tricoya_panels", "exterior_mdf_panels">> \in CatalogPairs
    /\ <<"accoya_wood", "standard_decking">> \in CatalogPairs
    /\ <<"accoya_wood", "standard_siding">> \in CatalogPairs
    /\ <<"accoya_wood", "general_wooden_windows">> \in CatalogPairs
    /\ <<"accoya_wood", "exterior_wooden_doors">> \in CatalogPairs
<1>1. /\ {1, 3} \subseteq DOMAIN AccoyaColorGrey.applications
      /\ AccoyaColorGrey.id = "accoya_color_grey"
      /\ AccoyaColorGrey.applications[1] = "color_grey_decking"
      /\ AccoyaColorGrey.applications[3] = "color_grey_siding_cladding"
  BY DEF AccoyaColorGrey
<1>2. /\ 1 \in DOMAIN TricoyaPanels.applications
      /\ TricoyaPanels.id = "tricoya_panels"
      /\ TricoyaPanels.applications[1] = "exterior_mdf_panels"
  BY DEF TricoyaPanels
<1>3. /\ {1, 7, 12, 17} \subseteq DOMAIN AccoyaWood.applications
      /\ AccoyaWood.id = "accoya_wood"
      /\ AccoyaWood.applications[1] = "standard_decking"
      /\ AccoyaWood.applications[7] = "standard_siding"
      /\ AccoyaWood.applications[12] = "general_wooden_windows"
      /\ AccoyaWood.applications[17] = "exterior_wooden_doors"
  BY DEF AccoyaWood
<1>4. /\ <<AccoyaColorGrey.id, AccoyaColorGrey.applications[1]>> \in CatalogPairs
      /\ <<AccoyaColorGrey.id, AccoyaColorGrey.applications[3]>> \in CatalogPairs
      /\ <<TricoyaPanels.id, TricoyaPanels.applications[1]>> \in CatalogPairs
  BY <1>1, <1>2, PairOfCatalog
<1>5. /\ <<AccoyaWood.id, AccoyaWood.applications[1]>> \in CatalogPairs
      /\ <<AccoyaWood.id, AccoyaWood.applications[7]>> \in CatalogPairs
      /\ <<AccoyaWood.id, AccoyaWood.applications[12]>> \in CatalogPairs
      /\ <<AccoyaWood.id, AccoyaWood.applications[17]>> \in CatalogPairs
  BY <1>3, PairOfCatalog
<1> QED
  BY <1>1, <1>2, <1>3, <1>4, <1>5

LEMMA DefaultPair == <<Catalog[1].id, Catalog[1].applications[1]>> \in CatalogPairs
<1>1. Catalog[1] = AccoyaWood
  BY DEF Catalog
<1>2. 1 \in DOMAIN AccoyaWood.applications
  BY DEF AccoyaWood
<1> QED
  BY <1>1, <1>2, PairOfCatalog

LEMMA RulesAreRanked ==
    \A r \in RoutingRules :
        r.pair \in CatalogPairs /\ Position(r.pair) \in 1..7 /\ r.priority \in 0..100
<1> SUFFICES ASSUME NEW r \in RoutingRules
             PROVE  r.pair \in CatalogPairs /\ Position(r.pair) \in 1..7 /\ r.priority \in 0..100
  OBVIOUS
<1>1. DOMAIN Alphabetical = 1..7
  BY DEF Alphabetical
<1>2. r.priority \in 0..100
  BY DEF RoutingRules, Rule
<1>3. r.pair \in {<<"accoya_color_grey", "color_grey_decking">>,
                  <<"accoya_color_grey", "color_grey_siding_cladding">>,
                  <<"tricoya_panels", "exterior_mdf_panels">>,
                  <<"accoya_wood", "standard_decking">>,
                  <<"accoya_wood", "standard_siding">>,
                  <<"accoya_wood", "general_wooden_windows">>,
                  <<"accoya_wood", "exterior_wooden_doors">>}
  BY DEF RoutingRules, Rule
<1>4. \E i \in 1..7 : Alphabetical[i] = r.pair
  <2>1. /\ Alphabetical[1] = <<"accoya_color_grey", "color_grey_decking">>
        /\ Alphabetical[2] = <<"accoya_color_grey", "color_grey_siding_cladding">>
        /\ Alphabetical[3] = <<"accoya_wood", "exterior_wooden_doors">>
        /\ Alphabetical[4] = <<"accoya_wood", "general_wooden_windows">>
        /\ Alphabetical[5] = <<"accoya_wood", "standard_decking">>
        /\ Alphabetical[6] = <<"accoya_wood", "standard_siding">>
        /\ Alphabetical[7] = <<"tricoya_panels", "exterior_mdf_panels">>
    BY DEF Alphabetical
  <2> QED
    BY <1>3, <2>1
<1>5. Position(r.pair) \in 1..7
  BY <1>1, <1>4 DEF Position
<1> QED
  BY <1>2, <1>3, <1>5, RulePairs

(* The order of the hints has a first element wherever it has any, and     *)
(* that is of the highest priority.                                        *)
LEMMA FirstOfCandidates ==
    ASSUME NothingIsNothing, NEW evidence, Candidates(evidence) # {}
    PROVE  /\ FirstHint(evidence) \in CatalogPairs /\ FirstHint(evidence) # Nothing
           /\ \E r \in Candidates(evidence) :
                /\ r.pair = FirstHint(evidence)
                /\ \A s \in Candidates(evidence) : s.priority <= r.priority
<1> DEFINE C == Candidates(evidence)
           Key(r) == (100 - r.priority) * 10 + Position(r.pair)
           T == {Key(r) : r \in C}
           First(r) == \A s \in C : ~ComesBefore(s, r)
<1>1. \A r \in C : r.pair \in CatalogPairs /\ Position(r.pair) \in 1..7 /\ r.priority \in 0..100
  BY RulesAreRanked DEF Candidates
<1>2. \A r \in C : Key(r) \in Nat
  BY <1>1
<1>3. PICK x \in T : \A y \in T : ~(<<y, x>> \in OpToRel(<, Nat))
  <2>1. T \in SUBSET Nat /\ T # {}
    <3> HIDE DEF Key
    <3> QED
      BY <1>2
  <2> HIDE DEF T
  <2> QED
    BY <2>1, NatLessThanWellFounded, WFMin
<1>4. \A y \in T : y \in Nat
  <2> HIDE DEF Key
  <2> QED
    BY <1>2
<1>5. PICK r \in C : x = Key(r)
  <2> HIDE DEF Key
  <2> QED
    BY <1>3
<1>6. \A s \in C : Key(s) \in Nat /\ ~(Key(s) < Key(r))
  <2>1. \A y \in T : ~(y < x)
    <3> HIDE DEF T
    <3> QED
      BY <1>3, <1>4 DEF OpToRel
  <2> HIDE DEF Key
  <2> QED
    BY <1>2, <1>5, <2>1
<1>7. First(r)
  <2> SUFFICES ASSUME NEW s \in C PROVE ~ComesBefore(s, r)
    OBVIOUS
  <2>1. ~(Key(s) < Key(r))
    <3> HIDE DEF Key
    <3> QED
      BY <1>6
  <2>2. /\ s.priority \in Int /\ Position(s.pair) \in 1..7
        /\ r.priority \in Int /\ Position(r.pair) \in 1..7
    <3> HIDE DEF C
    <3> QED
      BY <1>1, <1>5
  <2> HIDE DEF C
  <2> QED
    BY <2>1, <2>2 DEF ComesBefore
<1>8. (CHOOSE q \in C : First(q)) \in C /\ First(CHOOSE q \in C : First(q))
  <2> HIDE DEF First, C
  <2> QED
    BY <1>5, <1>7
<1>9. PICK q \in C : First(q) /\ FirstHint(evidence) = q.pair
  <2>1. FirstHint(evidence) = (CHOOSE q \in C : First(q)).pair
    BY DEF FirstHint
  <2> HIDE DEF First, C
  <2> QED
    BY <1>8, <2>1
<1>10. ASSUME NEW s \in C PROVE s.priority <= q.priority
  <2>1. ~ComesBefore(s, q)
    BY <1>9, <1>10
  <2>2. s.priority \in Int /\ q.priority \in Int
    <3> HIDE DEF C
    <3> QED
      BY <1>1, <1>9, <1>10
  <2> HIDE DEF C
  <2> QED
    BY <2>1, <2>2 DEF ComesBefore
<1>11. q.pair \in CatalogPairs
  BY <1>1, <1>9
<1> QED
  BY <1>9, <1>10, <1>11 DEF NothingIsNothing

LEMMA NoCandidates ==
    ASSUME NEW evidence, Candidates(evidence) = {} PROVE FirstHint(evidence) = Nothing
BY DEF FirstHint

LEMMA HintsAreChosen ==
    ASSUME NothingIsNothing, NEW evidence
    PROVE  /\ FromHints(evidence) \in Chosen
           /\ FromHints(evidence).status = "selected" =>
                 /\ FirstHint(evidence) # Nothing
                 /\ FromHints(evidence) = Selected(FirstHint(evidence))
<1>1. FirstHint(evidence) # Nothing => FirstHint(evidence) \in CatalogPairs
  BY FirstOfCandidates, NoCandidates
<1>2. LowConfidence.status # "selected"
  BY DEF LowConfidence
<1> QED
  BY <1>1, <1>2 DEF FromHints, Chosen

LEMMA BestEffortIsChosen ==
    ASSUME NothingIsNothing, NEW evidence
    PROVE  /\ BestEffort(evidence) \in {Selected(p) : p \in CatalogPairs}
           /\ Candidates(evidence) # {} => BestEffort(evidence) = Selected(FirstHint(evidence))
<1>1. Candidates(evidence) # {} =>
         FirstHint(evidence) \in CatalogPairs /\ FirstHint(evidence) # Nothing
  BY FirstOfCandidates
<1>2. Candidates(evidence) = {} => FirstHint(evidence) = Nothing
  BY NoCandidates
<1> QED
  BY <1>1, <1>2, DefaultPair DEF BestEffort

(* Whatever the model answers, one pair of the catalog or nothing.         *)
LEMMA NormalizedIsChosen == ASSUME NEW answer PROVE Normalized(answer) \in Chosen
<1> DEFINE family == GetFamily(answer.family)
           found == {p \in CatalogPairs :
                        /\ p[1] = family
                        /\ \/ p[2] = answer.application
                           \/ <<answer.application, p[2]>> \in ApplicationAliases}
           application == GetApplication(answer.application, family)
<1>1. application = IF Cardinality(found) = 1 THEN (CHOOSE p \in found : TRUE)[2] ELSE Nothing
  BY DEF GetApplication
<1>2. ASSUME application # Nothing PROVE <<family, application>> \in CatalogPairs
  <2>1. found # {} /\ application = (CHOOSE p \in found : TRUE)[2]
    <3>1. Cardinality(found) = 1
      BY <1>1, <1>2
    <3> HIDE DEF found, application
    <3> QED
      BY <1>1, <3>1, FS_EmptySet
  <2>2. (CHOOSE p \in found : TRUE) \in found
    <3> HIDE DEF found
    <3> QED
      BY <2>1
  <2>3. PICK p \in CatalogPairs : p[1] = family /\ p[2] = application
    <3> HIDE DEF application, family
    <3> QED
      BY <2>1, <2>2
  <2> HIDE DEF application, family
  <2> QED
    BY <2>3, PairsArePairs
<1>3. Normalized(answer) \in {LowConfidence, Selected(<<family, application>>)}
  BY DEF Normalized
<1>4. Normalized(answer) = LowConfidence \/ application # Nothing
  BY DEF Normalized
<1> HIDE DEF application, family
<1> QED
  BY <1>2, <1>3, <1>4 DEF Chosen

LEMMA ChosenAre ==
    \A s \in Chosen :
        \/ s = LowConfidence /\ s.status = "low_confidence" /\ s.pair = Nothing
        \/ /\ s.status = "selected" /\ s.status # "low_confidence"
           /\ s.pair \in CatalogPairs /\ s = Selected(s.pair)
BY DEF Chosen, LowConfidence, Selected

(* What is composed is about a pair of the catalog: that of the analysis,  *)
(* or the best guess.                                                      *)
LEMMA ComposedPair ==
    ASSUME NothingIsNothing, state.selection \in Chosen
    PROVE  /\ ComposeSelection.pair \in CatalogPairs
           /\ ~IsLow => ComposeSelection = state.selection
           /\ IsLow => ComposeSelection = BestEffort(lead.evidence)
<1>1. BestEffort(lead.evidence).pair \in CatalogPairs
  BY BestEffortIsChosen DEF Selected
<1> QED
  BY <1>1, ChosenAre DEF ComposeSelection, IsLow

-----------------------------------------------------------------------------
(* The log of requests.                                                    *)

LEMMA LogGrows ==
    ASSUME ShapeInv, NEW c \in Nodes, NEW a \in Abouts,
           requests' = Append(requests, [call |-> c, about |-> a])
    PROVE  /\ requests' \in Seq([call : Nodes, about : Abouts])
           /\ \A d : HasAsked(d)' <=> HasAsked(d) \/ d = c
           /\ requests'[Len(requests')] = [call |-> c, about |-> a]
<1> DEFINE new == [call |-> c, about |-> a]
           Log == [call : Nodes, about : Abouts]
<1>1. new \in Log /\ new.call = c
  OBVIOUS
<1> HIDE DEF new, Log
<1>2. /\ requests' \in Seq(Log) /\ Len(requests') = Len(requests) + 1
      /\ Len(requests) \in Nat
      /\ \A i \in 1..Len(requests) : requests'[i] = requests[i]
      /\ requests'[Len(requests) + 1] = new
      /\ DOMAIN requests = 1..Len(requests) /\ DOMAIN requests' = 1..Len(requests')
  BY <1>1 DEF ShapeInv, new, Log
<1>3. ASSUME NEW d PROVE HasAsked(d)' <=> HasAsked(d) \/ d = c
  <2>1. HasAsked(d)' <=> \E i \in 1..Len(requests) + 1 : requests'[i].call = d
    BY <1>2 DEF HasAsked
  <2>2. HasAsked(d) <=> \E i \in 1..Len(requests) : requests[i].call = d
    BY <1>2 DEF HasAsked
  <2>3. \A i : i \in 1..Len(requests) + 1 <=> i \in 1..Len(requests) \/ i = Len(requests) + 1
    BY <1>2
  <2> QED
    BY <1>1, <1>2, <2>1, <2>2, <2>3
<1> QED
  BY <1>2, <1>3 DEF new, Log

LEMMA SubjectIsLogged == ASSUME NothingIsNothing, AttemptInv PROVE Subject \in Abouts
<1>1. CASE node = "draft"
  <2>1. state.selection \in Chosen
    BY <1>1 DEF AttemptInv, SelectionInv
  <2> QED
    BY <1>1, <2>1, ComposedPair DEF Subject, Abouts
<1>2. CASE node = "route"
  <2>1. state.selection \in Chosen
    BY <1>2 DEF AttemptInv, SelectionInv
  <2> QED
    BY <1>2, <2>1, ChosenAre DEF Subject, Abouts
<1>3. CASE node \notin {"draft", "route"}
  BY <1>3 DEF Subject, Abouts
<1> QED
  BY <1>1, <1>2, <1>3

(* A call of the model leaves one request behind, if there is a model.     *)
LEMMA CallIsLogged ==
    ASSUME NothingIsNothing, AttemptInv, node \in ModelCalls,
           requests' = IF setup.model THEN Request(Subject) ELSE requests
    PROVE  /\ requests' \in Seq([call : Nodes, about : Abouts])
           /\ setup.model => \A d : HasAsked(d)' <=> HasAsked(d) \/ d = node
           /\ setup.model => requests'[Len(requests')] = [call |-> node, about |-> Subject]
<1>1. ShapeInv /\ node \in Nodes
  BY DEF AttemptInv, ModelCalls, Nodes
<1>2. CASE setup.model
  BY <1>1, <1>2, SubjectIsLogged, LogGrows DEF Request
<1>3. CASE ~setup.model
  BY <1>1, <1>3 DEF ShapeInv
<1> QED
  BY <1>2, <1>3

-----------------------------------------------------------------------------
(* Steps.                                                                  *)

(* Before the end there is no result, and no record of one.                *)
LEMMA NothingAtEnd ==
    ASSUME AttemptInv, node # "end"
    PROVE  result = Nothing /\ recorded.status # "generated"
BY DEF AttemptInv, ResultInv, RecordInv

LEMMA BeforeTheEnd ==
    ASSUME AttemptInv, node # "end", node' # "end", UNCHANGED <<result, recorded>>
    PROVE  ResultInv' /\ RecordInv'
<1>1. result = Nothing /\ recorded.status # "generated"
  BY NothingAtEnd
<1> QED
  BY <1>1 DEF ResultInv, RecordInv

LEMMA AttemptInitInvariant == ASSUME AttemptsPositive PROVE AttemptInit => AttemptInv
<1> SUFFICES ASSUME AttemptInit PROVE AttemptInv
  OBVIOUS
<1>1. /\ node = "analysis" /\ attempt = 1 /\ requests = <<>> /\ result = Nothing
      /\ recorded.status = "running"
      /\ state.selection = Nothing /\ state.route = Nothing /\ state.strategy = <<>>
      /\ state.template = <<>> /\ state.warnings = {} /\ state.error = FALSE
      /\ state.calls = 0 /\ state.documents = <<>> /\ DOMAIN state = Fields
  BY DEF AttemptInit, NewState, Running, Fields
<1>2. AttemptTypeOK
  BY <1>1 DEF AttemptTypeOK, Nodes, AttemptsPositive
<1>3. ShapeInv
  <2>1. \A S : <<>> \in Seq(S)
    OBVIOUS
  <2> QED
    BY <1>1, <2>1 DEF ShapeInv
<1>4. SelectionInv /\ CountInv /\ ContextInv
  BY <1>1 DEF SelectionInv, CountInv, ContextInv, OnlyAnalysis, HasAsked
<1>5. PathInv /\ WarningInv /\ ResultInv /\ RecordInv
  BY <1>1 DEF PathInv, WarningInv, ResultInv, RecordInv, HasAsked
<1> QED
  BY <1>2, <1>3, <1>4, <1>5 DEF AttemptInv

(* The worker's steps leave the graph alone.                               *)
LEMMA GraphStays ==
    ASSUME AttemptInv, RecordInv',
           UNCHANGED <<lead, setup, node, attempt, state, requests, result>>
    PROVE  AttemptInv'
<1>1. AttemptTypeOK' /\ ShapeInv'
  BY DEF AttemptInv, AttemptTypeOK, ShapeInv
<1>2. SelectionInv' /\ PathInv' /\ CountInv' /\ ContextInv' /\ WarningInv'
  BY DEF AttemptInv, SelectionInv, PathInv, CountInv, ContextInv, WarningInv, HasAsked, OnlyAnalysis, IsLow
<1>3. ResultInv'
  BY DEF AttemptInv, ResultInv, HasAsked, IsLow, ComposeSelection
<1> QED
  BY <1>1, <1>2, <1>3 DEF AttemptInv

LEMMA TimesOutPreserves == ASSUME AttemptInv, TimesOut PROVE AttemptInv'
<1>1. recorded'.status # "generated"
  BY DEF TimesOut
<1>2. RecordInv'
  BY <1>1 DEF RecordInv
<1> QED
  BY <1>2, GraphStays DEF TimesOut

LEMMA RecordResultPreserves == ASSUME AttemptInv, RecordResult PROVE AttemptInv'
<1>1. node = "end" /\ recorded' = RecordedAs(result) /\ UNCHANGED <<node, result>>
  BY DEF RecordResult, AttemptInv, ResultInv
<1>2. RecordedAs(result).status = result.status
  BY DEF RecordedAs
<1>3. RecordInv'
  BY <1>1, <1>2 DEF RecordInv, RecordedAs
<1> QED
  BY <1>3, GraphStays DEF RecordResult

LEMMA OverloadedPreserves ==
    ASSUME NothingIsNothing, AttemptsPositive, AttemptInv, Overloaded PROVE AttemptInv'
<1>1. /\ node \in ModelCalls /\ setup.model /\ ~(node = "draft" /\ state.error)
      /\ attempt' = attempt + 1 /\ attempt < MaxAttempts
      /\ UNCHANGED <<lead, setup, node, state, result, recorded>>
  BY DEF Overloaded
<1>2. /\ requests' \in Seq([call : Nodes, about : Abouts])
      /\ \A d : HasAsked(d)' <=> HasAsked(d) \/ d = node
  BY <1>1, CallIsLogged DEF Overloaded
<1>3. node # "end" /\ node' # "end"
  BY <1>1 DEF ModelCalls
<1>4. AttemptTypeOK'
  BY <1>1 DEF AttemptInv, AttemptTypeOK, AttemptsPositive
<1>5. ShapeInv' /\ CountInv' /\ ContextInv' /\ WarningInv'
  BY <1>1, <1>2 DEF AttemptInv, ShapeInv, CountInv, ContextInv, WarningInv, IsLow
<1>6. SelectionInv'
  <2>1. ~state.error
    BY <1>1 DEF AttemptInv, SelectionInv, ModelCalls
  <2>2. node = "analysis" => OnlyAnalysis'
    BY <1>2 DEF AttemptInv, SelectionInv, OnlyAnalysis
  <2> QED
    BY <1>1, <2>1, <2>2 DEF AttemptInv, SelectionInv, IsLow
<1>7. PathInv'
  BY <1>1, <1>2 DEF AttemptInv, PathInv, ModelCalls
<1> QED
  BY <1>1, <1>3, <1>4, <1>5, <1>6, <1>7, BeforeTheEnd DEF AttemptInv

(* The analysis, whichever way it ends.                                    *)
LEMMA AnalysisPreserves ==
    ASSUME NothingIsNothing, AttemptsPositive, AttemptInv,
           node = "analysis", Asked("strategy"), UNCHANGED <<lead, setup, result, recorded>>,
           NEW chosen \in Chosen, NEW failed \in BOOLEAN,
           NEW added \in SUBSET {"low_confidence", "hint_fallback", "no_fallback"},
           failed => chosen = LowConfidence,
           "hint_fallback" \in added =>
               /\ FirstHint(lead.evidence) # Nothing
               /\ chosen = Selected(FirstHint(lead.evidence)),
           DOMAIN state' = DOMAIN state,
           state'.selection = chosen, state'.error = failed, state'.calls = state.calls + 1,
           state'.warnings = state.warnings \cup added,
           state'.route = state.route, state'.strategy = state.strategy,
           state'.template = state.template, state'.documents = state.documents
    PROVE  AttemptInv'
<1>1. /\ node' = "strategy" /\ attempt' = 1
      /\ requests' = IF setup.model THEN Request(Subject) ELSE requests
  BY DEF Asked
<1>2. /\ requests' \in Seq([call : Nodes, about : Abouts])
      /\ setup.model => \A d : HasAsked(d)' <=> HasAsked(d) \/ d = "analysis"
  BY <1>1, CallIsLogged DEF ModelCalls
<1>3. AttemptTypeOK'
  <2>1. /\ attempt' \in 1..MaxAttempts /\ node' \in Nodes
        /\ result' # Nothing => result'.status \in {"generated", "provider_error"}
    BY <1>1 DEF AttemptInv, AttemptTypeOK, AttemptsPositive, Nodes
  <2>2. state'.selection \in {Nothing, LowConfidence} \cup {Selected(p) : p \in CatalogPairs}
    BY DEF Chosen
  <2>3. state'.warnings \subseteq WarningCodes
    BY DEF AttemptInv, AttemptTypeOK, WarningCodes
  <2>4. state'.calls \in 0..3
    BY DEF AttemptInv, CountInv
  <2>5. state'.route \in {Nothing} \cup 1..7
    BY DEF AttemptInv, AttemptTypeOK
  <2> QED
    BY <2>1, <2>2, <2>3, <2>4, <2>5 DEF AttemptTypeOK
<1>4. ShapeInv' /\ CountInv' /\ ContextInv'
  BY <1>1, <1>2 DEF AttemptInv, ShapeInv, CountInv, ContextInv
<1>5. SelectionInv'
  <2>1. OnlyAnalysis'
    <3>1. OnlyAnalysis
      BY DEF AttemptInv, SelectionInv
    <3> QED
      BY <1>1, <1>2, <3>1 DEF OnlyAnalysis, HasAsked
  <2>2. failed => IsLow'
    BY DEF IsLow, LowConfidence
  <2> QED
    BY <1>1, <2>1, <2>2 DEF SelectionInv
<1>6. PathInv'
  BY <1>1, <1>2 DEF AttemptInv, PathInv
<1>7. WarningInv'
  BY <1>1 DEF AttemptInv, WarningInv
<1>8. ResultInv' /\ RecordInv'
  BY <1>1, BeforeTheEnd
<1> QED
  BY <1>3, <1>4, <1>5, <1>6, <1>7, <1>8 DEF AttemptInv

LEMMA AnalysisAnswersPreserves ==
    ASSUME NothingIsNothing, AttemptsPositive, AttemptInv, NEW answer, AnalysisAnswers(answer)
    PROVE  AttemptInv'
<1> DEFINE chosen == Normalized(answer)
           added == {w \in {"low_confidence"} : chosen.status = "low_confidence"}
<1>1. chosen \in Chosen
  BY NormalizedIsChosen
<1>2. /\ node = "analysis" /\ Asked("strategy") /\ UNCHANGED <<lead, setup, result, recorded>>
      /\ state' = [state EXCEPT !.selection = chosen, !.calls = @ + 1,
                                !.warnings = @ \cup added]
  BY DEF AnalysisAnswers
<1>3. DOMAIN state = Fields /\ state.error = FALSE
  BY <1>2 DEF AttemptInv, ShapeInv, SelectionInv
<1>4. added \in SUBSET {"low_confidence", "hint_fallback", "no_fallback"}
      /\ "hint_fallback" \notin added
  OBVIOUS
<1> HIDE DEF chosen, added
<1>5. /\ DOMAIN state' = DOMAIN state
      /\ state'.selection = chosen /\ state'.error = FALSE /\ state'.calls = state.calls + 1
      /\ state'.warnings = state.warnings \cup added
      /\ state'.route = state.route /\ state'.strategy = state.strategy
      /\ state'.template = state.template /\ state'.documents = state.documents
  BY <1>2, <1>3 DEF Fields
<1> QED
  BY <1>1, <1>2, <1>4, <1>5, AnalysisPreserves

LEMMA AnalysisFailsPreserves ==
    ASSUME NothingIsNothing, AttemptsPositive, AttemptInv, AnalysisFails PROVE AttemptInv'
<1> DEFINE chosen == FromHints(lead.evidence)
           usable == chosen.status = "selected"
           added == {IF usable THEN "hint_fallback" ELSE "no_fallback"}
<1>1. /\ chosen \in Chosen
      /\ usable => /\ FirstHint(lead.evidence) # Nothing
                   /\ chosen = Selected(FirstHint(lead.evidence))
  BY HintsAreChosen
<1>2. /\ node = "analysis" /\ Asked("strategy") /\ UNCHANGED <<lead, setup, result, recorded>>
      /\ state' = [state EXCEPT !.selection = chosen, !.error = ~usable, !.calls = @ + 1,
                                !.warnings = @ \cup added]
  BY DEF AnalysisFails
<1>3. DOMAIN state = Fields
  BY DEF AttemptInv, ShapeInv
<1>4. /\ added \in SUBSET {"low_confidence", "hint_fallback", "no_fallback"}
      /\ "hint_fallback" \in added => usable
      /\ (~usable) \in BOOLEAN
  OBVIOUS
<1>5. ~usable => chosen = LowConfidence
  BY <1>1, ChosenAre
<1> HIDE DEF chosen, usable, added
<1>6. /\ DOMAIN state' = DOMAIN state
      /\ state'.selection = chosen /\ state'.error = ~usable /\ state'.calls = state.calls + 1
      /\ state'.warnings = state.warnings \cup added
      /\ state'.route = state.route /\ state'.strategy = state.strategy
      /\ state'.template = state.template /\ state'.documents = state.documents
  BY <1>2, <1>3 DEF Fields
<1> QED
  BY <1>1, <1>2, <1>4, <1>5, <1>6, AnalysisPreserves

(* The retrieval.                                                          *)
LEMMA NothingFollowsNothing == <<>> \o <<>> = <<>>
OBVIOUS

LEMMA SkipRetrievalPreserves ==
    ASSUME AttemptInv, SkipRetrieval PROVE AttemptInv'
<1>1. /\ node = "strategy" /\ node' = "draft" /\ IsLow
      /\ UNCHANGED <<lead, setup, attempt, state, requests, result, recorded>>
  BY DEF SkipRetrieval, NoRetrieval, IsLow, AttemptInv, SelectionInv
<1>2. AttemptTypeOK' /\ ShapeInv' /\ CountInv'
  BY <1>1 DEF AttemptInv, AttemptTypeOK, ShapeInv, CountInv, Nodes
<1>3. SelectionInv' /\ PathInv' /\ WarningInv'
  BY <1>1 DEF AttemptInv, SelectionInv, PathInv, CountInv, WarningInv, HasAsked, OnlyAnalysis,
              IsLow
<1>4. ContextInv'
  BY <1>1, NothingFollowsNothing DEF AttemptInv, ContextInv
<1>5. ResultInv' /\ RecordInv'
  BY <1>1, BeforeTheEnd
<1> QED
  BY <1>2, <1>3, <1>4, <1>5 DEF AttemptInv

(* A retrieval is no call of the model.                                    *)
LEMMA RetrievalIsLogged ==
    ASSUME AttemptInv, node \in {"strategy", "template"}, NEW chunks, NEW about \in Abouts,
           Retrieved(chunks, about)
    PROVE  /\ requests' \in Seq([call : Nodes, about : Abouts])
           /\ \A c \in ModelCalls : HasAsked(c)' <=> HasAsked(c)
<1>1. ShapeInv /\ node \in Nodes /\ node \notin ModelCalls
  BY DEF AttemptInv, ModelCalls, Nodes
<1>2. CASE setup.retriever
  BY <1>1, <1>2, LogGrows DEF Retrieved, Request
<1>3. CASE ~setup.retriever
  BY <1>1, <1>3 DEF Retrieved, ShapeInv, HasAsked
<1> QED
  BY <1>2, <1>3

LEMMA RetrieveStrategyPreserves ==
    ASSUME AttemptInv, NEW chunks, RetrieveStrategy(chunks) PROVE AttemptInv'
<1>1. /\ node = "strategy" /\ node' = "route" /\ ~state.error /\ ~IsLow
      /\ Retrieved(chunks, state.selection.pair)
      /\ UNCHANGED <<lead, setup, attempt, result, recorded>>
  BY DEF RetrieveStrategy, NoRetrieval, IsLow
<1>2. /\ DOMAIN state' = Fields /\ state'.strategy = chunks
      /\ state'.warnings = state.warnings \cup Warns(chunks, "strategy_unavailable")
      /\ state'.selection = state.selection /\ state'.error = state.error
      /\ state'.calls = state.calls /\ state'.route = state.route
  BY DEF RetrieveStrategy, AttemptInv, ShapeInv, Fields
<1>3. /\ Warns(chunks, "strategy_unavailable") \subseteq {"strategy_unavailable"}
      /\ chunks = <<>> => "strategy_unavailable" \in Warns(chunks, "strategy_unavailable")
  BY DEF Warns
<1>4. /\ requests' \in Seq([call : Nodes, about : Abouts])
      /\ \A c \in ModelCalls : HasAsked(c)' <=> HasAsked(c)
  <2>1. state.selection.pair \in Abouts
    BY <1>1, ChosenAre DEF AttemptInv, SelectionInv, IsLow, Abouts
  <2> QED
    BY <1>1, <2>1, RetrievalIsLogged
<1>5. AttemptTypeOK'
  BY <1>1, <1>2, <1>3 DEF AttemptInv, AttemptTypeOK, Nodes, WarningCodes
<1>6. ShapeInv' /\ CountInv' /\ ContextInv'
  BY <1>1, <1>2, <1>4 DEF AttemptInv, ShapeInv, CountInv, ContextInv
<1>7. SelectionInv' /\ PathInv'
  BY <1>1, <1>2, <1>4 DEF AttemptInv, SelectionInv, PathInv, IsLow, ModelCalls
<1>8. WarningInv'
  BY <1>1, <1>2, <1>3 DEF AttemptInv, WarningInv, IsLow
<1>9. ResultInv' /\ RecordInv'
  BY <1>1, BeforeTheEnd
<1> QED
  BY <1>5, <1>6, <1>7, <1>8, <1>9 DEF AttemptInv

(* The route, whether the model gives it or the stage of the lead.         *)
LEMMA RoutePreserves ==
    ASSUME NothingIsNothing, AttemptsPositive, AttemptInv,
           node = "route", Asked("template"), UNCHANGED <<lead, setup, result, recorded>>,
           NEW number \in 1..7, NEW added \in SUBSET {"route_fallback"},
           DOMAIN state' = DOMAIN state,
           state'.route = number, state'.calls = state.calls + 1,
           state'.warnings = state.warnings \cup added,
           state'.selection = state.selection, state'.error = state.error,
           state'.strategy = state.strategy
    PROVE  AttemptInv'
<1>1. /\ node' = "template" /\ attempt' = 1 /\ ~state.error
      /\ requests' = IF setup.model THEN Request(Subject) ELSE requests
  BY DEF Asked, AttemptInv, SelectionInv
<1>2. /\ requests' \in Seq([call : Nodes, about : Abouts])
      /\ setup.model => \A d : HasAsked(d)' <=> HasAsked(d) \/ d = "route"
  BY <1>1, CallIsLogged DEF ModelCalls
<1>3. AttemptTypeOK'
  <2>1. /\ attempt' \in 1..MaxAttempts /\ node' \in Nodes
        /\ result' # Nothing => result'.status \in {"generated", "provider_error"}
    BY <1>1 DEF AttemptInv, AttemptTypeOK, AttemptsPositive, Nodes
  <2>2. state'.route \in {Nothing} \cup 1..7 /\ state'.calls \in 0..3
    BY DEF AttemptInv, CountInv
  <2>3. state'.warnings \subseteq WarningCodes
    BY DEF AttemptInv, AttemptTypeOK, WarningCodes
  <2> QED
    BY <2>1, <2>2, <2>3 DEF AttemptInv, AttemptTypeOK
<1>4. ShapeInv' /\ CountInv' /\ ContextInv'
  BY <1>1, <1>2 DEF AttemptInv, ShapeInv, CountInv, ContextInv
<1>5. SelectionInv' /\ PathInv'
  BY <1>1, <1>2 DEF AttemptInv, SelectionInv, PathInv, IsLow
<1>6. WarningInv'
  BY <1>1 DEF AttemptInv, WarningInv, IsLow
<1>7. ResultInv' /\ RecordInv'
  BY <1>1, BeforeTheEnd
<1> QED
  BY <1>3, <1>4, <1>5, <1>6, <1>7 DEF AttemptInv

LEMMA RouteAnswersPreserves ==
    ASSUME NothingIsNothing, AttemptsPositive, AttemptInv, NEW number \in 1..7,
           RouteAnswers(number)
    PROVE  AttemptInv'
<1>1. /\ node = "route" /\ Asked("template") /\ UNCHANGED <<lead, setup, result, recorded>>
      /\ DOMAIN state = Fields
      /\ state' = [state EXCEPT !.route = number, !.calls = @ + 1]
  BY DEF RouteAnswers, AttemptInv, ShapeInv
<1>2. /\ DOMAIN state' = DOMAIN state
      /\ state'.route = number /\ state'.calls = state.calls + 1
      /\ state'.warnings = state.warnings \cup {}
      /\ state'.selection = state.selection /\ state'.error = state.error
      /\ state'.strategy = state.strategy
  BY <1>1 DEF Fields
<1>3. {} \in SUBSET {"route_fallback"}
  OBVIOUS
<1> QED
  BY <1>1, <1>2, <1>3, RoutePreserves

LEMMA RouteFailsPreserves ==
    ASSUME NothingIsNothing, AttemptsPositive, AttemptInv, RouteFails PROVE AttemptInv'
<1>1. /\ node = "route" /\ Asked("template") /\ UNCHANGED <<lead, setup, result, recorded>>
      /\ DOMAIN state = Fields
      /\ state' = [state EXCEPT !.route = StageRoute(lead.stage), !.calls = @ + 1,
                                !.warnings = @ \cup {"route_fallback"}]
  BY DEF RouteFails, AttemptInv, ShapeInv
<1>2. StageRoute(lead.stage) \in 1..7
  BY DEF StageRoute
<1>3. /\ DOMAIN state' = DOMAIN state
      /\ state'.route = StageRoute(lead.stage) /\ state'.calls = state.calls + 1
      /\ state'.warnings = state.warnings \cup {"route_fallback"}
      /\ state'.selection = state.selection /\ state'.error = state.error
      /\ state'.strategy = state.strategy
  BY <1>1 DEF Fields
<1>4. {"route_fallback"} \in SUBSET {"route_fallback"}
  OBVIOUS
<1> QED
  BY <1>1, <1>2, <1>3, <1>4, RoutePreserves

LEMMA RetrieveTemplatePreserves ==
    ASSUME AttemptInv, NEW chunks, RetrieveTemplate(chunks) PROVE AttemptInv'
<1>1. /\ node = "template" /\ node' = "draft" /\ ~state.error
      /\ Retrieved(chunks, state.route)
      /\ UNCHANGED <<lead, setup, attempt, result, recorded>>
  BY DEF RetrieveTemplate, AttemptInv, SelectionInv
<1>2. /\ DOMAIN state' = Fields
      /\ state'.template = chunks /\ state'.documents = state.strategy \o chunks
      /\ state'.strategy = state.strategy
      /\ state'.warnings = state.warnings \cup Warns(chunks, "template_unavailable")
      /\ state'.selection = state.selection /\ state'.error = state.error
      /\ state'.calls = state.calls /\ state'.route = state.route
  BY DEF RetrieveTemplate, AttemptInv, ShapeInv, Fields
<1>3. /\ Warns(chunks, "template_unavailable") \subseteq {"template_unavailable"}
      /\ chunks = <<>> => "template_unavailable" \in Warns(chunks, "template_unavailable")
  BY DEF Warns
<1>4. /\ requests' \in Seq([call : Nodes, about : Abouts])
      /\ \A c \in ModelCalls : HasAsked(c)' <=> HasAsked(c)
  <2>1. state.route \in Abouts
    BY DEF AttemptInv, AttemptTypeOK, Abouts
  <2> QED
    BY <1>1, <2>1, RetrievalIsLogged
<1>5. AttemptTypeOK'
  BY <1>1, <1>2, <1>3 DEF AttemptInv, AttemptTypeOK, Nodes, WarningCodes
<1>6. ShapeInv' /\ CountInv' /\ ContextInv'
  BY <1>1, <1>2, <1>4 DEF AttemptInv, ShapeInv, CountInv, ContextInv
<1>7. SelectionInv' /\ PathInv'
  BY <1>1, <1>2, <1>4 DEF AttemptInv, SelectionInv, PathInv, CountInv, IsLow, ModelCalls
<1>8. WarningInv'
  BY <1>1, <1>2, <1>3 DEF AttemptInv, WarningInv, IsLow
<1>9. ResultInv' /\ RecordInv'
  BY <1>1, BeforeTheEnd
<1> QED
  BY <1>5, <1>6, <1>7, <1>8, <1>9 DEF AttemptInv

(* The end of the graph, whatever its result.                              *)
LEMMA EndPreserves ==
    ASSUME NothingIsNothing, AttemptInv, node = "draft", node' = "end",
           attempt' \in 1..MaxAttempts, UNCHANGED <<lead, setup, state, recorded>>,
           requests' \in Seq([call : Nodes, about : Abouts]),
           state.error => UNCHANGED requests,
           setup.model => \A c \in Nodes \ {"draft"} : HasAsked(c)' <=> HasAsked(c),
           result'.status \in {"generated", "provider_error"},
           result'.documents = state.documents,
           state.warnings \subseteq result'.warnings,
           "hint_fallback" \in result'.warnings => "hint_fallback" \in state.warnings,
           "limited_context" \in result'.warnings <=> IsLow /\ ~state.error,
           setup.model =>
               result'.calls = state.calls + (IF HasAsked("draft")' THEN 1 ELSE 0),
           result'.status = "generated" =>
               /\ ~state.error
               /\ result'.pair = ComposeSelection.pair
               /\ result'.draft = result'.pair
               /\ requests'[Len(requests')] = [call |-> "draft", about |-> result'.pair]
    PROVE  AttemptInv'
<1>1. AttemptTypeOK' /\ ShapeInv'
  BY DEF AttemptInv, AttemptTypeOK, ShapeInv, Nodes
<1>2. SelectionInv'
  BY DEF AttemptInv, SelectionInv, IsLow, OnlyAnalysis, HasAsked
<1>3. PathInv'
  BY DEF AttemptInv, PathInv, Nodes
<1>4. CountInv' /\ ContextInv' /\ WarningInv'
  BY DEF AttemptInv, CountInv, ContextInv, WarningInv, IsLow
<1>5. ResultInv'
  BY DEF ResultInv, IsLow, ComposeSelection
<1>6. RecordInv'
  BY NothingAtEnd DEF RecordInv
<1> QED
  BY <1>1, <1>2, <1>3, <1>4, <1>5, <1>6 DEF AttemptInv

LEMMA ResultsSay ==
    ASSUME AttemptInv, NEW status, NEW pair, NEW draft, NEW calls,
           NEW warnings \in SUBSET (LimitedContext \cup {"mismatch", "draft_failed"}),
           LimitedContext \subseteq warnings,
           result' = ResultOf(status, pair, draft, calls, warnings)
    PROVE  /\ result'.status = status /\ result'.pair = pair /\ result'.draft = draft
           /\ result'.calls = calls /\ result'.documents = state.documents
           /\ state.warnings \subseteq result'.warnings
           /\ "hint_fallback" \in result'.warnings => "hint_fallback" \in state.warnings
           /\ "limited_context" \in result'.warnings <=> IsLow /\ ~state.error
<1>1. /\ "limited_context" \in LimitedContext <=> IsLow /\ ~state.error
      /\ LimitedContext \subseteq {"limited_context"}
  BY DEF LimitedContext, IsLow
<1>2. "limited_context" \notin state.warnings
  BY DEF AttemptInv, WarningInv
<1>3. result'.warnings = state.warnings \cup warnings
  BY DEF ResultOf
<1> QED
  BY <1>1, <1>2, <1>3 DEF ResultOf

LEMMA ComposeRefusesPreserves ==
    ASSUME NothingIsNothing, AttemptInv, ComposeRefuses PROVE AttemptInv'
<1>1. /\ node = "draft" /\ state.error /\ node' = "end"
      /\ result' = ResultOf("provider_error", state.selection.pair, Nothing, state.calls, {})
      /\ UNCHANGED <<lead, setup, attempt, state, requests, recorded>>
  BY DEF ComposeRefuses
<1>2. LimitedContext = {}
  BY <1>1 DEF LimitedContext
<1>3. {} \in SUBSET (LimitedContext \cup {"mismatch", "draft_failed"}) /\ LimitedContext \subseteq {}
  BY <1>2
<1>4. /\ result'.status = "provider_error" /\ result'.calls = state.calls
      /\ result'.documents = state.documents
      /\ state.warnings \subseteq result'.warnings
      /\ "hint_fallback" \in result'.warnings => "hint_fallback" \in state.warnings
      /\ "limited_context" \in result'.warnings <=> IsLow /\ ~state.error
  BY <1>1, <1>3, ResultsSay
<1>5. ~HasAsked("draft")'
  BY <1>1 DEF AttemptInv, SelectionInv, OnlyAnalysis, HasAsked, Nodes
<1>6. /\ attempt' \in 1..MaxAttempts /\ requests' \in Seq([call : Nodes, about : Abouts])
      /\ \A c : HasAsked(c)' <=> HasAsked(c)
      /\ state.calls = state.calls + 0
  BY <1>1 DEF AttemptInv, AttemptTypeOK, ShapeInv, HasAsked, CountInv
<1> QED
  BY <1>1, <1>4, <1>5, <1>6, EndPreserves

LEMMA DraftAsked ==
    ASSUME NothingIsNothing, AttemptsPositive, AttemptInv, node = "draft", ~state.error,
           Asked("end")
    PROVE  /\ node' = "end" /\ attempt' \in 1..MaxAttempts
           /\ requests' \in Seq([call : Nodes, about : Abouts])
           /\ setup.model =>
                 /\ HasAsked("draft")'
                 /\ \A c \in Nodes \ {"draft"} : HasAsked(c)' <=> HasAsked(c)
                 /\ requests'[Len(requests')] =
                        [call |-> "draft", about |-> ComposeSelection.pair]
<1>1. /\ node' = "end" /\ attempt' = 1
      /\ requests' = IF setup.model THEN Request(Subject) ELSE requests
  BY DEF Asked
<1>2. Subject = ComposeSelection.pair
  BY DEF Subject
<1>3. /\ requests' \in Seq([call : Nodes, about : Abouts])
      /\ setup.model => \A d : HasAsked(d)' <=> HasAsked(d) \/ d = node
      /\ setup.model => requests'[Len(requests')] = [call |-> node, about |-> Subject]
  BY <1>1, CallIsLogged DEF ModelCalls
<1> QED
  BY <1>1, <1>2, <1>3 DEF AttemptsPositive

LEMMA DraftFailsPreserves ==
    ASSUME NothingIsNothing, AttemptsPositive, AttemptInv, DraftFails PROVE AttemptInv'
<1> DEFINE warned == LimitedContext \cup {"draft_failed"}
<1>1. /\ node = "draft" /\ ~state.error /\ Asked("end")
      /\ result' = ResultOf("provider_error", state.selection.pair, Nothing,
                            state.calls + 1, warned)
      /\ UNCHANGED <<lead, setup, state, recorded>>
  BY DEF DraftFails
<1>2. /\ warned \in SUBSET (LimitedContext \cup {"mismatch", "draft_failed"})
      /\ LimitedContext \subseteq warned
  OBVIOUS
<1> HIDE DEF warned
<1>3. /\ result'.status = "provider_error" /\ result'.calls = state.calls + 1
      /\ result'.documents = state.documents
      /\ state.warnings \subseteq result'.warnings
      /\ "hint_fallback" \in result'.warnings => "hint_fallback" \in state.warnings
      /\ "limited_context" \in result'.warnings <=> IsLow /\ ~state.error
  BY <1>1, <1>2, ResultsSay
<1> QED
  BY <1>1, <1>3, DraftAsked, EndPreserves

LEMMA DraftAnswersPreserves ==
    ASSUME NothingIsNothing, AttemptsPositive, AttemptInv, NEW draft, DraftAnswers(draft)
    PROVE  AttemptInv'
<1>1. /\ node = "draft" /\ ~state.error /\ setup.model /\ Asked("end")
      /\ UNCHANGED <<lead, setup, state, recorded>>
  BY DEF DraftAnswers
<1>2. CASE IsAbout(draft)
  <2>1. result' = ResultOf("generated", ComposeSelection.pair, draft, state.calls + 1,
                           LimitedContext)
    BY <1>2 DEF DraftAnswers
  <2>2. LimitedContext \in SUBSET (LimitedContext \cup {"mismatch", "draft_failed"})
    OBVIOUS
  <2>3. /\ result'.status = "generated" /\ result'.calls = state.calls + 1
        /\ result'.pair = ComposeSelection.pair /\ result'.draft = draft
        /\ result'.documents = state.documents
        /\ state.warnings \subseteq result'.warnings
        /\ "hint_fallback" \in result'.warnings => "hint_fallback" \in state.warnings
        /\ "limited_context" \in result'.warnings <=> IsLow /\ ~state.error
    BY <2>1, <2>2, ResultsSay
  <2>4. draft = ComposeSelection.pair
    BY <1>2 DEF IsAbout
  <2> QED
    BY <1>1, <2>3, <2>4, DraftAsked, EndPreserves
<1>3. CASE ~IsAbout(draft)
  <2> DEFINE warned == LimitedContext \cup {"mismatch"}
  <2>1. result' = ResultOf("provider_error", state.selection.pair, Nothing, state.calls + 1,
                           warned)
    BY <1>3 DEF DraftAnswers
  <2>2. /\ warned \in SUBSET (LimitedContext \cup {"mismatch", "draft_failed"})
        /\ LimitedContext \subseteq warned
    OBVIOUS
  <2> HIDE DEF warned
  <2>3. /\ result'.status = "provider_error" /\ result'.calls = state.calls + 1
        /\ result'.documents = state.documents
        /\ state.warnings \subseteq result'.warnings
        /\ "hint_fallback" \in result'.warnings => "hint_fallback" \in state.warnings
        /\ "limited_context" \in result'.warnings <=> IsLow /\ ~state.error
    BY <2>1, <2>2, ResultsSay
  <2> QED
    BY <1>1, <2>3, DraftAsked, EndPreserves
<1> QED
  BY <1>2, <1>3

-----------------------------------------------------------------------------
LEMMA AttemptStepInvariant ==
    ASSUME NothingIsNothing, AttemptsPositive, AttemptInv, [AttemptNext]_attemptVars
    PROVE  AttemptInv'
<1>1. CASE Overloaded
  BY <1>1, OverloadedPreserves
<1>2. CASE AnalysisNext
  BY <1>2, AnalysisFailsPreserves, AnalysisAnswersPreserves DEF AnalysisNext
<1>3. CASE RetrievalNext
  BY <1>3, SkipRetrievalPreserves, RetrieveStrategyPreserves, RetrieveTemplatePreserves,
     RouteFailsPreserves, RouteAnswersPreserves DEF RetrievalNext
<1>4. CASE ComposeNext
  BY <1>4, ComposeRefusesPreserves, DraftFailsPreserves, DraftAnswersPreserves DEF ComposeNext
<1>5. CASE TimesOut
  BY <1>5, TimesOutPreserves
<1>6. CASE RecordResult
  BY <1>6, RecordResultPreserves
<1>7. CASE UNCHANGED attemptVars
  <2>1. UNCHANGED <<lead, setup, node, attempt, state, requests, result, recorded>>
    BY <1>7 DEF attemptVars
  <2>2. RecordInv'
    BY <2>1 DEF AttemptInv, RecordInv, RecordedAs
  <2> QED
    BY <2>1, <2>2, GraphStays
<1> QED
  BY <1>1, <1>2, <1>3, <1>4, <1>5, <1>6, <1>7 DEF AttemptNext, AgentNext

(* What the invariant says of the result and its record.                   *)

LEMMA PairsCounted ==
    /\ Cardinality({"analysis"}) = 1
    /\ Cardinality({"analysis", "draft"}) = 2 /\ Cardinality({"analysis", "route"}) = 2
    /\ Cardinality({"analysis", "route", "draft"}) = 3
<1>1. IsFiniteSet({"analysis"}) /\ Cardinality({"analysis"}) = 1
  BY FS_Singleton
<1>2. \A S, x : IsFiniteSet(S) /\ x \notin S =>
         IsFiniteSet(S \cup {x}) /\ Cardinality(S \cup {x}) = Cardinality(S) + 1
  BY FS_AddElement
<1>3. /\ {"analysis", "draft"} = {"analysis"} \cup {"draft"}
      /\ {"analysis", "route"} = {"analysis"} \cup {"route"}
      /\ {"analysis", "route", "draft"} = {"analysis", "route"} \cup {"draft"}
  OBVIOUS
<1>4. /\ Cardinality({"analysis", "draft"}) = 2
      /\ IsFiniteSet({"analysis", "route"}) /\ Cardinality({"analysis", "route"}) = 2
  BY <1>1, <1>2, <1>3
<1>5. Cardinality({"analysis", "route", "draft"}) = 3
  BY <1>2, <1>3, <1>4
<1> QED
  BY <1>1, <1>4, <1>5

LEMMA TelemetryFollows == ASSUME AttemptInv PROVE TelemetryIsTrue
<1> SUFFICES ASSUME result # Nothing
             PROVE  /\ setup.model =>
                          result.calls = Cardinality({c \in ModelCalls : Asks(c) # {}})
                    /\ result.documents = state.strategy \o state.template
  BY DEF TelemetryIsTrue
<1>1. node = "end"
  BY DEF AttemptInv, ResultInv
<1>2. result.documents = state.strategy \o state.template
  BY <1>1 DEF AttemptInv, ResultInv, ContextInv
<1>3. ASSUME setup.model
      PROVE  result.calls = Cardinality({c \in ModelCalls : Asks(c) # {}})
  <2> DEFINE S == {c \in ModelCalls : HasAsked(c)}
  <2>1. {c \in ModelCalls : Asks(c) # {}} = S
    BY DEF Asks, HasAsked
  <2>2. /\ HasAsked("analysis") /\ state.calls \in {1, 2}
        /\ HasAsked("route") <=> state.calls = 2
        /\ result.calls = state.calls + (IF HasAsked("draft") THEN 1 ELSE 0)
    BY <1>1, <1>3 DEF AttemptInv, PathInv, CountInv, ResultInv
  <2>3. CASE state.calls = 2 /\ HasAsked("draft")
    <3>1. S = {"analysis", "route", "draft"}
      BY <2>2, <2>3 DEF ModelCalls
    <3> QED
      BY <2>1, <2>2, <2>3, <3>1, PairsCounted
  <2>4. CASE state.calls = 2 /\ ~HasAsked("draft")
    <3>1. S = {"analysis", "route"}
      BY <2>2, <2>4 DEF ModelCalls
    <3> QED
      BY <2>1, <2>2, <2>4, <3>1, PairsCounted
  <2>5. CASE state.calls = 1 /\ HasAsked("draft")
    <3>1. S = {"analysis", "draft"}
      BY <2>2, <2>5 DEF ModelCalls
    <3> QED
      BY <2>1, <2>2, <2>5, <3>1, PairsCounted
  <2>6. CASE state.calls = 1 /\ ~HasAsked("draft")
    <3>1. S = {"analysis"}
      BY <2>2, <2>6 DEF ModelCalls
    <3> QED
      BY <2>1, <2>2, <2>6, <3>1, PairsCounted
  <2> QED
    BY <2>2, <2>3, <2>4, <2>5, <2>6
<1> QED
  BY <1>2, <1>3

LEMMA GuessFollows == ASSUME NothingIsNothing, AttemptInv PROVE GuessIsStrongest
<1> SUFFICES ASSUME result # Nothing, result.status = "generated",
                    result.warnings \cap {"hint_fallback", "limited_context"} # {},
                    Candidates(lead.evidence) # {}
             PROVE  \E r \in Candidates(lead.evidence) :
                        /\ r.pair = result.pair
                        /\ \A s \in Candidates(lead.evidence) : s.priority <= r.priority
  BY DEF GuessIsStrongest
<1>1. node = "end" /\ result.pair = ComposeSelection.pair /\ state.selection \in Chosen
  BY DEF AttemptInv, ResultInv, SelectionInv
<1>2. result.pair = FirstHint(lead.evidence)
  <2>1. CASE IsLow
    <3>1. ComposeSelection = Selected(FirstHint(lead.evidence))
      BY <1>1, <2>1, ComposedPair, BestEffortIsChosen
    <3> QED
      BY <1>1, <3>1 DEF Selected
  <2>2. CASE ~IsLow
    <3>1. "hint_fallback" \in result.warnings
      BY <1>1, <2>2 DEF AttemptInv, ResultInv
    <3>2. state.selection = Selected(FirstHint(lead.evidence))
      BY <1>1, <3>1 DEF AttemptInv, ResultInv, WarningInv
    <3>3. ComposeSelection = state.selection
      BY <1>1, <2>2, ComposedPair
    <3> QED
      BY <1>1, <3>2, <3>3 DEF Selected
  <2> QED
    BY <2>1, <2>2
<1> QED
  BY <1>2, FirstOfCandidates

LEMMA HonestyFollows == ASSUME NothingIsNothing, AttemptInv PROVE ResultIsHonest
<1>1. GeneratedIsCanonical
  <2> SUFFICES ASSUME result # Nothing, result.status = "generated"
               PROVE  /\ result.pair \in CatalogPairs
                      /\ result.draft = result.pair
                      /\ requests[Len(requests)] = [call |-> "draft", about |-> result.pair]
    BY DEF GeneratedIsCanonical
  <2>1. node = "end" /\ state.selection \in Chosen
    BY DEF AttemptInv, ResultInv, SelectionInv
  <2> QED
    BY <2>1, ComposedPair DEF AttemptInv, ResultInv
<1>2. FailureStopsEarly
  <2> SUFFICES ASSUME state.error, NEW i \in DOMAIN requests
               PROVE  requests[i].call = "analysis"
    BY DEF FailureStopsEarly
  <2>1. requests[i].call \in Nodes
    <3> DEFINE Log == [call : Nodes, about : Abouts]
    <3>1. \A x \in Log : x.call \in Nodes
      OBVIOUS
    <3>2. requests \in Seq(Log)
      BY DEF AttemptInv, ShapeInv
    <3> HIDE DEF Log
    <3>3. requests[i] \in Log
      BY <3>2
    <3> QED
      BY <3>1, <3>3
  <2> QED
    BY <2>1 DEF AttemptInv, SelectionInv, OnlyAnalysis, HasAsked
<1>3. DegradedIsSaid
  BY DEF AttemptInv, ResultInv, WarningInv, DegradedIsSaid
<1>4. BestEffortIsMarked
  <2> SUFFICES ASSUME recorded.status = "generated"
               PROVE  recorded.code = "limited_context_best_effort" <=> IsLow
    BY DEF BestEffortIsMarked, IsLow
  <2>1. /\ result.status = "generated" /\ recorded = RecordedAs(result)
        /\ ~state.error /\ ("limited_context" \in result.warnings <=> IsLow)
    BY DEF AttemptInv, RecordInv, ResultInv
  <2> QED
    BY <2>1 DEF RecordedAs, NothingIsNothing
<1> QED
  BY <1>1, <1>2, <1>3, <1>4, TelemetryFollows, GuessFollows DEF AttemptInv, ResultIsHonest

(* Whatever the model, the knowledge base and the lead's text give, a      *)
(* generated email is about the catalog pair it was asked for, the best    *)
(* the evidence supports where nothing better was known, says what it      *)
(* lacks, and the record of the attempt tells the truth about it.          *)
THEOREM Honest ==
    ASSUME NothingIsNothing, AttemptsPositive PROVE AttemptSpec => []ResultIsHonest
<1>1. AttemptInit => AttemptInv
  BY AttemptInitInvariant
<1>2. AttemptInv /\ [AttemptNext]_attemptVars => AttemptInv'
  BY AttemptStepInvariant
<1>3. AttemptInv => ResultIsHonest
  BY HonestyFollows
<1> QED
  BY <1>1, <1>2, <1>3, PTL DEF AttemptSpec
=============================================================================
