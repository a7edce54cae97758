------------------------------ MODULE AgentRuns -----------------------------
(***************************************************************************)
(* execute_agent_run and retry_agent_run: an agent run outside the queue.  *)
(*                                                                         *)
(* A run is committed as running before the agent is called, and ends by   *)
(* one more commit: with its result (and the draft email, when there is    *)
(* one), or with a system error when the agent raises, the result is not   *)
(* valid or that commit fails.  No transaction is open while the agent     *)
(* works.                                                                  *)
(*                                                                         *)
(* Left out: the lead a run is about, telemetry and texts.                 *)
(***************************************************************************)
CONSTANTS Runs, NoValue

VARIABLES
    runStatus,     \* status of each run in the database, or NoValue
    retryOf,    \* the run it repeats
    email,      \* whether a draft email refers to it
    stage,      \* how far its execution is
    outcome,    \* what the agent returned
    told        \* how execute_agent_run ended for its caller

rows == <<runStatus, retryOf, email>>
runVars == <<rows, stage, outcome, told>>

(***************************************************************************)
(* State.                                                                  *)
(***************************************************************************)
Terminal == {"generated", "insufficient_context", "provider_error", "system_error"}
Results == (Terminal \ {"system_error"}) \cup {"generated_without_draft"}
ASSUME NullIsNoValue == NoValue \notin Runs \cup Terminal \cup {"running"}
RunStages == {"none", "opened", "generating", "answered", "erring", "ended"}

RunInit ==
    /\ runStatus = [r \in Runs |-> NoValue]
    /\ retryOf = [r \in Runs |-> NoValue]
    /\ email = [r \in Runs |-> FALSE]
    /\ stage = [r \in Runs |-> "none"]
    /\ outcome = [r \in Runs |-> NoValue]
    /\ told = [r \in Runs |-> NoValue]

(***************************************************************************)
(* The execution.                                                          *)
(***************************************************************************)
RunMoves(r, from, to) == stage[r] = from /\ stage' = [stage EXCEPT ![r] = to]
Tells(r, what) == told' = [told EXCEPT ![r] = what]

(* The row is added; only a run that has ended can be retried.             *)
Opens(r, previous) ==
    /\ RunMoves(r, "none", "opened")
    /\ previous # NoValue => runStatus[previous] \in Terminal
    /\ retryOf' = [retryOf EXCEPT ![r] = previous]
    /\ UNCHANGED <<runStatus, email, outcome, told>>

Initialized(r) ==
    /\ RunMoves(r, "opened", "generating")
    /\ runStatus' = [runStatus EXCEPT ![r] = "running"]
    /\ UNCHANGED <<retryOf, email, outcome, told>>

InitializationFails(r) ==
    /\ RunMoves(r, "opened", "ended")
    /\ Tells(r, "persistence_error")
    /\ UNCHANGED <<rows, outcome>>

(* The agent raises, or returns one of its statuses; "generated" without a *)
(* subject and a body is not a valid result.                               *)
AgentRaises(r) ==
    /\ RunMoves(r, "generating", "erring")
    /\ UNCHANGED <<rows, outcome, told>>

\* Mutant of AgentReturns: a generated result is not checked for its draft.
AgentReturnsUnchecked(r, result) ==
    /\ RunMoves(r, "generating", "answered")
    /\ outcome' = [outcome EXCEPT ![r] = result]
    /\ UNCHANGED <<rows, told>>
AgentReturns(r, result) ==
    /\ RunMoves(r, "generating", IF result \in Terminal THEN "answered" ELSE "erring")
    /\ outcome' = [outcome EXCEPT ![r] = result]
    /\ UNCHANGED <<rows, told>>

(* The terminal row and its email are one commit.                          *)
Stores(r) ==
    /\ runStatus[r] = "running"
    /\ runStatus' = [runStatus EXCEPT ![r] = outcome[r]]
    /\ email' = [email EXCEPT ![r] = outcome[r] = "generated"]
    /\ UNCHANGED retryOf

Persist(r) ==
    /\ RunMoves(r, "answered", "ended")
    /\ Stores(r) /\ Tells(r, "completed")
    /\ UNCHANGED outcome

(* The commit fails and is rolled back, or it succeeds and its             *)
(* acknowledgement is lost: the service cannot tell which.                 *)
PersistFails(r) ==
    /\ RunMoves(r, "answered", "erring")
    /\ UNCHANGED rows \/ Stores(r)
    /\ UNCHANGED <<outcome, told>>

(* _persist_system_error leaves a run alone that is no longer running.     *)
\* Mutant of SystemError: the status of the run is not looked at.
SystemErrorAlways(r) == runStatus' = [runStatus EXCEPT ![r] = "system_error"]
SystemError(r) ==
    runStatus' = IF runStatus[r] = "running" THEN [runStatus EXCEPT ![r] = "system_error"] ELSE runStatus

RecordError(r) ==
    /\ RunMoves(r, "erring", "ended")
    /\ SystemError(r) /\ Tells(r, "system_error")
    /\ UNCHANGED <<retryOf, email, outcome>>

RecordErrorFails(r) ==
    /\ RunMoves(r, "erring", "ended")
    /\ Tells(r, "persistence_error")
    /\ UNCHANGED <<rows, outcome>>

Crash(r) ==
    /\ stage[r] \in {"opened", "generating", "answered", "erring"}
    /\ stage' = [stage EXCEPT ![r] = "ended"]
    /\ UNCHANGED <<rows, outcome, told>>

Executes(r) ==
    \/ \E previous \in Runs \cup {NoValue} : Opens(r, previous)
    \/ Initialized(r) \/ InitializationFails(r)
    \/ AgentRaises(r) \/ \E result \in Results : AgentReturns(r, result)
    \/ Persist(r) \/ PersistFails(r) \/ RecordError(r) \/ RecordErrorFails(r)
    \/ Crash(r)

RunNext == \E r \in Runs : Executes(r)

RunSpec == RunInit /\ [][RunNext]_runVars

(***************************************************************************)
(* Properties.                                                             *)
(***************************************************************************)
RunTypeOK ==
    /\ runStatus \in [Runs -> Terminal \cup {"running", NoValue}]
    /\ retryOf \in [Runs -> Runs \cup {NoValue}]
    /\ email \in [Runs -> BOOLEAN]
    /\ stage \in [Runs -> RunStages]
    /\ outcome \in [Runs -> Results \cup {NoValue}]
    /\ told \in [Runs -> {"completed", "system_error", "persistence_error", NoValue}]

(* A run has a draft email exactly when it ended as generated, also when   *)
(* the commit that stored both seemed to fail.                             *)
DraftIffGenerated == \A r \in Runs : email[r] <=> runStatus[r] = "generated"

(* A run that has ended keeps its status for good.                         *)
TerminalIsFinal ==
    [][\A r \in Runs : runStatus[r] \in Terminal => runStatus'[r] = runStatus[r]]_runVars

(* What is recorded of a run is true and stays so: a draft exactly for a   *)
(* generated result, and no second verdict.                                *)
RunsAreTruthful == [](RunTypeOK /\ DraftIffGenerated) /\ TerminalIsFinal
=============================================================================
