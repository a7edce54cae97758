---------------------------- MODULE AgentWorkflow ----------------------------
(***************************************************************************)
(* One generation attempt: the agent's fixed graph analyze_lead ->         *)
(* retrieve_strategy -> compose_email (agent/workflow.py) run by a queue   *)
(* worker that waits for it with a deadline and records its result         *)
(* (execute_claimed_job).  The model provider and the knowledge base may   *)
(* answer, answer badly, be overloaded or fail at every call; `requests'   *)
(* is what the two providers receive.                                      *)
(*                                                                         *)
(* Abstracted: prompts, texts, token counts and timings.  A lead is the    *)
(* set of routing patterns its text matches and its project stage.         *)
(***************************************************************************)
EXTENDS Integers, Sequences, FiniteSets, SequencesExt

CONSTANTS
    FamilyAliases,       \* <<text, family id>>: display names and aliases
    ApplicationAliases,  \* <<text, application id>>: the same for applications
    Selections,          \* what the model may select: names, not always ids
    Drafts,              \* the pairs of names a draft may claim to be about
    LeadTexts,           \* [evidence: a set of patterns, stage]
    Chunks,              \* the result lists the knowledge base may return
    MaxAttempts,         \* max_attempts of _invoke_with_retry
    Nothing              \* None: no selection, route, draft or error code

(* Aliases of one text lead to one family: _build_family_aliases keeps the *)
(* last one only.                                                          *)
AliasesNameOneFamily ==
    \A x, y \in FamilyAliases : x[1] = y[1] => x[2] = y[2]
AttemptsPositive == MaxAttempts \in Nat \ {0}

(***************************************************************************)
(* The catalog (agent/catalog.py): the canonical ids.                      *)
(***************************************************************************)
AccoyaWood ==
    [id |-> "accoya_wood",
     applications |->
        <<"standard_decking", "pool_decking", "rooftop_decking", "deck_stairs",
          "elevated_walkways", "boardwalks_pedestrian_decking",
          "standard_siding", "charred_shou_sugi_ban_siding",
          "rainscreen_siding", "brise_soleil", "louvres_shade_screens",
          "general_wooden_windows", "bay_windows", "sash_windows",
          "casement_windows", "window_shutters", "exterior_wooden_doors",
          "front_entrance_doors", "garage_doors", "bifold_doors",
          "french_doors", "bridges", "landscape_boardwalks", "garden_rooms",
          "conservatories", "gates", "outdoor_furniture", "planters",
          "fencing_railings", "structures_sculptures",
          "freshwater_specialist_exterior">>]

AccoyaColorGrey ==
    [id |-> "accoya_color_grey",
     applications |-> <<"color_grey_decking", "grey_pool_decking",
                        "color_grey_siding_cladding">>]

TricoyaPanels ==
    [id |-> "tricoya_panels",
     applications |->
        <<"exterior_mdf_panels", "exterior_doors_door_components",
          "siding_facades", "exterior_paneling", "mouldings_trim",
          "fascias_soffits", "signage", "routed_cnc_exterior_components",
          "painted_large_format_exterior_panels">>]

Catalog == <<AccoyaWood, AccoyaColorGrey, TricoyaPanels>>

CatalogPairs ==
    UNION {{f.id} \X ToSet(f.applications) : f \in ToSet(Catalog)}

(* None is no catalog entry and no error code.                             *)
NothingIsNothing ==
    Nothing \notin CatalogPairs /\ Nothing # "limited_context_best_effort"

(* get_family: an id, a display name or an alias.                          *)
GetFamily(name) ==
    LET found == {f \in {g.id : g \in ToSet(Catalog)} :
                     f = name \/ <<name, f>> \in FamilyAliases}
    IN  IF found = {} THEN Nothing ELSE CHOOSE f \in found : TRUE

(* get_application: the one application of the family with that name.      *)
GetApplication(name, family) ==
    LET found == {p \in CatalogPairs :
                     /\ p[1] = family
                     /\ p[2] = name \/ <<name, p[2]>> \in ApplicationAliases}
    IN  IF Cardinality(found) = 1 THEN (CHOOSE p \in found : TRUE)[2] ELSE Nothing

(* application_belongs_to_family resolves both names again.                *)
Belongs(family, application) ==
    /\ GetFamily(family) # Nothing
    /\ GetApplication(application, GetFamily(family)) # Nothing

(***************************************************************************)
(* Routing hints (agent/routing.py).  A rule fires when the lead's text    *)
(* matches all the patterns it needs.                                      *)
(***************************************************************************)
Rule(needs, family, application, priority) ==
    [needs |-> needs, pair |-> <<family, application>>, priority |-> priority]

RoutingRules ==
    {Rule({"grey_deck"}, "accoya_color_grey", "color_grey_decking", 100),
     Rule({"grey_siding"}, "accoya_color_grey", "color_grey_siding_cladding", 100),
     Rule({"panel"}, "tricoya_panels", "exterior_mdf_panels", 95),
     Rule({"deck_material", "deck"}, "accoya_wood", "standard_decking", 90),
     Rule({"deck"}, "accoya_wood", "standard_decking", 80),
     Rule({"siding"}, "accoya_wood", "standard_siding", 75),
     Rule({"window"}, "accoya_wood", "general_wooden_windows", 75),
     Rule({"door"}, "accoya_wood", "exterior_wooden_doors", 75)}

(* The tie break: the pairs in the order of their ids.                     *)
Alphabetical ==
    <<<<"accoya_color_grey", "color_grey_decking">>,
      <<"accoya_color_grey", "color_grey_siding_cladding">>,
      <<"accoya_wood", "exterior_wooden_doors">>,
      <<"accoya_wood", "general_wooden_windows">>,
      <<"accoya_wood", "standard_decking">>,
      <<"accoya_wood", "standard_siding">>,
      <<"tricoya_panels", "exterior_mdf_panels">>>>

Position(pair) == CHOOSE i \in DOMAIN Alphabetical : Alphabetical[i] = pair

Candidates(evidence) ==
    {r \in RoutingRules : r.needs \subseteq evidence /\ Belongs(r.pair[1], r.pair[2])}

\* Mutant of ComesBefore: the hints are sorted by their ids alone.
ComesBeforeById(r, s) == Position(r.pair) < Position(s.pair)
ComesBefore(r, s) ==
    \/ r.priority > s.priority
    \/ /\ r.priority = s.priority
       /\ Position(r.pair) < Position(s.pair)

(* get_routing_hints(lead)[0], or Nothing when the list is empty.          *)
FirstHint(evidence) ==
    IF Candidates(evidence) = {} THEN Nothing
    ELSE (CHOOSE r \in Candidates(evidence) :
             \A s \in Candidates(evidence) : ~ComesBefore(s, r)).pair

(***************************************************************************)
(* Selections.                                                             *)
(***************************************************************************)
LowConfidence == [status |-> "low_confidence", pair |-> Nothing]
Selected(pair) == [status |-> "selected", pair |-> pair]

(* _normalize_selection: a confident answer that names one catalog pair    *)
(* becomes that pair's ids, everything else low confidence.                *)
\* Mutant of Normalized: the application is looked up in the whole catalog.
NormalizedAnywhere(answer) ==
    LET family == GetFamily(answer.family)
        apps == {p[2] : p \in {q \in CatalogPairs :
                    q[2] = answer.application
                    \/ <<answer.application, q[2]>> \in ApplicationAliases}}
    IN  IF answer.confident /\ family # Nothing /\ Cardinality(apps) = 1
        THEN Selected(<<family, CHOOSE a \in apps : TRUE>>)
        ELSE LowConfidence
Normalized(answer) ==
    LET family == GetFamily(answer.family)
        application == GetApplication(answer.application, family)
    IN  IF /\ answer.confident
           /\ family # Nothing
           /\ application # Nothing
           /\ Belongs(family, application)
        THEN Selected(<<family, application>>)
        ELSE LowConfidence

(* _fallback_selection_from_hints.                                         *)
FromHints(evidence) ==
    IF FirstHint(evidence) = Nothing THEN LowConfidence
    ELSE Selected(FirstHint(evidence))

(* _compose_selection_for_low_context: the strongest hint, else the first  *)
(* application of the first family.                                        *)
BestEffort(evidence) ==
    IF FirstHint(evidence) # Nothing THEN Selected(FirstHint(evidence))
    ELSE Selected(<<Catalog[1].id, Catalog[1].applications[1]>>)

(* _fallback_nurturing_route, by project stage.                            *)
StageRoute(stage) ==
    CASE stage = "planning"      -> 1
      [] stage = "specification" -> 3
      [] stage = "procurement"   -> 6
      [] OTHER                   -> 2

(***************************************************************************)
(* The attempt.                                                            *)
(***************************************************************************)
VARIABLES
    lead,       \* the normalized lead
    setup,      \* what is configured: the model, the knowledge base
    node,       \* the call the graph is at
    attempt,    \* attempts of the current model call
    state,      \* AgentState
    requests,   \* what the providers received, in order
    result,     \* GenerationResult, Nothing until the graph ends
    recorded    \* the job: "running", or its terminal status and error code

attemptVars == <<lead, setup, node, attempt, state, requests, result, recorded>>

ModelCalls == {"analysis", "route", "draft"}
Nodes == {"analysis", "strategy", "route", "template", "draft", "end"}
WarningCodes == {"low_confidence", "hint_fallback", "no_fallback",
                 "strategy_unavailable", "route_fallback",
                 "template_unavailable", "limited_context",
                 "draft_failed", "mismatch"}

NewState ==
    [selection |-> Nothing, route |-> Nothing, strategy |-> <<>>, template |-> <<>>,
     warnings |-> {}, error |-> FALSE, calls |-> 0, documents |-> <<>>]

Running == [status |-> "running", code |-> Nothing]

AttemptInit ==
    /\ lead \in LeadTexts
    /\ setup \in [model : BOOLEAN, retriever : BOOLEAN]
    /\ node = "analysis"
    /\ attempt = 1
    /\ state = NewState
    /\ requests = <<>>
    /\ result = Nothing
    /\ recorded = Running

Request(about) == Append(requests, [call |-> node, about |-> about])

(* The pair the draft must be about.                                       *)
ComposeSelection ==
    IF state.selection.status = "selected" THEN state.selection
    ELSE BestEffort(lead.evidence)

(* What a model call asks about, for the log of requests.                  *)
Subject ==
    IF node = "draft" THEN ComposeSelection.pair
    ELSE IF node = "route" THEN state.selection.pair ELSE Nothing

(* A call of the model was made (or refused by the placeholder of an       *)
(* unconfigured model, which makes no request) and the graph goes on.      *)
Asked(next) ==
    /\ requests' = IF setup.model THEN Request(Subject) ELSE requests
    /\ node' = next
    /\ attempt' = 1

(* _invoke_with_retry: a transient error is retried after a delay.         *)
\* Mutant of Overloaded: overload is retried until it passes.
OverloadedForever ==
    /\ node \in ModelCalls /\ setup.model
    /\ ~(node = "draft" /\ state.error)
    /\ attempt' = IF attempt < MaxAttempts THEN attempt + 1 ELSE 1
    /\ UNCHANGED <<lead, setup, node, state, requests, result, recorded>>
Overloaded ==
    /\ node \in ModelCalls /\ setup.model
    /\ ~(node = "draft" /\ state.error)
    /\ attempt < MaxAttempts
    /\ attempt' = attempt + 1
    /\ requests' = Request(Subject)
    /\ UNCHANGED <<lead, setup, node, state, result, recorded>>

(* _analyze_lead.                                                          *)
AnalysisAnswers(answer) ==
    LET selection == Normalized(answer)
    IN  /\ node = "analysis" /\ setup.model
        /\ Asked("strategy")
        /\ state' = [state EXCEPT
                        !.selection = selection,
                        !.calls = @ + 1,
                        !.warnings = @ \cup {w \in {"low_confidence"} :
                                         selection.status = "low_confidence"}]
        /\ UNCHANGED <<lead, setup, result, recorded>>

AnalysisFails ==
    LET selection == FromHints(lead.evidence)
        usable == selection.status = "selected"
    IN  /\ node = "analysis"
        /\ Asked("strategy")
        /\ state' = [state EXCEPT
                        !.selection = selection,
                        !.error = ~usable,
                        !.calls = @ + 1,
                        !.warnings = @ \cup {IF usable THEN "hint_fallback"
                                             ELSE "no_fallback"}]
        /\ UNCHANGED <<lead, setup, result, recorded>>

(* _retrieve_strategy.  Without a selection it makes no call.              *)
\* Mutant of NoRetrieval: only a low confidence answer stops the retrieval.
NoRetrievalUnlessFailed == ~state.error /\ state.selection.status = "low_confidence"
NoRetrieval == state.error \/ state.selection.status = "low_confidence"

SkipRetrieval ==
    /\ node = "strategy" /\ NoRetrieval
    /\ node' = "draft"
    /\ UNCHANGED <<lead, setup, attempt, state, requests, result, recorded>>

(* A result list, empty when the knowledge base has nothing or fails; not  *)
(* asked at all when it is not configured.                                 *)
Retrieved(chunks, about) ==
    /\ ~setup.retriever => chunks = <<>>
    /\ requests' = IF setup.retriever THEN Request(about) ELSE requests

\* Mutant of Warns: only a failure is worth a warning, no results are not.
WarnsOnFailure(chunks, code) ==
    {w \in {code} : chunks = <<>> /\ ~setup.retriever}
Warns(chunks, code) == {w \in {code} : chunks = <<>>}

RetrieveStrategy(chunks) ==
    /\ node = "strategy" /\ ~NoRetrieval
    /\ Retrieved(chunks, state.selection.pair)
    /\ state' = [state EXCEPT
                    !.strategy = chunks,
                    !.warnings = @ \cup Warns(chunks, "strategy_unavailable")]
    /\ node' = "route"
    /\ UNCHANGED <<lead, setup, attempt, result, recorded>>

RouteAnswers(number) ==
    /\ node = "route" /\ setup.model
    /\ Asked("template")
    /\ state' = [state EXCEPT !.route = number, !.calls = @ + 1]
    /\ UNCHANGED <<lead, setup, result, recorded>>

\* Mutant of RouteFails: only answered calls are counted.
RouteFailsUncounted ==
    /\ node = "route"
    /\ Asked("template")
    /\ state' = [state EXCEPT !.route = StageRoute(lead.stage),
                              !.warnings = @ \cup {"route_fallback"}]
    /\ UNCHANGED <<lead, setup, result, recorded>>
RouteFails ==
    /\ node = "route"
    /\ Asked("template")
    /\ state' = [state EXCEPT !.route = StageRoute(lead.stage),
                              !.calls = @ + 1,
                              !.warnings = @ \cup {"route_fallback"}]
    /\ UNCHANGED <<lead, setup, result, recorded>>

(* The template query is derived from the route's number, whatever query   *)
(* the model proposed with it.                                             *)
RetrieveTemplate(chunks) ==
    /\ node = "template"
    /\ Retrieved(chunks, state.route)
    /\ state' = [state EXCEPT
                    !.template = chunks,
                    !.documents = state.strategy \o chunks,
                    !.warnings = @ \cup Warns(chunks, "template_unavailable")]
    /\ node' = "draft"
    /\ UNCHANGED <<lead, setup, attempt, result, recorded>>

(***************************************************************************)
(* _compose_email.                                                         *)
(***************************************************************************)
LimitedContext == {w \in {"limited_context"} :
                      state.selection.status = "low_confidence" /\ ~state.error}

(* _result: a result without a draft shows the selection of the analysis.  *)
ResultOf(status, pair, draft, calls, warnings) ==
    [status |-> status, pair |-> pair, draft |-> draft, calls |-> calls,
     route |-> state.route, documents |-> state.documents,
     warnings |-> state.warnings \cup warnings]

(* The analysis failed and left nothing to write about.                    *)
ComposeRefuses ==
    /\ node = "draft" /\ state.error
    /\ node' = "end"
    /\ result' = ResultOf("provider_error", state.selection.pair, Nothing,
                          state.calls, {})
    /\ UNCHANGED <<lead, setup, attempt, state, requests, recorded>>

(* A draft about another pair than the selected ids is not used.           *)
IsAbout(draft) == draft = ComposeSelection.pair

DraftAnswers(draft) ==
    /\ node = "draft" /\ ~state.error /\ setup.model
    /\ Asked("end")
    /\ result' = IF IsAbout(draft)
                 THEN ResultOf("generated", ComposeSelection.pair, draft,
                               state.calls + 1, LimitedContext)
                 ELSE ResultOf("provider_error", state.selection.pair, Nothing,
                               state.calls + 1, LimitedContext \cup {"mismatch"})
    /\ UNCHANGED <<lead, setup, state, recorded>>

DraftFails ==
    /\ node = "draft" /\ ~state.error
    /\ Asked("end")
    /\ result' = ResultOf("provider_error", state.selection.pair, Nothing,
                          state.calls + 1, LimitedContext \cup {"draft_failed"})
    /\ UNCHANGED <<lead, setup, state, recorded>>

(***************************************************************************)
(* The queue worker (_invoke_agent, execute_claimed_job).  At the deadline *)
(* it gives up; the graph runs on in its thread and nobody takes its       *)
(* result.                                                                 *)
(***************************************************************************)
TimesOut ==
    /\ recorded = Running /\ result = Nothing
    /\ recorded' = [status |-> "system_error", code |-> "provider_timeout"]
    /\ UNCHANGED <<lead, setup, node, attempt, state, requests, result>>

(* _result_status, and the error code _finalize_result stores with it.     *)
\* Mutant of RecordedAs: the code of a best-effort draft is cleared with
\* the other codes of a generated result.
RecordedPlainly(r) ==
    [status |-> r.status,
     code |-> IF r.status = "generated" THEN Nothing ELSE r.status]
RecordedAs(r) ==
    [status |-> r.status,
     code |-> IF r.status # "generated" THEN r.status
              ELSE IF "limited_context" \in r.warnings
              THEN "limited_context_best_effort" ELSE Nothing]

RecordResult ==
    /\ recorded = Running /\ result # Nothing
    /\ recorded' = RecordedAs(result)
    /\ UNCHANGED <<lead, setup, node, attempt, state, requests, result>>

AnalysisNext == AnalysisFails \/ \E answer \in Selections : AnalysisAnswers(answer)
RetrievalNext ==
    \/ SkipRetrieval
    \/ \E chunks \in Chunks : RetrieveStrategy(chunks) \/ RetrieveTemplate(chunks)
    \/ RouteFails
    \/ \E number \in 1..7 : RouteAnswers(number)
ComposeNext ==
    \/ ComposeRefuses
    \/ DraftFails
    \/ \E draft \in Drafts : DraftAnswers(draft)
AgentNext == AnalysisNext \/ RetrievalNext \/ ComposeNext \/ Overloaded

AttemptNext == AgentNext \/ TimesOut \/ RecordResult

(* Every call returns or raises, and the worker takes what is in the queue *)
(* or its deadline passes.                                                 *)
AttemptFairness == WF_attemptVars(AgentNext) /\ WF_attemptVars(RecordResult)

AttemptSpec == AttemptInit /\ [][AttemptNext]_attemptVars
FairAttemptSpec == AttemptSpec /\ AttemptFairness

(***************************************************************************)
(* Properties.                                                             *)
(***************************************************************************)
Asks(call) == {i \in DOMAIN requests : requests[i].call = call}

(* Types, with the graph's budget: at most three model calls are counted.  *)
AttemptTypeOK ==
    /\ node \in Nodes
    /\ attempt \in 1..MaxAttempts
    /\ state.selection \in {Nothing, LowConfidence}
                          \cup {Selected(p) : p \in CatalogPairs}
    /\ state.route \in {Nothing} \cup 1..7
    /\ state.warnings \subseteq WarningCodes
    /\ state.calls \in 0..3
    /\ result # Nothing => result.status \in {"generated", "provider_error"}

(* What is stored as a generated email is about one pair of the catalog,   *)
(* the pair the composer was asked to write about, whatever names the      *)
(* model used along the way.                                               *)
GeneratedIsCanonical ==
    result # Nothing /\ result.status = "generated" =>
        /\ result.pair \in CatalogPairs
        /\ result.draft = result.pair
        /\ requests[Len(requests)] = [call |-> "draft", about |-> result.pair]

(* An email written without a usable analysis is about the product that    *)
(* the lead's own text supports most strongly, if it supports any.         *)
GuessIsStrongest ==
    /\ result # Nothing /\ result.status = "generated"
    /\ result.warnings \cap {"hint_fallback", "limited_context"} # {}
    =>  \/ Candidates(lead.evidence) = {}
        \/ \E r \in Candidates(lead.evidence) :
              /\ r.pair = result.pair
              /\ \A s \in Candidates(lead.evidence) : s.priority <= r.priority

(* The result's telemetry counts the calls that reached the model, failed  *)
(* ones included, and its documents are those of the two retrievals, in    *)
(* that order.                                                             *)
TelemetryIsTrue ==
    result # Nothing =>
        /\ setup.model =>
              result.calls = Cardinality({c \in ModelCalls : Asks(c) # {}})
        /\ result.documents = state.strategy \o state.template

(* A failed analysis without any evidence in the lead's text ends the      *)
(* attempt: no other provider call follows.                                *)
FailureStopsEarly ==
    state.error => \A i \in DOMAIN requests : requests[i].call = "analysis"

(* A generated email that lacks one of its two contexts says so in its     *)
(* warnings.                                                               *)
DegradedIsSaid ==
    result # Nothing /\ result.status = "generated" =>
        /\ state.strategy = <<>> =>
              result.warnings \cap {"strategy_unavailable", "limited_context"} # {}
        /\ state.template = <<>> =>
              result.warnings \cap {"template_unavailable", "limited_context"} # {}

(* A stored email carries the best-effort code exactly when the analysis   *)
(* found no product for the lead.                                          *)
BestEffortIsMarked ==
    recorded.status = "generated" =>
        (recorded.code = "limited_context_best_effort"
            <=> state.selection.status = "low_confidence")

(* Every attempt ends, for the graph and for its job, however the          *)
(* providers behave.                                                       *)
AttemptEnds == <>(node = "end" /\ recorded # Running)

(* What an attempt makes of the answers it gets: all of the above.         *)
ResultIsHonest ==
    /\ AttemptTypeOK
    /\ GeneratedIsCanonical
    /\ GuessIsStrongest
    /\ TelemetryIsTrue
    /\ FailureStopsEarly
    /\ DegradedIsSaid
    /\ BestEffortIsMarked
=============================================================================
