----------------------------- MODULE MCServices -----------------------------
(***************************************************************************)
(* Small instances of the components that share no state with each other,  *)
(* for TLC.  service names the component a behaviour is about; it is       *)
(* chosen at the beginning and never changes, and the variables of the     *)
(* other components keep their first value.  So the behaviours are those   *)
(* of the components, side by side: a property of one of them holds here   *)
(* exactly when it holds of that component alone.                          *)
(*                                                                         *)
(*   feed        the feeds of two scopes that share an identifier          *)
(*   runs        executions and retries of agent runs                      *)
(*   history     the list of agent runs, page by page                      *)
(*   chat        posts to and deletions of two chat sessions               *)
(*   documents   uploads and deletions of strategy documents               *)
(*   enrolment   access requests, their review and password resets         *)
(*   sign_in     sessions, with everything that revokes them               *)
(*   identity    Google sign-in of two accounts and two identities         *)
(*   agent       one attempt of the agent                                  *)
(*   locks       the transactions that lock rows, by the casts of          *)
(*               MCRowLocks                                                *)
(***************************************************************************)
EXTENDS AgentRuns, RunHistory, Chat, FeedIngestion, Documents, AgentWorkflow,
        MCRowLocks

CONSTANTS
    Wharf,      \* what both spellings of a project mean
    Callers     \* concurrent calls that change accounts

VARIABLES
    service,
    user, resets, request, sessions, mailed, secret, call, newest, uses, revoked

(***************************************************************************)
(* The instances.                                                          *)
(***************************************************************************)
MCNames == {"wharf", "WHARF", " "}
MCCanonical == [n \in MCNames |-> IF n = " " THEN Null ELSE Wharf]

NamedRow(id, st) == [id |-> id, name |-> "wharf", status |-> st]
SharedFeeds ==
    UNION {{<<NamedRow(i, st)>> : i \in Ids, st \in {"active", "deleted"}},
           {<<NamedRow(i, "deleted"), NamedRow(i, "active")>> : i \in Ids}}

Enrolment == INSTANCE Accounts WITH
    Emails <- {"ann"}, Subjects <- {"s1"}, Calls <- Callers,
    Operations <- {"enrol", "reset", "admin"},
    MaxSecrets <- 3, MaxRequests <- 2, MaxVersion <- 1
SignIn == INSTANCE Accounts WITH
    Emails <- {"ann"}, Subjects <- {"s1"}, Calls <- Callers,
    Operations <- {"password", "reset", "admin"},
    MaxSecrets <- 4, MaxRequests <- 0, MaxVersion <- 2
Google == INSTANCE Accounts WITH
    Emails <- {"ann", "bob"}, Subjects <- {"s1", "s2"}, Calls <- Callers,
    Operations <- {"google", "logout", "admin"},
    MaxSecrets <- 0, MaxRequests <- 0, MaxVersion <- 1

(* Answers by id, by alias, across families and below the confidence       *)
(* limit; leads with no, one, tied and conflicting routing evidence.       *)
Answer(family, application, confident) ==
    [family |-> family, application |-> application, confident |-> confident]
ModelAnswers ==
    {Answer("accoya_wood", "bridges", TRUE),
     Answer("Accoya", "deck", TRUE),
     Answer("Tricoya MDF", "soffits", TRUE),
     Answer("Accoya", "soffits", TRUE),
     Answer("plywood", "standard_decking", TRUE),
     Answer("accoya_wood", "standard_decking", FALSE)}

LeadText(evidence, phase) == [evidence |-> evidence, stage |-> phase]
SomeLeads ==
    {LeadText({}, "planning"),
     LeadText({"deck"}, "specification"),
     LeadText({"siding", "window", "door"}, "procurement"),
     LeadText({"deck_material", "grey_siding", "siding"}, "unknown"),
     LeadText({"deck_material", "deck", "panel"}, "unknown")}

ModelDrafts ==
    {<<"accoya_wood", "bridges">>, <<"accoya_wood", "standard_decking">>,
     <<"accoya_wood", "exterior_wooden_doors">>,
     <<"accoya_wood", "fascias_soffits">>, <<"Accoya", "deck">>,
     <<"accoya_color_grey", "color_grey_siding_cladding">>,
     <<"tricoya_panels", "exterior_mdf_panels">>,
     <<"tricoya_panels", "fascias_soffits">>}

ModelFamilies == {<<"Accoya", "accoya_wood">>, <<"Tricoya MDF", "tricoya_panels">>}
ModelApplications == {<<"deck", "standard_decking">>, <<"soffits", "fascias_soffits">>}
ModelChunks == {<<>>, <<"d1">>}

(* Calls differ in nothing but their name.                                 *)
CallersAlike == Permutations(Callers)

ASSUME /\ AliasesNameOneFamily /\ AttemptsPositive /\ NothingIsNothing
       /\ Enrolment!AccountsAssumption /\ SignIn!AccountsAssumption
       /\ Google!AccountsAssumption

(***************************************************************************)
(* The components side by side.                                            *)
(***************************************************************************)
Services == {"feed", "runs", "history", "chat", "documents", "enrolment",
             "sign_in", "identity", "agent", "locks"}

Init ==
    /\ service \in Services
    /\ FeedInit
    /\ service = "feed" \/ source = [s \in Scopes |-> [rows |-> CHOOSE f \in Feeds : TRUE,
                                                      version |-> 0]]
    /\ RunInit /\ HistoryInit /\ ChatInit
    /\ CASE service = "sign_in"  -> SignIn!Init
         [] service = "identity" -> Google!Init
         [] OTHER                -> Enrolment!Init
    /\ FilesInit
    /\ AttemptInit
    /\ service = "agent" \/ /\ setup.model /\ setup.retriever
                            /\ lead = LeadText({}, "planning")
    /\ CastInit
    /\ service = "locks" \/ /\ cast = Crossing
                            /\ \A l \in Lead : gen[l] = "done" /\ del[l] = "none"

accounts == <<user, resets, request, sessions, mailed, secret, call, newest, uses,
              revoked>>
locks == <<cast, lockVars>>

Next ==
    /\ UNCHANGED service
    /\ \/ /\ service = "feed" /\ FeedNext
          /\ UNCHANGED <<runVars, historyVars, chatVars, fileVars, attemptVars, accounts, locks>>
       \/ /\ service = "runs" /\ RunNext
          /\ UNCHANGED <<feedVars, historyVars, chatVars, fileVars, attemptVars, accounts, locks>>
       \/ /\ service = "history" /\ HistoryNext
          /\ UNCHANGED <<feedVars, runVars, chatVars, fileVars, attemptVars, accounts, locks>>
       \/ /\ service = "chat" /\ ChatNext
          /\ UNCHANGED <<feedVars, runVars, historyVars, fileVars, attemptVars, accounts, locks>>
       \/ /\ service = "documents" /\ FilesNext
          /\ UNCHANGED <<feedVars, runVars, historyVars, chatVars, attemptVars, accounts, locks>>
       \/ /\ service = "agent" /\ AttemptNext
          /\ UNCHANGED <<feedVars, runVars, historyVars, chatVars, fileVars, accounts, locks>>
       \/ /\ \/ service = "enrolment" /\ Enrolment!Next
             \/ service = "sign_in" /\ SignIn!Next
             \/ service = "identity" /\ Google!Next
          /\ UNCHANGED <<feedVars, runVars, historyVars, chatVars, fileVars, attemptVars, locks>>
       \/ /\ service = "locks" /\ CastNext
          /\ UNCHANGED <<feedVars, runVars, historyVars, chatVars, fileVars, attemptVars,
                         accounts>>

Spec == Init /\ [][Next]_<<service, feedVars, runVars, historyVars, chatVars, fileVars,
                           attemptVars, accounts, locks>>

(***************************************************************************)
(* Properties: those of the components, each for its services.             *)
(***************************************************************************)
Of(ss, property) == service \in ss => property

(* Credentials: a mailed link works while it is the newest, and once; what *)
(* was signed out, suspended or revoked is never accepted again; a session *)
(* ends with the password it was opened with; an identity belongs to one   *)
(* account; and an access request is decided once.                         *)
CredentialsHold ==
    /\ [](/\ Of({"enrolment"}, Enrolment!ResetIsCurrent)
          /\ Of({"enrolment"}, Enrolment!ResetIsSingleUse)
          /\ Of({"sign_in"}, SignIn!ResetIsSingleUse)
          /\ Of({"sign_in"}, SignIn!RevokedStaysRevoked)
          /\ Of({"identity"}, Google!RevokedStaysRevoked)
          /\ Of({"sign_in"}, SignIn!PasswordOpensOwnSessions)
          /\ Of({"identity"}, Google!IdentityIsPersonal))
    /\ [][Of({"enrolment"}, Enrolment!DecisionIsFinal)]_accounts
=============================================================================
