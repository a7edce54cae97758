------------------------------ MODULE Accounts ------------------------------
(***************************************************************************)
(* The accounts of the web application: access requests and their review   *)
(* by mail, password resets, sign-in with a password or with Google, and   *)
(* the administrator's command line.  Each handler is one transaction, or  *)
(* several, of a call; a call that holds the lock of a row between two     *)
(* steps keeps every other call off that row.                              *)
(*                                                                         *)
(* A secret is a number, given out once: a password, the token of a reset  *)
(* link, or the token of a pair of review links; 0 is the absence of one.  *)
(* Time passes in actions of its own, which expire a link or a token.      *)
(*                                                                         *)
(* user      the users row of an address: whether there is one, is_active, *)
(*           the password, auth_version and the linked Google identity.    *)
(* resets    password_reset_tokens.                                        *)
(* request   access_requests, in the order of their creation.              *)
(* sessions  session tokens handed out and not yet expired.                *)
(* mailed    tokens that reached a mailbox: review links and reset links.  *)
(* secret    the last secret given out.                                    *)
(* call      what each concurrent call is doing.                           *)
(* newest    history: the last reset token issued for an address.          *)
(* uses      history: how often each reset token set a password.           *)
(* revoked   history: the sessions that existed at a revocation.           *)
(***************************************************************************)
EXTENDS Naturals, FiniteSets, Sequences

CONSTANTS
    Emails,        \* normalized addresses
    Subjects,      \* Google identities
    Calls,         \* concurrent requests and administrator commands
    Operations,    \* the operations in use
    MaxSecrets,    \* bound: secrets given out
    MaxRequests,   \* bound: rows of access_requests
    MaxVersion,    \* bound: revocations of an address
    Null

AllOperations == {"enrol", "reset", "password", "google", "logout", "admin"}

AccountsAssumption ==
    /\ Operations \subseteq AllOperations
    /\ MaxSecrets \in Nat /\ MaxRequests \in Nat /\ MaxVersion \in Nat
    /\ Null \notin Subjects \cup Emails

VARIABLES user, resets, request, sessions, mailed, secret, call,
          newest, uses, revoked

history == <<newest, uses, revoked>>
vars == <<user, resets, request, sessions, mailed, secret, call, history>>

Secrets == 1..MaxSecrets
NoUser  == [exists |-> FALSE, active |-> FALSE, pw |-> 0, version |-> 0,
            sub |-> Null]
Idle    == [phase |-> "idle", email |-> Null, token |-> 0, row |-> 0,
            version |-> 0, pw |-> 0, sub |-> Null]

Phases == {"idle", "looking", "inserting", "mailing_link", "creating",
           "mailing_reset", "resetting", "signing_in", "linking", "linked",
           "leaving", "adding"}
SessionTokens == [email: Emails, version: 0..MaxVersion, pw: 0..MaxSecrets,
                  sub: Subjects \cup {Null}]

TypeOK ==
    /\ user \in [Emails -> [exists: BOOLEAN, active: BOOLEAN,
                            pw: 0..MaxSecrets, version: 0..MaxVersion,
                            sub: Subjects \cup {Null}]]
    /\ resets \subseteq [email: Emails, token: Secrets, expired: BOOLEAN]
    \* uq_access_requests_pending_email, uq_access_requests_token_hash
    /\ \A i, j \in DOMAIN request :
         request[i].status = "pending" /\ request[j].status = "pending" =>
             i = j \/ /\ request[i].email # request[j].email
                      /\ request[i].link # request[j].link
    \* ck_access_requests_status_shape
    /\ \A i \in DOMAIN request : request[i].status = "pending" <=> request[i].link # 0
    /\ sessions \subseteq SessionTokens
    /\ secret \in 0..MaxSecrets
    /\ call \in [Calls -> [phase: Phases, email: Emails \cup {Null},
                           token: 0..MaxSecrets, row: 0..MaxRequests,
                           version: 0..MaxVersion, pw: 0..MaxSecrets,
                           sub: Subjects \cup {Null}]]

Init ==
    /\ user = [e \in Emails |-> NoUser]
    /\ resets = {} /\ request = << >> /\ sessions = {}
    /\ mailed = [links |-> {}, resets |-> {}]
    /\ secret = 0
    /\ call = [c \in Calls |-> Idle]
    /\ newest = [e \in Emails |-> 0]
    /\ uses = [t \in Secrets |-> 0]
    /\ revoked = {}

-----------------------------------------------------------------------------
(* Calls, locks and secrets.                                               *)

Begins(c, phase, e) ==
    /\ call[c].phase = "idle"
    /\ call' = [call EXCEPT ![c] = [Idle EXCEPT !.phase = phase, !.email = e]]

Answers(c) == call' = [call EXCEPT ![c] = Idle]

UserFree(e)    == \A c \in Calls : call[c].phase = "linking" => call[c].email # e
\* Mutant of RequestFree: the row of a request is not locked.
RequestOpen(i) == TRUE

RequestFree(i) == \A c \in Calls : call[c].phase = "creating" => call[c].row # i

Pending(e) == {i \in DOMAIN request : request[i].email = e
                                      /\ request[i].status = "pending"}

NewSecret == secret < MaxSecrets /\ secret' = secret + 1

Accepted(s) == user[s.email].active /\ user[s.email].version = s.version

\* Mutant of Revokes: the version is left alone.
KeepsVersion(e, f) ==
    /\ user' = [user EXCEPT ![e] = f]
    /\ revoked' = revoked \cup {s \in sessions : s.email = e}

\* The row of e with its version raised, and other columns set by f.
Revokes(e, f) ==
    /\ user[e].version < MaxVersion
    /\ user' = [user EXCEPT ![e] = [f EXCEPT !.version = user[e].version + 1]]
    /\ revoked' = revoked \cup {s \in sessions : s.email = e}

ResetsOf(e) == {t \in resets : t.email = e}

\* A new reset token takes the place of those the account has.
IssuesReset(e, others) ==
    /\ NewSecret
    /\ resets' = others \cup {[email |-> e, token |-> secret', expired |-> FALSE]}
    /\ newest' = [newest EXCEPT ![e] = secret']

MailsReset(c, e) ==
    call' = [call EXCEPT ![c] = [Idle EXCEPT !.phase = "mailing_reset",
                                             !.email = e, !.token = secret']]

-----------------------------------------------------------------------------
(* request_access.                                                         *)

SubmitChecks(c, e) ==
    /\ ~user[e].active
    /\ Begins(c, "looking", e)
    /\ UNCHANGED <<user, resets, request, sessions, mailed, secret, history>>

SubmitLooks(c) ==
    LET e == call[c].email IN
    /\ call[c].phase = "looking"
    /\ \/ /\ Pending(e) = {}
          /\ call' = [call EXCEPT ![c].phase = "inserting"]
          /\ UNCHANGED <<request, secret>>
       \/ \E i \in Pending(e) :
            /\ RequestFree(i)
            /\ \/ request[i].recent /\ Answers(c) /\ UNCHANGED <<request, secret>>
               \/ /\ ~request[i].recent
                  /\ NewSecret
                  /\ request' = [request EXCEPT ![i].link = secret', ![i].expired = FALSE,
                                                ![i].recent = TRUE]
                  /\ call' = [call EXCEPT ![c].phase = "mailing_link",
                                          ![c].token = secret']
    /\ UNCHANGED <<user, resets, sessions, mailed, history>>

\* The unique index turns the second of two simultaneous requests away.
SubmitInserts(c) ==
    LET e == call[c].email IN
    /\ call[c].phase = "inserting"
    /\ \/ Pending(e) # {} /\ Answers(c) /\ UNCHANGED <<request, secret>>
       \/ /\ Pending(e) = {}
          /\ Len(request) < MaxRequests
          /\ NewSecret
          /\ request' = Append(request, [email |-> e, status |-> "pending",
                                         link |-> secret', expired |-> FALSE,
                                         recent |-> TRUE])
          /\ call' = [call EXCEPT ![c].phase = "mailing_link", ![c].token = secret']
    /\ UNCHANGED <<user, resets, sessions, mailed, history>>

\* A mail that cannot be sent leaves what was committed as it is.
MailLink(c) ==
    /\ call[c].phase = "mailing_link"
    /\ \/ mailed' = [mailed EXCEPT !.links = @ \cup {call[c].token}]
       \/ UNCHANGED mailed
    /\ Answers(c)
    /\ UNCHANGED <<user, resets, request, sessions, secret, history>>

MailReset(c) ==
    /\ call[c].phase = "mailing_reset"
    /\ \/ mailed' = [mailed EXCEPT !.resets = @ \cup {call[c].token}]
       \/ UNCHANGED mailed
    /\ Answers(c)
    /\ UNCHANGED <<user, resets, request, sessions, secret, history>>

-----------------------------------------------------------------------------
(* review_access_request: a link that was mailed may be opened at any time *)
(* and any number of times.                                                *)

Decided(i, outcome) ==
    request' = [request EXCEPT ![i].status = outcome, ![i].link = 0]

Grants(e) == [user[e] EXCEPT !.exists = TRUE, !.active = TRUE]

Reviewable(link) == {i \in DOMAIN request : request[i].link = link
                                            /\ request[i].status = "pending"
                                            /\ RequestFree(i)}

ReviewRefuses(link) ==
    \E i \in Reviewable(link) :
      /\ \/ request[i].expired /\ Decided(i, "expired")
         \/ ~request[i].expired /\ Decided(i, "rejected")
      /\ UNCHANGED <<user, resets, sessions, mailed, secret, call, history>>

Approves(c, i) ==
    LET e == request[i].email IN
    /\ user' = [user EXCEPT ![e] = Grants(e)]
    /\ IssuesReset(e, resets \ ResetsOf(e))
    /\ Decided(i, "approved")
    /\ MailsReset(c, e)
    /\ UNCHANGED <<sessions, mailed, uses, revoked>>

ReviewApproves(c, link) ==
    \E i \in Reviewable(link) :
      /\ call[c].phase = "idle" /\ ~request[i].expired
      /\ UserFree(request[i].email)
      /\ \/ user[request[i].email].exists /\ Approves(c, i)
         \/ /\ ~user[request[i].email].exists
            /\ call' = [call EXCEPT ![c] = [Idle EXCEPT !.phase = "creating", !.row = i,
                                                        !.email = request[i].email]]
            /\ UNCHANGED <<user, resets, request, sessions, mailed, secret, history>>

\* uq_users_email: an account made meanwhile undoes the whole review.
ReviewCreates(c) ==
    /\ call[c].phase = "creating"
    /\ \/ ~user[call[c].email].exists /\ Approves(c, call[c].row)
       \/ /\ user[call[c].email].exists
          /\ Answers(c)
          /\ UNCHANGED <<user, resets, request, sessions, mailed, secret, history>>

-----------------------------------------------------------------------------
(* forgot_password and reset_password.                                     *)

\* Mutant of ForgotPassword: earlier tokens stay.
ForgotAgain(c, e) ==
    /\ call[c].phase = "idle"
    /\ UserFree(e)
    /\ user[e].active /\ user[e].pw # 0
    /\ IssuesReset(e, resets)
    /\ MailsReset(c, e)
    /\ UNCHANGED <<user, request, sessions, mailed, uses, revoked>>

ForgotPassword(c, e) ==
    /\ call[c].phase = "idle"
    /\ UserFree(e)
    /\ user[e].active /\ user[e].pw # 0
    /\ IssuesReset(e, resets \ ResetsOf(e))
    /\ MailsReset(c, e)
    /\ UNCHANGED <<user, request, sessions, mailed, uses, revoked>>

\* The candidate is looked up before the account is locked.
ResetLooksUp(c, token) ==
    \E t \in resets :
      /\ t.token = token
      /\ call[c].phase = "idle"
      /\ call' = [call EXCEPT ![c] = [Idle EXCEPT !.phase = "resetting",
                                                  !.email = t.email, !.token = token]]
      /\ UNCHANGED <<user, resets, request, sessions, mailed, secret, history>>

\* Mutant of Rereads: the candidate of the first query is taken.
KeepsCandidate(c) == {[email |-> call[c].email, token |-> call[c].token,
                       expired |-> FALSE]}

\* reset_record, read again under the lock of the account.
Rereads(c) == {t \in resets : t.token = call[c].token}

ResetConsumes(c) ==
    LET e == call[c].email IN
    /\ call[c].phase = "resetting"
    /\ UserFree(e)
    /\ \/ Rereads(c) = {} /\ UNCHANGED <<user, resets, secret, uses, revoked>>
       \/ \E t \in Rereads(c) :
            /\ t.expired \/ ~user[e].active
            /\ resets' = resets \ {t}
            /\ UNCHANGED <<user, secret, uses, revoked>>
       \/ \E t \in Rereads(c) :
            /\ ~t.expired /\ user[e].active
            /\ NewSecret
            /\ Revokes(e, [user[e] EXCEPT !.pw = secret'])
            /\ resets' = resets \ ResetsOf(e)
            /\ uses' = [uses EXCEPT ![t.token] = @ + 1]
    /\ Answers(c)
    /\ UNCHANGED <<request, sessions, mailed, newest>>

-----------------------------------------------------------------------------
(* login and google_callback: both read the account in one transaction,    *)
(* but Google's reads it again after its commit to make the token.         *)

HandsOut(c, s) ==
    /\ sessions' = sessions \cup {s}
    /\ Answers(c)

Login(c, e) ==
    /\ call[c].phase = "idle"
    /\ user[e].active /\ user[e].pw # 0
    /\ call' = [call EXCEPT ![c] = [Idle EXCEPT !.phase = "signing_in", !.email = e,
                                                !.pw = user[e].pw,
                                                !.version = user[e].version]]
    /\ UNCHANGED <<user, resets, request, sessions, mailed, secret, history>>

\* Mutant of LoginAnswers: the version is read when the token is made.
LoginAnswersLate(c) ==
    /\ call[c].phase = "signing_in"
    /\ HandsOut(c, [email |-> call[c].email, version |-> user[call[c].email].version,
                    pw |-> call[c].pw, sub |-> Null])
    /\ UNCHANGED <<user, resets, request, mailed, secret, history>>

LoginAnswers(c) ==
    /\ call[c].phase = "signing_in"
    /\ HandsOut(c, [email |-> call[c].email, version |-> call[c].version,
                    pw |-> call[c].pw, sub |-> Null])
    /\ UNCHANGED <<user, resets, request, mailed, secret, history>>

Linkable(e, sub) ==
    /\ \A o \in Emails : user[o].sub = sub => o = e
    /\ user[e].sub \in {Null, sub}

GoogleChecks(c, e, sub) ==
    /\ UserFree(e)
    /\ user[e].active /\ Linkable(e, sub)
    /\ call[c].phase = "idle"
    /\ call' = [call EXCEPT ![c] = [Idle EXCEPT !.phase = "linking", !.email = e,
                                                !.sub = sub]]
    /\ UNCHANGED <<user, resets, request, sessions, mailed, secret, history>>

\* Mutant of Claimed: nothing enforces the uniqueness of an identity.
Unchecked(e, sub) == FALSE

Claimed(e, sub) == \E o \in Emails \ {e} : user[o].sub = sub

\* uq_users_oauth_provider_id: the commit fails when another account took
\* the identity since the check.
GoogleCommits(c) ==
    LET e == call[c].email  sub == call[c].sub IN
    /\ call[c].phase = "linking"
    /\ \/ Claimed(e, sub) /\ Answers(c) /\ UNCHANGED user
       \/ /\ ~Claimed(e, sub)
          /\ user' = [user EXCEPT ![e].sub = sub]
          /\ call' = [call EXCEPT ![c].phase = "linked"]
    /\ UNCHANGED <<resets, request, sessions, mailed, secret, history>>

GoogleAnswers(c) ==
    /\ call[c].phase = "linked"
    /\ HandsOut(c, [email |-> call[c].email, version |-> user[call[c].email].version,
                    pw |-> call[c].pw, sub |-> call[c].sub])
    /\ UNCHANGED <<user, resets, request, mailed, secret, history>>

\* get_current_user has a transaction of its own, before logout's.
LogoutAuthenticates(c, s) ==
    /\ Accepted(s)
    /\ Begins(c, "leaving", s.email)
    /\ UNCHANGED <<user, resets, request, sessions, mailed, secret, history>>

LogoutRevokes(c) ==
    LET e == call[c].email IN
    /\ call[c].phase = "leaving"
    /\ UserFree(e)
    /\ Revokes(e, user[e])
    /\ Answers(c)
    /\ UNCHANGED <<resets, request, sessions, mailed, secret, newest, uses>>

-----------------------------------------------------------------------------
(* The administrator's commands.                                           *)

AdminLooks(c, e) ==
    /\ ~user[e].exists
    /\ Begins(c, "adding", e)
    /\ UNCHANGED <<user, resets, request, sessions, mailed, secret, history>>

\* With a password, or for Google only.
AdminAdds(c) ==
    LET e == call[c].email  new == [NoUser EXCEPT !.exists = TRUE, !.active = TRUE] IN
    /\ call[c].phase = "adding"
    /\ \/ user[e].exists /\ UNCHANGED <<user, secret>>
       \/ ~user[e].exists /\ user' = [user EXCEPT ![e] = new] /\ UNCHANGED secret
       \/ /\ ~user[e].exists
          /\ NewSecret
          /\ user' = [user EXCEPT ![e] = [new EXCEPT !.pw = secret']]
    /\ Answers(c)
    /\ UNCHANGED <<resets, request, sessions, mailed, history>>

AdminEnables(e) ==
    /\ user[e].exists /\ UserFree(e)
    /\ user' = [user EXCEPT ![e].active = TRUE]
    /\ UNCHANGED <<resets, request, sessions, mailed, secret, call, history>>

AdminDisables(e) ==
    /\ user[e].exists /\ UserFree(e)
    /\ Revokes(e, [user[e] EXCEPT !.active = FALSE])
    /\ resets' = resets \ ResetsOf(e)
    /\ UNCHANGED <<request, sessions, mailed, secret, call, newest, uses>>

AdminSetsPassword(e) ==
    /\ user[e].exists /\ UserFree(e)
    /\ NewSecret
    /\ Revokes(e, [user[e] EXCEPT !.pw = secret'])
    /\ resets' = resets \ ResetsOf(e)
    /\ UNCHANGED <<request, sessions, mailed, call, newest, uses>>

AdminRevokes(e) ==
    /\ user[e].exists /\ UserFree(e)
    /\ Revokes(e, user[e])
    /\ UNCHANGED <<resets, request, sessions, mailed, secret, call, newest, uses>>

-----------------------------------------------------------------------------
(* Time.                                                                   *)

RequestAges(i) ==
    /\ request[i].status = "pending"
    /\ \/ request' = [request EXCEPT ![i].expired = TRUE]
       \/ request' = [request EXCEPT ![i].recent = FALSE]
    /\ UNCHANGED <<user, resets, sessions, mailed, secret, call, history>>

ResetExpires(t) ==
    /\ resets' = (resets \ {t}) \cup {[t EXCEPT !.expired = TRUE]}
    /\ UNCHANGED <<user, request, sessions, mailed, secret, call, history>>

SessionExpires(s) ==
    /\ sessions' = sessions \ {s}
    /\ UNCHANGED <<user, resets, request, mailed, secret, call, history>>

-----------------------------------------------------------------------------

Uses(operation) == operation \in Operations

Enrols(c) ==
    \/ \E e \in Emails : SubmitChecks(c, e)
    \/ SubmitLooks(c)
    \/ SubmitInserts(c)
    \/ MailLink(c)
    \/ \E link \in mailed.links : ReviewRefuses(link) \/ ReviewApproves(c, link)
    \/ ReviewCreates(c)

ResetsPassword(c) ==
    \/ \E e \in Emails : ForgotPassword(c, e)
    \/ \E token \in mailed.resets : ResetLooksUp(c, token)
    \/ ResetConsumes(c)
    \/ MailReset(c)

GoogleSignsIn(c) ==
    \/ \E e \in Emails, sub \in Subjects : GoogleChecks(c, e, sub)
    \/ GoogleCommits(c)
    \/ GoogleAnswers(c)

LogsOut(c) ==
    \/ \E s \in sessions : LogoutAuthenticates(c, s)
    \/ LogoutRevokes(c)

Administers(c) ==
    \/ \E e \in Emails : AdminLooks(c, e)
    \/ AdminAdds(c)

AdminChanges ==
    \E e \in Emails : \/ AdminEnables(e)
                      \/ AdminDisables(e)
                      \/ AdminSetsPassword(e)
                      \/ AdminRevokes(e)

Time ==
    \/ \E i \in DOMAIN request : RequestAges(i)
    \/ \E t \in resets : ResetExpires(t)
    \/ \E s \in sessions : SessionExpires(s)

Next ==
    \/ \E c \in Calls :
         \/ Uses("enrol") /\ Enrols(c)
         \/ Uses("reset") /\ ResetsPassword(c)
         \/ Uses("password") /\ (LoginAnswers(c) \/ \E e \in Emails : Login(c, e))
         \/ Uses("google") /\ GoogleSignsIn(c)
         \/ Uses("logout") /\ LogsOut(c)
         \/ Uses("admin") /\ Administers(c)
    \/ Uses("admin") /\ AdminChanges
    \/ Time

Spec == Init /\ [][Next]_vars

-----------------------------------------------------------------------------
(* Properties.                                                             *)

\* A reset link works only while it is the newest one of an account that is
\* active: a later link, a password change or a suspension ends it.
ResetIsCurrent ==
    \A t \in resets : user[t.email].active /\ t.token = newest[t.email]

\* reset_password: "a reset secret remains single-use", also when the same
\* link is submitted twice at once.
ResetIsSingleUse == \A t \in Secrets : uses[t] <= 1

\* A session that existed when the account was signed out, suspended, given
\* a new password or revoked is never accepted again, whatever happens to
\* the account afterwards.
RevokedStaysRevoked == \A s \in revoked : ~Accepted(s)

\* A session opened with a password is accepted only while that password is
\* the account's, even if the sign-in was under way when it was changed.
PasswordOpensOwnSessions ==
    \A s \in sessions : Accepted(s) /\ s.pw # 0 => s.pw = user[s.email].pw

\* A Google identity belongs to one account, and a session opened with it
\* is a session of that account.
IdentityIsPersonal ==
    /\ \A s \in sessions : s.sub # Null => s.sub = user[s.email].sub
    /\ \A e, o \in Emails : user[e].sub # Null /\ user[o].sub = user[e].sub => e = o

\* A review decides a request once: simultaneous reviews, resubmissions and
\* a review undone by a conflict leave the first decision as it is.
DecisionIsFinal ==
    \A i \in DOMAIN request : request[i].status # "pending" => request'[i] = request[i]

\* All of them, and the constraints of the tables.
CredentialsHold ==
    /\ [](/\ TypeOK
          /\ ResetIsCurrent /\ ResetIsSingleUse
          /\ RevokedStaysRevoked /\ PasswordOpensOwnSessions
          /\ IdentityIsPersonal)
    /\ [][DecisionIsFinal]_vars
=============================================================================
