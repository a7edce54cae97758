--------------------------- MODULE AccountsProofs ---------------------------
(***************************************************************************)
(* Accounts and sessions, for any number of accounts, Google identities    *)
(* and concurrent calls.                                                   *)
(*                                                                         *)
(* The argument is that an account's row only goes onward: it never        *)
(* disappears, its version never falls, a bound identity stays, and the    *)
(* password changes only together with the version.  So a session, and a   *)
(* call that is about to open one, stands by the row it was read from for  *)
(* good.  A reset link that is still there is the newest of its account    *)
(* and unused.  Calls that span two transactions hold what they read: the  *)
(* one that creates an account holds its pending request, the one that     *)
(* links an identity holds the account.                                    *)
(***************************************************************************)
EXTENDS Accounts, TLAPS

-----------------------------------------------------------------------------
(* The invariant.                                                          *)

UserRows == [exists: BOOLEAN, active: BOOLEAN, pw: 0..MaxSecrets,
             version: 0..MaxVersion, sub: Subjects \cup {Null}]
CallRows == [phase: Phases, email: Emails \cup {Null}, token: 0..MaxSecrets,
             row: 0..MaxRequests, version: 0..MaxVersion, pw: 0..MaxSecrets,
             sub: Subjects \cup {Null}]
RequestRows == [email: Emails, status: {"pending", "expired", "rejected", "approved"},
                link: 0..MaxSecrets, expired: BOOLEAN, recent: BOOLEAN]
ResetRows == [email: Emails, token: Secrets, expired: BOOLEAN]

Busy(r) == r.phase # "idle" => r.email \in Emails

TypeInv ==
    /\ user \in [Emails -> UserRows]
    /\ resets \subseteq ResetRows
    /\ request \in Seq(RequestRows) /\ Len(request) <= MaxRequests
    /\ sessions \subseteq SessionTokens
    /\ secret \in 0..MaxSecrets
    /\ call \in [Calls -> CallRows]
    /\ \A c \in Calls : Busy(call[c])
    /\ newest \in [Emails -> 0..MaxSecrets]
    /\ uses \in [Secrets -> Nat]
    /\ revoked \subseteq SessionTokens

\* A row that is not there has no columns.
AccountInv == \A e \in Emails : ~user[e].exists => user[e] = NoUser

\* What makes a session of an account, now or later: the account goes on, and
\* the password and the identity it was opened with are the account's.
Stands(row, version, pw, sub) ==
    /\ row.exists
    /\ version <= row.version
    /\ version = row.version /\ pw # 0 => pw = row.pw
    /\ sub # Null => sub = row.sub

SessionInv ==
    /\ \A s \in sessions : Stands(user[s.email], s.version, s.pw, s.sub)
    /\ \A s \in revoked : s.version < user[s.email].version
    /\ \A c \in Calls :
          /\ call[c].phase = "signing_in" =>
                Stands(user[call[c].email], call[c].version, call[c].pw, Null)
          /\ call[c].phase = "leaving" => user[call[c].email].exists

\* Google sign-in between the check of an identity and its commit, and after.
IdentityInv ==
    /\ \A e, o \in Emails : user[e].sub # Null /\ user[o].sub = user[e].sub => e = o
    /\ \A c \in Calls :
          /\ call[c].phase \in {"linking", "linked"} =>
                /\ call[c].sub \in Subjects /\ call[c].pw = 0
                /\ user[call[c].email].exists
          /\ call[c].phase = "linking" => user[call[c].email].sub \in {Null, call[c].sub}
          /\ call[c].phase = "linked" => user[call[c].email].sub = call[c].sub
    /\ \A c, d \in Calls :
          call[c].phase = "linking" /\ call[d].phase = "linking" /\ call[c].email = call[d].email
             => c = d

\* Requests, and the reviews that hold one while they create its account.
RequestInv ==
    /\ \A i \in DOMAIN request : /\ request[i].link <= secret
                                 /\ request[i].status = "pending" <=> request[i].link # 0
    /\ \A i, j \in DOMAIN request :
          request[i].status = "pending" /\ request[j].status = "pending" =>
             i = j \/ /\ request[i].email # request[j].email
                      /\ request[i].link # request[j].link
    /\ \A c \in Calls : call[c].phase = "creating" =>
          /\ call[c].row \in DOMAIN request
          /\ request[call[c].row].status = "pending"
          /\ request[call[c].row].email = call[c].email
    /\ \A c, d \in Calls :
          call[c].phase = "creating" /\ call[d].phase = "creating" /\ call[c].row = call[d].row
             => c = d

\* A token that is there was never used, and no other has its number.
ResetInv ==
    /\ \A t \in resets : /\ user[t.email].active /\ t.token = newest[t.email]
                         /\ t.token <= secret /\ uses[t.token] = 0
    /\ \A t, u \in resets : t.token = u.token => t = u
    /\ \A n \in Secrets : uses[n] <= 1 /\ (n > secret => uses[n] = 0)
    /\ \A c \in Calls : call[c].phase = "resetting" =>
          /\ call[c].token <= secret
          /\ \A t \in resets : t.token = call[c].token => t.email = call[c].email

Inv == TypeInv /\ AccountInv /\ SessionInv /\ IdentityInv /\ RequestInv /\ ResetInv

-----------------------------------------------------------------------------
(* What a step does to each variable.                                      *)

LEMMA Numbers ==
    ASSUME AccountsAssumption
    PROVE  /\ MaxSecrets \in Nat /\ MaxRequests \in Nat /\ MaxVersion \in Nat
           /\ 0 \in 0..MaxSecrets /\ 0 \in 0..MaxRequests /\ 0 \in 0..MaxVersion
           /\ Null \notin Emails /\ Null \notin Subjects
BY DEF AccountsAssumption

LEMMA InitInv == ASSUME AccountsAssumption, Init PROVE Inv
<1>1. TypeInv
    BY Numbers DEF Init, TypeInv, NoUser, Idle, UserRows, CallRows, Phases, Busy
<1>2. AccountInv /\ SessionInv /\ IdentityInv
    BY DEF Init, AccountInv, SessionInv, IdentityInv, NoUser, Idle
<1>3. RequestInv /\ ResetInv
    BY Numbers DEF Init, RequestInv, ResetInv, NoUser, Idle
<1>4. QED
    BY <1>1, <1>2, <1>3 DEF Inv

\* The account of e goes on: what was set is not taken back, and the password
\* changes with the version only.
Onward(f, g) ==
    /\ g.exists
    /\ f.version <= g.version
    /\ f.version = g.version => g.pw = f.pw
    /\ f.sub # Null => g.sub = f.sub

\* One account is changed, or made.
Changed(e, f) ==
    /\ user' = [user EXCEPT ![e] = f]
    /\ f \in UserRows /\ f.exists
    /\ user[e].exists => Onward(user[e], f)

LEMMA ApprovesUser ==
    ASSUME TypeInv, AccountInv, NEW c \in Calls, NEW i \in DOMAIN request, Approves(c, i)
    PROVE  \E f \in UserRows : /\ Changed(request[i].email, f)
                               /\ f.sub = user[request[i].email].sub /\ f.active
<1> DEFINE e == request[i].email
           f == Grants(e)
<1>1. e \in Emails /\ user[e] \in UserRows
    <2>1. request[i] \in RequestRows
        BY DEF TypeInv
    <2>2. QED
        BY <2>1 DEF TypeInv, RequestRows
<1>2. /\ f \in UserRows /\ f.exists /\ f.active /\ f.sub = user[e].sub
      /\ f.version = user[e].version /\ f.pw = user[e].pw
    BY <1>1 DEF Grants, UserRows
<1>3. user[e].exists => Onward(user[e], f)
    BY <1>1, <1>2 DEF Onward, UserRows
<1>4. user' = [user EXCEPT ![e] = f]
    BY DEF Approves
<1>5. QED
    BY <1>2, <1>3, <1>4 DEF Changed

\* Revokes with a new password, a suspension or nothing else.
LEMMA RevokesUser ==
    ASSUME AccountsAssumption, TypeInv, NEW e \in Emails, NEW f, Revokes(e, f), user[e].exists,
           \/ f = user[e] \/ f = [user[e] EXCEPT !.active = FALSE]
           \/ \E n \in 0..MaxSecrets : f = [user[e] EXCEPT !.pw = n]
    PROVE  \E g \in UserRows :
              /\ Changed(e, g) /\ g.version = user[e].version + 1 /\ g.sub = user[e].sub
              /\ g.active = f.active
<1> DEFINE g == [f EXCEPT !.version = user[e].version + 1]
<1>1. user[e] \in UserRows /\ user[e].version \in Nat
    BY DEF TypeInv, UserRows
<1>2. f \in UserRows /\ f.exists /\ f.sub = user[e].sub
    BY <1>1 DEF UserRows
<1>3. user[e].version + 1 \in 0..MaxVersion
    BY <1>1, Numbers DEF Revokes, UserRows
<1>4. /\ g \in UserRows /\ g.exists /\ g.version = user[e].version + 1
      /\ g.sub = user[e].sub /\ g.active = f.active
    BY <1>1, <1>2, <1>3 DEF UserRows
<1>5. Onward(user[e], g)
    BY <1>1, <1>4 DEF Onward
<1>6. user' = [user EXCEPT ![e] = g]
    BY DEF Revokes
<1>7. QED
    BY <1>4, <1>5, <1>6 DEF Changed

\* A sign-in with Google that commits the identity of e.
Commits(e, f) ==
    \E c \in Calls : /\ call[c].phase = "linking" /\ call[c].email = e
                     /\ ~Claimed(e, call[c].sub)
                     /\ f.sub = call[c].sub

Remembers(e, f) ==
    \/ UNCHANGED revoked
    \/ /\ revoked' = revoked \cup {s \in sessions : s.email = e}
       /\ f.version = user[e].version + 1

UserChanges(e, f) ==
    /\ Changed(e, f)
    /\ f.sub = user[e].sub \/ Commits(e, f)
    /\ Remembers(e, f)
    /\ f.active \/ resets' = resets \ ResetsOf(e)

LEMMA UserCases ==
    ASSUME AccountsAssumption, Inv, [Next]_vars
    PROVE  \/ UNCHANGED <<user, revoked>>
           \/ \E e \in Emails, f \in UserRows : UserChanges(e, f)
<1> DEFINE Goal == \/ UNCHANGED <<user, revoked>>
                   \/ \E e \in Emails, f \in UserRows : UserChanges(e, f)
<1> USE DEF Inv
<1>1. ASSUME NEW c \in Calls, NEW i \in DOMAIN request, Approves(c, i) PROVE Goal
    <2>1. UNCHANGED revoked /\ request[i].email \in Emails
        <3>1. request[i] \in RequestRows
            BY DEF TypeInv
        <3>2. QED
            BY <1>1, <3>1 DEF Approves, RequestRows
    <2>2. QED
        BY <1>1, <2>1, ApprovesUser DEF UserChanges, Remembers
<1>2. ASSUME NEW c \in Calls, ResetConsumes(c) PROVE Goal
    <2> DEFINE e == call[c].email
    <2>1. e \in Emails
        BY <1>2 DEF ResetConsumes, TypeInv, Busy
    <2>2. CASE UNCHANGED <<user, revoked>>
        BY <2>2
    <2>3. CASE ~UNCHANGED <<user, revoked>>
        <3>1. /\ user[e].active /\ NewSecret /\ Revokes(e, [user[e] EXCEPT !.pw = secret'])
              /\ resets' = resets \ ResetsOf(e)
            BY <1>2, <2>3 DEF ResetConsumes
        <3>2. user[e].exists
            BY <2>1, <3>1 DEF AccountInv, NoUser
        <3>3. secret' \in 0..MaxSecrets
            BY <3>1, Numbers DEF NewSecret, TypeInv
        <3>4. PICK g \in UserRows : /\ Changed(e, g) /\ g.version = user[e].version + 1
                                    /\ g.sub = user[e].sub
            BY <2>1, <3>1, <3>2, <3>3, RevokesUser
        <3>5. Remembers(e, g)
            BY <3>1, <3>4 DEF Revokes, Remembers
        <3>6. QED
            BY <2>1, <3>1, <3>4, <3>5 DEF UserChanges
    <2>4. QED
        BY <2>2, <2>3
<1>3. ASSUME NEW e \in Emails, user[e].exists, NEW f, Revokes(e, f),
             \/ f = user[e] /\ user[e].active
             \/ f = user[e] /\ UNCHANGED resets
             \/ f = [user[e] EXCEPT !.active = FALSE] /\ resets' = resets \ ResetsOf(e)
             \/ /\ \E n \in 0..MaxSecrets : f = [user[e] EXCEPT !.pw = n]
                /\ resets' = resets \ ResetsOf(e)
      PROVE  Goal
    <2>1. PICK g \in UserRows : /\ Changed(e, g) /\ g.version = user[e].version + 1
                                /\ g.sub = user[e].sub /\ g.active = f.active
        BY <1>3, RevokesUser
    <2>2. Remembers(e, g)
        BY <1>3, <2>1 DEF Revokes, Remembers
    <2>3. g.active \/ resets' = resets \ ResetsOf(e)
        <3>1. CASE f = user[e] /\ UNCHANGED resets
            <4>1. g.active \/ ResetsOf(e) = {}
                BY <2>1, <3>1 DEF ResetInv, ResetsOf
            <4>2. QED
                BY <3>1, <4>1
        <3>2. QED
            BY <1>3, <2>1, <3>1
    <2>4. QED
        BY <2>1, <2>2, <2>3 DEF UserChanges
<1>4. ASSUME NEW c \in Calls, GoogleCommits(c) PROVE Goal
    <2> DEFINE e == call[c].email
               f == [user[e] EXCEPT !.sub = call[c].sub]
    <2>1. /\ call[c].phase = "linking" /\ e \in Emails /\ UNCHANGED <<revoked, resets>>
          /\ call[c].sub \in Subjects /\ user[e].exists /\ user[e].sub \in {Null, call[c].sub}
        BY <1>4 DEF GoogleCommits, TypeInv, Busy, IdentityInv, history
    <2>2. CASE UNCHANGED user
        BY <2>1, <2>2
    <2>3. CASE ~Claimed(e, call[c].sub) /\ user' = [user EXCEPT ![e].sub = call[c].sub]
        <3>1. user[e] \in UserRows
            BY <2>1 DEF TypeInv
        <3>2. /\ f \in UserRows /\ f.exists /\ f.sub = call[c].sub
              /\ f.active = user[e].active /\ f.version = user[e].version /\ f.pw = user[e].pw
            BY <2>1, <3>1 DEF UserRows
        <3>3. user' = [user EXCEPT ![e] = f]
            BY <2>3
        <3>4. Onward(user[e], f)
            BY <2>1, <3>1, <3>2 DEF Onward, UserRows
        <3>5. f.active \/ resets' = resets \ ResetsOf(e)
            BY <2>1, <3>2 DEF ResetInv, ResetsOf
        <3>6. Changed(e, f) /\ Commits(e, f) /\ Remembers(e, f)
            BY <2>1, <2>3, <3>2, <3>3, <3>4 DEF Changed, Commits, Remembers
        <3>7. QED
            BY <2>1, <3>2, <3>5, <3>6 DEF UserChanges
    <2>4. QED
        BY <1>4, <2>2, <2>3 DEF GoogleCommits
<1>5. ASSUME NEW c \in Calls, AdminAdds(c) PROVE Goal
    <2> DEFINE e == call[c].email
               new == [NoUser EXCEPT !.exists = TRUE, !.active = TRUE]
    <2>1. e \in Emails /\ UNCHANGED <<resets, revoked>>
        BY <1>5 DEF AdminAdds, TypeInv, Busy, history
    <2>2. CASE UNCHANGED user
        BY <2>1, <2>2
    <2>3. ASSUME ~user[e].exists, NEW f, user' = [user EXCEPT ![e] = f],
                 f = new \/ \E n \in 0..MaxSecrets : f = [new EXCEPT !.pw = n]
          PROVE  Goal
        <3>1. user[e] = NoUser
            BY <2>1, <2>3 DEF AccountInv
        <3>2. f \in UserRows /\ f.exists /\ f.active /\ f.sub = user[e].sub
            <4>1. NoUser \in UserRows
                BY Numbers DEF NoUser, UserRows
            <4>2. /\ new \in UserRows /\ new.exists /\ new.active /\ new.sub = user[e].sub
                BY <3>1, <4>1 DEF UserRows
            <4>3. QED
                BY <2>3, <4>2 DEF UserRows
        <3>3. QED
            BY <2>1, <2>3, <3>2 DEF UserChanges, Changed, Remembers
    <2>4. NewSecret => secret' \in 0..MaxSecrets
        BY Numbers DEF NewSecret, TypeInv
    <2>5. QED
        BY <1>5, <2>2, <2>3, <2>4 DEF AdminAdds
<1>6. ASSUME NEW e \in Emails, AdminEnables(e) PROVE Goal
    <2> DEFINE f == [user[e] EXCEPT !.active = TRUE]
    <2>1. user[e] \in UserRows /\ user[e].exists
        BY <1>6 DEF TypeInv, AdminEnables
    <2>2. /\ f \in UserRows /\ f.exists /\ f.active /\ f.sub = user[e].sub
          /\ f.version = user[e].version /\ f.pw = user[e].pw
        BY <2>1 DEF UserRows
    <2>3. Onward(user[e], f)
        BY <2>1, <2>2 DEF Onward, UserRows
    <2>4. user' = [user EXCEPT ![e] = f] /\ UNCHANGED revoked
        BY <1>6 DEF AdminEnables, history
    <2>5. QED
        BY <2>2, <2>3, <2>4 DEF UserChanges, Changed, Remembers
<1>7. ASSUME NEW c \in Calls, LogoutRevokes(c) PROVE Goal
    <2>1. /\ call[c].email \in Emails /\ user[call[c].email].exists /\ UNCHANGED resets
          /\ Revokes(call[c].email, user[call[c].email])
        BY <1>7 DEF LogoutRevokes, TypeInv, Busy, SessionInv
    <2>2. QED
        BY <1>3, <2>1
<1>8. ASSUME NEW e \in Emails, AdminDisables(e) \/ AdminSetsPassword(e) \/ AdminRevokes(e)
      PROVE  Goal
    <2>1. user[e].exists /\ (NewSecret => secret' \in 0..MaxSecrets)
        BY <1>8, Numbers DEF AdminDisables, AdminSetsPassword, AdminRevokes, NewSecret, TypeInv
    <2>2. CASE AdminDisables(e)
        BY <1>3, <2>1, <2>2 DEF AdminDisables
    <2>3. CASE AdminSetsPassword(e)
        BY <1>3, <2>1, <2>3 DEF AdminSetsPassword
    <2>4. CASE AdminRevokes(e)
        BY <1>3, <2>1, <2>4 DEF AdminRevokes
    <2>5. QED
        BY <1>8, <2>2, <2>3, <2>4
<1>9. ASSUME NEW c \in Calls, Enrols(c) PROVE Goal
    <2>1. CASE \E i \in DOMAIN request : Approves(c, i)
        BY <1>1, <2>1
    <2>2. CASE UNCHANGED <<user, revoked>>
        BY <2>2
    <2>3. ReviewCreates(c) => UNCHANGED <<user, revoked>> \/ \E i \in DOMAIN request : Approves(c, i)
        BY DEF ReviewCreates, RequestInv, history
    <2>4. ASSUME NEW link, ReviewApproves(c, link)
          PROVE  UNCHANGED <<user, revoked>> \/ \E i \in DOMAIN request : Approves(c, i)
        BY <2>4 DEF ReviewApproves, Reviewable, history
    <2>5. ASSUME NEW link, ReviewRefuses(link) PROVE UNCHANGED <<user, revoked>>
        BY <2>5 DEF ReviewRefuses, history
    <2>6. ASSUME \/ SubmitLooks(c) \/ SubmitInserts(c) \/ MailLink(c)
                 \/ \E e \in Emails : SubmitChecks(c, e)
          PROVE  UNCHANGED <<user, revoked>>
        BY <2>6 DEF SubmitChecks, SubmitLooks, SubmitInserts, MailLink, history
    <2>7. QED
        BY <1>9, <2>1, <2>2, <2>3, <2>4, <2>5, <2>6 DEF Enrols
<1>10. ASSUME NEW c \in Calls, ResetsPassword(c) PROVE Goal
    <2>1. ASSUME NEW x, ForgotPassword(c, x) \/ ResetLooksUp(c, x) \/ MailReset(c)
          PROVE  UNCHANGED <<user, revoked>>
        BY <2>1 DEF ForgotPassword, ResetLooksUp, MailReset, history
    <2>2. QED
        BY <1>2, <1>10, <2>1 DEF ResetsPassword
<1>11. ASSUME NEW c \in Calls, LoginAnswers(c) \/ \E e \in Emails : Login(c, e) PROVE Goal
    BY <1>11 DEF LoginAnswers, Login, history
<1>12. ASSUME NEW c \in Calls, GoogleSignsIn(c) PROVE Goal
    <2>1. ASSUME NEW e, NEW sub, GoogleChecks(c, e, sub) \/ GoogleAnswers(c)
          PROVE  UNCHANGED <<user, revoked>>
        BY <2>1 DEF GoogleChecks, GoogleAnswers, history
    <2>2. QED
        BY <1>4, <1>12, <2>1 DEF GoogleSignsIn
<1>13. ASSUME NEW c \in Calls, LogsOut(c) PROVE Goal
    <2>1. ASSUME NEW s, LogoutAuthenticates(c, s) PROVE UNCHANGED <<user, revoked>>
        BY <2>1 DEF LogoutAuthenticates, history
    <2>2. QED
        BY <1>7, <1>13, <2>1 DEF LogsOut
<1>14. ASSUME NEW c \in Calls, Administers(c) PROVE Goal
    <2>1. ASSUME NEW e, AdminLooks(c, e) PROVE UNCHANGED <<user, revoked>>
        BY <2>1 DEF AdminLooks, history
    <2>2. QED
        BY <1>5, <1>14, <2>1 DEF Administers
<1>15. CASE AdminChanges
    BY <1>6, <1>8, <1>15 DEF AdminChanges
<1>16. CASE Time \/ UNCHANGED vars
    BY <1>16 DEF Time, RequestAges, ResetExpires, SessionExpires, vars, history
<1>17. QED
    BY <1>9, <1>10, <1>11, <1>12, <1>13, <1>14, <1>15, <1>16 DEF Next

\* A reset token is issued, used or taken away.
Issues(e) ==
    /\ secret < MaxSecrets /\ secret' = secret + 1
    /\ resets' = (resets \ ResetsOf(e))
                   \cup {[email |-> e, token |-> secret', expired |-> FALSE]}
    /\ newest' = [newest EXCEPT ![e] = secret'] /\ UNCHANGED uses
    /\ user'[e].active

Consumes(t) ==
    /\ resets' = resets \ ResetsOf(t.email)
    /\ uses' = [uses EXCEPT ![t.token] = @ + 1] /\ UNCHANGED newest

Expires(t) ==
    /\ resets' = (resets \ {t}) \cup {[t EXCEPT !.expired = TRUE]}
    /\ UNCHANGED <<newest, uses, user, call>>

LEMMA ResetCases ==
    ASSUME AccountsAssumption, Inv, [Next]_vars
    PROVE  /\ secret' = secret \/ (secret < MaxSecrets /\ secret' = secret + 1)
           /\ \/ resets' \subseteq resets /\ UNCHANGED <<newest, uses>>
              \/ \E e \in Emails : Issues(e)
              \/ \E t \in resets : Consumes(t) \/ Expires(t)
<1> DEFINE Goal == /\ secret' = secret \/ (secret < MaxSecrets /\ secret' = secret + 1)
                   /\ \/ resets' \subseteq resets /\ UNCHANGED <<newest, uses>>
                      \/ \E e \in Emails : Issues(e)
                      \/ \E t \in resets : Consumes(t) \/ Expires(t)
<1> USE DEF Inv
<1>1. ASSUME NEW c \in Calls, NEW i \in DOMAIN request, Approves(c, i) PROVE Goal
    <2> DEFINE e == request[i].email
    <2>1. e \in Emails
        <3>1. request[i] \in RequestRows
            BY DEF TypeInv
        <3>2. QED
            BY <3>1 DEF RequestRows
    <2>2. user'[e].active
        <3>1. PICK f \in UserRows : Changed(e, f) /\ f.active
            BY <1>1, ApprovesUser
        <3>2. QED
            BY <2>1, <3>1 DEF Changed, TypeInv
    <2>3. Issues(e)
        BY <1>1, <2>2 DEF Approves, IssuesReset, NewSecret, Issues
    <2>4. QED
        BY <2>1, <2>3 DEF Issues
<1>2. ASSUME NEW c \in Calls, NEW e \in Emails, ForgotPassword(c, e) PROVE Goal
    <2>1. Issues(e)
        BY <1>2 DEF ForgotPassword, IssuesReset, NewSecret, Issues
    <2>2. QED
        BY <2>1 DEF Issues
<1>3. ASSUME NEW c \in Calls, ResetConsumes(c) PROVE Goal
    <2>1. secret' = secret \/ (secret < MaxSecrets /\ secret' = secret + 1)
        BY <1>3 DEF ResetConsumes, NewSecret
    <2>2. \A t \in Rereads(c) : t \in resets /\ t.email = call[c].email
        BY <1>3 DEF ResetConsumes, Rereads, ResetInv
    <2>3. UNCHANGED newest
        BY <1>3 DEF ResetConsumes
    <2>4. \/ resets' \subseteq resets /\ UNCHANGED uses
          \/ \E t \in Rereads(c) : /\ resets' = resets \ ResetsOf(call[c].email)
                                   /\ uses' = [uses EXCEPT ![t.token] = @ + 1]
        BY <1>3 DEF ResetConsumes
    <2>5. QED
        BY <2>1, <2>2, <2>3, <2>4 DEF Consumes
<1>4. ASSUME NEW c \in Calls, Enrols(c) PROVE Goal
    <2>1. ReviewCreates(c) => UNCHANGED <<secret, resets, history>> \/ \E i \in DOMAIN request : Approves(c, i)
        BY DEF ReviewCreates, RequestInv
    <2>2. ASSUME NEW link, ReviewApproves(c, link)
          PROVE  UNCHANGED <<secret, resets, history>> \/ \E i \in DOMAIN request : Approves(c, i)
        BY <2>2 DEF ReviewApproves, Reviewable
    <2>3. ASSUME NEW link, ReviewRefuses(link) PROVE UNCHANGED <<secret, resets, history>>
        BY <2>3 DEF ReviewRefuses
    <2>4. ASSUME \/ SubmitLooks(c) \/ SubmitInserts(c) \/ MailLink(c)
                 \/ \E e \in Emails : SubmitChecks(c, e)
          PROVE  /\ UNCHANGED <<resets, history>>
                 /\ secret' = secret \/ (secret < MaxSecrets /\ secret' = secret + 1)
        BY <2>4 DEF SubmitChecks, SubmitLooks, SubmitInserts, MailLink, NewSecret
    <2>5. QED
        BY <1>1, <1>4, <2>1, <2>2, <2>3, <2>4 DEF Enrols, history
<1>5. ASSUME NEW c \in Calls, ResetsPassword(c) PROVE Goal
    <2>1. ASSUME NEW x, ResetLooksUp(c, x) \/ MailReset(c)
          PROVE  UNCHANGED <<secret, resets, history>>
        BY <2>1 DEF ResetLooksUp, MailReset
    <2>2. QED
        BY <1>2, <1>3, <1>5, <2>1 DEF ResetsPassword, history
<1>6. ASSUME NEW c \in Calls,
             LoginAnswers(c) \/ (\E e \in Emails : Login(c, e)) \/ GoogleSignsIn(c) \/ LogsOut(c)
      PROVE  Goal
    <2>1. UNCHANGED <<secret, resets, newest, uses>>
        BY <1>6 DEF LoginAnswers, Login, GoogleSignsIn, GoogleChecks, GoogleCommits,
                    GoogleAnswers, LogsOut, LogoutAuthenticates, LogoutRevokes, history
    <2>2. QED
        BY <2>1
<1>7. ASSUME NEW c \in Calls, Administers(c) PROVE Goal
    <2>1. UNCHANGED <<resets, newest, uses>>
        BY <1>7 DEF Administers, AdminLooks, AdminAdds, history
    <2>2. secret' = secret \/ (secret < MaxSecrets /\ secret' = secret + 1)
        BY <1>7 DEF Administers, AdminLooks, AdminAdds, NewSecret
    <2>3. QED
        BY <2>1, <2>2
<1>8. CASE AdminChanges
    <2>1. resets' \subseteq resets /\ UNCHANGED <<newest, uses>>
        BY <1>8 DEF AdminChanges, AdminEnables, AdminDisables, AdminSetsPassword, AdminRevokes, history
    <2>2. secret' = secret \/ (secret < MaxSecrets /\ secret' = secret + 1)
        BY <1>8 DEF AdminChanges, AdminEnables, AdminDisables, AdminSetsPassword, AdminRevokes, NewSecret
    <2>3. QED
        BY <2>1, <2>2
<1>9. CASE Time
    BY <1>9 DEF Time, RequestAges, ResetExpires, SessionExpires, Expires, history
<1>10. CASE UNCHANGED vars
    BY <1>10 DEF vars, history
<1>11. QED
    BY <1>4, <1>5, <1>6, <1>7, <1>8, <1>9, <1>10 DEF Next

\* A request is decided, aged or given a new link, or made.
Decides(i, r) ==
    /\ r.status # "pending" /\ r.link = 0
    /\ \/ RequestFree(i)
       \/ \E c \in Calls : call[c].phase = "creating" /\ call[c].row = i
                           /\ call'[c].phase # "creating"

Relinks(r) == secret < MaxSecrets /\ secret' = secret + 1 /\ r.link = secret'

RequestChanges(i, r) ==
    /\ request' = [request EXCEPT ![i] = r] /\ r \in RequestRows
    /\ request[i].status = "pending" /\ r.email = request[i].email
    /\ \/ Decides(i, r)
       \/ r.status = "pending" /\ (r.link = request[i].link \/ Relinks(r))

RequestMade(r) ==
    /\ request' = Append(request, r) /\ r \in RequestRows /\ Len(request) < MaxRequests
    /\ r.status = "pending" /\ Pending(r.email) = {} /\ Relinks(r)

LEMMA DecidedRow ==
    ASSUME AccountsAssumption, TypeInv, NEW i \in DOMAIN request, NEW outcome, Decided(i, outcome),
           outcome \in {"expired", "rejected", "approved"}, request[i].status = "pending",
           \/ RequestFree(i)
           \/ \E c \in Calls : call[c].phase = "creating" /\ call[c].row = i
                               /\ call'[c].phase # "creating"
    PROVE  \E r \in RequestRows : RequestChanges(i, r)
<1> DEFINE r == [request[i] EXCEPT !.status = outcome, !.link = 0]
<1>1. request[i] \in RequestRows
    BY DEF TypeInv
<1>2. r \in RequestRows /\ r.status = outcome /\ r.link = 0 /\ r.email = request[i].email
    BY <1>1, Numbers DEF RequestRows
<1>3. request' = [request EXCEPT ![i] = r]
    BY DEF Decided
<1>4. QED
    BY <1>2, <1>3 DEF RequestChanges, Decides

LEMMA RequestCases ==
    ASSUME AccountsAssumption, Inv, [Next]_vars
    PROVE  \/ UNCHANGED request
           \/ \E i \in DOMAIN request : \E r \in RequestRows : RequestChanges(i, r)
           \/ \E r \in RequestRows : RequestMade(r)
<1> DEFINE Goal == \/ UNCHANGED request
                   \/ \E i \in DOMAIN request : \E r \in RequestRows : RequestChanges(i, r)
                   \/ \E r \in RequestRows : RequestMade(r)
<1> USE DEF Inv
<1>1. ASSUME NEW c \in Calls, SubmitLooks(c) PROVE Goal
    <2>1. CASE UNCHANGED request
        BY <2>1
    <2>2. ASSUME NEW i \in Pending(call[c].email), NewSecret,
                 request' = [request EXCEPT ![i].link = secret', ![i].expired = FALSE,
                                            ![i].recent = TRUE]
          PROVE  Goal
        <3> DEFINE r == [request[i] EXCEPT !.link = secret', !.expired = FALSE, !.recent = TRUE]
        <3>1. i \in DOMAIN request /\ request[i].status = "pending" /\ request[i] \in RequestRows
            BY <2>2 DEF Pending, TypeInv
        <3>2. secret < MaxSecrets /\ secret' = secret + 1 /\ secret' \in 0..MaxSecrets
            BY <2>2, Numbers DEF NewSecret, TypeInv
        <3>3. /\ r \in RequestRows /\ r.status = "pending" /\ r.link = secret'
              /\ r.email = request[i].email
            BY <3>1, <3>2 DEF RequestRows
        <3>4. request' = [request EXCEPT ![i] = r]
            BY <2>2, <3>1
        <3>5. RequestChanges(i, r)
            BY <3>1, <3>2, <3>3, <3>4 DEF RequestChanges, Relinks
        <3>6. QED
            BY <3>1, <3>3, <3>5
    <2>3. QED
        BY <1>1, <2>1, <2>2 DEF SubmitLooks
<1>2. ASSUME NEW c \in Calls, SubmitInserts(c) PROVE Goal
    <2>1. CASE UNCHANGED request
        BY <2>1
    <2>2. CASE ~UNCHANGED request
        <3> DEFINE e == call[c].email
                   r == [email |-> e, status |-> "pending", link |-> secret', expired |-> FALSE,
                         recent |-> TRUE]
        <3>1. /\ Pending(e) = {} /\ Len(request) < MaxRequests /\ NewSecret
              /\ request' = Append(request, r) /\ e \in Emails
            BY <1>2, <2>2 DEF SubmitInserts, TypeInv, Busy
        <3>2. secret < MaxSecrets /\ secret' = secret + 1 /\ secret' \in 0..MaxSecrets
            BY <3>1, Numbers DEF NewSecret, TypeInv
        <3>3. r \in RequestRows
            BY <3>1, <3>2 DEF RequestRows
        <3>4. RequestMade(r)
            BY <3>1, <3>2, <3>3 DEF RequestMade, Relinks
        <3>5. QED
            BY <3>3, <3>4
    <2>3. QED
        BY <2>1, <2>2
<1>3. ASSUME NEW c \in Calls, NEW link, ReviewRefuses(link) \/ ReviewApproves(c, link) PROVE Goal
    <2>1. ASSUME NEW i \in Reviewable(link), NEW outcome \in {"expired", "rejected", "approved"},
                 Decided(i, outcome)
          PROVE  Goal
        BY <2>1, DecidedRow DEF Reviewable
    <2>2. CASE ReviewRefuses(link)
        BY <2>1, <2>2 DEF ReviewRefuses
    <2>3. CASE ReviewApproves(c, link)
        BY <2>1, <2>3 DEF ReviewApproves, Approves
    <2>4. QED
        BY <1>3, <2>2, <2>3
<1>4. ASSUME NEW c \in Calls, ReviewCreates(c) PROVE Goal
    <2>1. CASE UNCHANGED request
        BY <2>1
    <2>2. CASE Approves(c, call[c].row)
        <3>1. /\ call[c].phase = "creating" /\ call[c].row \in DOMAIN request
              /\ request[call[c].row].status = "pending"
            BY <1>4 DEF ReviewCreates, RequestInv
        <3>2. call'[c].phase # "creating"
            BY <2>2 DEF Approves, MailsReset, Idle, TypeInv
        <3>3. Decided(call[c].row, "approved")
            BY <2>2 DEF Approves
        <3>4. QED
            BY <3>1, <3>2, <3>3, DecidedRow
    <2>3. QED
        BY <1>4, <2>1, <2>2 DEF ReviewCreates
<1>5. ASSUME NEW i \in DOMAIN request, RequestAges(i) PROVE Goal
    <2>1. request[i].status = "pending" /\ request[i] \in RequestRows
        BY <1>5 DEF RequestAges, TypeInv
    <2>2. ASSUME NEW r, r = [request[i] EXCEPT !.expired = TRUE] \/ r = [request[i] EXCEPT !.recent = FALSE],
                 request' = [request EXCEPT ![i] = r]
          PROVE  Goal
        <3>1. r \in RequestRows /\ r.status = "pending" /\ r.link = request[i].link
              /\ r.email = request[i].email
            BY <2>1, <2>2 DEF RequestRows
        <3>2. QED
            BY <2>1, <2>2, <3>1 DEF RequestChanges
    <2>3. QED
        BY <1>5, <2>2 DEF RequestAges
<1>6. ASSUME NEW c \in Calls, Enrols(c) PROVE Goal
    <2>1. ASSUME NEW e, SubmitChecks(c, e) \/ MailLink(c) PROVE Goal
        BY <2>1 DEF SubmitChecks, MailLink
    <2>2. QED
        BY <1>1, <1>2, <1>3, <1>4, <1>6, <2>1 DEF Enrols
<1>7. ASSUME NEW c \in Calls,
             \/ ResetsPassword(c) \/ LoginAnswers(c) \/ (\E e \in Emails : Login(c, e))
      PROVE  Goal
    BY <1>7 DEF ResetsPassword, ForgotPassword, ResetLooksUp, ResetConsumes, MailReset,
                LoginAnswers, Login
<1>8. ASSUME NEW c \in Calls, GoogleSignsIn(c) \/ LogsOut(c) \/ Administers(c) PROVE Goal
    BY <1>8 DEF GoogleSignsIn, GoogleChecks, GoogleCommits, GoogleAnswers, LogsOut,
                LogoutAuthenticates, LogoutRevokes, Administers, AdminLooks, AdminAdds
<1>9. CASE AdminChanges
    BY <1>9 DEF AdminChanges, AdminEnables, AdminDisables, AdminSetsPassword, AdminRevokes
<1>10. CASE Time
    BY <1>5, <1>10 DEF Time, ResetExpires, SessionExpires
<1>11. CASE UNCHANGED vars
    BY <1>11 DEF vars
<1>12. QED
    BY <1>6, <1>7, <1>8, <1>9, <1>10, <1>11 DEF Next

LEMMA SessionCases ==
    ASSUME Inv, [Next]_vars
    PROVE  \/ sessions' \subseteq sessions
           \/ \E c \in Calls : (LoginAnswers(c) \/ GoogleAnswers(c)) /\ UNCHANGED user
<1> DEFINE Goal == \/ sessions' \subseteq sessions
                   \/ \E c \in Calls : (LoginAnswers(c) \/ GoogleAnswers(c)) /\ UNCHANGED user
<1>1. ASSUME NEW c \in Calls, Enrols(c) PROVE Goal
    BY <1>1 DEF Enrols, SubmitChecks, SubmitLooks, SubmitInserts, MailLink, ReviewRefuses,
                ReviewApproves, ReviewCreates, Approves
<1>2. ASSUME NEW c \in Calls,
             \/ ResetsPassword(c) \/ LoginAnswers(c) \/ (\E e \in Emails : Login(c, e))
      PROVE  Goal
    BY <1>2 DEF ResetsPassword, ForgotPassword, ResetLooksUp, ResetConsumes, MailReset,
                LoginAnswers, Login
<1>3. ASSUME NEW c \in Calls, GoogleSignsIn(c) \/ LogsOut(c) \/ Administers(c) PROVE Goal
    BY <1>3 DEF GoogleSignsIn, GoogleChecks, GoogleCommits, GoogleAnswers, LogsOut,
                LogoutAuthenticates, LogoutRevokes, Administers, AdminLooks, AdminAdds
<1>4. CASE AdminChanges
    BY <1>4 DEF AdminChanges, AdminEnables, AdminDisables, AdminSetsPassword, AdminRevokes
<1>5. CASE Time \/ UNCHANGED vars
    BY <1>5 DEF Time, RequestAges, ResetExpires, SessionExpires, vars
<1>6. QED
    BY <1>1, <1>2, <1>3, <1>4, <1>5 DEF Next

\* What a call does next, and what it has read by then.
Plain == {"idle", "looking", "inserting", "mailing_link", "mailing_reset", "adding"}

Turns(c, r) ==
    \/ r.phase \in Plain
    \/ /\ r.phase = "creating" /\ UNCHANGED request
       /\ r.row \in DOMAIN request /\ RequestFree(r.row)
       /\ request[r.row].status = "pending" /\ request[r.row].email = r.email
    \/ /\ r.phase = "resetting" /\ UNCHANGED <<resets, secret>>
       /\ \E t \in resets : t.token = r.token /\ t.email = r.email
    \/ /\ r.phase = "signing_in" /\ UNCHANGED user
       /\ user[r.email].active /\ r.pw = user[r.email].pw /\ r.version = user[r.email].version
    \/ r.phase = "leaving" /\ UNCHANGED user /\ user[r.email].active
    \/ /\ r.phase = "linking" /\ UNCHANGED user /\ UserFree(r.email)
       /\ user[r.email].active /\ r.pw = 0 /\ r.sub \in Subjects /\ Linkable(r.email, r.sub)
    \/ /\ r.phase = "linked" /\ call[c].phase = "linking"
       /\ r.pw = 0 /\ r.sub = call[c].sub /\ r.email = call[c].email
       /\ user' = [user EXCEPT ![r.email].sub = r.sub]

Takes(c, r) == call' = [call EXCEPT ![c] = r] /\ Busy(r) /\ Turns(c, r)

LEMMA IdleRow ==
    ASSUME AccountsAssumption
    PROVE  /\ Idle \in CallRows /\ Idle.phase = "idle" /\ Idle.pw = 0
BY Numbers DEF Idle, CallRows, Phases

LEMMA Answering ==
    ASSUME AccountsAssumption, NEW c \in Calls, Answers(c)
    PROVE  \E r \in CallRows : Takes(c, r)
<1>1. /\ Idle \in CallRows /\ call' = [call EXCEPT ![c] = Idle]
      /\ Idle.phase = "idle" /\ Idle.phase \in Plain
    BY IdleRow DEF Answers, Plain
<1>2. QED
    BY <1>1 DEF Takes, Busy, Turns

LEMMA Issued ==
    ASSUME AccountsAssumption, TypeInv, NEW c \in Calls, NEW e \in Emails, NEW others,
           IssuesReset(e, others), MailsReset(c, e)
    PROVE  \E r \in CallRows : Takes(c, r)
<1> DEFINE r == [Idle EXCEPT !.phase = "mailing_reset", !.email = e, !.token = secret']
<1>1. secret' \in 0..MaxSecrets
    BY Numbers DEF IssuesReset, NewSecret, TypeInv
<1>2. r \in CallRows /\ r.phase = "mailing_reset" /\ r.email = e
    BY <1>1, IdleRow DEF CallRows, Phases
<1>3. call' = [call EXCEPT ![c] = r]
    BY DEF MailsReset
<1>4. r.phase \in Plain
    BY <1>2 DEF Plain
<1>5. QED
    BY <1>2, <1>3, <1>4 DEF Takes, Busy, Turns

LEMMA Beginning ==
    ASSUME AccountsAssumption, NEW c \in Calls, NEW e \in Emails, NEW p \in Phases, Begins(c, p, e),
           p \in Plain \/ (p = "leaving" /\ UNCHANGED user /\ user[e].active)
    PROVE  \E r \in CallRows : Takes(c, r)
<1> DEFINE r == [Idle EXCEPT !.phase = p, !.email = e]
<1>1. r \in CallRows /\ r.phase = p /\ r.email = e
    BY IdleRow DEF CallRows
<1>2. call' = [call EXCEPT ![c] = r]
    BY DEF Begins
<1>3. QED
    BY <1>1, <1>2 DEF Takes, Busy, Turns

LEMMA CallCases ==
    ASSUME AccountsAssumption, Inv, [Next]_vars
    PROVE  UNCHANGED call \/ \E c \in Calls : \E r \in CallRows : Takes(c, r)
<1> DEFINE Goal == UNCHANGED call \/ \E c \in Calls : \E r \in CallRows : Takes(c, r)
<1> USE DEF Inv
\* A submission that goes on with the row it has.
<1>1. ASSUME NEW c \in Calls, NEW r, call' = [call EXCEPT ![c] = r], call[c].phase # "idle",
             \/ r = [call[c] EXCEPT !.phase = "inserting"]
             \/ /\ secret' \in 0..MaxSecrets
                /\ r = [call[c] EXCEPT !.phase = "mailing_link", !.token = secret']
      PROVE  Goal
    <2>1. call[c] \in CallRows /\ call[c].email \in Emails
        BY <1>1 DEF TypeInv, Busy
    <2>2. r \in CallRows /\ r.email = call[c].email /\ r.phase \in {"inserting", "mailing_link"}
        BY <1>1, <2>1 DEF CallRows, Phases
    <2>3. r.phase \in Plain
        BY <2>2 DEF Plain
    <2>4. QED
        BY <1>1, <2>1, <2>2, <2>3 DEF Takes, Busy, Turns
<1>2. NewSecret => secret' \in 0..MaxSecrets
    BY Numbers DEF NewSecret, TypeInv
<1>3. ASSUME NEW c \in Calls, SubmitLooks(c) PROVE Goal
    <2>1. call[c].phase = "looking"
        BY <1>3 DEF SubmitLooks
    <2>2. CASE call' = [call EXCEPT ![c].phase = "inserting"]
        <3>1. call' = [call EXCEPT ![c] = [call[c] EXCEPT !.phase = "inserting"]]
            BY <2>2
        <3>2. QED
            BY <1>1, <2>1, <3>1
    <2>3. CASE NewSecret /\ call' = [call EXCEPT ![c].phase = "mailing_link", ![c].token = secret']
        <3>1. call' = [call EXCEPT ![c] = [call[c] EXCEPT !.phase = "mailing_link", !.token = secret']]
            BY <2>3
        <3>2. QED
            BY <1>1, <1>2, <2>1, <2>3, <3>1
    <2>4. QED
        BY <1>3, <2>2, <2>3, Answering DEF SubmitLooks
<1>4. ASSUME NEW c \in Calls, SubmitInserts(c) PROVE Goal
    <2>1. call[c].phase = "inserting"
        BY <1>4 DEF SubmitInserts
    <2>2. CASE NewSecret /\ call' = [call EXCEPT ![c].phase = "mailing_link", ![c].token = secret']
        <3>1. call' = [call EXCEPT ![c] = [call[c] EXCEPT !.phase = "mailing_link", !.token = secret']]
            BY <2>2
        <3>2. QED
            BY <1>1, <1>2, <2>1, <2>2, <3>1
    <2>3. QED
        BY <1>4, <2>2, Answering DEF SubmitInserts
<1>5. ASSUME NEW c \in Calls, NEW i \in DOMAIN request, Approves(c, i) PROVE Goal
    <2>1. request[i].email \in Emails
        <3>1. request[i] \in RequestRows
            BY DEF TypeInv
        <3>2. QED
            BY <3>1 DEF RequestRows
    <2>2. QED
        BY <1>5, <2>1, Issued DEF Approves
<1>6. ASSUME NEW c \in Calls, NEW link, ReviewApproves(c, link) PROVE Goal
    <2>1. PICK i \in Reviewable(link) :
             /\ call[c].phase = "idle"
             /\ \/ Approves(c, i)
                \/ /\ call' = [call EXCEPT ![c] = [Idle EXCEPT !.phase = "creating", !.row = i,
                                                               !.email = request[i].email]]
                   /\ UNCHANGED request
        BY <1>6 DEF ReviewApproves
    <2>2. i \in DOMAIN request /\ request[i].status = "pending" /\ RequestFree(i)
        BY DEF Reviewable
    <2>3. request[i] \in RequestRows /\ i \in 0..MaxRequests
        BY <2>2, Numbers DEF TypeInv
    <2>4. CASE Approves(c, i)
        BY <1>5, <2>2, <2>4
    <2>5. CASE ~Approves(c, i)
        <3> DEFINE r == [Idle EXCEPT !.phase = "creating", !.row = i, !.email = request[i].email]
        <3>1. request[i].email \in Emails
            BY <2>3 DEF RequestRows
        <3>2. r \in CallRows /\ r.phase = "creating" /\ r.row = i /\ r.email = request[i].email
            BY <2>3, <3>1, IdleRow DEF CallRows, Phases
        <3>3. Takes(c, r)
            BY <2>1, <2>2, <2>5, <3>1, <3>2 DEF Takes, Busy, Turns
        <3>4. QED
            BY <3>2, <3>3
    <2>6. QED
        BY <2>4, <2>5
<1>7. ASSUME NEW c \in Calls, Enrols(c) PROVE Goal
    <2>1. ASSUME NEW e \in Emails, SubmitChecks(c, e) PROVE Goal
        BY <2>1, Beginning DEF SubmitChecks, Phases, Plain
    <2>2. MailLink(c) => Goal
        BY Answering DEF MailLink
    <2>3. ASSUME NEW link, ReviewRefuses(link) PROVE Goal
        BY <2>3 DEF ReviewRefuses
    <2>4. ReviewCreates(c) => Goal
        BY <1>5, Answering DEF ReviewCreates, RequestInv
    <2>5. QED
        BY <1>3, <1>4, <1>6, <1>7, <2>1, <2>2, <2>3, <2>4 DEF Enrols
<1>8. ASSUME NEW c \in Calls, ResetsPassword(c) PROVE Goal
    <2>1. ASSUME NEW e \in Emails, ForgotPassword(c, e) PROVE Goal
        BY <2>1, Issued DEF ForgotPassword
    <2>2. ASSUME NEW token, ResetLooksUp(c, token) PROVE Goal
        <3>1. PICK t \in resets :
                 /\ t.token = token
                 /\ call' = [call EXCEPT ![c] = [Idle EXCEPT !.phase = "resetting",
                                                             !.email = t.email, !.token = token]]
                 /\ UNCHANGED <<resets, secret>>
            BY <2>2 DEF ResetLooksUp
        <3> DEFINE r == [Idle EXCEPT !.phase = "resetting", !.email = t.email, !.token = token]
        <3>2. t.email \in Emails /\ token \in 0..MaxSecrets
            BY <3>1, Numbers DEF TypeInv, ResetRows, Secrets
        <3>3. r \in CallRows /\ r.phase = "resetting" /\ r.email = t.email /\ r.token = token
            BY <3>2, IdleRow DEF CallRows, Phases
        <3>4. Takes(c, r)
            BY <3>1, <3>2, <3>3 DEF Takes, Busy, Turns
        <3>5. QED
            BY <3>3, <3>4
    <2>3. ResetConsumes(c) \/ MailReset(c) => Goal
        BY Answering DEF ResetConsumes, MailReset
    <2>4. QED
        BY <1>8, <2>1, <2>2, <2>3 DEF ResetsPassword
<1>9. ASSUME NEW c \in Calls, NEW e \in Emails, Login(c, e) PROVE Goal
    <2> DEFINE r == [Idle EXCEPT !.phase = "signing_in", !.email = e, !.pw = user[e].pw,
                                 !.version = user[e].version]
    <2>1. user[e].pw \in 0..MaxSecrets /\ user[e].version \in 0..MaxVersion
        BY DEF TypeInv, UserRows
    <2>2. /\ r \in CallRows /\ r.phase = "signing_in" /\ r.email = e
          /\ r.pw = user[e].pw /\ r.version = user[e].version
        BY <2>1, IdleRow DEF CallRows, Phases
    <2>3. call' = [call EXCEPT ![c] = r] /\ user[e].active /\ UNCHANGED user
        BY <1>9 DEF Login
    <2>4. Takes(c, r)
        BY <2>2, <2>3 DEF Takes, Busy, Turns
    <2>5. QED
        BY <2>2, <2>4
<1>10. ASSUME NEW c \in Calls, NEW e \in Emails, NEW sub \in Subjects, GoogleChecks(c, e, sub)
       PROVE  Goal
    <2> DEFINE r == [Idle EXCEPT !.phase = "linking", !.email = e, !.sub = sub]
    <2>1. /\ r \in CallRows /\ r.phase = "linking" /\ r.email = e /\ r.sub = sub /\ r.pw = 0
        BY IdleRow DEF CallRows, Phases
    <2>2. /\ call' = [call EXCEPT ![c] = r] /\ user[e].active /\ UNCHANGED user
          /\ UserFree(e) /\ Linkable(e, sub)
        BY <1>10 DEF GoogleChecks
    <2>3. Takes(c, r)
        BY <2>1, <2>2 DEF Takes, Busy, Turns
    <2>4. QED
        BY <2>1, <2>3
<1>11. ASSUME NEW c \in Calls, GoogleCommits(c) PROVE Goal
    <2> DEFINE r == [call[c] EXCEPT !.phase = "linked"]
    <2>1. /\ call[c] \in CallRows /\ call[c].email \in Emails /\ call[c].pw = 0
          /\ call[c].phase = "linking"
        BY <1>11 DEF GoogleCommits, TypeInv, Busy, IdentityInv
    <2>2. /\ r \in CallRows /\ r.phase = "linked" /\ r.email = call[c].email
          /\ r.sub = call[c].sub /\ r.pw = 0
        BY <2>1 DEF CallRows, Phases
    <2>3. CASE /\ user' = [user EXCEPT ![call[c].email].sub = call[c].sub]
               /\ call' = [call EXCEPT ![c].phase = "linked"]
        <3>1. call' = [call EXCEPT ![c] = r]
            BY <2>3
        <3>2. Takes(c, r)
            BY <2>1, <2>2, <2>3, <3>1 DEF Takes, Busy, Turns
        <3>3. QED
            BY <2>2, <3>2
    <2>4. QED
        BY <1>11, <2>3, Answering DEF GoogleCommits
<1>12. ASSUME NEW c \in Calls, GoogleSignsIn(c) PROVE Goal
    BY <1>10, <1>11, <1>12, Answering DEF GoogleSignsIn, GoogleAnswers, HandsOut
<1>13. ASSUME NEW c \in Calls, LoginAnswers(c) \/ LogoutRevokes(c) \/ AdminAdds(c) PROVE Goal
    BY <1>13, Answering DEF LoginAnswers, HandsOut, LogoutRevokes, AdminAdds
<1>14. ASSUME NEW c \in Calls, NEW s \in sessions, LogoutAuthenticates(c, s) PROVE Goal
    <2>1. s.email \in Emails
        BY DEF TypeInv, SessionTokens
    <2>2. QED
        BY <1>14, <2>1, Beginning DEF LogoutAuthenticates, Accepted, Phases
<1>15. ASSUME NEW c \in Calls, NEW e \in Emails, AdminLooks(c, e) PROVE Goal
    BY <1>15, Beginning DEF AdminLooks, Phases, Plain
<1>16. CASE AdminChanges
    BY <1>16 DEF AdminChanges, AdminEnables, AdminDisables, AdminSetsPassword, AdminRevokes
<1>17. CASE Time \/ UNCHANGED vars
    BY <1>17 DEF Time, RequestAges, ResetExpires, SessionExpires, vars
<1>18. QED
    BY <1>7, <1>8, <1>9, <1>12, <1>13, <1>14, <1>15, <1>16, <1>17 DEF Next, LogsOut, Administers

-----------------------------------------------------------------------------
(* The invariant is kept.                                                  *)

LEMMA TypeStep == ASSUME AccountsAssumption, Inv, [Next]_vars PROVE TypeInv'
<1>1. user' \in [Emails -> UserRows] /\ revoked' \subseteq SessionTokens
    BY UserCases DEF Inv, TypeInv, UserChanges, Changed, Remembers
<1>2. secret' \in 0..MaxSecrets
    BY ResetCases, Numbers DEF Inv, TypeInv
<1>3. /\ resets' \subseteq ResetRows /\ newest' \in [Emails -> 0..MaxSecrets]
      /\ uses' \in [Secrets -> Nat]
    <2>1. ASSUME NEW e \in Emails, Issues(e)
          PROVE  /\ resets' \subseteq ResetRows /\ newest' \in [Emails -> 0..MaxSecrets]
                 /\ uses' \in [Secrets -> Nat]
        <3>1. secret' \in Secrets /\ secret' \in 0..MaxSecrets
            BY <2>1, Numbers DEF Issues, Inv, TypeInv, Secrets
        <3>2. [email |-> e, token |-> secret', expired |-> FALSE] \in ResetRows
            BY <3>1 DEF ResetRows
        <3>3. QED
            BY <2>1, <3>1, <3>2 DEF Issues, Inv, TypeInv
    <2>2. ASSUME NEW t \in resets, Consumes(t)
          PROVE  /\ resets' \subseteq ResetRows /\ newest' \in [Emails -> 0..MaxSecrets]
                 /\ uses' \in [Secrets -> Nat]
        BY <2>2 DEF Consumes, Inv, TypeInv, ResetRows
    <2>3. ASSUME NEW t \in resets, Expires(t)
          PROVE  /\ resets' \subseteq ResetRows /\ newest' \in [Emails -> 0..MaxSecrets]
                 /\ uses' \in [Secrets -> Nat]
        <3>1. [t EXCEPT !.expired = TRUE] \in ResetRows
            BY DEF Inv, TypeInv, ResetRows
        <3>2. QED
            BY <2>3, <3>1 DEF Expires, Inv, TypeInv
    <2>4. QED
        BY <2>1, <2>2, <2>3, ResetCases DEF Inv, TypeInv
<1>4. request' \in Seq(RequestRows) /\ Len(request') <= MaxRequests
    <2>1. ASSUME NEW r \in RequestRows, RequestMade(r)
          PROVE  request' \in Seq(RequestRows) /\ Len(request') <= MaxRequests
        BY <2>1, Numbers DEF RequestMade, Inv, TypeInv
    <2>2. ASSUME NEW i \in DOMAIN request, NEW r \in RequestRows, RequestChanges(i, r)
          PROVE  request' \in Seq(RequestRows) /\ Len(request') <= MaxRequests
        BY <2>2 DEF RequestChanges, Inv, TypeInv
    <2>3. QED
        BY <2>1, <2>2, RequestCases DEF Inv, TypeInv
<1>5. call' \in [Calls -> CallRows] /\ \A c \in Calls : Busy(call[c])'
    BY CallCases DEF Inv, TypeInv, Takes, Busy
<1>6. sessions' \subseteq SessionTokens
    <2>1. ASSUME NEW c \in Calls, LoginAnswers(c) \/ GoogleAnswers(c)
          PROVE  sessions' \subseteq SessionTokens
        <3>1. /\ call[c] \in CallRows /\ call[c].email \in Emails
              /\ user[call[c].email] \in UserRows
            BY <2>1 DEF LoginAnswers, GoogleAnswers, Inv, TypeInv, Busy
        <3>2. PICK s : sessions' = sessions \cup {s} /\
                 \/ s = [email |-> call[c].email, version |-> call[c].version, pw |-> call[c].pw,
                         sub |-> Null]
                 \/ s = [email |-> call[c].email, version |-> user[call[c].email].version,
                         pw |-> call[c].pw, sub |-> call[c].sub]
            BY <2>1 DEF LoginAnswers, GoogleAnswers, HandsOut
        <3>3. s \in SessionTokens
            BY <3>1, <3>2 DEF SessionTokens, CallRows, UserRows
        <3>4. QED
            BY <3>2, <3>3 DEF Inv, TypeInv
    <2>2. QED
        BY <2>1, SessionCases DEF Inv, TypeInv
<1>7. QED
    BY <1>1, <1>2, <1>3, <1>4, <1>5, <1>6 DEF TypeInv

LEMMA AccountStep == ASSUME AccountsAssumption, Inv, [Next]_vars PROVE AccountInv'
BY UserCases DEF Inv, AccountInv, TypeInv, UserChanges, Changed

\* Accounts go on.
LEMMA AccountsGoOn ==
    ASSUME AccountsAssumption, Inv, [Next]_vars, NEW e \in Emails, user[e].exists
    PROVE  Onward(user[e], user'[e])
<1>1. user[e] \in UserRows
    BY DEF Inv, TypeInv
<1>2. Onward(user[e], user[e])
    BY <1>1 DEF Onward, UserRows
<1>3. QED
    BY <1>1, <1>2, UserCases DEF Inv, TypeInv, UserChanges, Changed

LEMMA StandsStill ==
    ASSUME AccountsAssumption, Inv, [Next]_vars, NEW e \in Emails, NEW version \in Nat, NEW pw, NEW sub,
           Stands(user[e], version, pw, sub)
    PROVE  Stands(user'[e], version, pw, sub)
<1>1. Onward(user[e], user'[e])
    BY AccountsGoOn DEF Stands
<1>2. user[e] \in UserRows /\ user'[e] \in UserRows
    BY TypeStep DEF Inv, TypeInv
<1>3. user[e].version \in Nat /\ user'[e].version \in Nat
    BY <1>2, Numbers DEF UserRows
<1>4. QED
    BY <1>1, <1>3 DEF Stands, Onward

LEMMA SessionStep == ASSUME AccountsAssumption, Inv, [Next]_vars PROVE SessionInv'
<1> USE DEF Inv
<1>1. TypeInv'
    BY TypeStep
<1>2. \A s \in SessionTokens : s.email \in Emails /\ s.version \in Nat
    BY Numbers DEF SessionTokens
<1>3. \A c \in Calls : call[c].version \in Nat
    BY Numbers DEF TypeInv, CallRows
<1>4. ASSUME NEW s \in sessions PROVE Stands(user'[s.email], s.version, s.pw, s.sub)
    <2>1. s \in SessionTokens /\ Stands(user[s.email], s.version, s.pw, s.sub)
        BY DEF TypeInv, SessionInv
    <2>2. QED
        BY <1>2, <2>1, StandsStill
<1>5. \A s \in sessions' : Stands(user'[s.email], s.version, s.pw, s.sub)
    <2>1. ASSUME NEW c \in Calls, LoginAnswers(c), UNCHANGED user
          PROVE  \A s \in sessions' : Stands(user'[s.email], s.version, s.pw, s.sub)
        <3> DEFINE s0 == [email |-> call[c].email, version |-> call[c].version,
                          pw |-> call[c].pw, sub |-> Null]
        <3>1. sessions' = sessions \cup {s0} /\ call[c].phase = "signing_in"
            BY <2>1 DEF LoginAnswers, HandsOut
        <3>2. Stands(user[call[c].email], call[c].version, call[c].pw, Null)
            BY <3>1 DEF SessionInv
        <3>3. Stands(user'[s0.email], s0.version, s0.pw, s0.sub)
            BY <2>1, <3>2 DEF Stands
        <3>4. QED
            BY <1>4, <3>1, <3>3
    <2>2. ASSUME NEW c \in Calls, GoogleAnswers(c), UNCHANGED user
          PROVE  \A s \in sessions' : Stands(user'[s.email], s.version, s.pw, s.sub)
        <3> DEFINE e == call[c].email
                   s0 == [email |-> e, version |-> user[e].version,
                          pw |-> call[c].pw, sub |-> call[c].sub]
        <3>1. sessions' = sessions \cup {s0} /\ call[c].phase = "linked"
            BY <2>2 DEF GoogleAnswers, HandsOut
        <3>2. /\ user[e].exists /\ call[c].pw = 0 /\ user[e].sub = call[c].sub
              /\ user[e].version \in Nat
            BY <3>1, Numbers DEF IdentityInv, TypeInv, Busy, UserRows
        <3>3. Stands(user'[s0.email], s0.version, s0.pw, s0.sub)
            BY <2>2, <3>2 DEF Stands
        <3>4. QED
            BY <1>4, <3>1, <3>3
    <2>3. QED
        BY <1>4, <2>1, <2>2, SessionCases
<1>6. \A s \in revoked' : s.version < user'[s.email].version
    <2>1. ASSUME NEW s \in revoked PROVE s.version < user'[s.email].version
        <3>1. s \in SessionTokens /\ s.version < user[s.email].version
            BY DEF TypeInv, SessionInv
        <3>2. user[s.email].exists
            BY <1>2, <3>1, Numbers DEF AccountInv, NoUser
        <3>3. Onward(user[s.email], user'[s.email])
            BY <1>2, <3>1, <3>2, AccountsGoOn
        <3>4. user[s.email].version \in Nat /\ user'[s.email].version \in Nat
            BY <1>1, <1>2, <3>1 DEF TypeInv, UserRows
        <3>5. QED
            BY <1>2, <3>1, <3>3, <3>4 DEF Onward
    <2>2. ASSUME NEW e \in Emails, NEW f \in UserRows, UserChanges(e, f), NEW s \in sessions,
                 s.email = e, f.version = user[e].version + 1
          PROVE  s.version < user'[s.email].version
        <3>1. s \in SessionTokens /\ Stands(user[s.email], s.version, s.pw, s.sub)
            BY DEF TypeInv, SessionInv
        <3>2. user'[e] = f /\ user[e].version \in Nat
            BY <2>2 DEF UserChanges, Changed, TypeInv, UserRows
        <3>3. QED
            BY <1>2, <2>2, <3>1, <3>2 DEF Stands
    <2>3. QED
        BY <2>1, <2>2, UserCases DEF UserChanges, Remembers
<1>7. ASSUME NEW c \in Calls, call'[c].phase = "signing_in"
      PROVE  Stands(user'[call'[c].email], call'[c].version, call'[c].pw, Null)
    <2>1. CASE call'[c] = call[c]
        <3>1. Stands(user[call[c].email], call[c].version, call[c].pw, Null) /\ call[c].email \in Emails
            BY <1>7, <2>1 DEF SessionInv, TypeInv, Busy
        <3>2. QED
            BY <1>3, <2>1, <3>1, StandsStill
    <2>2. CASE call'[c] # call[c]
        <3>1. PICK r \in CallRows : Takes(c, r) /\ call'[c] = r
            BY <2>2, CallCases DEF Takes, TypeInv
        <3>2. /\ UNCHANGED user /\ user[r.email].active /\ r.email \in Emails
              /\ r.pw = user[r.email].pw /\ r.version = user[r.email].version
            BY <1>7, <3>1 DEF Takes, Turns, Plain, Busy
        <3>3. user[r.email].exists /\ user[r.email].version \in Nat
            BY <3>2 DEF AccountInv, NoUser, TypeInv, UserRows
        <3>4. QED
            BY <3>1, <3>2, <3>3 DEF Stands
    <2>3. QED
        BY <2>1, <2>2
<1>8. ASSUME NEW c \in Calls, call'[c].phase = "leaving" PROVE user'[call'[c].email].exists
    <2>1. CASE call'[c] = call[c]
        <3>1. call[c].email \in Emails /\ user[call[c].email].exists
            BY <1>8, <2>1 DEF SessionInv, TypeInv, Busy
        <3>2. QED
            BY <2>1, <3>1, AccountsGoOn DEF Onward
    <2>2. CASE call'[c] # call[c]
        <3>1. PICK r \in CallRows : Takes(c, r) /\ call'[c] = r
            BY <2>2, CallCases DEF Takes, TypeInv
        <3>2. UNCHANGED user /\ user[r.email].active /\ r.email \in Emails
            BY <1>8, <3>1 DEF Takes, Turns, Plain, Busy
        <3>3. QED
            BY <3>1, <3>2 DEF AccountInv, NoUser
    <2>3. QED
        BY <2>1, <2>2
<1>9. QED
    BY <1>5, <1>6, <1>7, <1>8 DEF SessionInv

LEMMA CallStep ==
    ASSUME AccountsAssumption, Inv, [Next]_vars, NEW c \in Calls
    PROVE  \/ call'[c] = call[c]
           \/ \E r \in CallRows : /\ Takes(c, r) /\ call'[c] = r
                                  /\ \A d \in Calls \ {c} : call'[d] = call[d]
BY CallCases DEF Takes, Inv, TypeInv

LEMMA IdentityStep == ASSUME AccountsAssumption, Inv, [Next]_vars PROVE IdentityInv'
<1> USE DEF Inv
<1>1. ASSUME NEW e \in Emails
      PROVE  \/ user'[e].sub = user[e].sub
             \/ \E f \in UserRows : /\ UserChanges(e, f) /\ Commits(e, f) /\ user'[e] = f
                                    /\ \A o \in Emails \ {e} : user'[o] = user[o]
    BY UserCases DEF UserChanges, Changed, TypeInv
<1>2. ASSUME NEW e \in Emails, NEW o \in Emails, user'[e].sub # Null, user'[o].sub = user'[e].sub,
             e # o
      PROVE  FALSE
    <2>1. ASSUME NEW x \in Emails, NEW y \in Emails \ {x}, NEW f, Commits(x, f), user'[x] = f,
                 user'[y] = user[y], user'[x].sub = user'[y].sub
          PROVE  FALSE
        BY <2>1 DEF Commits, Claimed
    <2>2. CASE user'[e].sub = user[e].sub /\ user'[o].sub = user[o].sub
        BY <1>2, <2>2 DEF IdentityInv
    <2>3. QED
        BY <1>1, <1>2, <2>1, <2>2
<1>3. ASSUME NEW c \in Calls, call'[c].phase \in {"linking", "linked"}
      PROVE  /\ call'[c].sub \in Subjects /\ call'[c].pw = 0
             /\ user'[call'[c].email].exists
             /\ call'[c].phase = "linking" => user'[call'[c].email].sub \in {Null, call'[c].sub}
             /\ call'[c].phase = "linked" => user'[call'[c].email].sub = call'[c].sub
    <2>1. CASE call'[c] = call[c]
        <3> DEFINE e == call[c].email
        <3>1. /\ call[c].sub \in Subjects /\ call[c].pw = 0 /\ user[e].exists /\ e \in Emails
            BY <1>3, <2>1 DEF IdentityInv, TypeInv, Busy
        <3>2. Onward(user[e], user'[e])
            BY <3>1, AccountsGoOn
        <3>3. call[c].phase = "linked" => user'[e].sub = call[c].sub
            BY <3>1, <3>2, Numbers DEF IdentityInv, Onward
        <3>4. call[c].phase = "linking" => user'[e].sub \in {Null, call[c].sub}
            BY <1>1, <3>1 DEF IdentityInv, Commits
        <3>5. QED
            BY <2>1, <3>1, <3>2, <3>3, <3>4 DEF Onward
    <2>2. CASE call'[c] # call[c]
        <3>1. PICK r \in CallRows : Takes(c, r) /\ call'[c] = r
            BY <2>2, CallStep
        <3>2. CASE r.phase = "linking"
            <4>1. /\ UNCHANGED user /\ user[r.email].active /\ r.pw = 0 /\ r.sub \in Subjects
                  /\ Linkable(r.email, r.sub) /\ r.email \in Emails
                BY <3>1, <3>2 DEF Takes, Turns, Plain, Busy
            <4>2. user[r.email].exists
                BY <4>1 DEF AccountInv, NoUser
            <4>3. QED
                BY <3>1, <3>2, <4>1, <4>2 DEF Linkable
        <3>3. CASE r.phase = "linked"
            <4>1. /\ call[c].phase = "linking" /\ r.pw = 0 /\ r.sub = call[c].sub
                  /\ r.email = call[c].email /\ r.email \in Emails
                  /\ user' = [user EXCEPT ![r.email].sub = r.sub]
                BY <3>1, <3>3 DEF Takes, Turns, Plain, Busy
            <4>2. r.sub \in Subjects /\ user[r.email].exists
                BY <4>1 DEF IdentityInv
            <4>3. user'[r.email].sub = r.sub /\ user'[r.email].exists
                BY <4>1, <4>2 DEF TypeInv, UserRows
            <4>4. QED
                BY <3>1, <3>3, <4>1, <4>2, <4>3
        <3>4. QED
            BY <1>3, <3>1, <3>2, <3>3
    <2>3. QED
        BY <2>1, <2>2
<1>4. ASSUME NEW c \in Calls, NEW d \in Calls, c # d, call'[c].phase = "linking",
             call'[d].phase = "linking", call'[c].email = call'[d].email
      PROVE  FALSE
    <2>1. ASSUME NEW x \in Calls, NEW y \in Calls, x # y, call'[x] # call[x],
                 call'[x].phase = "linking", call'[y].phase = "linking",
                 call'[x].email = call'[y].email
          PROVE  FALSE
        <3>1. PICK r \in CallRows : Takes(x, r) /\ call'[x] = r /\ call'[y] = call[y]
            BY <2>1, CallStep
        <3>2. UserFree(r.email)
            BY <2>1, <3>1 DEF Takes, Turns, Plain
        <3>3. QED
            BY <2>1, <3>1, <3>2 DEF UserFree
    <2>2. CASE call'[c] = call[c] /\ call'[d] = call[d]
        BY <1>4, <2>2 DEF IdentityInv
    <2>3. QED
        BY <1>4, <2>1, <2>2
<1>5. QED
    BY <1>2, <1>3, <1>4 DEF IdentityInv

LEMMA SecretGrows ==
    ASSUME AccountsAssumption, Inv, [Next]_vars
    PROVE  secret \in Nat /\ secret' \in Nat /\ secret <= secret'
<1>1. secret \in Nat
    BY Numbers DEF Inv, TypeInv
<1>2. QED
    BY <1>1, ResetCases

\* The rows of a request that a step leaves where they were.
RequestKept(i) ==
    /\ i \in DOMAIN request'
    /\ request'[i].email = request[i].email
    /\ request'[i].status = "pending" =>
          /\ request[i].status = "pending"
          /\ request'[i].link = request[i].link \/ Relinks(request'[i])
    /\ \A j \in DOMAIN request \ {i} : Relinks(request'[i]) => ~Relinks(request'[j])
    /\ request[i].status # "pending" => request'[i] = request[i]

LEMMA RequestsAreKept ==
    ASSUME AccountsAssumption, Inv, [Next]_vars
    PROVE  /\ \A i \in DOMAIN request : RequestKept(i)
           /\ DOMAIN request' = DOMAIN request
              \/ \E r \in RequestRows :
                    /\ RequestMade(r) /\ DOMAIN request' = DOMAIN request \cup {Len(request) + 1}
                    /\ request'[Len(request) + 1] = r /\ Len(request) + 1 \notin DOMAIN request
                    /\ \A i \in DOMAIN request : request'[i] = request[i]
<1> USE DEF Inv
<1>1. \A i \in DOMAIN request : request[i].link \in Nat /\ request[i].link <= secret
    <2>1. \A i \in DOMAIN request : request[i] \in RequestRows
        BY DEF TypeInv
    <2>2. QED
        BY <2>1, Numbers DEF RequestInv, RequestRows
<1>2. secret \in Nat /\ \A i \in DOMAIN request : ~Relinks(request[i])
    BY <1>1, SecretGrows DEF Relinks
<1>3. CASE UNCHANGED request
    BY <1>2, <1>3 DEF RequestKept
<1>4. ASSUME NEW i \in DOMAIN request, NEW r \in RequestRows, RequestChanges(i, r)
      PROVE  /\ DOMAIN request' = DOMAIN request
             /\ \A j \in DOMAIN request : RequestKept(j)
    <2>1. /\ DOMAIN request' = DOMAIN request
          /\ request'[i] = r /\ \A j \in DOMAIN request \ {i} : request'[j] = request[j]
        BY <1>4 DEF RequestChanges, TypeInv
    <2>2. QED
        BY <1>2, <1>4, <2>1 DEF RequestKept, RequestChanges, Decides
<1>5. ASSUME NEW r \in RequestRows, RequestMade(r)
      PROVE  /\ DOMAIN request' = DOMAIN request \cup {Len(request) + 1}
             /\ request'[Len(request) + 1] = r /\ Len(request) + 1 \notin DOMAIN request
             /\ \A i \in DOMAIN request : request'[i] = request[i]
    BY <1>5 DEF RequestMade, TypeInv
<1>6. ASSUME NEW r \in RequestRows, RequestMade(r), NEW i \in DOMAIN request
      PROVE  RequestKept(i)
    BY <1>2, <1>5, <1>6 DEF RequestKept
<1>7. QED
    BY <1>3, <1>4, <1>5, <1>6, RequestCases

LEMMA RequestStep == ASSUME AccountsAssumption, Inv, [Next]_vars PROVE RequestInv'
<1> USE DEF Inv
<1>1. \A i \in DOMAIN request : request[i].link \in Nat /\ request[i].link <= secret
    <2>1. \A i \in DOMAIN request : request[i] \in RequestRows
        BY DEF TypeInv
    <2>2. QED
        BY <2>1, Numbers DEF RequestInv, RequestRows
<1>2. secret \in Nat /\ secret' \in Nat /\ secret <= secret'
    BY SecretGrows
<1>3. ASSUME NEW i \in DOMAIN request'
      PROVE  /\ request'[i].link <= secret'
             /\ request'[i].status = "pending" <=> request'[i].link # 0
    <2>1. CASE UNCHANGED request
        BY <1>1, <1>2, <2>1 DEF RequestInv
    <2>2. ASSUME NEW j \in DOMAIN request, NEW r \in RequestRows, RequestChanges(j, r)
          PROVE  /\ request'[i].link <= secret'
                 /\ request'[i].status = "pending" <=> request'[i].link # 0
        <3>1. /\ i \in DOMAIN request
              /\ request'[j] = r /\ \A k \in DOMAIN request \ {j} : request'[k] = request[k]
            BY <2>2 DEF RequestChanges, TypeInv
        <3>2. CASE i = j
            BY <1>1, <1>2, <2>2, <3>1, <3>2 DEF RequestChanges, Decides, Relinks, RequestInv
        <3>3. CASE i # j
            BY <1>1, <1>2, <3>1, <3>3 DEF RequestInv
        <3>4. QED
            BY <3>2, <3>3
    <2>3. ASSUME NEW r \in RequestRows, RequestMade(r)
          PROVE  /\ request'[i].link <= secret'
                 /\ request'[i].status = "pending" <=> request'[i].link # 0
        <3>1. CASE i \in DOMAIN request
            <4>1. request'[i] = request[i]
                BY <2>3, <3>1 DEF RequestMade, TypeInv
            <4>2. QED
                BY <1>1, <1>2, <3>1, <4>1 DEF RequestInv
        <3>2. CASE i \notin DOMAIN request
            <4>1. request'[i] = r
                BY <2>3, <3>2 DEF RequestMade, TypeInv
            <4>2. QED
                BY <1>2, <2>3, <4>1 DEF RequestMade, Relinks
        <3>3. QED
            BY <3>1, <3>2
    <2>4. QED
        BY <2>1, <2>2, <2>3, RequestCases
<1>4. ASSUME NEW i \in DOMAIN request', NEW j \in DOMAIN request', i # j,
             request'[i].status = "pending", request'[j].status = "pending"
      PROVE  request'[i].email # request'[j].email /\ request'[i].link # request'[j].link
    <2>1. CASE i \in DOMAIN request /\ j \in DOMAIN request
        <3>1. RequestKept(i) /\ RequestKept(j)
            BY <2>1, RequestsAreKept
        <3>2. /\ request[i].status = "pending" /\ request[j].status = "pending"
              /\ request[i].email # request[j].email /\ request[i].link # request[j].link
            BY <1>4, <2>1, <3>1 DEF RequestKept, RequestInv
        <3>3. ~(Relinks(request'[i]) /\ Relinks(request'[j]))
            BY <1>4, <2>1, <3>1 DEF RequestKept
        <3>4. QED
            BY <1>1, <1>2, <1>4, <2>1, <3>1, <3>2, <3>3 DEF RequestKept, Relinks
    <2>2. ASSUME NEW x \in DOMAIN request', NEW y \in DOMAIN request', x \notin DOMAIN request,
                 y \in DOMAIN request, request'[y].status = "pending"
          PROVE  request'[x].email # request'[y].email /\ request'[x].link # request'[y].link
        <3>1. PICK r \in RequestRows : /\ RequestMade(r) /\ request'[x] = r
                                       /\ request'[y] = request[y]
            BY <2>2, RequestsAreKept
        <3>2. Pending(r.email) = {} /\ r.link = secret + 1
            BY <3>1 DEF RequestMade, Relinks
        <3>3. QED
            BY <1>1, <1>2, <2>2, <3>1, <3>2 DEF Pending
    <2>3. CASE i \notin DOMAIN request /\ j \notin DOMAIN request
        BY <1>4, <2>3, RequestsAreKept
    <2>4. QED
        BY <1>4, <2>1, <2>2, <2>3
<1>5. ASSUME NEW c \in Calls, call'[c].phase = "creating"
      PROVE  /\ call'[c].row \in DOMAIN request'
             /\ request'[call'[c].row].status = "pending"
             /\ request'[call'[c].row].email = call'[c].email
    <2>1. CASE call'[c] = call[c]
        <3> DEFINE i == call[c].row
        <3>1. /\ i \in DOMAIN request /\ request[i].status = "pending"
              /\ request[i].email = call[c].email
            BY <1>5, <2>1 DEF RequestInv
        <3>2. RequestKept(i)
            BY <3>1, RequestsAreKept
        <3>3. request'[i].status = "pending"
            <4>1. ASSUME NEW r, RequestChanges(i, r), Decides(i, r) PROVE FALSE
                BY <1>5, <2>1, <4>1 DEF Decides, RequestFree, RequestInv
            <4>2. ASSUME NEW j \in DOMAIN request, NEW r \in RequestRows, RequestChanges(j, r)
                  PROVE  request'[i].status = "pending"
                <5>1. /\ request'[j] = r
                      /\ \A k \in DOMAIN request \ {j} : request'[k] = request[k]
                    BY <4>2 DEF RequestChanges, TypeInv
                <5>2. QED
                    BY <3>1, <4>1, <4>2, <5>1 DEF RequestChanges
            <4>3. ASSUME NEW r \in RequestRows, RequestMade(r) PROVE request'[i] = request[i]
                BY <3>1, <4>3 DEF RequestMade, TypeInv
            <4>4. QED
                BY <3>1, <4>2, <4>3, RequestCases
        <3>4. QED
            BY <2>1, <3>1, <3>2, <3>3 DEF RequestKept
    <2>2. CASE call'[c] # call[c]
        <3>1. PICK r \in CallRows : Takes(c, r) /\ call'[c] = r
            BY <2>2, CallStep
        <3>2. QED
            BY <1>5, <3>1 DEF Takes, Turns, Plain
    <2>3. QED
        BY <2>1, <2>2
<1>6. ASSUME NEW c \in Calls, NEW d \in Calls, c # d, call'[c].phase = "creating",
             call'[d].phase = "creating", call'[c].row = call'[d].row
      PROVE  FALSE
    <2>1. ASSUME NEW x \in Calls, NEW y \in Calls, x # y, call'[x] # call[x],
                 call'[x].phase = "creating", call'[y].phase = "creating",
                 call'[x].row = call'[y].row
          PROVE  FALSE
        <3>1. PICK r \in CallRows : Takes(x, r) /\ call'[x] = r /\ call'[y] = call[y]
            BY <2>1, CallStep
        <3>2. RequestFree(r.row)
            BY <2>1, <3>1 DEF Takes, Turns, Plain
        <3>3. QED
            BY <2>1, <3>1, <3>2 DEF RequestFree
    <2>2. CASE call'[c] = call[c] /\ call'[d] = call[d]
        BY <1>6, <2>2 DEF RequestInv
    <2>3. QED
        BY <1>6, <2>1, <2>2
<1>7. QED
    BY <1>3, <1>4, <1>5, <1>6 DEF RequestInv

LEMMA ResetStep == ASSUME AccountsAssumption, Inv, [Next]_vars PROVE ResetInv'
<1> USE DEF Inv
<1>1. secret \in Nat /\ secret' \in Nat /\ secret <= secret'
    BY SecretGrows
<1>2. \A t \in resets : /\ t.email \in Emails /\ t.token \in Secrets /\ t.token \in Nat
                        /\ t.token <= secret
    BY Numbers DEF TypeInv, ResetRows, ResetInv, Secrets
<1>3. \A n \in Secrets : n \in Nat /\ uses[n] \in Nat
    BY Numbers DEF TypeInv, Secrets
<1>4. ASSUME NEW e \in Emails, user[e].active, \E t \in resets' : t.email = e PROVE user'[e].active
    <2>1. CASE \E x \in Emails, f \in UserRows : UserChanges(x, f)
        <3>1. PICK x \in Emails, f \in UserRows : UserChanges(x, f)
            BY <2>1
        <3>2. QED
            BY <1>4, <3>1 DEF UserChanges, Changed, TypeInv, ResetsOf
    <2>2. QED
        BY <1>4, <2>1, UserCases
<1>5. ASSUME NEW c \in Calls, call'[c].phase = "resetting"
      PROVE  \/ call'[c] = call[c]
             \/ /\ UNCHANGED <<resets, secret>>
                /\ \E t \in resets : t.token = call'[c].token /\ t.email = call'[c].email
    <2>1. CASE call'[c] # call[c]
        <3>1. PICK r \in CallRows : Takes(c, r) /\ call'[c] = r
            BY <2>1, CallStep
        <3>2. QED
            BY <1>5, <3>1 DEF Takes, Turns, Plain
    <2>2. QED
        BY <2>1
<1>6. ASSUME NEW c \in Calls, call'[c].phase = "resetting"
      PROVE  call'[c].token \in Nat /\ call'[c].token <= secret
    <2>1. call'[c].token \in Nat
        BY TypeStep, Numbers DEF TypeInv, CallRows
    <2>2. QED
        BY <1>2, <1>5, <1>6, <2>1 DEF ResetInv
\* The four ways resets may change, each with all that is to be shown.
<1>7. ASSUME resets' \subseteq resets, UNCHANGED <<newest, uses>> PROVE ResetInv'
    <2>1. \A t \in resets' : /\ user'[t.email].active /\ t.token = newest'[t.email]
                             /\ t.token <= secret' /\ uses'[t.token] = 0
        BY <1>1, <1>2, <1>4, <1>7 DEF ResetInv
    <2>2. \A n \in Secrets : uses'[n] <= 1 /\ (n > secret' => uses'[n] = 0)
        BY <1>1, <1>3, <1>7 DEF ResetInv
    <2>3. ASSUME NEW c \in Calls, call'[c].phase = "resetting"
          PROVE  /\ call'[c].token <= secret'
                 /\ \A t \in resets' : t.token = call'[c].token => t.email = call'[c].email
        BY <1>1, <1>5, <1>6, <1>7, <2>3 DEF ResetInv
    <2>4. QED
        BY <1>7, <2>1, <2>2, <2>3 DEF ResetInv
<1>8. ASSUME NEW e \in Emails, Issues(e) PROVE ResetInv'
    <2>1. PICK new :
          /\ resets' = (resets \ ResetsOf(e)) \cup {new} /\ secret' = secret + 1
          /\ new.email = e /\ new.token = secret'
          /\ newest' = [newest EXCEPT ![e] = secret'] /\ UNCHANGED uses /\ user'[e].active
          /\ secret' \in Secrets
        <3> DEFINE r == [email |-> e, token |-> secret', expired |-> FALSE]
        <3>1. secret' \in Secrets
            BY <1>1, <1>8, Numbers DEF Issues, Secrets
        <3>2. r.email = e /\ r.token = secret'
            OBVIOUS
        <3>3. QED
            BY <1>8, <3>1, <3>2 DEF Issues
    <2>2. /\ newest'[e] = secret' /\ \A x \in Emails \ {e} : newest'[x] = newest[x]
        BY <2>1 DEF TypeInv
    <2>3. ASSUME NEW t \in resets'
          PROVE  /\ user'[t.email].active /\ t.token = newest'[t.email]
                 /\ t.token <= secret' /\ uses'[t.token] = 0
        <3>1. CASE t = new
            BY <1>1, <2>1, <2>2, <3>1 DEF ResetInv
        <3>2. CASE t \in resets \ ResetsOf(e)
            BY <1>1, <1>2, <1>4, <2>1, <2>2, <2>3, <3>2 DEF ResetInv, ResetsOf
        <3>3. QED
            BY <2>1, <2>3, <3>1, <3>2
    <2>4. \A t, u \in resets' : t.token = u.token => t = u
        <3>1. \A t \in resets : t.token # new.token
            BY <1>1, <1>2, <2>1
        <3>2. QED
            BY <2>1, <3>1 DEF ResetInv
    <2>5. \A n \in Secrets : uses'[n] <= 1 /\ (n > secret' => uses'[n] = 0)
        BY <1>1, <1>3, <2>1 DEF ResetInv
    <2>6. ASSUME NEW c \in Calls, call'[c].phase = "resetting"
          PROVE  /\ call'[c].token <= secret'
                 /\ \A t \in resets' : t.token = call'[c].token => t.email = call'[c].email
        BY <1>1, <1>2, <1>5, <1>6, <2>1, <2>6 DEF ResetInv
    <2>7. QED
        BY <2>3, <2>4, <2>5, <2>6 DEF ResetInv
<1>9. ASSUME NEW t \in resets, Consumes(t) PROVE ResetInv'
    <2>1. /\ resets' = resets \ ResetsOf(t.email) /\ UNCHANGED newest
          /\ uses'[t.token] = 1 /\ \A n \in Secrets \ {t.token} : uses'[n] = uses[n]
        BY <1>2, <1>9 DEF Consumes, TypeInv, ResetInv
    <2>2. ASSUME NEW u \in resets'
          PROVE  /\ user'[u.email].active /\ u.token = newest'[u.email]
                 /\ u.token <= secret' /\ uses'[u.token] = 0
        <3>1. u \in resets /\ u # t
            BY <2>1, <2>2 DEF ResetsOf
        <3>2. u.token # t.token
            BY <3>1 DEF ResetInv
        <3>3. QED
            BY <1>1, <1>2, <1>4, <2>1, <2>2, <3>1, <3>2 DEF ResetInv
    <2>3. \A n \in Secrets : uses'[n] <= 1 /\ (n > secret' => uses'[n] = 0)
        BY <1>1, <1>2, <1>3, <2>1 DEF ResetInv
    <2>4. ASSUME NEW c \in Calls, call'[c].phase = "resetting"
          PROVE  /\ call'[c].token <= secret'
                 /\ \A u \in resets' : u.token = call'[c].token => u.email = call'[c].email
        BY <1>1, <1>5, <1>6, <2>1, <2>4 DEF ResetInv
    <2>5. QED
        BY <2>1, <2>2, <2>3, <2>4 DEF ResetInv
<1>10. ASSUME NEW t \in resets, Expires(t) PROVE ResetInv'
    <2>1. /\ [t EXCEPT !.expired = TRUE].email = t.email
          /\ [t EXCEPT !.expired = TRUE].token = t.token
        BY DEF TypeInv, ResetRows
    <2>2. PICK new : /\ resets' = (resets \ {t}) \cup {new}
                     /\ new.email = t.email /\ new.token = t.token
                     /\ UNCHANGED <<newest, uses, user, call>>
        BY <1>10, <2>1 DEF Expires
    <2>3. \A u \in resets' : /\ user'[u.email].active /\ u.token = newest'[u.email]
                             /\ u.token <= secret' /\ uses'[u.token] = 0
        BY <1>1, <1>2, <2>2 DEF ResetInv
    <2>4. \A u, x \in resets' : u.token = x.token => u = x
        BY <2>2 DEF ResetInv
    <2>5. \A n \in Secrets : uses'[n] <= 1 /\ (n > secret' => uses'[n] = 0)
        BY <1>1, <1>3, <2>2 DEF ResetInv
    <2>6. ASSUME NEW c \in Calls, call'[c].phase = "resetting"
          PROVE  /\ call'[c].token <= secret'
                 /\ \A u \in resets' : u.token = call'[c].token => u.email = call'[c].email
        BY <1>1, <1>6, <2>2, <2>6 DEF ResetInv
    <2>7. QED
        BY <2>3, <2>4, <2>5, <2>6 DEF ResetInv
<1>11. QED
    BY <1>7, <1>8, <1>9, <1>10, ResetCases

-----------------------------------------------------------------------------
(* The theorems.                                                           *)

LEMMA Invariant == ASSUME AccountsAssumption PROVE Spec => []Inv
<1>1. Init => Inv
    BY InitInv
<1>2. Inv /\ [Next]_vars => Inv'
    BY TypeStep, AccountStep, SessionStep, IdentityStep, RequestStep, ResetStep DEF Inv
<1>3. QED
    BY <1>1, <1>2, PTL DEF Spec

\* For every set of addresses, identities, concurrent calls and operations:
\* what the tables hold is what their columns and indexes allow.
THEOREM Typing == ASSUME AccountsAssumption PROVE Spec => []TypeOK
<1>1. Inv => TypeOK
    BY DEF Inv, TypeInv, RequestInv, TypeOK, UserRows, CallRows, ResetRows
<1>2. QED
    BY <1>1, Invariant, PTL

\* A reset link works only while it is the newest one of an active account,
\* and once, however often it is submitted at the same time.
THEOREM ResetsHold ==
    ASSUME AccountsAssumption PROVE Spec => [](ResetIsCurrent /\ ResetIsSingleUse)
<1>1. Inv => ResetIsCurrent /\ ResetIsSingleUse
    BY DEF Inv, ResetInv, ResetIsCurrent, ResetIsSingleUse
<1>2. QED
    BY <1>1, Invariant, PTL

\* No session outlives the sign-out, suspension, revocation or new password
\* that ended it, and none is accepted with a password the account has not.
THEOREM SessionsHold ==
    ASSUME AccountsAssumption PROVE Spec => [](RevokedStaysRevoked /\ PasswordOpensOwnSessions)
<1>1. ASSUME Inv PROVE RevokedStaysRevoked
    <2>1. \A s \in revoked : s.version < user[s.email].version /\ s.version \in Nat
        BY <1>1, Numbers DEF Inv, TypeInv, SessionInv, SessionTokens
    <2>2. QED
        BY <2>1 DEF RevokedStaysRevoked, Accepted
<1>2. Inv => PasswordOpensOwnSessions
    BY DEF Inv, SessionInv, Stands, PasswordOpensOwnSessions, Accepted
<1>3. QED
    BY <1>1, <1>2, Invariant, PTL

\* A Google identity belongs to one account, and its sessions to that account.
THEOREM IdentitiesHold == ASSUME AccountsAssumption PROVE Spec => []IdentityIsPersonal
<1>1. Inv => IdentityIsPersonal
    BY DEF Inv, SessionInv, Stands, IdentityInv, IdentityIsPersonal
<1>2. QED
    BY <1>1, Invariant, PTL

\* An access request is decided once, whoever reviews or submits it again.
THEOREM DecisionsHold == ASSUME AccountsAssumption PROVE Spec => [][DecisionIsFinal]_vars
<1>1. Inv /\ [Next]_vars => [DecisionIsFinal]_vars
    BY RequestsAreKept DEF RequestKept, DecisionIsFinal
<1>2. QED
    BY <1>1, Invariant, PTL DEF Spec

\* What accounts promise, for any number of them and of simultaneous calls.
THEOREM Credentials == ASSUME AccountsAssumption PROVE Spec => CredentialsHold
BY Typing, ResetsHold, SessionsHold, IdentitiesHold, DecisionsHold, PTL DEF CredentialsHold
=============================================================================
