----------------------------- MODULE MCRowLocks -----------------------------
(***************************************************************************)
(* Small instances of RowLocks for TLC.  All are behaviours of RowLocks in *)
(* which only some of the processes ever begin a transaction, and only for *)
(* some of the leads: cast says which, whether feeds dismiss leads and how *)
(* many messages a page has.  It is chosen at the beginning and never      *)
(* changes.                                                                *)
(*                                                                         *)
(*   Crossing   all feeds, of two scopes, that name the same two leads     *)
(*   Serving    every kind of process, for one lead                        *)
(*   Competing  all requests and the workers, for one lead                 *)
(*   Paging     pages of replies to two leads, and a feed                  *)
(***************************************************************************)
EXTENDS RowLocks, TLC

CONSTANTS First, Second, Foreign    \* feeds, the first two of one scope

VARIABLE cast

MCIngestions == {First, Second, Foreign}
MCScopeOf == First :> "ours" @@ Second :> "ours" @@ Foreign :> "theirs"

ASSUME ProcessesAndBounds

OneLead == {CHOOSE l \in Lead : TRUE}
OneRequest == {CHOOSE r \in Requests : TRUE}

Cast(procs, leads, dismissing, messages) ==
    [procs |-> procs, leads |-> leads, dismissing |-> dismissing, messages |-> messages]

Crossing == Cast(Ingestions, Lead, FALSE, 0)
Serving == Cast({First} \cup Background \cup OneRequest, OneLead, TRUE, 1)
Competing == Cast(Requests \cup {"generation", "delivery"}, OneLead, FALSE, 0)
Paging == Cast({First, "replies"}, Lead, TRUE, MaxMessages)

(* A job is there only where somebody of the cast asks for its status.     *)
CastInit ==
    /\ cast \in {Crossing, Serving, Competing, Paging}
    /\ LocksInit
    /\ \A l \in Lead :
        /\ cast = Crossing \/ l \notin cast.leads => del[l] = "none"
        /\ cast \in {Crossing, Paging} \/ l \notin cast.leads => gen[l] = "done"

Plays(p) ==
    /\ p \in cast.procs
    /\ p \in Requests \cup Background => task'[p].leads \subseteq cast.leads
    /\ p \in Ingestions =>
        /\ \A i \in 2..Len(todo'[p]) : todo'[p][i].row.key \in cast.leads
        /\ cast.dismissing \/ task'[p].leads = {}
    /\ p = "replies" /\ cast.messages = 1 => todo'[p] \in MessageLocks

CastNext ==
    /\ UNCHANGED cast
    /\ LocksNext
    /\ \A p \in Procs : task[p] = NoTask /\ task'[p] # NoTask => Plays(p)

CastSpec == CastInit /\ [][CastNext]_<<cast, lockVars>>
=============================================================================
