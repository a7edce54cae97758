-------------------------------- MODULE Chat --------------------------------
(***************************************************************************)
(* The chat assistant: POST /chat and DELETE /chat/{session_id}.           *)
(*                                                                         *)
(* A post reads the history of its session, has the question answered, and *)
(* only then computes the next serial number and inserts the question and  *)
(* its answer in one commit.  Posts to one session do not wait for each    *)
(* other; of two that computed the same number the later one fails on the  *)
(* unique constraint, after its answer has been paid for.  A session is    *)
(* nothing but its messages, so a post that is under way while its session *)
(* is deleted brings it back.                                              *)
(*                                                                         *)
(* Left out: texts, retrieval (a failure of it is AnswerFails) and the     *)
(* read-only endpoints, which return what is stored.                       *)
(***************************************************************************)
EXTENDS Integers, FiniteSets

CONSTANTS
    Sessions,
    Posts,       \* POST requests, each asked once
    MaxTurns,    \* chat_history_max_turns; no limit when not positive
    MaxDeletes,  \* bound on DELETE requests
    NoSession

ASSUME TurnsAreCounted == MaxTurns \in Int
ASSUME NullIsNoSession == NoSession \notin Sessions

VARIABLES
    messages,    \* stored messages of each session
    post,          \* how far each post is
    session,     \* its session
    history,     \* the messages it was answered with
    seq,         \* the number computed for its question
    deletes,     \* DELETE requests so far
    disturbed    \* sessions deleted while a post was under way

chatVars == <<messages, post, session, history, seq, deletes, disturbed>>

Message(n, role, p) == [seq |-> n, role |-> role, turn |-> p]
Turn(n, p) == {Message(n, "human", p), Message(n + 1, "ai", p)}

ChatInit ==
    /\ messages = [s \in Sessions |-> {}]
    /\ post = [p \in Posts |-> "new"]
    /\ session = [p \in Posts |-> NoSession]
    /\ history = [p \in Posts |-> {}]
    /\ seq = [p \in Posts |-> 0]
    /\ deletes = 0 /\ disturbed = {}

PostMoves(p, from, to) == post[p] = from /\ post' = [post EXCEPT ![p] = to]

(* The last 2 * MaxTurns messages.                                         *)
After(x, m) == {y \in m : y.seq > x.seq}
\* Mutant of Window: as many messages as turns are allowed.
HalfWindow(m) == IF MaxTurns > 0 THEN {x \in m : Cardinality(After(x, m)) < MaxTurns} ELSE m
Window(m) == IF MaxTurns > 0 THEN {x \in m : Cardinality(After(x, m)) < 2 * MaxTurns} ELSE m

Ask(p, s) ==
    /\ PostMoves(p, "new", "asked")
    /\ session' = [session EXCEPT ![p] = s]
    /\ history' = [history EXCEPT ![p] = Window(messages[s])]
    /\ UNCHANGED <<messages, seq, deletes, disturbed>>

(* _next_seq, in the transaction the answer was awaited in.                *)
IsNextSeq(n, m) ==
    \/ m = {} /\ n = 1
    \/ \E x \in m : n = x.seq + 1 /\ \A y \in m : y.seq <= x.seq

Answered(p) ==
    /\ PostMoves(p, "asked", "answered")
    /\ \E n \in {x.seq + 1 : x \in messages[session[p]]} \cup {1} :
           IsNextSeq(n, messages[session[p]]) /\ seq' = [seq EXCEPT ![p] = n]
    /\ UNCHANGED <<messages, session, history, deletes, disturbed>>

AnswerFails(p) ==
    /\ PostMoves(p, "asked", "ended")
    /\ UNCHANGED <<messages, session, history, seq, deletes, disturbed>>

(* uq_chat_messages_session_seq.                                           *)
\* Mutant of IsFree: there is no unique constraint.
IsFreeAlways(p) == TRUE
IsFree(p) == \A x \in messages[session[p]] : x.seq \notin {seq[p], seq[p] + 1}

Save(p) ==
    /\ PostMoves(p, "answered", "ended")
    /\ IsFree(p)
    /\ messages' = [messages EXCEPT ![session[p]] = @ \cup Turn(seq[p], p)]
    /\ UNCHANGED <<session, history, seq, deletes, disturbed>>

SaveFails(p) ==
    /\ PostMoves(p, "answered", "ended")
    /\ ~IsFree(p)
    /\ UNCHANGED <<messages, session, history, seq, deletes, disturbed>>

(* The client is gone or the process stops: nothing has been written.      *)
Abandoned(p) ==
    /\ post[p] \in {"asked", "answered"}
    /\ post' = [post EXCEPT ![p] = "ended"]
    /\ UNCHANGED <<messages, session, history, seq, deletes, disturbed>>

UnderWay(s) == \E p \in Posts : post[p] \in {"asked", "answered"} /\ session[p] = s

DeleteSession(s) ==
    /\ deletes < MaxDeletes /\ deletes' = deletes + 1
    /\ messages' = [messages EXCEPT ![s] = {}]
    /\ disturbed' = IF UnderWay(s) THEN disturbed \cup {s} ELSE disturbed
    /\ UNCHANGED <<post, session, history, seq>>

ChatNext ==
    \/ \E p \in Posts, s \in Sessions : Ask(p, s)
    \/ \E p \in Posts :
           Answered(p) \/ AnswerFails(p) \/ Save(p) \/ SaveFails(p) \/ Abandoned(p)
    \/ \E s \in Sessions : DeleteSession(s)

ChatSpec == ChatInit /\ [][ChatNext]_chatVars

(***************************************************************************)
(* Properties.                                                             *)
(***************************************************************************)

(* Read in order, the messages are questions each followed by its answer.  *)
WholeTurns(m) ==
    /\ \A x, y \in m : x.seq = y.seq => x = y
    /\ \A x \in m : \E n \in {x.seq, x.seq - 1} :
           x \in Turn(n, x.turn) /\ Turn(n, x.turn) \subseteq m

(* Whatever posts and deletions overlap, a session consists of whole turns:*)
(* no two messages share a number, and every question is followed by the   *)
(* answer it was given.                                                    *)
SessionsAreTurns == \A s \in Sessions : WholeTurns(messages[s])

(* The window of history a question is answered with never begins in the   *)
(* middle of a turn.                                                       *)
HistoryIsTurns == \A p \in Posts : WholeTurns(history[p])

(* A turn is stored after all the turns stored before it, so that the      *)
(* order of the numbers is the order of the commits, unless the session was*)
(* deleted while a post to it was under way.                               *)
AppendsAtEnd ==
    [][\A s \in Sessions \ disturbed :
           \A x \in messages'[s] \ messages[s] : \A y \in messages[s] \cap messages'[s] :
               x.seq > y.seq]_chatVars

(* A session is whole turns in the order of their commits, and questions   *)
(* are answered with whole turns.                                          *)
TurnsAreKept == [](SessionsAreTurns /\ HistoryIsTurns) /\ AppendsAtEnd
=============================================================================
