-------------------------- MODULE DeliveryContract --------------------------
(***************************************************************************)
(* What the delivery queue promises about the outside world, without       *)
(* queues, leases or workers.  Confirming an email opens an attempt.  An   *)
(* open attempt puts at most one message into the world, or lapses without *)
(* one.  A second attempt for an email needs an acknowledgement unless it  *)
(* is certain that no earlier attempt has mailed or still can, and "sent"  *)
(* is never said of an email that was not mailed.                          *)
(***************************************************************************)
CONSTANTS Emails, Attempts, Null

VARIABLES
    target,  \* target[a]: the email attempt a was opened for, or Null
    acked,   \* attempts opened with the duplicate risk acknowledged
    open,    \* attempts that may still mail
    copies,  \* attempts whose message was accepted
    sent     \* emails reported as sent

vars == <<target, acked, open, copies, sent>>

Init ==
    /\ target = [a \in Attempts |-> Null]
    /\ acked = {}
    /\ open = {}
    /\ copies = {}
    /\ sent = {}

CertainlyUnmailed(e) ==
    \A a \in Attempts : target[a] = e => a \notin open \cup copies

Confirm(e, a, ack) ==
    /\ target[a] = Null
    /\ e \notin sent
    /\ CertainlyUnmailed(e) \/ ack
    /\ target' = [target EXCEPT ![a] = e]
    /\ acked' = IF ack THEN acked \cup {a} ELSE acked
    /\ open' = open \cup {a}
    /\ UNCHANGED <<copies, sent>>

Mail(a) ==
    /\ a \in open
    /\ open' = open \ {a}
    /\ copies' = copies \cup {a}
    /\ UNCHANGED <<target, acked, sent>>

Lapse(gone) ==
    /\ gone \subseteq open
    /\ open' = open \ gone
    /\ UNCHANGED <<target, acked, copies, sent>>

ReportSent(e) ==
    /\ \E a \in copies : target[a] = e
    /\ sent' = sent \cup {e}
    /\ UNCHANGED <<target, acked, open, copies>>

Next ==
    \/ \E e \in Emails, a \in Attempts, ack \in BOOLEAN : Confirm(e, a, ack)
    \/ \E a \in Attempts : Mail(a)
    \/ \E gone \in SUBSET Attempts : Lapse(gone)
    \/ \E e \in Emails : ReportSent(e)

Spec == Init /\ [][Next]_vars
=============================================================================
