-------------------------- MODULE OutreachContract --------------------------
(***************************************************************************)
(* The pipeline implements DeliveryContract.  An attempt is a delivery     *)
(* job; it may still mail while it is queued or while some worker process, *)
(* even one whose lease has expired, is about to call the provider for it. *)
(***************************************************************************)
EXTENDS Outreach

MayStillMail ==
    {d \in DelIds : \/ del[d].status = "queued"
                    \/ \E w \in DelWorkers : delWorker[w] =
                         [phase |-> "claimed", job |-> d]}

Contract == INSTANCE DeliveryContract WITH
    Emails   <- GenIds,
    Attempts <- DelIds,
    target   <- [d \in DelIds |-> del[d].email],
    acked    <- {d \in DelIds : del[d].ack},
    open     <- MayStillMail,
    copies   <- {d \in DelIds : mailed[d] > 0},
    sent     <- {e \in GenIds : email[e].status = "sent"}

\* The queue, its workers, their crashes and their late results keep the
\* delivery promise: at most one message per confirmation, a second message
\* only after an acknowledgement, and sent only of what was mailed.
ImplementsContract == Contract!Spec
=============================================================================
