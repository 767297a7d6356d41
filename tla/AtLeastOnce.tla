---------------------------- MODULE AtLeastOnce ----------------------------
(***************************************************************************)
(* What the processing outbox promises about one delivery target: an event  *)
(* is accepted only after it was offered, and it is marked as delivered     *)
(* only after the consumer durably accepted it, once and for all.  It may   *)
(* be accepted any number of times.                                         *)
(***************************************************************************)
CONSTANT Events

VARIABLES
    offered,   \* events committed to the outbox
    accepted,  \* events the consumer has made durable
    marked     \* events the outbox regards as delivered

handoff == <<offered, accepted, marked>>

Init == offered = {} /\ accepted = {} /\ marked = {}

Offer(e) ==
    /\ e \notin offered
    /\ offered' = offered \cup {e}
    /\ UNCHANGED <<accepted, marked>>

Accept(e) ==
    /\ e \in offered
    /\ accepted' = accepted \cup {e}
    /\ UNCHANGED <<offered, marked>>

Mark(e) ==
    /\ e \in accepted \ marked
    /\ marked' = marked \cup {e}
    /\ UNCHANGED <<offered, accepted>>

Next == \E e \in Events : Offer(e) \/ Accept(e) \/ Mark(e)

Spec == Init /\ [][Next]_handoff
=============================================================================
