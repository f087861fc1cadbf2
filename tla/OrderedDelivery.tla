--------------------------- MODULE OrderedDelivery ---------------------------
(***************************************************************************)
(* What a synchronization direction between Central and a Site promises    *)
(* (docs/architecture/decisions/ADR-0006): events carry consecutive source *)
(* sequences, the receiver applies every event once and in sequence order, *)
(* and the sender retires an event only after the receiver has answered    *)
(* for it.  The receiver answers for what it has applied, and for a run    *)
(* right behind that which it is about to apply, and may fail to.          *)
(* SiteOutbox and CentralFeed are shown to implement this specification;   *)
(* in CentralFeed the events answered for are those applied.               *)
(***************************************************************************)
EXTENDS Naturals

VARIABLES
    sent,       \* events 1..sent have been enqueued by the sender
    applied,    \* events 1..applied have been applied by the receiver
    answered,   \* the events the receiver has answered for
    retired     \* the events the sender no longer offers

vars == <<sent, applied, answered, retired>>

Init ==
    /\ sent = 0
    /\ applied = 0
    /\ answered = {}
    /\ retired = {}

\* The sender allocates the next sequence and stores the event.
Enqueue ==
    /\ sent' = sent + 1
    /\ UNCHANGED <<applied, answered, retired>>

\* The receiver answers for a run of events that starts right after its cursor.
Answer ==
    /\ \E n \in (applied + 1)..sent : answered' = answered \cup (applied + 1)..n
    /\ UNCHANGED <<sent, applied, retired>>

\* The receiver applies a run of events that starts right after its cursor.
Apply ==
    /\ applied' \in (applied + 1)..sent
    /\ answered' = answered \cup (applied + 1)..applied'
    /\ UNCHANGED <<sent, retired>>

\* The sender retires events, all of which the receiver has answered for.
Retire ==
    /\ \E S \in SUBSET answered : retired' = retired \cup S
    /\ UNCHANGED <<sent, applied, answered>>

Next == Enqueue \/ Answer \/ Apply \/ Retire

Spec == Init /\ [][Next]_vars
=============================================================================
