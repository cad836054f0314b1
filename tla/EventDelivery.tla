--------------------------- MODULE EventDelivery ---------------------------
(***************************************************************************)
(* What the event bus promises one consumer about each event id: it is     *)
(* applied at most once, and an event that could not be applied is kept    *)
(* for an operator.  PaymentOutcome is written against this promise;       *)
(* EventBus is shown to implement it.                                      *)
(***************************************************************************)
CONSTANT Events

VARIABLE event

Statuses == {"new", "published", "processed", "parked", "discarded"}

EventTypeOK == event \in [Events -> Statuses]

Init == event = [e \in Events |-> "new"]

(* Publishing an id again is the same event.                               *)
Publish(e) == event' = [event EXCEPT ![e] = IF @ = "new" THEN "published" ELSE @]

(* The inbox row and the handler's writes are one transaction.             *)
Process(e) == event[e] = "published" /\ event' = [event EXCEPT ![e] = "processed"]

Park(e) == event[e] = "published" /\ event' = [event EXCEPT ![e] = "parked"]

Replay(e) == event[e] = "parked" /\ event' = [event EXCEPT ![e] = "processed"]

Discard(e) == event[e] = "parked" /\ event' = [event EXCEPT ![e] = "discarded"]

Next == \E e \in Events : Publish(e) \/ Process(e) \/ Park(e) \/ Replay(e) \/ Discard(e)

Spec == Init /\ [][Next]_event
=============================================================================
