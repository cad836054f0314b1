--------------------------- MODULE EventBusProofs ---------------------------
(***************************************************************************)
(* Proofs about EventBus, for any number of events, replicas, copies and   *)
(* attempts and any retention times that keep inbox rows longer than       *)
(* messages.                                                               *)
(*                                                                         *)
(* What makes the inbox safe against its own purge is a comparison of      *)
(* ages: a row is never older than a message of its event that can still   *)
(* be delivered, so that a row old enough to be purged has outlived them   *)
(* all, and the publisher, which was done before the row aged a day, adds  *)
(* no more.                                                                *)
(***************************************************************************)
EXTENDS EventBus, TLAPS

\* A message that is, or may still be, in the hands of a replica.
Live(m) == stream[m].state \in {"unacked", "acked"}

\* A replica works on a live message, and acknowledges it only when the inbox
\* has a row of its event.
ReplicasHoldLive ==
    \A r \in Replicas : replica[r].pc # "idle" =>
        /\ replica[r].msg \in Msgs /\ Live(replica[r].msg)
        /\ replica[r].pc = "ack" => inbox[replica[r].msg[1]].status # "absent"

\* Nothing is in the stream or the inbox that was not enqueued.
OnlyEnqueued ==
    /\ \A m \in Msgs : stream[m].state # "absent" => outbox[m[1]] # "none"
    /\ \A e \in Events : inbox[e].status # "absent" => outbox[e] # "none"

\* An inbox row is not older than a live message of its event, and once it is
\* a day old the publisher is done with the event.
RowsAreYounger ==
    /\ \A m \in Msgs : Live(m) /\ inbox[m[1]].status # "absent" => inbox[m[1]].age <= stream[m].age
    /\ \A e \in Events : inbox[e].status # "absent" /\ inbox[e].age > 0 => outbox[e] = "done"

\* What was purged is gone: no row, no live message, nothing to publish.
PurgedIsGone ==
    /\ \A e \in Events : purged[e] # "no" => inbox[e].status = "absent" /\ outbox[e] = "done"
    /\ \A m \in Msgs : Live(m) => purged[m[1]] = "no"

\* The handler's writes are counted by the row, or by what was purged.
CountedByRow ==
    \A e \in Events :
        applied[e] = IF inbox[e].status = "processed" \/ purged[e] = "processed" THEN 1 ELSE 0

\* A row was made by a replica for a message of its event.
RowsHaveMessage ==
    \A e \in Events : inbox[e].status # "absent" => Stored(e)

AckedHasRow ==
    \A m \in Msgs : stream[m].state = "acked" => inbox[m[1]].status # "absent"

BusInv ==
    /\ TypeOK
    /\ ReplicasHoldLive /\ OnlyEnqueued /\ RowsAreYounger /\ PurgedIsGone /\ CountedByRow
    /\ RowsHaveMessage /\ AckedHasRow

----------------------------------------------------------------------------
(* The initial state and the steps.                                        *)

LEMMA InitBusInv == Init => BusInv
BY BoundsAssumption, AgesAssumption, NobodyAssumption
   DEF Init, BusInv, TypeOK, Msgs, Idle, Absent, Live, ReplicasHoldLive, OnlyEnqueued, RowsAreYounger,
       PurgedIsGone, CountedByRow, RowsHaveMessage, AckedHasRow, Stored

\* The broker stores at most one copy, of the event it was given.
LEMMA StoreEffect ==
    ASSUME TypeOK, NEW e \in Events, Store(e)
    PROVE  /\ recent' \subseteq Events
           /\ \/ stream' = stream /\ recent' = recent /\ e \in recent
              \/ \E c \in 1..MaxCopies :
                   /\ stream[<<e, c>>].state = "absent" /\ recent' = recent \cup {e}
                   /\ stream' = [stream EXCEPT ![<<e, c>>].state = "unacked"]
BY DEF Store, TypeOK

LEMMA StoreType ==
    ASSUME TypeOK, NEW e \in Events, Store(e)
    PROVE  /\ recent' \subseteq Events
           /\ stream' \in [Msgs -> [state : {"absent", "unacked", "acked", "dropped"},
                                   delivered : 0..MaxAttempts, age : 0..StreamAge]]
           /\ \A m \in Msgs : \/ stream'[m] = stream[m]
                              \/ /\ m[1] = e /\ stream[m].state = "absent"
                                 /\ stream'[m].state = "unacked"
<1>1. CASE stream' = stream /\ recent' = recent
  BY <1>1 DEF TypeOK
<1>2. ASSUME NEW c \in 1..MaxCopies, stream[<<e, c>>].state = "absent", recent' = recent \cup {e},
             stream' = [stream EXCEPT ![<<e, c>>].state = "unacked"]
      PROVE  /\ recent' \subseteq Events
             /\ stream' \in [Msgs -> [state : {"absent", "unacked", "acked", "dropped"},
                                     delivered : 0..MaxAttempts, age : 0..StreamAge]]
             /\ \A m \in Msgs : \/ stream'[m] = stream[m]
                                \/ /\ m[1] = e /\ stream[m].state = "absent"
                                   /\ stream'[m].state = "unacked"
  <2> DEFINE n == <<e, c>>
  <2>1. n \in Msgs /\ n[1] = e
    BY DEF Msgs
  <2> HIDE DEF n
  <2>2. stream' = [stream EXCEPT ![n].state = "unacked"] /\ stream[n].state = "absent"
    BY <1>2 DEF n
  <2>3. \A m \in Msgs : m # n => stream'[m] = stream[m]
    BY <2>1, <2>2 DEF TypeOK
  <2>4. stream'[n].state = "unacked"
    BY <2>1, <2>2 DEF TypeOK
  <2>5. stream' \in [Msgs -> [state : {"absent", "unacked", "acked", "dropped"},
                            delivered : 0..MaxAttempts, age : 0..StreamAge]]
    BY <2>1, <2>2 DEF TypeOK
  <2>6. recent' \subseteq Events
    BY <1>2 DEF TypeOK
  <2> QED BY <2>1, <2>2, <2>3, <2>4, <2>5, <2>6
<1> QED BY <1>1, <1>2, StoreEffect

\* Publishing, acknowledged or not, keeps the invariant: the row of an event
\* that is still to be published is less than a day old.
LEMMA StoreKeepsBusInv ==
    ASSUME BusInv, NEW e \in Events, outbox[e] = "pending", Store(e),
           outbox' \in [Events -> {"none", "pending", "done"}], outbox'[e] # "none",
           \A d \in Events \ {e} : outbox'[d] = outbox[d], faults' \in 0..MaxFaults,
           UNCHANGED <<inbox, replica, applied, purged>>
    PROVE  BusInv'
<1> USE BoundsAssumption, AgesAssumption
<1>1. TypeOK
  BY DEF BusInv
<1>2. TypeOK'
  BY <1>1, StoreType DEF TypeOK
<1>3. \A m \in Msgs : \/ stream'[m] = stream[m]
                     \/ /\ m[1] = e /\ stream[m].state = "absent" /\ stream'[m].state = "unacked"
  BY <1>1, StoreType
<1>4. \A m \in Msgs : m[1] \in Events
  BY DEF Msgs
<1>5. purged[e] = "no" /\ (inbox[e].status # "absent" => inbox[e].age = 0)
  BY <1>1 DEF BusInv, PurgedIsGone, RowsAreYounger, TypeOK
<1>6. ReplicasHoldLive'
  BY <1>3 DEF BusInv, ReplicasHoldLive, Live
<1>7. OnlyEnqueued'
  BY <1>3, <1>4 DEF BusInv, OnlyEnqueued
<1>8. RowsAreYounger'
  <2>1. \A m \in Msgs : stream'[m].age \in 0..StreamAge
    BY <1>2 DEF TypeOK
  <2> QED BY <1>1, <1>3, <1>4, <1>5, <2>1 DEF BusInv, RowsAreYounger, Live
<1>9. PurgedIsGone'
  BY <1>3, <1>4, <1>5 DEF BusInv, PurgedIsGone, Live
<1>10. CountedByRow'
  BY DEF BusInv, CountedByRow
<1>11. RowsHaveMessage'
  <2>1. \A d \in Events, c \in 1..MaxCopies : <<d, c>> \in Msgs
    BY DEF Msgs
  <2> QED BY <1>3, <2>1 DEF BusInv, RowsHaveMessage, Stored
<1>12. AckedHasRow'
  BY <1>3 DEF BusInv, AckedHasRow
<1> QED BY <1>2, <1>6, <1>7, <1>8, <1>9, <1>10, <1>11, <1>12 DEF BusInv

\* What the invariant says of the event a replica works on.
LEMMA WorkInHand ==
    ASSUME BusInv, NEW r \in Replicas, replica[r].pc # "idle"
    PROVE  /\ replica[r].msg \in Msgs /\ Live(replica[r].msg) /\ Event(r) \in Events
           /\ purged[Event(r)] = "no" /\ Stored(Event(r))
<1> DEFINE m == replica[r].msg
<1>1. m \in Msgs /\ Live(m)
  BY DEF BusInv, ReplicasHoldLive
<1>2. m[1] \in Events /\ \E c \in 1..MaxCopies : m = <<m[1], c>>
  BY <1>1 DEF Msgs
<1>3. purged[m[1]] = "no"
  BY <1>1 DEF BusInv, PurgedIsGone
<1>4. Stored(m[1])
  <2>1. PICK c \in 1..MaxCopies : m = <<m[1], c>>
    BY <1>2
  <2>2. stream[<<m[1], c>>].state # "absent"
    BY <1>1, <2>1 DEF Live
  <2> QED BY <2>2 DEF Stored
<1> QED BY <1>1, <1>2, <1>3, <1>4 DEF Event

LEMMA StopType ==
    ASSUME TypeOK, NEW r \in Replicas, Stop(r)
    PROVE  replica' \in [Replicas -> [pc : {"idle", "handle", "park", "ack"}, msg : Msgs \cup {Nobody},
                                     attempt : 0..MaxAttempts]]
<1>1. Idle \in [pc : {"idle", "handle", "park", "ack"}, msg : Msgs \cup {Nobody}, attempt : 0..MaxAttempts]
  BY BoundsAssumption DEF Idle
<1> QED BY <1>1 DEF Stop, TypeOK

\* A replica that stops or goes on to park or acknowledge changes nothing else.
LEMMA ReplicaMoves ==
    ASSUME BusInv, NEW r \in Replicas, faults' \in 0..MaxFaults,
           \/ Stop(r)
           \/ replica[r].pc # "idle" /\ Goto(r, "park")
           \/ replica[r].pc # "idle" /\ inbox[Event(r)].status # "absent" /\ Goto(r, "ack"),
           UNCHANGED <<outbox, recent, stream, inbox, applied, purged>>
    PROVE  BusInv'
<1>1. TypeOK'
  <2>1. replica' \in [Replicas -> [pc : {"idle", "handle", "park", "ack"}, msg : Msgs \cup {Nobody},
                                   attempt : 0..MaxAttempts]]
    BY StopType DEF Goto, BusInv, TypeOK
  <2> QED BY <2>1 DEF BusInv, TypeOK
<1>2. ReplicasHoldLive'
  BY WorkInHand DEF BusInv, TypeOK, Stop, Goto, Idle, ReplicasHoldLive, Live, Event
<1>3. (OnlyEnqueued /\ RowsAreYounger /\ PurgedIsGone /\ CountedByRow /\ RowsHaveMessage /\ AckedHasRow)'
  BY DEF BusInv, OnlyEnqueued, RowsAreYounger, PurgedIsGone, CountedByRow, RowsHaveMessage, AckedHasRow,
         Live, Stored
<1> QED BY <1>1, <1>2, <1>3 DEF BusInv

\* A new or changed row is young, and says whether the event was applied.
LEMMA RowWritten ==
    ASSUME BusInv, NEW e \in Events, NEW s \in {"processed", "parked", "discarded"},
           Stored(e), purged[e] = "no",
           inbox' = [inbox EXCEPT ![e] = [status |-> s, age |-> 0]],
           applied' = [applied EXCEPT ![e] = IF s = "processed" THEN 1 ELSE 0],
           UNCHANGED <<outbox, recent, stream, purged, faults>>,
           replica' \in [Replicas -> [pc : {"idle", "handle", "park", "ack"}, msg : Msgs \cup {Nobody},
                                      attempt : 0..MaxAttempts]],
           ReplicasHoldLive'
    PROVE  BusInv'
<1> USE AgesAssumption
<1>1. TypeOK'
  BY DEF BusInv, TypeOK
<1>2. inbox'[e] = [status |-> s, age |-> 0] /\ \A d \in Events \ {e} : inbox'[d] = inbox[d]
  BY DEF BusInv, TypeOK
<1>3. \A m \in Msgs : m[1] \in Events /\ stream[m].age \in 0..StreamAge
  BY DEF BusInv, TypeOK, Msgs
<1>4. outbox[e] # "none"
  BY DEF BusInv, OnlyEnqueued, Stored, Msgs
<1>5. OnlyEnqueued'
  BY <1>2, <1>4 DEF BusInv, OnlyEnqueued
<1>6. RowsAreYounger'
  BY <1>2, <1>3 DEF BusInv, RowsAreYounger, Live
<1>7. PurgedIsGone'
  BY <1>2 DEF BusInv, PurgedIsGone, Live
<1>8. CountedByRow'
  BY <1>2 DEF BusInv, TypeOK, CountedByRow
<1>9. RowsHaveMessage'
  BY <1>2 DEF BusInv, RowsHaveMessage, Stored
<1>10. AckedHasRow'
  BY <1>2, <1>3 DEF BusInv, AckedHasRow
<1> QED BY <1>1, <1>5, <1>6, <1>7, <1>8, <1>9, <1>10 DEF BusInv

\* A day ages every live message and drops the old ones; it ages every row.
LEMMA DayEffect ==
    ASSUME TypeOK, DayPasses
    PROVE  /\ stream' \in [Msgs -> [state : {"absent", "unacked", "acked", "dropped"},
                                    delivered : 0..MaxAttempts, age : 0..StreamAge]]
           /\ \A m \in Msgs : /\ stream'[m].state # "dropped" => stream'[m].state = stream[m].state
                              /\ stream'[m].state = "absent" <=> stream[m].state = "absent"
                              /\ Live(m)' => stream'[m].age = stream[m].age + 1
           /\ inbox' \in [Events -> [status : {"absent", "processed", "parked", "discarded"}, age : 0..KeepAge]]
           /\ \A e \in Events : /\ inbox'[e].status = inbox[e].status
                                /\ inbox'[e].age \in 0..KeepAge
                                /\ inbox'[e].age <= inbox[e].age + 1
<1> USE AgesAssumption
<1> DEFINE Message == [state : {"absent", "unacked", "acked", "dropped"}, delivered : 0..MaxAttempts,
                       age : 0..StreamAge]
           Aged(m) == /\ stream'[m] \in Message
                      /\ stream'[m].state # "dropped" => stream'[m].state = stream[m].state
                      /\ stream'[m].state = "absent" <=> stream[m].state = "absent"
                      /\ Live(m)' => stream'[m].age = stream[m].age + 1
<1>1. ASSUME NEW m \in Msgs PROVE Aged(m)
  <2>1. stream[m] \in Message
    BY DEF TypeOK
  <2>2. CASE stream[m].state \in {"absent", "dropped"}
    <3>1. stream'[m] = stream[m]
      BY <2>2 DEF DayPasses
    <3> QED BY <2>1, <2>2, <3>1 DEF Live
  <2>3. CASE stream[m].state \notin {"absent", "dropped"} /\ stream[m].age = StreamAge
    <3>1. stream'[m] = [stream[m] EXCEPT !.state = "dropped"]
      BY <2>3 DEF DayPasses
    <3> QED BY <2>1, <2>3, <3>1 DEF Live
  <2>4. CASE stream[m].state \notin {"absent", "dropped"} /\ stream[m].age # StreamAge
    <3>1. stream'[m] = [stream[m] EXCEPT !.age = @ + 1]
      BY <2>4 DEF DayPasses
    <3> QED BY <2>1, <2>4, <3>1 DEF Live
  <2> QED BY <2>2, <2>3, <2>4
<1>2. stream' \in [Msgs -> Message]
  <2>1. stream' = [m \in Msgs |-> stream'[m]]
    BY DEF DayPasses
  <2> QED BY <1>1, <2>1
<1>3. \A e \in Events : /\ inbox'[e].status = inbox[e].status
                        /\ inbox'[e].age \in 0..KeepAge
                        /\ inbox'[e].age <= inbox[e].age + 1
  BY DEF DayPasses, TypeOK, Older
<1>4. inbox' \in [Events -> [status : {"absent", "processed", "parked", "discarded"}, age : 0..KeepAge]]
  BY DEF DayPasses, TypeOK, Older
<1> QED BY <1>1, <1>2, <1>3, <1>4

LEMMA NextBusInv == BusInv /\ [Next]_vars => BusInv'
<1> SUFFICES ASSUME BusInv, [Next]_vars PROVE BusInv'
  OBVIOUS
<1> USE BoundsAssumption, AgesAssumption, NobodyAssumption
<1>1. ASSUME NEW e \in Events, Enqueue(e) PROVE BusInv'
  <2>1. TypeOK' /\ ReplicasHoldLive'
    BY <1>1 DEF BusInv, TypeOK, Enqueue, ReplicasHoldLive, Live
  <2>2. OnlyEnqueued' /\ PurgedIsGone'
    BY <1>1 DEF BusInv, TypeOK, Enqueue, OnlyEnqueued, PurgedIsGone, Live
  <2>3. RowsAreYounger'
    BY <1>1 DEF BusInv, TypeOK, Enqueue, OnlyEnqueued, RowsAreYounger, Live
  <2>4. CountedByRow' /\ RowsHaveMessage' /\ AckedHasRow'
    BY <1>1 DEF BusInv, Enqueue, CountedByRow, RowsHaveMessage, AckedHasRow, Stored
  <2> QED BY <2>1, <2>2, <2>3, <2>4 DEF BusInv
<1>2. ASSUME NEW e \in Events, Publish(e) PROVE BusInv'
  <2>1. outbox' \in [Events -> {"none", "pending", "done"}] /\ outbox'[e] = "done"
        /\ (\A d \in Events \ {e} : outbox'[d] = outbox[d]) /\ faults' \in 0..MaxFaults
    BY <1>2 DEF Publish, BusInv, TypeOK
  <2> QED BY <1>2, <2>1, StoreKeepsBusInv DEF Publish
<1>3. ASSUME NEW e \in Events, PublishUnacked(e) PROVE BusInv'
  BY <1>3, StoreKeepsBusInv DEF PublishUnacked, BusInv, TypeOK, FaultHappens
<1>4. ASSUME NEW e \in Events, WindowPasses(e) PROVE BusInv'
  BY <1>4 DEF BusInv, TypeOK, WindowPasses, Live, ReplicasHoldLive, OnlyEnqueued, RowsAreYounger, PurgedIsGone,
       CountedByRow, RowsHaveMessage, AckedHasRow, Stored, Msgs
<1>5. ASSUME NEW r \in Replicas, NEW m \in Msgs, Fetch(r, m) PROVE BusInv'
  <2>1. PICK n \in 0..MaxAttempts : /\ stream' = [stream EXCEPT ![m].delivered = n]
                                    /\ replica' = [replica EXCEPT ![r] = [pc |-> "handle", msg |-> m, attempt |-> n]]
    <3> DEFINE n == IF stream[m].delivered < MaxAttempts THEN stream[m].delivered + 1 ELSE MaxAttempts
    <3>1. stream[m].delivered \in 0..MaxAttempts
      BY DEF BusInv, TypeOK
    <3>2. n \in 0..MaxAttempts
      BY <3>1
    <3> QED BY <1>5, <3>2 DEF Fetch
  <2>2. TypeOK'
    BY <1>5, <2>1 DEF Fetch, BusInv, TypeOK
  <2>3. \A k \in Msgs : stream'[k].state = stream[k].state /\ stream'[k].age = stream[k].age
    BY <2>1 DEF BusInv, TypeOK
  <2>4. ReplicasHoldLive'
    BY <1>5, <2>1, <2>3 DEF Fetch, BusInv, TypeOK, ReplicasHoldLive, Live
  <2>5. OnlyEnqueued' /\ PurgedIsGone' /\ CountedByRow' /\ AckedHasRow' /\ RowsAreYounger'
    BY <1>5, <2>3 DEF Fetch, BusInv, OnlyEnqueued, PurgedIsGone, CountedByRow, AckedHasRow, RowsAreYounger, Live
  <2>6. RowsHaveMessage'
    BY <1>5, <2>3 DEF Fetch, BusInv, RowsHaveMessage, Stored, Msgs
  <2> QED BY <2>2, <2>4, <2>5, <2>6 DEF BusInv
<1>6. ASSUME NEW r \in Replicas, ProcessSucceeds(r) PROVE BusInv'
  <2>1. /\ replica[r].pc = "handle" /\ Event(r) \in Events /\ purged[Event(r)] = "no" /\ Stored(Event(r))
        /\ replica[r].msg \in Msgs /\ Live(replica[r].msg) /\ inbox[Event(r)].status = "absent"
    BY <1>6, WorkInHand DEF ProcessSucceeds, IsNew
  <2>2. applied[Event(r)] = 0
    BY <2>1 DEF BusInv, CountedByRow
  <2>3. applied' = [applied EXCEPT ![Event(r)] = 1]
    BY <1>6, <2>1, <2>2 DEF ProcessSucceeds, BusInv, TypeOK
  <2>4. /\ replica' \in [Replicas -> [pc : {"idle", "handle", "park", "ack"}, msg : Msgs \cup {Nobody},
                                      attempt : 0..MaxAttempts]]
        /\ ReplicasHoldLive'
    BY <1>6, <2>1 DEF ProcessSucceeds, Goto, BusInv, TypeOK, ReplicasHoldLive, Live, Event
  <2> QED BY <1>6, <2>1, <2>3, <2>4, RowWritten DEF ProcessSucceeds
<1>7. ASSUME NEW r \in Replicas, ProcessDuplicate(r) PROVE BusInv'
  BY <1>7, ReplicaMoves DEF ProcessDuplicate, BusInv, TypeOK
<1>8. ASSUME NEW r \in Replicas, NEW permanent \in BOOLEAN, ProcessFails(r, permanent) PROVE BusInv'
  BY <1>8, ReplicaMoves DEF ProcessFails, BusInv, TypeOK
<1>9. ASSUME NEW r \in Replicas, Park(r) PROVE BusInv'
  <2> DEFINE e == Event(r)
  <2>1. /\ replica[r].pc = "park" /\ e \in Events /\ purged[e] = "no" /\ Stored(e)
        /\ replica[r].msg \in Msgs /\ Live(replica[r].msg)
    BY <1>9, WorkInHand DEF Park
  <2>2. CASE inbox[e].status \in {"absent", "parked"}
    <3>1. inbox' = [inbox EXCEPT ![e] = [status |-> "parked", age |-> 0]]
      BY <1>9, <2>1, <2>2 DEF Park, CanPark, BusInv, TypeOK
    <3>2. applied[e] = 0
      BY <2>1, <2>2 DEF BusInv, CountedByRow
    <3>3. applied' = [applied EXCEPT ![e] = 0]
      BY <1>9, <2>1, <3>2 DEF Park, BusInv, TypeOK
    <3>4. /\ replica' \in [Replicas -> [pc : {"idle", "handle", "park", "ack"}, msg : Msgs \cup {Nobody},
                                        attempt : 0..MaxAttempts]]
          /\ ReplicasHoldLive'
      BY <1>9, <2>1, <3>1 DEF Park, Goto, BusInv, TypeOK, ReplicasHoldLive, Live, Event
    <3> QED BY <1>9, <2>1, <3>1, <3>3, <3>4, RowWritten DEF Park
  <2>3. CASE inbox[e].status \notin {"absent", "parked"}
    <3>1. inbox' = inbox
      BY <1>9, <2>1, <2>3 DEF Park, CanPark, BusInv, TypeOK
    <3> QED BY <1>9, <2>1, <2>3, <3>1, ReplicaMoves DEF Park, BusInv, TypeOK
  <2> QED BY <2>2, <2>3
<1>10. ASSUME NEW r \in Replicas, ParkFails(r) PROVE BusInv'
  BY <1>10, ReplicaMoves DEF ParkFails, FaultHappens, BusInv, TypeOK
<1>11. ASSUME NEW r \in Replicas, Crash(r) PROVE BusInv'
  BY <1>11, ReplicaMoves DEF Crash, FaultHappens, BusInv, TypeOK
<1>12. ASSUME NEW r \in Replicas, Ack(r) PROVE BusInv'
  <2> DEFINE n == replica[r].msg
  <2>1. n \in Msgs /\ Live(n) /\ n[1] \in Events /\ inbox[n[1]].status # "absent"
    BY <1>12, WorkInHand DEF Ack, BusInv, ReplicasHoldLive, Event
  <2>2. stream' = [stream EXCEPT ![n].state = "acked"]
    BY <1>12, <2>1 DEF Ack, Live, BusInv, TypeOK
  <2> HIDE DEF n
  <2>3. TypeOK'
    <3>1. stream' \in [Msgs -> [state : {"absent", "unacked", "acked", "dropped"},
                              delivered : 0..MaxAttempts, age : 0..StreamAge]]
      BY <2>1, <2>2 DEF BusInv, TypeOK
    <3> QED BY <1>12, <3>1, StopType DEF Ack, BusInv, TypeOK
  <2>4. \A k \in Msgs : /\ stream'[k].age = stream[k].age
                        /\ stream'[k].state = IF k = n THEN "acked" ELSE stream[k].state
    BY <2>1, <2>2 DEF BusInv, TypeOK
  <2>5. \A k \in Msgs : (Live(k)' <=> Live(k)) /\ (stream'[k].state = "absent" <=> stream[k].state = "absent")
    BY <2>1, <2>4 DEF Live
  <2>6. ReplicasHoldLive'
    BY <1>12, <2>5 DEF Ack, Stop, Idle, BusInv, TypeOK, ReplicasHoldLive
  <2>7. OnlyEnqueued' /\ PurgedIsGone' /\ CountedByRow' /\ RowsAreYounger'
    BY <1>12, <2>4, <2>5 DEF Ack, BusInv, OnlyEnqueued, PurgedIsGone, CountedByRow, RowsAreYounger
  <2>8. RowsHaveMessage'
    BY <1>12, <2>5 DEF Ack, BusInv, RowsHaveMessage, Stored, Msgs
  <2>9. AckedHasRow'
    BY <1>12, <2>1, <2>4 DEF Ack, BusInv, AckedHasRow
  <2> QED BY <2>3, <2>6, <2>7, <2>8, <2>9 DEF BusInv
<1>13. ASSUME NEW e \in Events, Replay(e) \/ Discard(e) PROVE BusInv'
  <2>1. inbox[e].status = "parked" /\ replica' = replica
    BY <1>13 DEF Replay, Discard
  <2>2. Stored(e) /\ purged[e] = "no" /\ applied[e] = 0
    BY <2>1 DEF BusInv, RowsHaveMessage, PurgedIsGone, CountedByRow
  <2>3. ReplicasHoldLive'
    BY <1>13, <2>1 DEF Replay, Discard, BusInv, TypeOK, ReplicasHoldLive, Live, Msgs
  <2>4. CASE Replay(e)
    <3>1. applied' = [applied EXCEPT ![e] = 1]
      BY <2>2, <2>4 DEF Replay, BusInv, TypeOK
    <3>2. /\ inbox' = [inbox EXCEPT ![e] = [status |-> "processed", age |-> 0]]
          /\ UNCHANGED <<outbox, recent, stream, purged, faults>>
      BY <2>4 DEF Replay
    <3>3. replica' \in [Replicas -> [pc : {"idle", "handle", "park", "ack"}, msg : Msgs \cup {Nobody},
                                     attempt : 0..MaxAttempts]]
      BY <2>1 DEF BusInv, TypeOK
    <3> QED BY <2>2, <2>3, <3>1, <3>2, <3>3, RowWritten
  <2>5. CASE Discard(e)
    <3>1. applied' = [applied EXCEPT ![e] = 0]
      BY <2>2, <2>5 DEF Discard, BusInv, TypeOK
    <3> QED BY <2>1, <2>2, <2>3, <2>5, <3>1, RowWritten DEF Discard, BusInv, TypeOK
  <2> QED BY <1>13, <2>4, <2>5
<1>14. ASSUME DayPasses PROVE BusInv'
  <2>1. /\ \A r \in Replicas : replica[r].pc = "idle"
        /\ outbox' = outbox /\ replica' = replica /\ applied' = applied /\ purged' = purged
        /\ recent' = recent /\ faults' = faults
    BY <1>14 DEF DayPasses
  <2>2. \A m \in Msgs : /\ stream'[m].state # "dropped" => stream'[m].state = stream[m].state
                        /\ stream'[m].state = "absent" <=> stream[m].state = "absent"
                        /\ Live(m)' => stream'[m].age = stream[m].age + 1
    BY <1>14, DayEffect DEF BusInv
  <2>3. \A e \in Events : /\ inbox'[e].status = inbox[e].status
                          /\ inbox'[e].age \in 0..KeepAge
                          /\ inbox'[e].age <= inbox[e].age + 1
    BY <1>14, DayEffect DEF BusInv
  <2>4. \A m \in Msgs : Live(m)' => Live(m)
    BY <2>2 DEF Live
  <2>5. \A e \in Events : inbox[e].status # "absent" => outbox[e] = "done"
    BY <1>14 DEF DayPasses, BusInv, TypeOK, OnlyEnqueued
  <2>6. TypeOK'
    BY <1>14, <2>1, DayEffect DEF BusInv, TypeOK
  <2>7. ReplicasHoldLive'
    BY <2>1 DEF ReplicasHoldLive
  <2>8. OnlyEnqueued'
    BY <2>1, <2>2, <2>3 DEF BusInv, OnlyEnqueued
  <2>9. RowsAreYounger'
    <3>1. \A m \in Msgs : m[1] \in Events /\ stream[m].age \in 0..StreamAge /\ inbox[m[1]].age \in 0..KeepAge
      BY DEF BusInv, TypeOK, Msgs
    <3>2. \A m \in Msgs : Live(m)' /\ inbox'[m[1]].status # "absent" => inbox'[m[1]].age <= stream'[m].age
      BY <2>2, <2>3, <2>4, <3>1 DEF BusInv, RowsAreYounger
    <3> QED BY <2>1, <2>3, <2>5, <3>2 DEF RowsAreYounger
  <2>10. PurgedIsGone'
    BY <2>1, <2>3, <2>4 DEF BusInv, PurgedIsGone
  <2>11. CountedByRow'
    BY <2>1, <2>3 DEF BusInv, CountedByRow
  <2>12. RowsHaveMessage'
    <3>1. \A e \in Events, c \in 1..MaxCopies : <<e, c>> \in Msgs
      BY DEF Msgs
    <3> QED BY <2>2, <2>3, <3>1 DEF BusInv, RowsHaveMessage, Stored
  <2>13. AckedHasRow'
    <3>1. \A m \in Msgs : m[1] \in Events
      BY DEF Msgs
    <3> QED BY <2>2, <2>3, <3>1 DEF BusInv, AckedHasRow
  <2> QED BY <2>6, <2>7, <2>8, <2>9, <2>10, <2>11, <2>12, <2>13 DEF BusInv
<1>15. ASSUME NEW e \in Events, PurgeProcessed(e) PROVE BusInv'
  <2>1. /\ inbox[e].status \in {"processed", "discarded"} /\ inbox[e].age = KeepAge
        /\ outbox' = outbox /\ recent' = recent /\ stream' = stream /\ replica' = replica
        /\ applied' = applied /\ faults' = faults
    BY <1>15 DEF PurgeProcessed, CanPurge
  <2>2. inbox'[e] = Absent /\ purged'[e] = inbox[e].status
        /\ \A d \in Events \ {e} : inbox'[d] = inbox[d] /\ purged'[d] = purged[d]
    BY <1>15 DEF PurgeProcessed, BusInv, TypeOK
  <2>3. \A m \in Msgs : Live(m) => m[1] # e
    <3> SUFFICES ASSUME NEW m \in Msgs, Live(m), m[1] = e PROVE FALSE
      OBVIOUS
    <3>1. KeepAge <= stream[m].age /\ stream[m].age \in 0..StreamAge
      BY <2>1 DEF BusInv, RowsAreYounger, TypeOK
    <3> QED BY <3>1
  <2>4. outbox[e] = "done" /\ purged[e] = "no"
    BY <2>1 DEF BusInv, RowsAreYounger, PurgedIsGone
  <2>5. \A m \in Msgs : m[1] \in Events
    BY DEF Msgs
  <2>6. TypeOK'
    BY <1>15, <2>1 DEF PurgeProcessed, Absent, BusInv, TypeOK
  <2>7. ReplicasHoldLive'
    BY <2>1, <2>2, <2>3, <2>5 DEF BusInv, ReplicasHoldLive, Live
  <2>8. OnlyEnqueued'
    BY <2>1, <2>2, <2>4 DEF BusInv, OnlyEnqueued, Absent
  <2>9. RowsAreYounger'
    BY <2>1, <2>2, <2>3, <2>5 DEF BusInv, RowsAreYounger, Live, Absent
  <2>10. PurgedIsGone'
    BY <2>1, <2>2, <2>3, <2>4, <2>5 DEF BusInv, PurgedIsGone, Live, Absent
  <2>11. CountedByRow'
    BY <2>1, <2>2, <2>4 DEF BusInv, CountedByRow, Absent
  <2>12. RowsHaveMessage'
    BY <2>1, <2>2 DEF BusInv, RowsHaveMessage, Stored, Absent
  <2>13. AckedHasRow'
    BY <2>1, <2>2, <2>3, <2>5 DEF BusInv, AckedHasRow, Live
  <2> QED BY <2>6, <2>7, <2>8, <2>9, <2>10, <2>11, <2>12, <2>13 DEF BusInv
<1>16. CASE UNCHANGED vars
  BY <1>16 DEF vars, BusInv, TypeOK, Live, ReplicasHoldLive, OnlyEnqueued, RowsAreYounger, PurgedIsGone,
       CountedByRow, RowsHaveMessage, AckedHasRow, Stored, Msgs
<1> QED BY <1>1, <1>2, <1>3, <1>4, <1>5, <1>6, <1>7, <1>8, <1>9, <1>10, <1>11, <1>12, <1>13, <1>14, <1>15, <1>16
    DEF Next, EventStep, ReplicaStep

THEOREM BusInvariant == Spec => []BusInv
BY InitBusInv, NextBusInv, PTL DEF Spec

----------------------------------------------------------------------------
(* What follows from the invariant.                                        *)

\* Every state of the bus is well typed.
THEOREM BusTypeCorrect == Spec => []TypeOK
<1>1. BusInv => TypeOK
  BY DEF BusInv
<1> QED BY <1>1, BusInvariant, PTL

\* The handler's writes are committed at most once per event and exactly once
\* when the event counts as processed, whatever is stored twice, redelivered,
\* handled by two replicas at once, replayed, or purged from the inbox.
THEOREM AppliedOnceAlways == Spec => []AppliedOnce
<1>1. BusInv => AppliedOnce
  <2> SUFFICES ASSUME BusInv, NEW e \in Events
               PROVE  applied[e] <= 1 /\ (applied[e] = 1 <=> Fate(e) = "processed")
    BY DEF AppliedOnce
  <2>1. applied[e] = IF inbox[e].status = "processed" \/ purged[e] = "processed" THEN 1 ELSE 0
    BY DEF BusInv, CountedByRow
  <2>2. purged[e] # "no" => inbox[e].status = "absent"
    BY DEF BusInv, PurgedIsGone
  <2>3. Fate(e) = "processed" <=> inbox[e].status = "processed" \/ purged[e] = "processed"
    BY <2>2 DEF Fate
  <2> QED BY <2>1, <2>3
<1> QED BY <1>1, BusInvariant, PTL

\* No message is acknowledged before its event is settled in the inbox: no
\* crash, lost acknowledgement or failed parking loses an event.
THEOREM AckedAlwaysSettled == Spec => []AckedIsSettled
<1>1. BusInv => AckedIsSettled
  <2> SUFFICES ASSUME BusInv, NEW m \in Msgs, stream[m].state = "acked"
               PROVE  Fate(m[1]) \notin {"new", "published"}
    BY DEF AckedIsSettled
  <2>1. m[1] \in Events
    BY DEF Msgs
  <2>2. inbox[m[1]].status \in {"processed", "parked", "discarded"}
    BY <2>1 DEF BusInv, AckedHasRow, TypeOK
  <2> QED BY <2>2 DEF Fate
<1> QED BY <1>1, BusInvariant, PTL

----------------------------------------------------------------------------
(* The bus implements its promise: a step moves the status of at most one  *)
(* event, by one of the promise's actions.                                 *)

FateMove(e) ==
    \/ Fate(e) = "new" /\ Fate(e)' = "published"
    \/ Fate(e) = "published" /\ Fate(e)' \in {"processed", "parked"}
    \/ Fate(e) = "parked" /\ Fate(e)' \in {"processed", "discarded"}

OneFateMoves ==
    \/ \A d \in Events : Fate(d)' = Fate(d)
    \/ \E e \in Events : FateMove(e) /\ \A d \in Events \ {e} : Fate(d)' = Fate(d)

\* What an event's status is made of.
LEMMA SameFate ==
    ASSUME NEW d \in Events, inbox'[d].status = inbox[d].status, purged'[d] = purged[d],
           Stored(d)' <=> Stored(d)
    PROVE  Fate(d)' = Fate(d)
BY DEF Fate

LEMMA NextFate == BusInv /\ [Next]_vars => OneFateMoves
<1> SUFFICES ASSUME BusInv, [Next]_vars PROVE OneFateMoves
  OBVIOUS
<1>1. ASSUME UNCHANGED <<inbox, purged>>,
             \A m \in Msgs : stream'[m].state = "absent" <=> stream[m].state = "absent"
      PROVE  OneFateMoves
  <2>1. \A d \in Events, c \in 1..MaxCopies : <<d, c>> \in Msgs
    BY DEF Msgs
  <2>2. \A d \in Events : Stored(d)' <=> Stored(d)
    BY <1>1, <2>1 DEF Stored
  <2> QED BY <1>1, <2>2, SameFate DEF OneFateMoves
<1>2. ASSUME NEW e \in Events, Store(e), UNCHANGED <<inbox, purged>> PROVE OneFateMoves
  <2>1. \A d \in Events, c \in 1..MaxCopies : <<d, c>> \in Msgs /\ <<d, c>>[1] = d
    BY DEF Msgs
  <2>2. \A m \in Msgs : \/ stream'[m] = stream[m]
                        \/ m[1] = e /\ stream[m].state = "absent" /\ stream'[m].state = "unacked"
    BY <1>2, StoreType DEF BusInv
  <2>3. \A d \in Events \ {e} : Stored(d)' <=> Stored(d)
    BY <2>1, <2>2 DEF Stored
  <2>4. Stored(e) => Stored(e)'
    BY <2>1, <2>2 DEF Stored
  <2>5. Fate(e)' = Fate(e) \/ (Fate(e) = "new" /\ Fate(e)' = "published")
    BY <1>2, <2>4 DEF Fate
  <2> QED BY <1>2, <2>3, <2>5, SameFate DEF OneFateMoves, FateMove
<1>3. ASSUME NEW e \in Events, inbox'[e].status \in {"processed", "parked", "discarded"},
             \A d \in Events \ {e} : inbox'[d] = inbox[d],
             UNCHANGED <<stream, purged>>,
             \/ inbox[e].status = "absent" /\ inbox'[e].status # "discarded" /\ Stored(e) /\ purged[e] = "no"
             \/ inbox[e].status = "parked"
      PROVE  OneFateMoves
  <2>1. \A d \in Events : Stored(d)' <=> Stored(d)
    BY <1>3 DEF Stored
  <2>2. Fate(e)' = inbox'[e].status
    BY <1>3 DEF Fate
  <2>3. FateMove(e) \/ Fate(e)' = Fate(e)
    BY <1>3, <2>2 DEF Fate, FateMove
  <2>4. \A d \in Events \ {e} : Fate(d)' = Fate(d)
    BY <1>3, <2>1, SameFate
  <2> QED BY <2>3, <2>4 DEF OneFateMoves
<1>4. ASSUME NEW e \in Events, Enqueue(e) \/ WindowPasses(e) PROVE OneFateMoves
  BY <1>1, <1>4 DEF Enqueue, WindowPasses
<1>5. ASSUME NEW e \in Events, Publish(e) \/ PublishUnacked(e) PROVE OneFateMoves
  BY <1>2, <1>5 DEF Publish, PublishUnacked
<1>6. ASSUME NEW e \in Events, Replay(e) \/ Discard(e) PROVE OneFateMoves
  <2>1. /\ inbox[e].status = "parked" /\ inbox'[e].status \in {"processed", "discarded"}
        /\ \A d \in Events \ {e} : inbox'[d] = inbox[d]
        /\ UNCHANGED <<stream, purged>>
    BY <1>6 DEF Replay, Discard, BusInv, TypeOK
  <2> QED BY <1>3, <2>1
<1>7. ASSUME NEW e \in Events, PurgeProcessed(e) PROVE OneFateMoves
  <2>1. /\ inbox[e].status \in {"processed", "discarded"} /\ stream' = stream
        /\ inbox'[e].status = "absent" /\ purged'[e] = inbox[e].status
        /\ \A d \in Events \ {e} : inbox'[d] = inbox[d] /\ purged'[d] = purged[d]
    BY <1>7 DEF PurgeProcessed, CanPurge, Absent, BusInv, TypeOK
  <2>2. \A d \in Events : Stored(d)' <=> Stored(d)
    BY <2>1 DEF Stored
  <2>3. Fate(e)' = Fate(e)
    BY <2>1 DEF Fate
  <2> QED BY <2>1, <2>2, <2>3, SameFate DEF OneFateMoves
<1>8. ASSUME NEW r \in Replicas, ProcessSucceeds(r) PROVE OneFateMoves
  <2>1. Event(r) \in Events /\ Stored(Event(r)) /\ purged[Event(r)] = "no"
    BY <1>8, WorkInHand DEF ProcessSucceeds
  <2>2. /\ inbox[Event(r)].status = "absent" /\ inbox'[Event(r)].status = "processed"
        /\ \A d \in Events \ {Event(r)} : inbox'[d] = inbox[d]
        /\ UNCHANGED <<stream, purged>>
    BY <1>8, <2>1 DEF ProcessSucceeds, IsNew, BusInv, TypeOK
  <2> QED BY <1>3, <2>1, <2>2
<1>9. ASSUME NEW r \in Replicas, Park(r) PROVE OneFateMoves
  <2> DEFINE e == Event(r)
  <2>1. e \in Events /\ Stored(e) /\ purged[e] = "no"
    BY <1>9, WorkInHand DEF Park
  <2>2. CASE inbox[e].status \in {"absent", "parked"}
    <3>1. /\ inbox'[e].status = "parked" /\ \A d \in Events \ {e} : inbox'[d] = inbox[d]
          /\ UNCHANGED <<stream, purged>>
      BY <1>9, <2>1, <2>2 DEF Park, CanPark, BusInv, TypeOK
    <3> QED BY <1>3, <2>1, <2>2, <3>1
  <2>3. CASE inbox[e].status \notin {"absent", "parked"}
    <3>1. UNCHANGED <<inbox, stream, purged>>
      BY <1>9, <2>1, <2>3 DEF Park, CanPark, BusInv, TypeOK
    <3> QED BY <1>1, <3>1
  <2> QED BY <2>2, <2>3
<1>10. ASSUME NEW r \in Replicas,
              \/ ProcessDuplicate(r) \/ ParkFails(r) \/ Crash(r)
              \/ \E permanent \in BOOLEAN : ProcessFails(r, permanent)
       PROVE  OneFateMoves
  BY <1>1, <1>10 DEF ProcessDuplicate, ParkFails, Crash, ProcessFails
<1>11. ASSUME NEW r \in Replicas, NEW m \in Msgs, Fetch(r, m) PROVE OneFateMoves
  <2>1. \A k \in Msgs : stream'[k].state = stream[k].state
    BY <1>11 DEF Fetch, BusInv, TypeOK
  <2> QED BY <1>1, <1>11, <2>1 DEF Fetch
<1>12. ASSUME NEW r \in Replicas, Ack(r) PROVE OneFateMoves
  <2> DEFINE n == replica[r].msg
  <2>1. n \in Msgs /\ Live(n)
    BY <1>12, WorkInHand DEF Ack
  <2>2. stream' = [stream EXCEPT ![n].state = "acked"]
    BY <1>12, <2>1 DEF Ack, Live, BusInv, TypeOK
  <2> HIDE DEF n
  <2>3. \A k \in Msgs : stream'[k].state = "absent" <=> stream[k].state = "absent"
    BY <2>1, <2>2 DEF Live, BusInv, TypeOK
  <2> QED BY <1>1, <1>12, <2>3 DEF Ack
<1>13. ASSUME DayPasses PROVE OneFateMoves
  <2>1. /\ \A m \in Msgs : stream'[m].state = "absent" <=> stream[m].state = "absent"
        /\ \A d \in Events : inbox'[d].status = inbox[d].status
        /\ purged' = purged
    BY <1>13, DayEffect DEF BusInv, DayPasses
  <2>2. \A d \in Events, c \in 1..MaxCopies : <<d, c>> \in Msgs
    BY DEF Msgs
  <2>3. \A d \in Events : Stored(d)' <=> Stored(d)
    BY <2>1, <2>2 DEF Stored
  <2> QED BY <2>1, <2>3, SameFate DEF OneFateMoves
<1>14. CASE UNCHANGED vars
  BY <1>1, <1>14 DEF vars
<1> QED BY <1>4, <1>5, <1>6, <1>7, <1>8, <1>9, <1>10, <1>11, <1>12, <1>13, <1>14 DEF Next, EventStep, ReplicaStep

\* The bus implements EventDelivery: an event is published, then processed or
\* parked, and a parked one replayed or discarded, each once and for good.
THEOREM BusRefinement == Spec => ImplementsDelivery
<1> DEFINE fates == [e \in Events |-> Fate(e)]
<1>1. ASSUME Init PROVE Delivery!Init
  <2>1. ASSUME NEW e \in Events PROVE Fate(e) = "new"
    <3>1. inbox[e].status = "absent" /\ purged[e] = "no"
      BY <1>1 DEF Init, Absent
    <3>2. \A c \in 1..MaxCopies : stream[<<e, c>>].state = "absent"
      BY <1>1 DEF Init, Msgs
    <3>3. ~Stored(e)
      BY <3>2 DEF Stored
    <3> QED BY <3>1, <3>3 DEF Fate
  <2> QED BY <2>1 DEF Delivery!Init
<1>2. BusInv /\ [Next]_vars => [Delivery!Next]_fates
  <2> SUFFICES ASSUME BusInv, [Next]_vars PROVE [Delivery!Next]_fates
    OBVIOUS
  <2>1. CASE \A d \in Events : Fate(d)' = Fate(d)
    BY <2>1
  <2>2. ASSUME NEW e \in Events, FateMove(e), \A d \in Events \ {e} : Fate(d)' = Fate(d)
        PROVE  Delivery!Next
    <3>1. fates' = [fates EXCEPT ![e] = Fate(e)']
      BY <2>2
    <3>2. CASE Fate(e) = "new" /\ Fate(e)' = "published"
      BY <3>1, <3>2 DEF Delivery!Publish, Delivery!Next
    <3>3. CASE Fate(e) = "published" /\ Fate(e)' = "processed"
      BY <3>1, <3>3 DEF Delivery!Process, Delivery!Next
    <3>4. CASE Fate(e) = "published" /\ Fate(e)' = "parked"
      BY <3>1, <3>4 DEF Delivery!Park, Delivery!Next
    <3>5. CASE Fate(e) = "parked" /\ Fate(e)' = "processed"
      BY <3>1, <3>5 DEF Delivery!Replay, Delivery!Next
    <3>6. CASE Fate(e) = "parked" /\ Fate(e)' = "discarded"
      BY <3>1, <3>6 DEF Delivery!Discard, Delivery!Next
    <3> QED BY <2>2, <3>2, <3>3, <3>4, <3>5, <3>6 DEF FateMove
  <2> QED BY <2>1, <2>2, NextFate DEF OneFateMoves
<1> QED BY <1>1, <1>2, BusInvariant, PTL DEF Spec, ImplementsDelivery, Delivery!Spec
=============================================================================
