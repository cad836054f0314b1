------------------------------ MODULE EventBus ------------------------------
(***************************************************************************)
(* The event bus (pkg/eventbus) between one publisher and one durable      *)
(* consumer: a publisher's outbox, the JetStream stream with its           *)
(* deduplication window and retention, the consumer's replicas, and the    *)
(* inbox that makes at-least-once delivery apply an event once.            *)
(*                                                                         *)
(* A replica fetches messages in batches and works through them, so a      *)
(* message can be redelivered to another replica while the first still     *)
(* has it.  An event is applied by whatever handler the consumer has: it   *)
(* succeeds, fails for now, or fails for good.  The publisher validates    *)
(* envelopes, so unreadable messages do not come from this code.           *)
(***************************************************************************)
EXTENDS Naturals, FiniteSets

CONSTANTS
    Events,        \* event ids
    Replicas,      \* replicas of the consuming service
    Nobody,
    MaxCopies,     \* bound on how often an id gets into the stream
    MaxAttempts,   \* deliveries before a failing event is parked (5)
    StreamAge,     \* retention of the stream (14 days)
    KeepAge,       \* age at which inbox rows are purged (30 days)
    MaxFaults      \* bound on crashes, lost acknowledgements, failed parking

ASSUME BoundsAssumption == MaxCopies \in Nat \ {0} /\ MaxAttempts \in Nat \ {0} /\ MaxFaults \in Nat
ASSUME AgesAssumption == StreamAge \in Nat /\ KeepAge \in Nat /\ StreamAge < KeepAge
ASSUME NobodyAssumption == Nobody \notin Events \X (1..MaxCopies)

VARIABLES
    outbox,        \* the publisher's row: pending until acknowledged
    recent,        \* ids the broker's deduplication window remembers
    stream,        \* the messages, by id and copy
    inbox,         \* event_inbox, by event id
    replica,       \* what each replica is doing
    applied,       \* history: how often the handler's writes committed
    purged,        \* history: what a purged inbox row said
    faults

vars == <<outbox, recent, stream, inbox, replica, applied, purged, faults>>

Msgs == Events \X (1..MaxCopies)
Idle == [pc |-> "idle", msg |-> Nobody, attempt |-> 0]
Absent == [status |-> "absent", age |-> 0]

TypeOK ==
    /\ outbox \in [Events -> {"none", "pending", "done"}]
    /\ recent \subseteq Events
    /\ stream \in [Msgs -> [state : {"absent", "unacked", "acked", "dropped"},
                            delivered : 0..MaxAttempts, age : 0..StreamAge]]
    /\ inbox \in [Events -> [status : {"absent", "processed", "parked", "discarded"}, age : 0..KeepAge]]
    /\ replica \in [Replicas -> [pc : {"idle", "handle", "park", "ack"}, msg : Msgs \cup {Nobody},
                                 attempt : 0..MaxAttempts]]
    /\ applied \in [Events -> Nat]
    /\ purged \in [Events -> {"no", "processed", "discarded"}]
    /\ faults \in 0..MaxFaults

Init ==
    /\ outbox = [e \in Events |-> "none"]
    /\ recent = {}
    /\ stream = [m \in Msgs |-> [state |-> "absent", delivered |-> 0, age |-> 0]]
    /\ inbox = [e \in Events |-> Absent]
    /\ replica = [r \in Replicas |-> Idle]
    /\ applied = [e \in Events |-> 0]
    /\ purged = [e \in Events |-> "no"]
    /\ faults = 0

FaultHappens == faults < MaxFaults /\ faults' = faults + 1

----------------------------------------------------------------------------
(* Publishing.                                                             *)

(* The service writes the row in the transaction of the change it reports. *)
Enqueue(e) ==
    /\ outbox[e] = "none"
    /\ outbox' = [outbox EXCEPT ![e] = "pending"]
    /\ UNCHANGED <<recent, stream, inbox, replica, applied, purged, faults>>

(* The broker stores a message unless it remembers its id.                 *)
Store(e) ==
    IF e \in recent THEN UNCHANGED <<recent, stream>>
    ELSE \E c \in 1..MaxCopies :
            /\ stream[<<e, c>>].state = "absent"
            /\ stream' = [stream EXCEPT ![<<e, c>>].state = "unacked"]
            /\ recent' = recent \cup {e}

Publish(e) ==
    /\ outbox[e] = "pending"
    /\ Store(e)
    /\ outbox' = [outbox EXCEPT ![e] = "done"]
    /\ UNCHANGED <<inbox, replica, applied, purged, faults>>

(* Stored, but the publisher does not hear of it: the row stays pending.   *)
PublishUnacked(e) ==
    /\ outbox[e] = "pending"
    /\ FaultHappens
    /\ Store(e)
    /\ UNCHANGED <<outbox, inbox, replica, applied, purged>>

(* Ten minutes later the broker has forgotten the id.                      *)
WindowPasses(e) ==
    /\ e \in recent
    /\ recent' = recent \ {e}
    /\ UNCHANGED <<outbox, stream, inbox, replica, applied, purged, faults>>

----------------------------------------------------------------------------
(* Consuming.  A message that is not acknowledged is delivered again, to   *)
(* any replica, after its delay or after AckWait.                          *)

(* Mutant: the message is acknowledged as soon as it is fetched.           *)
FetchAndAck(r, m) ==
    /\ replica[r].pc = "idle"
    /\ stream[m].state = "unacked"
    /\ stream' = [stream EXCEPT ![m].state = "acked"]
    /\ replica' = [replica EXCEPT ![r] = [pc |-> "handle", msg |-> m, attempt |-> 1]]
    /\ UNCHANGED <<outbox, recent, inbox, applied, purged, faults>>

Fetch(r, m) ==
    /\ replica[r].pc = "idle"
    /\ stream[m].state = "unacked"
    /\ LET attempt == IF stream[m].delivered < MaxAttempts THEN stream[m].delivered + 1 ELSE MaxAttempts
       IN  /\ stream' = [stream EXCEPT ![m].delivered = attempt]
           /\ replica' = [replica EXCEPT ![r] = [pc |-> "handle", msg |-> m, attempt |-> attempt]]
    /\ UNCHANGED <<outbox, recent, inbox, applied, purged, faults>>

Event(r) == replica[r].msg[1]
Goto(r, pc) == replica' = [replica EXCEPT ![r].pc = pc]
Stop(r) == replica' = [replica EXCEPT ![r] = Idle]

(* Mutant: a repeat is applied again.                                      *)
IsNewAlways(e) == TRUE

(* The INSERT of the inbox row tells a first delivery from a repeat.       *)
IsNew(e) == inbox[e].status = "absent"

(* Inbox.Process: inbox row and handler commit together.                   *)
ProcessSucceeds(r) ==
    LET e == Event(r)
    IN  /\ replica[r].pc = "handle" /\ IsNew(e)
        /\ inbox' = [inbox EXCEPT ![e] = [status |-> "processed", age |-> 0]]
        /\ applied' = [applied EXCEPT ![e] = @ + 1]
        /\ Goto(r, "ack")
        /\ UNCHANGED <<outbox, recent, stream, purged, faults>>

ProcessDuplicate(r) ==
    /\ replica[r].pc = "handle" /\ inbox[Event(r)].status # "absent"
    /\ Goto(r, "ack")
    /\ UNCHANGED <<outbox, recent, stream, inbox, applied, purged, faults>>

(* Whether a failure ends in parking.                                      *)
GivesUp(r, permanent) == permanent \/ replica[r].attempt >= MaxAttempts

(* The handler fails and everything is rolled back; a message that is not  *)
(* given up is sent back for later (Nak).                                  *)
ProcessFails(r, permanent) ==
    /\ replica[r].pc = "handle" /\ IsNew(Event(r))
    /\ IF GivesUp(r, permanent) THEN Goto(r, "park") ELSE Stop(r)
    /\ UNCHANGED <<outbox, recent, stream, inbox, applied, purged, faults>>

(* Mutant: parking overwrites what is there.                               *)
CanParkOver(status) == TRUE

(* Inbox.Park, a transaction of its own: inserts the row, or updates one   *)
(* that is parked already.                                                 *)
CanPark(status) == status \in {"absent", "parked"}

Park(r) ==
    LET e == Event(r)
    IN  /\ replica[r].pc = "park"
        /\ inbox' = [inbox EXCEPT ![e] = IF CanPark(@.status) THEN [status |-> "parked", age |-> 0] ELSE @]
        /\ Goto(r, "ack")
        /\ UNCHANGED <<outbox, recent, stream, applied, purged, faults>>

ParkFails(r) ==
    /\ replica[r].pc = "park"
    /\ FaultHappens
    /\ Stop(r)
    /\ UNCHANGED <<outbox, recent, stream, inbox, applied, purged>>

Ack(r) ==
    /\ replica[r].pc = "ack"
    /\ stream' = [stream EXCEPT ![replica[r].msg].state = IF @ = "unacked" THEN "acked" ELSE @]
    /\ Stop(r)
    /\ UNCHANGED <<outbox, recent, inbox, applied, purged, faults>>

(* The replica dies, or its acknowledgement is lost.                       *)
Crash(r) ==
    /\ replica[r].pc # "idle"
    /\ FaultHappens
    /\ Stop(r)
    /\ UNCHANGED <<outbox, recent, stream, inbox, applied, purged>>

----------------------------------------------------------------------------
(* Operators.                                                              *)

Replay(e) ==
    /\ inbox[e].status = "parked"
    /\ inbox' = [inbox EXCEPT ![e] = [status |-> "processed", age |-> 0]]
    /\ applied' = [applied EXCEPT ![e] = @ + 1]
    /\ UNCHANGED <<outbox, recent, stream, replica, purged, faults>>

Discard(e) ==
    /\ inbox[e].status = "parked"
    /\ inbox' = [inbox EXCEPT ![e] = [status |-> "discarded", age |-> 0]]
    /\ UNCHANGED <<outbox, recent, stream, replica, applied, purged, faults>>

----------------------------------------------------------------------------
(* Time, in steps far longer than any handler, retry or outbox backoff.    *)

Older(age, limit) == IF age < limit THEN age + 1 ELSE limit

(* Messages older than the stream's retention are dropped.                 *)
DayPasses ==
    /\ \A r \in Replicas : replica[r].pc = "idle"
    /\ \A e \in Events : outbox[e] # "pending" /\ e \notin recent
    /\ stream' = [m \in Msgs |->
                    IF stream[m].state \in {"absent", "dropped"} THEN stream[m]
                    ELSE IF stream[m].age = StreamAge THEN [stream[m] EXCEPT !.state = "dropped"]
                    ELSE [stream[m] EXCEPT !.age = @ + 1]]
    /\ inbox' = [e \in Events |-> [inbox[e] EXCEPT !.age = IF inbox[e].status = "absent" THEN 0 ELSE Older(@, KeepAge)]]
    /\ UNCHANGED <<outbox, recent, replica, applied, purged, faults>>

(* PurgeProcessed leaves parked rows for the operator.                     *)
CanPurge(e) == inbox[e].status \in {"processed", "discarded"} /\ inbox[e].age = KeepAge

PurgeProcessed(e) ==
    /\ CanPurge(e)
    /\ inbox' = [inbox EXCEPT ![e] = Absent]
    /\ purged' = [purged EXCEPT ![e] = inbox[e].status]
    /\ UNCHANGED <<outbox, recent, stream, replica, applied, faults>>

----------------------------------------------------------------------------
EventStep(e) ==
    \/ Enqueue(e) \/ Publish(e) \/ PublishUnacked(e) \/ WindowPasses(e)
    \/ Replay(e) \/ Discard(e) \/ PurgeProcessed(e)

ReplicaStep(r) ==
    \/ ProcessSucceeds(r) \/ ProcessDuplicate(r)
    \/ \E permanent \in BOOLEAN : ProcessFails(r, permanent)
    \/ Park(r) \/ Ack(r)

Next ==
    \/ \E e \in Events : EventStep(e)
    \/ \E r \in Replicas : ReplicaStep(r) \/ ParkFails(r) \/ Crash(r)
    \/ \E r \in Replicas, m \in Msgs : Fetch(r, m)
    \/ DayPasses

Spec == Init /\ [][Next]_vars

----------------------------------------------------------------------------
(* The status EventDelivery gives an event.                                *)
Stored(e) == \E c \in 1..MaxCopies : stream[<<e, c>>].state # "absent"

Fate(e) ==
    CASE inbox[e].status # "absent" -> inbox[e].status
      [] inbox[e].status = "absent" /\ purged[e] # "no" -> purged[e]
      [] OTHER -> IF Stored(e) THEN "published" ELSE "new"

Delivery == INSTANCE EventDelivery WITH event <- [e \in Events |-> Fate(e)]

(* The bus implements its promise: however messages are duplicated,        *)
(* redelivered and handled twice at once, an event is processed, parked,   *)
(* replayed or discarded once, and a processed one is never parked again.  *)
ImplementsDelivery == Delivery!Spec

(* The handler's writes are committed at most once per event, and exactly  *)
(* once when the inbox says so; purging old rows does not let an event     *)
(* that is still in the stream in again.                                   *)
AppliedOnce ==
    \A e \in Events :
        /\ applied[e] <= 1
        /\ (applied[e] = 1) <=> (Fate(e) = "processed")

(* A message is only acknowledged when its event is settled in the inbox:  *)
(* no crash, lost acknowledgement or failed parking loses an event.        *)
AckedIsSettled ==
    \A m \in Msgs : stream[m].state = "acked" => Fate(m[1]) \notin {"new", "published"}

(* An enqueued event is settled when it is applied, or parked for an       *)
(* operator, or outlived the stream's retention before a replica read it.  *)
Settled(e) ==
    \/ Fate(e) \in {"processed", "parked", "discarded"}
    \/ \E c \in 1..MaxCopies : stream[<<e, c>>].state = "dropped"
=============================================================================
