------------------------------- MODULE Shops -------------------------------
(***************************************************************************)
(* A shop's permission to sell: the moderation of its application by       *)
(* admins, the owner's vacations, and the versioned selling status that    *)
(* Vendor sends to Catalog and Order, by its outbox and the bus and by a   *)
(* page the consumers read every 15 seconds.  An order is placed under the *)
(* version its checkout was planned with.                                  *)
(***************************************************************************)
EXTENDS Naturals, FiniteSets

CONSTANTS
  Consumers,      \* services that hold a copy of the selling status
  OrderService,   \* the one of them that creates orders
  MaxVersion      \* bound on changes of the selling status

VARIABLES
  shop,       \* the vendors row
  interval,   \* the open vacation
  outbox,     \* vendor_outbox: a row for each version
  stream,     \* versions the broker stored
  page,       \* the status each consumer has read and not applied yet
  held,       \* vendor_sale_status of each consumer
  plan        \* the version of the last checkout, and whether its order was created

vars == <<shop, interval, outbox, stream, page, held, plan>>

Statuses == {"pending", "approved", "rejected", "suspended"}
NoVacation == [status |-> "none", start |-> "none", end |-> "none"]
Unknown == [version |-> 0, status |-> "none", accepting |-> FALSE]

CanTransition(from, to) ==
  <<from, to>> \in {<<"pending", "approved">>, <<"pending", "rejected">>, <<"rejected", "pending">>,
                    <<"approved", "suspended">>, <<"suspended", "approved">>}

Status(s) == [version |-> s.version, status |-> s.status, accepting |-> s.accepting]

\* A status change, with its outbox row in the same transaction.
Queue(s) == outbox' = [outbox EXCEPT ![s.version] =
  IF @.state = "none" THEN [status |-> s.status, accepting |-> s.accepting, state |-> "queued"] ELSE @]

-----------------------------------------------------------------------------
(* Moderation.                                                             *)

Apply ==
  /\ shop.version = 0
  /\ shop' = [shop EXCEPT !.version = 1, !.status = "pending"]
  /\ Queue(shop')
  /\ UNCHANGED <<interval, stream, page, held, plan>>

AddAddress ==
  /\ shop.version > 0 /\ ~shop.address
  /\ shop' = [shop EXCEPT !.address = TRUE]
  /\ UNCHANGED <<interval, outbox, stream, page, held, plan>>

\* A default pickup address, besides a name and a description.
ready == shop.address

UpdateStatus(to) ==
  /\ shop.version \in 1 .. MaxVersion - 1
  /\ shop' = [shop EXCEPT !.version = @ + 1, !.status = to]
  /\ Queue(shop')
  /\ UNCHANGED <<interval, stream, page, held, plan>>

\* The shop a restore approves is a suspended one, and no other approval's is.
decide(to, restore) ==
  /\ CanTransition(shop.status, to) /\ to # "pending"
  /\ to = "approved" => (restore <=> shop.status = "suspended") /\ ready
  /\ UpdateStatus(to)

Resubmit == shop.status = "rejected" /\ ready /\ UpdateStatus("pending")

-----------------------------------------------------------------------------
(* Vacations.                                                              *)

MayScheduleVacation(status) == status \in {"approved", "suspended"}

SameVersion(s, accepting) == [s EXCEPT !.accepting = accepting]

\* accepting_orders and the selling version change together.
SetAccepting(s, accepting) == [s EXCEPT !.accepting = accepting, !.version = @ + 1]

pause(cur, bumped) ==
  /\ shop.version < MaxVersion
  /\ shop.accepting
  /\ shop' = SetAccepting(bumped, FALSE)
  /\ interval' = [cur EXCEPT !.status = "active"]
  /\ Queue(shop')

resume(bumped) ==
  /\ shop.version < MaxVersion
  /\ ~shop.accepting
  /\ shop' = SetAccepting(bumped, TRUE)
  /\ interval' = NoVacation
  /\ Queue(shop')

\* An active vacation keeps its start.
NormalizeVacation(start, end) ==
  [status |-> IF interval.status = "none" THEN "scheduled" ELSE interval.status,
   start  |-> IF interval.status = "active" THEN interval.start ELSE start,
   end    |-> end]

\* One open vacation; one that starts now pauses the shop at once.
Schedule(start, end) ==
  /\ MayScheduleVacation(shop.status)
  /\ LET cur == NormalizeVacation(start, end)
     IN  IF cur.status = "scheduled" /\ cur.start = "now" THEN pause(cur, shop)
         ELSE interval' = cur /\ interval' # interval /\ UNCHANGED <<shop, outbox>>
  /\ UNCHANGED <<stream, page, held, plan>>

\* The owner cancels a scheduled vacation or ends an active one.
Resume ==
  /\ \/ interval.status = "scheduled" /\ interval' = NoVacation /\ UNCHANGED <<shop, outbox>>
     \/ interval.status = "active" /\ resume(shop)
  /\ UNCHANGED <<stream, page, held, plan>>

Due == \/ interval.status = "scheduled" /\ interval.start = "now"
       \/ interval.status = "active" /\ interval.end = "now"

\* The scheduler applies what is due, under the lock of the shop's row.
Advance ==
  /\ Due
  /\ IF interval.status = "scheduled" THEN pause(interval, shop) ELSE resume(shop)
  /\ UNCHANGED <<stream, page, held, plan>>

\* Time reaches the start, or the end.
TimeComes ==
  /\ \/ interval.status = "scheduled" /\ interval.start = "later"
        /\ interval' = [interval EXCEPT !.start = "now"]
     \/ interval.status # "none" /\ interval.start = "now" /\ interval.end = "later"
        /\ interval' = [interval EXCEPT !.end = "now"]
  /\ UNCHANGED <<shop, outbox, stream, page, held, plan>>

-----------------------------------------------------------------------------
(* The way to the consumers.                                               *)

\* A claimed row is sent: the broker stores it or not, and the dispatcher learns
\* it, or does not, or dies.  A row that is parked after ten attempts is one that
\* is not sent again.
DispatchStatus(v, told) ==
  /\ outbox[v].state = "queued"
  /\ stream' = stream \cup {v}
  /\ outbox' = [outbox EXCEPT ![v].state = IF told THEN "delivered" ELSE @]
  /\ shop' = [shop EXCEPT !.enforced = IF told /\ v > @ THEN v ELSE @]
  /\ UNCHANGED <<interval, page, held, plan>>

withoutPaused(s) == s.status # "approved" \/ s.accepting

\* A page names every shop, those on vacation too for a reader that knows them.
SaleStatus(s, withAvailability) == withAvailability \/ withoutPaused(s)

NewerAny(h, s) == TRUE

\* The newest version wins; the same one confirms.
Newer(h, s) == s.version >= h.version

applyStatus(c, s) ==
  held' = [held EXCEPT ![c] = IF Newer(@, s) THEN s ELSE @]

\* The bus delivers a stored version, again and in any order.
EventHandler(c, v) ==
  /\ v \in stream
  /\ applyStatus(c, [version |-> v, status |-> outbox[v].status, accepting |-> outbox[v].accepting])
  /\ UNCHANGED <<shop, interval, outbox, stream, page, plan>>

\* A consumer reads the current statuses...
Snapshots(c) ==
  /\ shop.version > 0 /\ page[c] = Unknown
  /\ SaleStatus(shop, TRUE)
  /\ page' = [page EXCEPT ![c] = Status(shop)]
  /\ UNCHANGED <<shop, interval, outbox, stream, held, plan>>

\* ... and applies them.
ApplyAll(c) ==
  /\ page[c] # Unknown
  /\ applyStatus(c, page[c])
  /\ page' = [page EXCEPT ![c] = Unknown]
  /\ UNCHANGED <<shop, interval, outbox, stream, plan>>

-----------------------------------------------------------------------------
(* A checkout.                                                             *)

\* Order asks Vendor whether the shop is approved and takes orders.
Accepting ==
  /\ shop.status = "approved" /\ shop.accepting
  /\ plan' = [version |-> shop.version, created |-> FALSE]
  /\ UNCHANGED <<shop, interval, outbox, stream, page, held>>

\* The fence in the transaction that creates the order.
LockApproved ==
  LET h == held[OrderService]
  IN  h.status = "approved" /\ h.accepting /\ h.version = plan.version

CreateFromPlan ==
  /\ plan.version > 0 /\ ~plan.created
  /\ LockApproved
  /\ plan' = [plan EXCEPT !.created = TRUE]
  /\ UNCHANGED <<shop, interval, outbox, stream, page, held>>

-----------------------------------------------------------------------------
Init ==
  /\ shop = [version |-> 0, status |-> "none", accepting |-> TRUE, enforced |-> 0, address |-> FALSE]
  /\ interval = NoVacation
  /\ outbox = [v \in 1 .. MaxVersion |-> [status |-> "none", accepting |-> FALSE, state |-> "none"]]
  /\ stream = {} /\ plan = [version |-> 0, created |-> FALSE]
  /\ page = [c \in Consumers |-> Unknown]
  /\ held = [c \in Consumers |-> Unknown]

Next ==
  \/ Apply \/ AddAddress \/ Resubmit
  \/ \E to \in Statuses, restore \in BOOLEAN : decide(to, restore)
  \/ \E start \in {"now", "later"}, end \in {"none", "later"} : Schedule(start, end)
  \/ Resume \/ Advance \/ TimeComes
  \/ \E v \in 1 .. MaxVersion :
       \/ \E told \in BOOLEAN : DispatchStatus(v, told)
       \/ \E c \in Consumers : EventHandler(c, v)
  \/ \E c \in Consumers : Snapshots(c) \/ ApplyAll(c)
  \/ Accepting \/ CreateFromPlan

Spec == Init /\ [][Next]_vars

-----------------------------------------------------------------------------
\* Every copy of the selling status, however it came, is what the shop was at
\* that version; the shop is closed exactly while a vacation is in force; and an
\* order was created only under a version in which the shop was approved and
\* took orders.
SellingIsVersioned ==
  /\ \A c \in Consumers : held[c].version > 0 =>
       /\ held[c].status = outbox[held[c].version].status
       /\ held[c].accepting = outbox[held[c].version].accepting
  /\ shop.accepting <=> interval.status # "active"
  /\ shop.enforced > 0 => shop.enforced \in stream
  /\ plan.created => outbox[plan.version].status = "approved" /\ outbox[plan.version].accepting

\* A copy never goes back, and no order is created once Order knows that the
\* shop has changed since the checkout was planned.
StatusNeverGoesBack ==
  /\ \A c \in Consumers : held'[c].version >= held[c].version
  /\ (plan'.created /\ ~plan.created) => plan.version = held[OrderService].version

----------------------------------------------------------------------------
(***************************************************************************)
(* A shop's own records at Vendor: its logo and its banner, replaced by    *)
(* uploads that read the shop before they write, and the outbox of         *)
(* shop-decision notices, claimed in leases by worker replicas.            *)
(***************************************************************************)
CONSTANTS Uploads,       \* logo uploads of the shop
          Notices,       \* shop version and type of a queued notice
          Workers,       \* dispatching replicas
          MaxAttempts    \* MaxNoticeAttempts

VARIABLES shown,     \* LogoObjectKey and BannerObjectKey
          stored,    \* objects in storage
          upload,    \* upload[u]: its stage and the key it replaces
          notice,    \* notice[n]: the outbox row
          busy,      \* busy[w]: the notice w is handing over
          accepted   \* notices Notification accepted

shopVars == <<shown, stored, upload, notice, busy, accepted>>
mediaVars == <<shown, stored, upload>>
noticeVars == <<notice, busy, accepted>>

NoKey == "none"
Kinds == {"logo", "banner"}
NewUpload == [stage |-> "idle", kind |-> "logo", old |-> NoKey]
NoRow == [queued |-> FALSE, delivered |-> FALSE, parked |-> FALSE, due |-> FALSE, leased |-> FALSE, attempts |-> 0]

ShopRecordsInit ==
    /\ shown = [k \in Kinds |-> NoKey] /\ stored = {} /\ upload = [u \in Uploads |-> NewUpload]
    /\ notice = [n \in Notices |-> NoRow]
    /\ busy = [w \in Workers |-> NoKey] /\ accepted = {}

-----------------------------------------------------------------------------
(* Images.                                                                 *)

At(u, from, to) == upload[u].stage = from /\ upload' = [upload EXCEPT ![u].stage = to]

\* GetOwned: the shop as read at the start, its image keys included.
GetOwned(u, kind) ==
    /\ upload[u].stage = "idle"
    /\ upload' = [upload EXCEPT ![u] = [stage |-> "read", kind |-> kind, old |-> shown[kind]]]
    /\ UNCHANGED <<shown, stored>> /\ UNCHANGED noticeVars

\* The object goes to storage under a key of its own.
Upload(u) ==
    /\ At(u, "read", "stored")
    /\ stored' = stored \cup {u}
    /\ UNCHANGED shown /\ UNCHANGED noticeVars

SetImage(u, kind) ==
    /\ upload[u].kind = kind /\ At(u, "stored", "set")
    /\ shown' = [shown EXCEPT ![kind] = u]
    /\ UNCHANGED stored /\ UNCHANGED noticeVars

SetLogo(u) == SetImage(u, "logo")

SetBanner(u) == SetImage(u, "banner")

\* The key that was read is what gets deleted.
ShownNow(u) == shown[upload[u].kind]
Superseded(u) == upload[u].old

\* Best effort: the delete may fail.
DeleteOld(u) ==
    /\ At(u, "set", "done")
    /\ stored' \in {stored, stored \ {Superseded(u)}}
    /\ UNCHANGED shown /\ UNCHANGED noticeVars

\* The request dies anywhere.
UploadDies(u) ==
    /\ upload[u].stage \in {"read", "stored", "set"}
    /\ upload' = [upload EXCEPT ![u].stage = "done"]
    /\ UNCHANGED <<shown, stored>> /\ UNCHANGED noticeVars

-----------------------------------------------------------------------------
(* The notice outbox.                                                      *)

\* Once per shop version and type, with the decision.
QueueNotice(n) ==
    /\ ~notice[n].queued
    /\ notice' = [notice EXCEPT ![n].queued = TRUE, ![n].due = TRUE]
    /\ UNCHANGED <<busy, accepted>> /\ UNCHANGED mediaVars

Claimable(r) == r.queued /\ ~r.delivered /\ ~r.parked /\ r.due /\ ~r.leased

Claim(w) ==
    /\ busy[w] = NoKey
    /\ \E n \in Notices :
           /\ Claimable(notice[n])
           /\ notice' = [notice EXCEPT ![n].leased = TRUE,
                                       ![n].attempts = IF @ < MaxAttempts THEN @ + 1 ELSE @]
           /\ busy' = [busy EXCEPT ![w] = n]
    /\ UNCHANGED accepted /\ UNCHANGED mediaVars

\* Within the lease of 60 s a replica hands its notices over or dies.
LeaseEnds(n) ==
    /\ notice[n].leased /\ \A w \in Workers : busy[w] # n
    /\ notice' = [notice EXCEPT ![n].leased = FALSE]
    /\ UNCHANGED <<busy, accepted>> /\ UNCHANGED mediaVars

\* The backoff is over.
NoticeDue(n) ==
    /\ notice[n].queued /\ ~notice[n].due
    /\ notice' = [notice EXCEPT ![n].due = TRUE]
    /\ UNCHANGED <<busy, accepted>> /\ UNCHANGED mediaVars

Released(w) == busy[w] # NoKey /\ busy' = [busy EXCEPT ![w] = NoKey]

Delivered(w) ==
    /\ Released(w)
    /\ accepted' = accepted \cup {busy[w]}
    /\ notice' = [notice EXCEPT ![busy[w]].delivered = TRUE, ![busy[w]].leased = FALSE]
    /\ UNCHANGED mediaVars

\* Refused for good, or unavailable: Notification may have stored it, the
\* answer being lost.
Failed(w, refused, arrived) ==
    /\ Released(w)
    /\ refused => ~arrived
    /\ accepted' = accepted \cup (IF arrived THEN {busy[w]} ELSE {})
    /\ notice' = [notice EXCEPT ![busy[w]].leased = FALSE, ![busy[w]].due = FALSE,
                                ![busy[w]].parked = refused \/ notice[busy[w]].attempts >= MaxAttempts]
    /\ UNCHANGED mediaVars

\* Dead before the answer, or before writing it down.
WorkerDies(w, arrived) ==
    /\ Released(w)
    /\ accepted' = accepted \cup (IF arrived THEN {busy[w]} ELSE {})
    /\ UNCHANGED notice /\ UNCHANGED mediaVars

-----------------------------------------------------------------------------
ShopRecordsNext ==
    \/ \E u \in Uploads : Upload(u) \/ SetLogo(u) \/ SetBanner(u) \/ DeleteOld(u) \/ UploadDies(u)
    \/ \E u \in Uploads, kind \in Kinds : GetOwned(u, kind)
    \/ \E n \in Notices : QueueNotice(n) \/ LeaseEnds(n) \/ NoticeDue(n)
    \/ \E w \in Workers :
           \/ Claim(w) \/ Delivered(w)
           \/ \E refused \in BOOLEAN, arrived \in BOOLEAN : Failed(w, refused, arrived)
           \/ \E arrived \in BOOLEAN : WorkerDies(w, arrived)

ShopRecordsSpec == ShopRecordsInit /\ [][ShopRecordsNext]_shopVars

-----------------------------------------------------------------------------
\* The images a shop shows are in storage, however its uploads overlap: a
\* delete hits only a key that some upload replaced (UploadLogo, UploadBanner).
ImagesAreStored == \A k \in Kinds : shown[k] # NoKey => shown[k] \in stored

\* A notice is closed as delivered only when Notification holds it, and no
\* two replicas hand over the same notice (Claim, Delivered, Failed).
NoticesAreHeld ==
    /\ \A n \in Notices : notice[n].delivered => n \in accepted
    /\ \A v, w \in Workers : busy[v] # NoKey /\ busy[v] = busy[w] => v = w
============================================================================
