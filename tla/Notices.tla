------------------------------ MODULE Notices ------------------------------
(***************************************************************************)
(* How Notification delivers one recorded notice (services/notification:   *)
(* usecase/notification_usecase.go, repository/notification_repository.go, *)
(* taskqueue/taskqueue.go, usecase/worker.go).  PostgreSQL keeps the       *)
(* notice, its attempts and their log; Redis keeps the jobs "make attempt  *)
(* N", at most one per attempt, and may lose them.  A worker that runs a   *)
(* job claims the attempt for a lease, sends, and records the outcome if   *)
(* it still holds the attempt.                                             *)
(*                                                                         *)
(* Faults: a job not queued or lost, a worker that stops, a worker that    *)
(* is slow past its lease; each counts against MaxFaults.  Waiting times   *)
(* are a flag, "due", that the clock raises.                               *)
(***************************************************************************)
EXTENDS Naturals, FiniteSetsExt, FiniteSets

CONSTANTS Workers, MaxAttempts, RetryAttempts, AttemptCap, MaxRetries, MaxFaults

VARIABLES
  notice,    \* the row: [status, attempts, max, due, leased]
  log,       \* notification_attempts: attempt -> outcome recorded, or "none"
  sent,      \* attempts that handed the message to the provider
  jobs,      \* the attempts queued in Redis
  worker,    \* Workers -> the attempt it makes and what came of it
  retries, faults

noticesVars == <<notice, log, sent, jobs, worker, retries, faults>>

Attempts == 1 .. AttemptCap
Idle == [attempt |-> 0, outcome |-> "none"]
Ended == {"sent", "failed", "parked"}
Fault == faults < MaxFaults /\ faults' = faults + 1

\* A job already queued for the attempt is kept; queueing may fail.
Enqueue(kept, attempt) ==
  \/ jobs' = kept \cup {attempt} /\ UNCHANGED faults
  \/ jobs' = kept /\ Fault

\* A notice is recorded once, with its inbox item; a repeat changes nothing.
Accept ==
  /\ notice.status = "none"
  /\ notice' = [notice EXCEPT !.status = "pending", !.due = TRUE]
  /\ Enqueue(jobs, 1)
  /\ UNCHANGED <<log, sent, worker, retries>>

TimeComes ==
  /\ notice.status = "pending" /\ ~notice.due
  /\ notice' = [notice EXCEPT !.due = TRUE]
  /\ UNCHANGED <<log, sent, jobs, worker, retries, faults>>

-----------------------------------------------------------------------------
FreePending == notice.status = "pending" /\ notice.due

\* The next attempt may be made: it is due, or the last one's worker stopped.
Free == (notice.status = "pending" /\ notice.due) \/ (notice.status = "sending" /\ ~notice.leased)

\* Attempt N is claimed after attempt N - 1, by one worker.
ClaimTask(attempt) == notice.attempts = attempt - 1 /\ notice.attempts < notice.max /\ Free

\* A job that is stale, early or repeated does nothing.
Deliver(w, attempt) ==
  /\ worker[w] = Idle /\ attempt \in jobs /\ \A v \in Workers : worker[v].attempt # attempt
  /\ IF ClaimTask(attempt)
     THEN /\ notice' = [notice EXCEPT !.status = "sending", !.attempts = @ + 1, !.leased = TRUE]
          /\ worker' = [worker EXCEPT ![w] = [attempt |-> attempt, outcome |-> "none"]]
          /\ UNCHANGED jobs
     ELSE jobs' = jobs \ {attempt} /\ UNCHANGED <<notice, worker>>
  /\ UNCHANGED <<log, sent, retries, faults>>

\* Who is told is looked up, then the mail is sent: it went out, it did not,
\* never will, or nobody knows.
Attempt(w, outcome) ==
  /\ worker[w].attempt # 0 /\ worker[w].outcome = "none"
  /\ worker' = [worker EXCEPT ![w].outcome = IF outcome = "uncertain" THEN "transient" ELSE outcome]
  /\ sent' = IF outcome \in {"sent", "uncertain"} THEN sent \cup {worker[w].attempt} ELSE sent
  /\ UNCHANGED <<notice, log, jobs, retries, faults>>

\* What a failed attempt leads to.
Outcome(outcome) ==
  CASE outcome = "sent" -> "sent"
    [] outcome = "permanent" -> "failed"
    [] outcome = "transient" -> IF notice.attempts >= notice.max THEN "parked" ELSE "pending"

HoldsAny(attempt) == notice.status = "sending"

\* Only the worker that still holds the attempt records it.
Holds(attempt) == notice.status = "sending" /\ notice.attempts = attempt

Finish(w) ==
  LET attempt == worker[w].attempt
      status == Outcome(worker[w].outcome)
      done == jobs \ {attempt}
  IN  /\ worker[w].outcome # "none"
      /\ worker' = [worker EXCEPT ![w] = Idle]
      /\ IF ~Holds(attempt)
         THEN jobs' = done /\ UNCHANGED <<notice, log, faults>>
         ELSE /\ notice' = [notice EXCEPT !.status = status, !.due = FALSE, !.leased = FALSE]
              /\ log' = [log EXCEPT ![notice.attempts] = status]
              /\ IF status = "pending" THEN Enqueue(done, attempt + 1) ELSE jobs' = done /\ UNCHANGED faults
      /\ UNCHANGED <<sent, retries>>

-----------------------------------------------------------------------------
\* The worker stops; the queue runs its job again later.
Crash(w) ==
  /\ worker[w] # Idle /\ worker' = [worker EXCEPT ![w] = Idle] /\ Fault
  /\ UNCHANGED <<notice, log, sent, jobs, retries>>

\* The lease is longer than an attempt: it ends under a worker that stopped,
\* or one that was held up.
LeaseEnds ==
  /\ notice.status = "sending" /\ notice.leased
  /\ notice' = [notice EXCEPT !.leased = FALSE]
  /\ IF \E w \in Workers : worker[w].attempt = notice.attempts THEN Fault ELSE UNCHANGED faults
  /\ UNCHANGED <<log, sent, jobs, worker, retries>>

JobsLost ==
  /\ jobs # {} /\ jobs' = {} /\ Fault
  /\ UNCHANGED <<notice, log, sent, worker, retries>>

Stuck == notice.status = "sending" /\ ~notice.leased /\ notice.attempts >= notice.max

\* Every 30 seconds: a last attempt that stopped is parked, and an overdue
\* notice gets its job again.
Recover ==
  \/ /\ Stuck
     /\ notice' = [notice EXCEPT !.status = "parked"]
     /\ log' = [log EXCEPT ![notice.attempts] = "parked"]
     /\ UNCHANGED <<sent, jobs, worker, retries, faults>>
  \/ /\ Free /\ notice.attempts < notice.max /\ notice.attempts + 1 \notin jobs
     /\ jobs' = jobs \cup {notice.attempts + 1}
     /\ UNCHANGED <<notice, log, sent, worker, retries, faults>>

\* An admin gives a failed or parked notice a few more attempts, as far as the
\* cap on attempts leaves any.
Requeue(extra) ==
  [notice EXCEPT !.status = "pending", !.due = TRUE,
                 !.max = Min({Max({@, notice.attempts + extra}), AttemptCap})]

Retry ==
  /\ notice.status \in {"failed", "parked"} /\ retries < MaxRetries
  /\ notice' = Requeue(RetryAttempts) /\ retries' = retries + 1
  /\ Enqueue(jobs, notice.attempts + 1)
  /\ UNCHANGED <<log, sent, worker>>

-----------------------------------------------------------------------------
NoticesInit ==
  /\ notice = [status |-> "none", attempts |-> 0, max |-> MaxAttempts, due |-> FALSE, leased |-> FALSE]
  /\ log = [a \in Attempts |-> "none"] /\ sent = {} /\ jobs = {}
  /\ worker = [w \in Workers |-> Idle] /\ retries = 0 /\ faults = 0

Outcomes == {"sent", "permanent", "transient", "uncertain"}

NoticesNext ==
  \/ Accept \/ TimeComes \/ LeaseEnds \/ JobsLost \/ Recover \/ Retry
  \/ \E w \in Workers :
       \/ \E a \in jobs : Deliver(w, a)
       \/ \E o \in Outcomes : Attempt(w, o)
       \/ Finish(w) \/ Crash(w)

NoticesSpec == NoticesInit /\ [][NoticesNext]_noticesVars

-----------------------------------------------------------------------------
\* What the log says of an attempt is what came of that attempt: a notice that
\* counts as sent was handed over by its last attempt, and no attempt is logged
\* as failed that is still being made or that handed the message over for sure
\* (Finish records only under the attempt it holds).
LogIsTrue ==
  /\ \A a \in Attempts : log[a] = "sent" => a \in sent
  /\ notice.status = "sent" => log[notice.attempts] = "sent"
  /\ \A w \in Workers : (worker[w].outcome = "sent" /\ log[worker[w].attempt] # "none") =>
       (log[worker[w].attempt] \in {"sent", "parked"})
  /\ \A a \in Attempts : a > notice.attempts => log[a] = "none" /\ a \notin sent

\* What a recorded notice comes to: sent, failed or parked; or, retried when the
\* cap leaves no attempt, pending for good, since neither a worker nor the
\* recovery nor another retry takes it.
NoticeEnded ==
  \/ notice.status \in Ended
  \/ notice.status = "pending" /\ notice.max = AttemptCap /\ notice.attempts = AttemptCap

\* What the code says of a retry: it puts the notice back in the queue with a few
\* more attempts.  At the cap it has none left to give.
RetryGivesAttempts == notice.status = "pending" => notice.attempts < notice.max

----------------------------------------------------------------------------
(***************************************************************************)
(* Notices about a shop's work and the inbox they land in                  *)
(* (services/notification: usecase/vendor_actions.go, usecase/inbox.go and *)
(* their repositories; Vendor's usecase/notification_recipients.go).  A    *)
(* producer's event is recorded once; a worker claims it for 30 seconds,   *)
(* asks Vendor who may be told, reads who opted in, and writes one notice  *)
(* and inbox item per person with the result, if it still holds the event. *)
(* People read their inbox page by page.                                   *)
(*                                                                         *)
(* Outside the model: whether Vendor answers and who belongs to the shop,  *)
(* which changes at most MaxChanges times.  "clock" numbers the            *)
(* transactions that write items as they begin (created_at is the begin).  *)
(***************************************************************************)
CONSTANTS Events, ShopWorkers, Users, Owner, MaxShopAttempts, MaxShopRetries, MaxStalls, MaxChanges

VARIABLES
  event,     \* Events -> [status, attempts, leased, recipients]
  claim,     \* Events -> how many claims it has seen
  members,   \* who may act for the shop with the purpose's permission
  optIn,     \* [on, marketing, version] of the staff member's preferences
  read,      \* the preferences version the staff member last saw
  consents,  \* the marketing consent after each audited change, newest last
  shopWorker,    \* ShopWorkers -> the event they resolve, how far, for whom
  clock, items, page,
  shopRetries, stalls, changes

shopVars == <<event, claim, members, optIn, read, consents, shopWorker, clock, items, page, shopRetries, stalls, changes>>

ShopIdle == [event |-> "none", attempt |-> 0, claim |-> 0, step |-> "idle", result |-> "none", users |-> {}, begun |-> 0]
NoPage == [through |-> 0, seen |-> {}]
Staff == Users \ {Owner}

-----------------------------------------------------------------------------
(* Events.                                                                 *)

\* Once per producer and event id; a repeat changes nothing.
Record(e) ==
  /\ event[e].status = "none"
  /\ event' = [event EXCEPT ![e].status = "pending"]
  /\ UNCHANGED <<claim, members, optIn, read, consents, shopWorker, clock, items, page, shopRetries, stalls, changes>>

Claim(w, e) ==
  /\ shopWorker[w] = ShopIdle
  /\ event[e].status = "pending" \/ (event[e].status = "resolving" /\ ~event[e].leased)
  /\ event' = [event EXCEPT ![e].status = "resolving", ![e].attempts = @ + 1, ![e].leased = TRUE]
  /\ claim' = [claim EXCEPT ![e] = @ + 1]
  /\ shopWorker' = [shopWorker EXCEPT ![w] = [ShopIdle EXCEPT !.event = e, !.attempt = event'[e].attempts,
                                                  !.claim = claim'[e], !.step = "claimed"]]
  /\ UNCHANGED <<members, optIn, read, consents, clock, items, page, shopRetries, stalls, changes>>

Result(w, result, users) ==
  shopWorker' = [shopWorker EXCEPT ![w].step = "asked", ![w].result = result, ![w].users = users]

\* Vendor answers with the owner and the staff who hold the permission and may
\* act, or not at all; a shop that is gone has nobody.
NotificationRecipients(w, answer) ==
  /\ shopWorker[w].step = "claimed"
  /\ CASE answer = "list" -> Result(w, "list", members)
       [] answer = "gone" -> Result(w, "no_recipient", {})
       [] answer = "none" -> Result(w, IF shopWorker[w].attempt >= MaxShopAttempts THEN "parked" ELSE "pending", {})
  /\ UNCHANGED <<event, claim, members, optIn, read, consents, clock, items, page, shopRetries, stalls, changes>>

\* The owner always; staff who opted in.
SelectRecipients(users) == {u \in users : u = Owner \/ optIn.on}

\* The opt-ins are read and the transaction that records the result begins.
ResolveNext(w) ==
  LET users == SelectRecipients(shopWorker[w].users)
  IN  /\ shopWorker[w].step = "asked"
      /\ clock' = clock + 1
      /\ shopWorker' = [shopWorker EXCEPT
           ![w].step = "writing", ![w].users = users, ![w].begun = clock + 1,
           ![w].result = IF @ # "list" THEN @ ELSE IF users = {} THEN "no_recipient" ELSE "resolved"]
      /\ UNCHANGED <<event, claim, members, optIn, read, consents, items, page, shopRetries, stalls, changes>>

ShopHoldsAny(w) == event[shopWorker[w].event].attempts >= shopWorker[w].attempt

\* The worker still holds the event: the same attempt, still resolving.
ShopHolds(w) ==
  event[shopWorker[w].event].status = "resolving" /\ event[shopWorker[w].event].attempts = shopWorker[w].attempt

\* A notice is recorded once per person and event, and only then its item.
Told(e) == {i.user : i \in {j \in items : j.event = e}}
Add(e, users, begun) ==
  items' = items \cup {[event |-> e, user |-> u, created |-> begun, state |-> "unread"] : u \in users \ Told(e)}

\* The notices and the result are written together or not at all.
Complete(w) ==
  LET e == shopWorker[w].event
      users == IF shopWorker[w].result = "resolved" THEN shopWorker[w].users ELSE {}
  IN  /\ shopWorker[w].step = "writing"
      /\ shopWorker' = [shopWorker EXCEPT ![w] = ShopIdle]
      /\ IF ~ShopHolds(w) THEN UNCHANGED <<event, items>>
         ELSE /\ event' = [event EXCEPT ![e].status = shopWorker[w].result, ![e].leased = FALSE, ![e].recipients = users]
              /\ Add(e, users, shopWorker[w].begun)
      /\ UNCHANGED <<claim, members, optIn, read, consents, clock, page, shopRetries, stalls, changes>>

\* The lease outlives an attempt unless its worker is held up or stops.
ShopLeaseEnds(e) ==
  /\ event[e].leased
  /\ event' = [event EXCEPT ![e].leased = FALSE]
  /\ IF \E w \in ShopWorkers : shopWorker[w].event = e /\ shopWorker[w].claim = claim[e]
     THEN stalls < MaxStalls /\ stalls' = stalls + 1 ELSE UNCHANGED stalls
  /\ UNCHANGED <<claim, members, optIn, read, consents, shopWorker, clock, items, page, shopRetries, changes>>

Stop(w) ==
  /\ shopWorker[w] # ShopIdle /\ stalls < MaxStalls /\ stalls' = stalls + 1
  /\ shopWorker' = [shopWorker EXCEPT ![w] = ShopIdle]
  /\ UNCHANGED <<event, claim, members, optIn, read, consents, clock, items, page, shopRetries, changes>>

NeedsReview(e) == event[e].status \in {"no_recipient", "parked"}

RequeueEvent(e) == event' = [event EXCEPT ![e].status = "pending", ![e].attempts = 0]

\* An admin sends an event that needs review back, with fresh attempts.
RetryEvent(e) ==
  /\ NeedsReview(e) /\ RequeueEvent(e)
  /\ shopRetries < MaxShopRetries /\ shopRetries' = shopRetries + 1
  /\ UNCHANGED <<claim, members, optIn, read, consents, shopWorker, clock, items, page, stalls, changes>>

-----------------------------------------------------------------------------
(* The shop and the preferences.                                           *)

MembersChange(u) ==
  /\ changes < MaxChanges /\ changes' = changes + 1
  /\ members' = IF u \in members THEN members \ {u} ELSE members \cup {u}
  /\ UNCHANGED <<event, claim, optIn, read, consents, shopWorker, clock, items, page, shopRetries, stalls>>

GetPreferences ==
  /\ read # optIn.version /\ read' = optIn.version
  /\ UNCHANGED <<event, claim, members, optIn, consents, shopWorker, clock, items, page, shopRetries, stalls, changes>>

\* Saved if the version is the one the person saw.
SavePreference(expected) == optIn.version = expected

\* The stored choices and the consent's audit change together.
UpdatePreferences(on, marketing) ==
  /\ SavePreference(read) /\ changes < MaxChanges /\ changes' = changes + 1
  /\ optIn' = [on |-> on, marketing |-> marketing, version |-> optIn.version + 1]
  /\ consents' = IF marketing # optIn.marketing THEN consents \cup {[granted |-> marketing, version |-> optIn.version + 1]} ELSE consents
  /\ UNCHANGED <<event, claim, members, read, shopWorker, clock, items, page, shopRetries, stalls>>

-----------------------------------------------------------------------------
(* The inbox.                                                              *)

Mine(u) == {i \in items : i.user = u}
Visible(u) == {i \in Mine(u) : i.state \in {"unread", "read"}}

\* The newest page, as the person saw it.
List(u) ==
  /\ Visible(u) # {}
  /\ page' = [page EXCEPT ![u] = [seen |-> {i.event : i \in Visible(u)},
                                  through |-> (CHOOSE i \in Visible(u) : \A j \in Visible(u) : j.created <= i.created).created]]
  /\ page' # page
  /\ UNCHANGED <<event, claim, members, optIn, read, consents, shopWorker, clock, items, shopRetries, stalls, changes>>

Becomes(old, state) ==
  /\ old # {} /\ items' = (items \ old) \cup {[i EXCEPT !.state = state] : i \in old}
  /\ UNCHANGED <<event, claim, members, optIn, read, consents, shopWorker, clock, page, shopRetries, stalls, changes>>

MarkRead(u, e) == e \in page[u].seen /\ Becomes({i \in Mine(u) : i.event = e /\ i.state = "unread"}, "read")
Hide(u, e)     == e \in page[u].seen /\ Becomes({i \in Visible(u) : i.event = e}, "hidden")

\* Everything up to the newest item of the page.
MarkThrough(u) == Becomes({i \in Mine(u) : i.state = "unread" /\ i.created <= page[u].through}, "read")

\* Old items go, read or not; the notice stays, so none comes back.
PurgeExpired(before) == Becomes({i \in items : i.created < before /\ i.state # "gone"}, "gone")

-----------------------------------------------------------------------------
ShopInit ==
  /\ event = [e \in Events |-> [status |-> "none", attempts |-> 0, leased |-> FALSE, recipients |-> {}]]
  /\ claim = [e \in Events |-> 0] /\ members = Users
  /\ optIn = [on |-> FALSE, marketing |-> FALSE, version |-> 0] /\ read = 0 /\ consents = {}
  /\ shopWorker = [w \in ShopWorkers |-> ShopIdle] /\ clock = 0 /\ items = {}
  /\ page = [u \in Users |-> NoPage] /\ shopRetries = 0 /\ stalls = 0 /\ changes = 0

ShopNext ==
  \/ \E e \in Events : Record(e) \/ ShopLeaseEnds(e) \/ RetryEvent(e) \/ \E w \in ShopWorkers : Claim(w, e)
  \/ \E w \in ShopWorkers : (\E answer \in {"list", "gone", "none"} : NotificationRecipients(w, answer)) \/ ResolveNext(w) \/ Complete(w) \/ Stop(w)
  \/ PurgeExpired(clock)
  \/ GetPreferences \/ \E on, marketing \in BOOLEAN : UpdatePreferences(on, marketing)
  \/ \E u \in Users : MembersChange(u) \/ List(u) \/ MarkThrough(u) \/ \E e \in Events : MarkRead(u, e) \/ Hide(u, e)

ShopSpec == ShopInit /\ [][ShopNext]_shopVars

-----------------------------------------------------------------------------
\* Whom an event was told to is what its row records, once each, and the audit
\* of the marketing consent agrees with the stored choice.
ToldIsRecorded ==
  /\ \A e \in Events :
       /\ Told(e) = event[e].recipients
       /\ \A u \in Users : Cardinality({i \in items : i.event = e /\ i.user = u}) <= 1
       /\ event[e].recipients # {} => event[e].status = "resolved"
  /\ optIn.marketing = \E c \in consents : c.granted /\ \A d \in consents : d.version <= c.version

\* Staff who never opted in are told nothing.
OnlyOptedIn == (optIn.version = 0) => \A i \in items : i.user = Owner

============================================================================
