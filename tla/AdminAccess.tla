---------------------------- MODULE AdminAccess ----------------------------
(***************************************************************************)
(* What an admin may do: the permission bundles Identity keeps for each    *)
(* admin, who changes them, and the proof of a recent reauthentication     *)
(* (password and authenticator code) a money operation needs.              *)
(*                                                                         *)
(* A change of grants reads the manager's own permission before it locks   *)
(* the admin it changes, so that check is a step of its own; everything    *)
(* after the lock is one step.  No operation disables an admin.  The       *)
(* scoped permissions and the second factor are switched on.               *)
(***************************************************************************)
EXTENDS Naturals, FiniteSets, FiniteSetsExt

CONSTANTS
  Admins, Bundles,
  Approvers,      \* the admins that reauthenticate for money operations
  Requests,       \* changes of grants open at once
  AccessManage,   \* the bundle that lets an admin change grants
  FinanceApprove, \* the bundle the money operation needs
  Operations,     \* operation hashes
  RecoveryCodes,  \* the recovery codes shown at enrolment
  MaxStep,        \* bound on the authenticator's time steps
  Skew,           \* steps a code may be early or late
  MaxVersion,     \* bound on changes of one admin's grants
  MaxProofs       \* bound on proofs

VARIABLES
  held,       \* admin_permission_grants that are active
  version,    \* users.permission_version
  request,    \* a manager's change of grants and what it was shown
  now,        \* the current time step
  totp,       \* admin_totp
  codes,      \* admin_totp_recovery_codes that are unused
  reauth,     \* a reauthentication in progress
  proof,      \* reauth_proofs
  spent,      \* the codes accepted so far
  done        \* how often each operation was performed

access == <<held, version, request>>
factor == <<now, totp, codes, reauth, proof, spent, done>>
vars == <<access, factor>>

NoRequest == [phase |-> "idle", actor |-> "none", subject |-> "none", version |-> 0, seen |-> {}]
NoReauth == [phase |-> "idle", op |-> "none"]
NotEnrolled == [state |-> "none", lastUsed |-> 0]

-----------------------------------------------------------------------------
(* Permissions.                                                            *)

Known(bundle) == bundle \in Bundles

Effective(a) == held[a]

Check(a, bundle) == Known(bundle) /\ bundle \in Effective(a)

\* Every admin route names its bundle; one that names none is refused.
Guard(a, bundle) == Check(a, bundle)

HasActiveBundleHolder(bundle) == \E a \in Admins : bundle \in held[a]

\* The access screen: an access manager sees an admin's grants and version.
ListSubjects(r, actor, subject) ==
  /\ request[r] = NoRequest /\ Check(actor, AccessManage)
  /\ request' = [request EXCEPT ![r] = [phase |-> "looked", actor |-> actor, subject |-> subject,
                                        version |-> version[subject], seen |-> held[subject]]]
  /\ UNCHANGED <<held, version, factor>>

\* Nobody changes their own grants; the manager's permission is read unlocked.
require(r) ==
  /\ request[r].phase = "looked"
  /\ request' = [request EXCEPT ![r] =
       IF Check(@.actor, AccessManage) /\ @.actor # @.subject THEN [@ EXCEPT !.phase = "allowed"] ELSE NoRequest]
  /\ UNCHANGED <<held, version, factor>>

SameVersionAny(r) == version[request[r].subject] < MaxVersion

\* The version the manager was shown must still be the admin's.
bumpVersion(r) ==
  /\ version[request[r].subject] < MaxVersion
  /\ version[request[r].subject] = request[r].version

SaveGrants(subject, grants) ==
  /\ held' = [held EXCEPT ![subject] = grants]
  /\ version' = [version EXCEPT ![subject] = @ + 1]

Grant(r, bundle) ==
  /\ request[r].phase = "allowed"
  /\ request' = [request EXCEPT ![r] = NoRequest]
  /\ LET subject == request[r].subject
     IN  IF bumpVersion(r) /\ bundle \notin held[subject]
           THEN SaveGrants(subject, held[subject] \cup {bundle})
           ELSE UNCHANGED <<held, version>>
  /\ UNCHANGED factor

Revoke(r, bundle) ==
  /\ request[r].phase = "allowed"
  /\ request' = [request EXCEPT ![r] = NoRequest]
  /\ LET subject == request[r].subject
     IN  IF bumpVersion(r) /\ bundle \in held[subject]
           THEN SaveGrants(subject, held[subject] \ {bundle})
           ELSE UNCHANGED <<held, version>>
  /\ UNCHANGED factor

\* The operator's way out when nobody may change grants.
BootstrapAccessManager(a) ==
  /\ ~HasActiveBundleHolder(AccessManage) /\ version[a] < MaxVersion
  /\ SaveGrants(a, held[a] \cup {AccessManage})
  /\ UNCHANGED <<request, factor>>

-----------------------------------------------------------------------------
(* The authenticator.                                                      *)

ShowsStep(step) == step \in now - Skew .. now + Skew

VerifyAnyStep(a, step) == ShowsStep(step)

\* The steps around now, later than the last one used.
VerifyTOTP(a, step) == ShowsStep(step) /\ step > totp[a].lastUsed

\* A new secret, as long as none is confirmed.
Start(a) ==
  /\ totp[a].state # "confirmed"
  /\ totp' = [totp EXCEPT ![a] = [state |-> "started", lastUsed |-> 0]]
  /\ UNCHANGED <<access, now, codes, reauth, proof, spent, done>>

Confirm(a, step) ==
  /\ totp[a].state = "started" /\ VerifyTOTP(a, step)
  /\ totp' = [totp EXCEPT ![a] = [state |-> "confirmed", lastUsed |-> step]]
  /\ codes' = [codes EXCEPT ![a] = RecoveryCodes]
  /\ UNCHANGED <<access, now, reauth, proof, spent, done>>

UseStep(a, step) ==
  totp' = [totp EXCEPT ![a].lastUsed = IF @ < step THEN step ELSE @]

UseRecoveryCode(a, code) ==
  /\ code \in codes[a]
  /\ codes' = [codes EXCEPT ![a] = @ \ {code}]

\* Half a minute passes.
Tick ==
  /\ now < MaxStep /\ now' = now + 1
  /\ UNCHANGED <<access, totp, codes, reauth, proof, spent, done>>

-----------------------------------------------------------------------------
(* Reauthentication and its proof.                                         *)

\* The password is right; it is compared outside any transaction.
PasswordMatches(a, op) ==
  /\ reauth[a] = NoReauth
  /\ reauth' = [reauth EXCEPT ![a] = [phase |-> "password", op |-> op]]
  /\ UNCHANGED <<access, now, totp, codes, proof, spent, done>>

\* A code of the app or a recovery code, spent in a transaction of its own.
RequireFactor(a) ==
  /\ reauth[a].phase = "password" /\ totp[a].state = "confirmed"
  /\ \/ \E step \in 1 .. MaxStep + Skew :
          /\ VerifyTOTP(a, step)
          /\ UseStep(a, step) /\ UNCHANGED codes
          /\ spent' = [spent EXCEPT ![a] = @ \cup {<<"step", step>>}]
     \/ \E code \in RecoveryCodes :
          /\ UseRecoveryCode(a, code) /\ UNCHANGED totp
          /\ spent' = [spent EXCEPT ![a] = @ \cup {<<"code", code>>}]
  /\ reauth' = [reauth EXCEPT ![a].phase = "factor"]
  /\ UNCHANGED <<access, now, proof, done>>

\* The request fails at any point: a spent code stays spent.
GiveUp(a) ==
  /\ reauth[a] # NoReauth
  /\ reauth' = [reauth EXCEPT ![a] = NoReauth]
  /\ UNCHANGED <<access, now, totp, codes, proof, spent, done>>

CreateProof(a) ==
  /\ reauth[a].phase = "factor"
  /\ \E n \in 1 .. MaxProofs :
       /\ proof[n].state = "none" /\ \A k \in 1 .. n - 1 : proof[k].state # "none"
       /\ proof' = [proof EXCEPT ![n] = [state |-> "fresh", admin |-> a, op |-> reauth[a].op]]
  /\ reauth' = [reauth EXCEPT ![a] = NoReauth]
  /\ UNCHANGED <<access, now, totp, codes, spent, done>>

ConsumeTwice(n, a, op) ==
  /\ proof[n].state = "fresh" /\ proof[n].admin = a /\ proof[n].op = op
  /\ UNCHANGED proof

\* Once, for this admin and this operation, while it is fresh.
ConsumeProof(n, a, op) ==
  /\ proof[n].state = "fresh" /\ proof[n].admin = a /\ proof[n].op = op
  /\ proof' = [proof EXCEPT ![n].state = "consumed"]

\* Another service performs the operation once Identity spent the proof; the
\* answer may be lost, and then the operation is refused.
Perform(n, a, op) ==
  /\ Guard(a, FinanceApprove) /\ ConsumeProof(n, a, op)
  /\ \/ done' = [done EXCEPT ![a][op] = @ + 1]
     \/ UNCHANGED done
  /\ UNCHANGED <<access, now, totp, codes, reauth, spent>>

\* Five minutes pass.
ProofExpires(n) ==
  /\ proof[n].state = "fresh"
  /\ proof' = [proof EXCEPT ![n].state = "expired"]
  /\ UNCHANGED <<access, now, totp, codes, reauth, spent, done>>

-----------------------------------------------------------------------------
Init ==
  /\ held = [a \in Admins |-> {}] /\ version = [a \in Admins |-> 0]
  /\ request = [r \in Requests |-> NoRequest]
  /\ now = 1 /\ totp = [a \in Admins |-> NotEnrolled] /\ codes = [a \in Admins |-> {}]
  /\ reauth = [a \in Admins |-> NoReauth] /\ spent = [a \in Admins |-> {}]
  /\ proof = [n \in 1 .. MaxProofs |-> [state |-> "none", admin |-> "none", op |-> "none"]]
  /\ done = [a \in Admins |-> [op \in Operations |-> 0]]

ChangeAccess ==
  \/ \E a \in Admins : BootstrapAccessManager(a)
  \/ \E r \in Requests :
    \/ \E actor, subject \in Admins : ListSubjects(r, actor, subject)
    \/ require(r)
    \/ \E bundle \in Bundles : Grant(r, bundle) \/ Revoke(r, bundle)

Reauthenticate ==
  \/ Tick
  \/ \E a \in Approvers :
       \/ Start(a) \/ \E step \in 1 .. MaxStep + Skew : Confirm(a, step)
       \/ \E op \in Operations : PasswordMatches(a, op)
       \/ RequireFactor(a) \/ GiveUp(a) \/ CreateProof(a)
       \/ \E n \in 1 .. MaxProofs, op \in Operations : Perform(n, a, op)
  \/ \E n \in 1 .. MaxProofs : ProofExpires(n)

Next == ChangeAccess \/ Reauthenticate

Spec == Init /\ [][Next]_vars

-----------------------------------------------------------------------------
\* A manager changes only what it was shown: a grant or a revocation applies to
\* exactly the set of bundles on its screen, whatever other managers did meanwhile.
ChangesFollowReading ==
  \A r \in Requests : (request[r].phase = "allowed" /\ request'[r] = NoRequest
                            /\ held' # held) => held[request[r].subject] = request[r].seen

\* Every money operation performed has a proof of its own, made for that admin
\* and operation, and every proof a code of its own: neither a proof nor a code
\* serves twice, recovery codes and the codes of neighbouring steps included.
OperationsAreProven ==
  LET proofs(a) == {n \in 1 .. MaxProofs : proof[n].state # "none" /\ proof[n].admin = a}
  IN  \A a \in Admins :
        /\ Cardinality(proofs(a)) <= Cardinality(spent[a])
        /\ \A op \in Operations : done[a][op] <= Cardinality({n \in proofs(a) : proof[n].op = op})

----------------------------------------------------------------------------
(***************************************************************************)
(* The Admin service's audit search: every page asks each service, in      *)
(* parallel, for its rows after the cursor, and merges the answers newest  *)
(* first.  The services go on writing audit rows between and during pages, *)
(* rows of a transaction that began earlier included, and any of them may  *)
(* fail to answer.                                                         *)
(***************************************************************************)
CONSTANTS Sources,   \* services, numbered in the order of their names
          Times,     \* occurred_at values
          Ids,       \* row ids, in their byte order
          Limits,    \* page sizes an admin asks for
          MaxPages   \* bound on the pages of one search

CursorMax == Max(Ids) + 1      \* "~" sorts after every id
NoId == 0                      \* "" sorts before every id
None == [t |-> 0, s |-> 0, i |-> 0]

Entry == [t : Times, s : Sources, i : Ids]

\* ParseFilter: from and to bound the window.
Filter == [from : Times, to : Times \cup {Max(Times) + 1}]

VARIABLES rows,      \* the services' audit rows
          filter,    \* the search
          limit,
          standing,  \* rows there when the search began
          cursor,    \* the last row shown
          pages,     \* pages fetched
          answers,   \* answers[s]: what s answered for the page being fetched
          missed,    \* services a page was shown without
          shown,     \* shown[e]: how often e was shown
          phase      \* "idle", "fetching", "read", "over"

searchVars == <<rows, filter, limit, standing, cursor, pages, answers, missed, shown, phase>>

Pending == {[pending |-> TRUE]}

SearchInit ==
    /\ rows \in SUBSET Entry /\ filter \in Filter /\ limit \in Limits
    /\ standing = rows /\ cursor = None /\ pages = 0
    /\ answers = [s \in Sources |-> Pending]
    /\ missed = {} /\ shown = [e \in Entry |-> 0] /\ phase = "idle"

\* A service commits an audit row, at the time its transaction began.
Record(e) ==
    /\ e \notin rows /\ phase # "over"
    /\ rows' = rows \cup {e}
    /\ UNCHANGED <<filter, limit, standing, cursor, pages, answers, missed, shown, phase>>

\* Newest first, then by source and id descending.
After(a, b) ==
    \/ a.t > b.t
    \/ a.t = b.t /\ a.s > b.s
    \/ a.t = b.t /\ a.s = b.s /\ a.i > b.i

\* Where a service goes on: at the cursor's time a service before the
\* cursor's one still has all its rows to show, a later one none.
CursorIdOfAll(s) == cursor.i
CursorId(s) ==
    IF s = cursor.s THEN cursor.i ELSE IF s < cursor.s THEN CursorMax ELSE NoId

\* BuildQuery: the filter, then the rows strictly after the position.
Matches(e) == filter.from <= e.t /\ e.t < filter.to

Older(e, s) ==
    \/ cursor = None
    \/ e.t < cursor.t
    \/ e.t = cursor.t /\ e.i < CursorId(s)

\* The first n entries of a set, newest first.
First(n, entries) == {e \in entries : Cardinality({x \in entries : After(x, e)}) < n}

Search(s) == First(limit, {e \in rows : e.s = s /\ Matches(e) /\ Older(e, s)})

SearchAudit ==
    /\ phase \in {"idle", "read"} /\ pages < MaxPages
    /\ phase' = "fetching" /\ pages' = pages + 1
    /\ answers' = [s \in Sources |-> Pending]
    /\ UNCHANGED <<rows, filter, limit, standing, cursor, missed, shown>>

\* fetch: each service answers by itself, or not within the time allowed.
Answers(s) ==
    /\ phase = "fetching" /\ answers[s] = Pending
    /\ answers' = [answers EXCEPT ![s] = Search(s)]
    /\ UNCHANGED <<rows, filter, limit, standing, cursor, pages, missed, shown, phase>>

Unavailable(s) ==
    /\ phase = "fetching" /\ answers[s] = Pending
    /\ answers' = [answers EXCEPT ![s] = {}]
    /\ missed' = missed \cup {s}
    /\ UNCHANGED <<rows, filter, limit, standing, cursor, pages, shown, phase>>

\* The merged page; another one follows when a service or the merge was full.
Merged == UNION {answers[s] : s \in Sources}
Page == First(limit, Merged)
Full == \E s \in Sources : Cardinality(answers[s]) >= limit
HasNext == Page # {} /\ (Full \/ Cardinality(Merged) > limit)
LastShown == CHOOSE e \in Page : \A x \in Page : x = e \/ After(x, e)

Merge ==
    /\ phase = "fetching" /\ \A s \in Sources : answers[s] # Pending
    /\ shown' = [e \in Entry |-> shown[e] + IF e \in Page THEN 1 ELSE 0]
    /\ cursor' = IF HasNext THEN LastShown ELSE cursor
    /\ phase' = IF HasNext THEN "read" ELSE "over"
    /\ answers' = [s \in Sources |-> Pending]
    /\ UNCHANGED <<rows, filter, limit, standing, pages, missed>>

SearchNext ==
    \/ SearchAudit \/ Merge
    \/ \E e \in Entry : Record(e)
    \/ \E s \in Sources : Answers(s) \/ Unavailable(s)

SearchSpec == SearchInit /\ [][SearchNext]_searchVars

-----------------------------------------------------------------------------
\* Paging neither repeats a row nor skips one of a service that answered
\* every page, whatever is written meanwhile (SearchAudit, sourceFilter):
\* the rows there when the search began are each shown exactly once.
PagesShowEachRowOnce ==
    /\ \A e \in Entry : shown[e] <= 1
    /\ phase = "over" => \A e \in standing : (Matches(e) /\ e.s \notin missed) => shown[e] = 1
============================================================================
