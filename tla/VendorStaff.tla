---------------------------- MODULE VendorStaff ----------------------------
(***************************************************************************)
(* The staff of one shop: memberships and their permissions, invitations   *)
(* and their delivery by mail, and the answer Vendor gives to "may this    *)
(* person do that now?".  A stale expected_version is refused and changes  *)
(* nothing, so versions are left out; each transaction locks the rows it   *)
(* reads, so an operation is one step.  Only the grants of the one who     *)
(* grants may be older than that step: they are not in the locked row.     *)
(***************************************************************************)
EXTENDS Naturals, FiniteSets

CONSTANTS
  Owner, Staff,         \* the shop's creator and the people it may invite
  Joined,               \* those of them who already joined with every permission
  Permissions,          \* the registry, "staff.manage" among them
  OwnerOnly,            \* permissions v1 never grants to staff
  Invitations,          \* invitation ids
  MaxAttempts,          \* MaxInvitationAttempts
  MaxJobs,              \* delivery jobs at once, one for each instance
  MaxChanges            \* bound on crashes, switch and account changes

People == {Owner} \cup Staff
StaffManage == "staff.manage"
NoToken == 0

VARIABLES
  member,      \* vendor_memberships and membership_permissions
  account,     \* Identity's accounts that are active
  enabled,     \* StaffUseCase.Enabled
  paused,      \* StaffUseCase.InvitesPaused
  invitation,  \* staff_invitations
  worker,      \* the delivery job of each invitation: its phase and token
  inbox,       \* the tokens mailed for each invitation; the last is the newest
  changes,     \* switches and accounts changed so far
  waiting      \* a request that waits for a membership's row, and the grants it read

vars == <<member, account, enabled, paused, invitation, worker, inbox, changes, waiting>>

NoMember == [role |-> "none", status |-> "none", permissions |-> {}]
NoJob == [phase |-> "idle", token |-> NoToken]
NoRequest == [kind |-> "none", by |-> Owner]
NoWait == [request |-> NoRequest, held |-> {}]

-----------------------------------------------------------------------------
(* Memberships and permissions.                                            *)

Known(p) == p \in Permissions
Grantable(p) == Known(p) /\ p \notin OwnerOnly

Active(m) == m.status = "active"

Has(m, p) ==
  /\ Active(m) /\ Known(p)
  /\ m.role = "owner" \/ (Grantable(p) /\ p \in m.permissions)

CoveredBy(m, actor) == \A p \in m.permissions : Has(actor, p)

NormalizeGrant(grant) == grant # {} /\ \A p \in grant : Grantable(p)

\* FindMembership: the row as it is when it is locked, the grants as they were
\* when the statement began.
FindMembership(x, held) == [member[x] EXCEPT !.permissions = held]

CheckGrantor(actor, grant) == Has(actor, StaffManage) /\ \A p \in grant : Has(actor, p)

\* The accounts are all of role vendor: only their being active matters.
accountMayAct(u) == u \in account

usable(u) == Active(member[u]) /\ (member[u].role = "staff" => enabled)

Authorize(u, p) == usable(u) /\ Has(member[u], p) /\ accountMayAct(u)

\* The membership behind a request of Vendor's own endpoints.
isMember(u) == usable(u) /\ accountMayAct(u)

manager(u, held) == usable(u) /\ Has(FindMembership(u, held), StaffManage) /\ accountMayAct(u)

\* A new staff row, or a revoked one again; an active one is a conflict.
JoinAsStaff(u, grant) ==
  /\ member[u].role # "owner" /\ ~Active(member[u])
  /\ member' = [member EXCEPT ![u] = [role |-> "staff", status |-> "active", permissions |-> grant]]

UpdateGrants(u, grant) ==
  /\ member[u].role = "staff" /\ Active(member[u])
  /\ member' = [member EXCEPT ![u].permissions = grant]

RevokeMember(u) ==
  /\ member[u].role = "staff" /\ Active(member[u])
  /\ member' = [member EXCEPT ![u].status = "revoked", ![u].permissions = {}]

\* Nobody changes their own permissions, a manager grants and touches only what
\* it holds, and while invitations are paused nothing new is granted.
UpdateMember(actor, u, grant, held) ==
  /\ enabled /\ NormalizeGrant(grant) /\ actor # u
  /\ manager(actor, held)
  /\ member[u].role = "staff" /\ Active(member[u])
  /\ CheckGrantor(FindMembership(actor, held), grant)
  /\ member[actor].role = "owner" \/ CoveredBy(member[u], FindMembership(actor, held))
  /\ paused => grant \subseteq member[u].permissions
  /\ UpdateGrants(u, grant)
  /\ UNCHANGED <<account, enabled, paused, invitation, worker, inbox, changes>>

\* Works with the feature off; a member may leave on its own.
RemoveMember(actor, u, held) ==
  /\ actor # u => /\ manager(actor, held)
                  /\ member[actor].role = "owner" \/ CoveredBy(member[u], FindMembership(actor, held))
  /\ RevokeMember(u)
  /\ UNCHANGED <<account, enabled, paused, invitation, worker, inbox, changes>>

-----------------------------------------------------------------------------
(* Invitations.                                                            *)

Pending(n) == invitation[n].status = "pending"
Usable(n) == Pending(n) /\ ~invitation[n].expired

\* A pending invitation of the same address is superseded.
CreateInvitation(n, actor, u, grant) ==
  invitation' = [k \in Invitations |->
    IF k = n THEN [to |-> u, by |-> actor, permissions |-> grant, status |-> "pending", expired |-> FALSE,
                   token |-> NoToken, delivery |-> "queued", attempts |-> 0, leased |-> FALSE]
    ELSE IF invitation[k].to = u /\ Pending(k)
      THEN [invitation[k] EXCEPT !.status = "superseded", !.delivery = "closed", !.leased = FALSE]
      ELSE invitation[k]]

Invite(n, actor, u, grant, held) ==
  /\ enabled /\ ~paused /\ NormalizeGrant(grant)
  /\ invitation[n].status = "none" /\ actor # u
  /\ isMember(actor) /\ CheckGrantor(FindMembership(actor, held), grant)
  /\ CreateInvitation(n, actor, u, grant)
  /\ UNCHANGED <<member, account, enabled, paused, worker, inbox, changes>>

closed(delivery) == IF delivery = "queued" THEN "closed" ELSE delivery

closeInvitation(n, status) ==
  /\ Pending(n)
  /\ invitation' = [invitation EXCEPT ![n].status = status, ![n].leased = FALSE,
                                      ![n].delivery = closed(@)]

RevokeInvitation(actor, n, held) ==
  /\ manager(actor, held)
  /\ member[actor].role = "owner" \/ \A p \in invitation[n].permissions : Has(FindMembership(actor, held), p)
  /\ closeInvitation(n, "revoked")
  /\ UNCHANGED <<member, account, enabled, paused, worker, inbox, changes>>

AcceptUnchecked(u, n, held) ==
  /\ enabled /\ accountMayAct(u) /\ Usable(n) /\ invitation[n].to = u
  /\ invitation[n].token \in inbox[n] \ {NoToken}
  /\ JoinAsStaff(u, invitation[n].permissions)
  /\ closeInvitation(n, "accepted")
  /\ UNCHANGED <<account, enabled, paused, worker, inbox, changes>>

\* The link must be the one whose hash is stored and its address the account's
\* own; the inviter must still be able to grant this today.
AcceptInvitation(u, n, held) ==
  /\ enabled /\ accountMayAct(u)
  /\ invitation[n].token \in inbox[n] \ {NoToken}
  /\ Usable(n) /\ invitation[n].to = u
  /\ CheckGrantor(FindMembership(invitation[n].by, held), invitation[n].permissions)
  /\ JoinAsStaff(u, invitation[n].permissions)
  /\ closeInvitation(n, "accepted")
  /\ UNCHANGED <<account, enabled, paused, worker, inbox, changes>>

-----------------------------------------------------------------------------
(* Requests.  Each names the membership whose grants it goes by.           *)

Grants == {g \in SUBSET Permissions : NormalizeGrant(g)}

Serve(r, held) ==
  \/ r.kind = "update" /\ UpdateMember(r.by, r.to, r.grant, held)
  \/ r.kind = "remove" /\ RemoveMember(r.by, r.to, held)
  \/ r.kind = "invite" /\ Invite(r.n, r.by, r.to, r.grant, held)
  \/ r.kind = "revoke" /\ RevokeInvitation(r.by, r.n, held)
  \/ r.kind = "accept" /\ invitation[r.n].by = r.by /\ AcceptInvitation(r.to, r.n, held)

\* One that is served at once.
Served(r) == Serve(r, member[r.by].permissions) /\ UNCHANGED waiting

\* One whose statement began while another transaction held the grantor's row:
\* it has read the grants, and they suffice.  A request that takes access back is
\* not followed: late, it does what it might have done before that transaction.
Waits(r) ==
  /\ waiting = NoWait /\ enabled /\ member[r.by].role = "staff"
  /\ \/ /\ r.kind = "update" /\ r.by # r.to /\ Active(member[r.to])
        /\ CheckGrantor(member[r.by], r.grant)
     \/ /\ r.kind = "invite" /\ r.by # r.to /\ ~paused /\ invitation[r.n].status = "none"
        /\ CheckGrantor(member[r.by], r.grant)
     \/ /\ r.kind = "accept" /\ Usable(r.n) /\ invitation[r.n].by = r.by /\ invitation[r.n].to = r.to
        /\ CheckGrantor(member[r.by], invitation[r.n].permissions)
  /\ waiting' = [request |-> r, held |-> member[r.by].permissions]
  /\ UNCHANGED <<member, account, enabled, paused, invitation, worker, inbox, changes>>

\* It has the row, or gives up.  What it had locked before that nobody could
\* change meanwhile.
GoesOn ==
  /\ waiting # NoWait /\ waiting' = NoWait
  /\ \/ Serve(waiting.request, waiting.held)
     \/ UNCHANGED <<member, account, enabled, paused, invitation, worker, inbox, changes>>

\* Seven days pass.
Expire(n) ==
  /\ Usable(n)
  /\ invitation' = [invitation EXCEPT ![n].expired = TRUE]
  /\ UNCHANGED <<member, account, enabled, paused, worker, inbox, changes>>

-----------------------------------------------------------------------------
(* Delivery.  A job runs for at most 30 seconds, its lease for a minute: the *)
(* lease never ends before the job.                                        *)

ClaimInvitationDelivery(n) ==
  /\ worker[n].phase = "idle" /\ Cardinality({k \in Invitations : worker[k].phase # "idle"}) < MaxJobs
  /\ Usable(n) /\ invitation[n].delivery = "queued" /\ ~invitation[n].leased
  /\ invitation' = [invitation EXCEPT ![n].leased = TRUE, ![n].attempts = @ + 1]
  /\ worker' = [worker EXCEPT ![n] = [phase |-> "claimed", token |-> invitation[n].attempts + 1]]
  /\ UNCHANGED <<member, account, enabled, paused, inbox, changes>>

TokenNotStored(n) ==
  /\ worker[n].phase = "claimed"
  /\ worker' = [worker EXCEPT ![n].phase = "send"]
  /\ UNCHANGED <<member, account, enabled, paused, invitation, inbox, changes>>

\* A fresh token for each attempt: its hash is stored before it is mailed, and
\* the job ends when the invitation was closed meanwhile.
SetInvitationToken(n) ==
  /\ worker[n].phase = "claimed"
  /\ IF Pending(n) /\ invitation[n].delivery = "queued"
       THEN /\ invitation' = [invitation EXCEPT ![n].token = worker[n].token]
            /\ worker' = [worker EXCEPT ![n].phase = "send"]
       ELSE worker' = [worker EXCEPT ![n] = NoJob] /\ UNCHANGED invitation
  /\ UNCHANGED <<member, account, enabled, paused, inbox, changes>>

\* The mail goes out, or not; the answer may be lost after it went out.
send(n) ==
  /\ worker[n].phase = "send"
  /\ \E outcome \in {"sent", "failed"} :
       /\ worker' = [worker EXCEPT ![n].phase = outcome]
       /\ inbox' \in IF outcome = "sent" THEN {[inbox EXCEPT ![n] = @ \cup {worker[n].token}]}
                     ELSE {inbox, [inbox EXCEPT ![n] = @ \cup {worker[n].token}]}
  /\ UNCHANGED <<member, account, enabled, paused, invitation, changes>>

FinishInvitationDelivery(n) ==
  /\ worker[n].phase \in {"sent", "failed"}
  /\ worker' = [worker EXCEPT ![n] = NoJob]
  /\ invitation' =
       IF invitation[n].delivery # "queued" THEN invitation
       ELSE [invitation EXCEPT ![n].leased = FALSE,
               ![n].delivery = IF worker[n].phase = "sent" THEN "sent"
                               ELSE IF invitation[n].attempts >= MaxAttempts THEN "parked" ELSE "queued"]
  /\ UNCHANGED <<member, account, enabled, paused, inbox, changes>>

\* The process stops during a job; its lease runs out later.
Crash(n) ==
  /\ worker[n].phase # "idle" /\ changes < MaxChanges
  /\ worker' = [worker EXCEPT ![n] = NoJob]
  /\ changes' = changes + 1
  /\ UNCHANGED <<member, account, enabled, paused, invitation, inbox>>

LeaseEnds(n) ==
  /\ worker[n].phase = "idle" /\ invitation[n].leased
  /\ invitation' = [invitation EXCEPT ![n].leased = FALSE]
  /\ UNCHANGED <<member, account, enabled, paused, worker, inbox, changes>>

\* Identity disables an account or enables it again.
AccountChanges(u) ==
  /\ changes < MaxChanges /\ changes' = changes + 1
  /\ account' = (account \ {u}) \cup ({u} \ account)
  /\ UNCHANGED <<member, enabled, paused, invitation, worker, inbox>>

\* An operator turns the feature or new invitations off or on.
SwitchChanges ==
  /\ changes < MaxChanges /\ changes' = changes + 1
  /\ \/ enabled' = ~enabled /\ UNCHANGED paused
     \/ paused' = ~paused /\ UNCHANGED enabled
  /\ UNCHANGED <<member, account, invitation, worker, inbox>>

Init ==
  /\ member = [u \in People |-> IF u = Owner THEN [role |-> "owner", status |-> "active", permissions |-> {}]
                                ELSE IF u \in Joined
                                  THEN [role |-> "staff", status |-> "active", permissions |-> Permissions \ OwnerOnly]
                                  ELSE NoMember]
  /\ account = People /\ enabled = TRUE /\ paused = FALSE /\ changes = 0 /\ waiting = NoWait
  /\ invitation = [n \in Invitations |->
       [to |-> Owner, by |-> Owner, permissions |-> {}, status |-> "none", expired |-> FALSE,
        token |-> NoToken, delivery |-> "closed", attempts |-> 0, leased |-> FALSE]]
  /\ worker = [n \in Invitations |-> NoJob]
  /\ inbox = [n \in Invitations |-> {}]

StaffRequests ==
  [kind : {"remove"}, by : People, to : Staff]
    \cup [kind : {"update"}, by : People, to : Staff, grant : Grants]
    \cup [kind : {"invite"}, by : People, to : Staff, grant : Grants, n : Invitations]
    \cup [kind : {"revoke"}, by : People, n : Invitations]
    \cup [kind : {"accept"}, by : People, to : Staff, n : Invitations]

Next ==
  \/ \E r \in StaffRequests : Served(r) \/ Waits(r)
  \/ GoesOn
  \/ /\ \/ SwitchChanges
        \/ \E u \in People : AccountChanges(u)
        \/ \E n \in Invitations :
             \/ ClaimInvitationDelivery(n) \/ SetInvitationToken(n) \/ send(n) \/ FinishInvitationDelivery(n)
             \/ Expire(n) \/ Crash(n) \/ LeaseEnds(n)
     /\ UNCHANGED waiting

Spec == Init /\ [][Next]_vars

-----------------------------------------------------------------------------
\* Whoever gains by an acceptance of n gets what the sender holds by reading.
LetIn(n, reading) ==
  (Pending(n) /\ invitation'[n].status = "accepted") =>
     \A p \in member'[invitation[n].to].permissions \cup {StaffManage} : Has(reading, p)

\* Access only comes from above: what a person gains by an invitation is held,
\* together with staff.manage, by whoever sent it -- at that moment, or when an
\* acceptance that was caught behind a change of the sender's row began.  An
\* invitation whose sender was taken out, or was demoted before that, lets nobody
\* in (staff_usecase.go AcceptInvitation).
GrantedByHolder ==
  \A n \in Invitations :
     LET sender == invitation[n].by
         caught == waiting.request.kind = "accept" /\ waiting.request.n = n
     IN  \/ LetIn(n, member[sender])
         \/ caught /\ LetIn(n, FindMembership(sender, waiting.held))

\* What the comment says: the sender can grant it today.  The code breaks it: an
\* acceptance that waits for its sender's demotion goes on with what was read.
GrantedToday == \A n \in Invitations : LetIn(n, member[invitation[n].by])

\* An invitation marked as sent carries a link that works: the token stored
\* last was mailed, whatever retries, crashes and lost answers came before.
SentLinkWorks ==
  \A n \in Invitations : (invitation[n].delivery = "sent" /\ Pending(n)) => invitation[n].token \in inbox[n]

\* Who was taken out holds nothing, and the owner never loses the shop.
RevokedHoldsNothing ==
  /\ \A u \in Staff, p \in Permissions : (member[u].status # "active" \/ p \in OwnerOnly) => ~Authorize(u, p)
  /\ \A p \in Permissions : Owner \in account => Authorize(Owner, p)

----------------------------------------------------------------------------
(***************************************************************************)
(* Permission checks of the services that act for a shop.  A command asks  *)
(* Vendor at its start, and commits later, when the membership may have    *)
(* changed; its audit row names the membership version it was allowed by.  *)
(* Vendor may be of a release without the permission contract: the caller  *)
(* then falls back to the lookup of the shop's owner.                      *)
(***************************************************************************)
CONSTANTS ShopPermissions,   \* the registry
          ShopOwnerOnly,     \* permissions staff never get
          ShopOwner, ShopStaff,  \* the shop's owner and a person working there
          MaxVersion,    \* bound on the changes of the staff membership
          MaxFaults,     \* bound on failed calls and releases
          MaxCommits     \* bound on different audit rows

NoGrant == [role |-> "none", version |-> 0]

VARIABLES contract,   \* Vendor's release answers the authorize contract
          held,       \* held[v]: permissions of the staff membership at version v
          version,    \* its current version
          request,    \* request[p]: the command of p
          audit,      \* audit rows of committed commands
          faults

accessVars == <<contract, held, version, request, audit, faults>>

ShopPeople == {ShopOwner, ShopStaff}
Idle == [stage |-> "idle", permission |-> "none", grant |-> NoGrant]

ShopGrantable == ShopPermissions \ ShopOwnerOnly

AccessInit ==
    /\ contract \in BOOLEAN
    /\ held = [v \in 1 .. MaxVersion |-> {}] /\ version = 1
    /\ request = [p \in ShopPeople |-> Idle]
    /\ audit = {} /\ faults = 0

\* Vendor changes or revokes the staff membership.
MembershipChanges(permissions) ==
    /\ version < MaxVersion
    /\ version' = version + 1
    /\ held' = [held EXCEPT ![version + 1] = permissions]
    /\ UNCHANGED <<contract, request, audit, faults>>

\* A release is rolled out or back.
Deploys ==
    /\ faults < MaxFaults
    /\ contract' = ~contract /\ faults' = faults + 1
    /\ UNCHANGED <<held, version, request, audit>>

\* WithGrants: a command begins with no grant; a later check of the same
\* command replaces the grant of an earlier one.
Asks(p, permission) ==
    /\ request[p].stage \in {"idle", "allowed"}
    /\ request[p].stage = "allowed" => request[p].permission # permission
    /\ request' = [request EXCEPT ![p].stage = "asking", ![p].permission = permission]
    /\ UNCHANGED <<contract, held, version, audit, faults>>

\* Who may do what, as Vendor answers it.
Allowed(p, permission) == p = ShopOwner \/ permission \in held[version] \cap ShopGrantable

\* The owner's membership never changes and keeps its first version.
GrantOf(p) == IF p = ShopOwner THEN [role |-> "owner", version |-> 1] ELSE [role |-> "staff", version |-> version]

\* remember: UsedGrant is the last grant of the command.
FirstGrant(last, grant) == IF last = NoGrant THEN grant ELSE last
UsedGrant(last, grant) == grant

Answer(p, allowed, grant) ==
    request' = [request EXCEPT ![p] =
        IF allowed THEN [@ EXCEPT !.stage = "allowed", !.grant = UsedGrant(@, grant)] ELSE Idle]

Admit(p) ==
    /\ request[p].stage = "asking" /\ contract
    /\ Answer(p, Allowed(p, request[p].permission), GrantOf(p))
    /\ UNCHANGED <<contract, held, version, audit, faults>>

\* 404: a Vendor without the contract.
FallsBack(p) ==
    /\ request[p].stage = "asking" /\ ~contract
    /\ request' = [request EXCEPT ![p].stage = "owner_only"]
    /\ UNCHANGED <<contract, held, version, audit, faults>>

OwnedBy(p) == p = ShopOwner

ownerOnly(p) ==
    /\ request[p].stage = "owner_only"
    /\ Answer(p, OwnedBy(p), [role |-> "owner", version |-> 0])
    /\ UNCHANGED <<contract, held, version, audit, faults>>

\* Every doubt is a refusal.
Unavailable(p) ==
    /\ request[p].stage \in {"asking", "owner_only"} /\ faults < MaxFaults
    /\ request' = [request EXCEPT ![p] = Idle] /\ faults' = faults + 1
    /\ UNCHANGED <<contract, held, version, audit>>

\* The command's transaction, with the version its grant named.
Commits(p) ==
    /\ request[p].stage = "allowed" /\ Cardinality(audit) < MaxCommits
    /\ audit' = audit \cup {[who |-> p, permission |-> request[p].permission, grant |-> request[p].grant]}
    /\ request' = [request EXCEPT ![p] = Idle]
    /\ UNCHANGED <<contract, held, version, faults>>

AccessNext ==
    \/ Deploys
    \/ \E permissions \in SUBSET ShopGrantable : MembershipChanges(permissions)
    \/ \E p \in ShopPeople :
           \/ \E permission \in ShopPermissions : Asks(p, permission)
           \/ Admit(p) \/ FallsBack(p) \/ ownerOnly(p) \/ Unavailable(p) \/ Commits(p)

AccessSpec == AccessInit /\ [][AccessNext]_accessVars

-----------------------------------------------------------------------------
\* Every command was allowed by the membership its audit row names, so the
\* membership's history shows whether it had been revoked by then (record.go);
\* staff never act by the owner lookup nor with an owner's permission.
AuditNamesTheGrant ==
    \A row \in audit :
        IF row.grant.role = "owner" THEN row.who = ShopOwner
        ELSE row.permission \in held[row.grant.version] \ ShopOwnerOnly
============================================================================
