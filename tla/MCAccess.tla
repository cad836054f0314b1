----------------------------- MODULE MCAccess ------------------------------
(***************************************************************************)
(* Who may act, for TLC: accounts and their sessions, requests and keys,   *)
(* shop staff and their grants, admins and the audit trail.  Each has      *)
(* tables of its own, so one behaviour moves one of them: focus names it,  *)
(* and the others are absent.                                              *)
(***************************************************************************)
EXTENDS Naturals, FiniteSets

CONSTANTS Components,   \* the components this run moves
          Absent,       \* the state of the others
          Owner, Staff, Joined, Permissions, OwnerOnly, Invitations, MaxJobs,
          ShopPermissions, ShopOwnerOnly, ShopOwner, ShopStaff, Addresses,
          MaxTokens, MaxLinks, Lifetime, MaxTime, MaxOutages, Admins, Bundles,
          Approvers, Requests, AccessManage, FinanceApprove, Operations,
          RecoveryCodes, MaxStep, Skew, MaxProofs, Sources, Times, Ids,
          Limits, MaxPages
CONSTANTS \* bounds of the single components, named after what they bound there
          InvitationAttempts, StaffChanges, MembershipVersions, GrantFaults,
          LinkAttempts, CredentialChanges, AccountFaults, GrantVersions, MaxCommits

VARIABLE focus         \* the component that moves
VARIABLES
  member, staffAccount, enabled, paused, invitation, staffWorker, inbox,
  changes, waiting, contract, staffHeld, staffVersion, staffRequest, audit, staffFaults   \* VendorStaff
VARIABLES
  identityAccount, token, busy, link, identityWorker, identityFaults, env,
  running, rotation, switched, subject, session, bearer, req, identityNow,
  outages   \* Identity
VARIABLES
  adminHeld, adminVersion, adminRequest, adminNow, totp, codes, reauth, proof,
  spent, done, rows, filter, limit, standing, cursor, pages, answers, missed,
  shown, phase   \* AdminAccess

V == INSTANCE VendorStaff WITH
       MaxAttempts <- InvitationAttempts, MaxChanges <- StaffChanges,
       MaxVersion <- MembershipVersions, MaxFaults <- GrantFaults,
       account <- staffAccount, worker <- staffWorker, held <- staffHeld,
       version <- staffVersion, request <- staffRequest, faults <- staffFaults
I == INSTANCE Identity WITH
       MaxAttempts <- LinkAttempts, MaxChanges <- CredentialChanges,
       MaxFaults <- AccountFaults, account <- identityAccount, worker <- identityWorker,
       faults <- identityFaults, now <- identityNow
A == INSTANCE AdminAccess WITH
       MaxVersion <- GrantVersions, held <- adminHeld, version <- adminVersion,
       request <- adminRequest, now <- adminNow

\* The owner is not on the staff; tokens, links, time steps, proofs, services and
\* audit rows are numbered; a page shows something; only admins reauthenticate.
ASSUME AccessAssumption ==
  /\ Owner \notin Staff
  /\ {MembershipVersions, MaxTokens, MaxLinks, Lifetime, MaxStep, Skew, MaxProofs} \subseteq Nat
  /\ Approvers \subseteq Admins
  /\ IsFiniteSet(Times) /\ IsFiniteSet(Sources) /\ IsFiniteSet(Ids)
  /\ Times \cup Sources \cup Ids \cup Limits \subseteq Nat \ {0}

staffGroup == <<member, staffAccount, enabled, paused, invitation, staffWorker, inbox,
   changes, waiting>>
grantsGroup == <<contract, staffHeld, staffVersion, staffRequest, audit, staffFaults>>
accountsGroup == <<identityAccount, token, busy, link, identityWorker, identityFaults>>
requestsGroup == <<env, running, rotation, switched, subject, session, bearer, req,
   identityNow, outages>>
adminsGroup == <<adminHeld, adminVersion, adminRequest, adminNow, totp, codes, reauth,
   proof, spent, done>>
auditGroup == <<rows, filter, limit, standing, cursor, pages, answers, missed, shown, phase>>
mcVars == <<focus, staffGroup, grantsGroup, accountsGroup, requestsGroup,
            adminsGroup, auditGroup>>

Only(component) ==
  /\ focus = component /\ UNCHANGED focus
  /\ IF component = "staff" THEN TRUE ELSE UNCHANGED staffGroup
  /\ IF component = "grants" THEN TRUE ELSE UNCHANGED grantsGroup
  /\ IF component = "accounts" THEN TRUE ELSE UNCHANGED accountsGroup
  /\ IF component = "requests" THEN TRUE ELSE UNCHANGED requestsGroup
  /\ IF component = "admins" THEN TRUE ELSE UNCHANGED adminsGroup
  /\ IF component = "audit" THEN TRUE ELSE UNCHANGED auditGroup

MCInit ==
  /\ focus \in Components
  /\ IF focus = "staff" THEN V!Init
     ELSE /\ member = Absent /\ staffAccount = Absent /\ enabled = Absent
          /\ paused = Absent /\ invitation = Absent /\ staffWorker = Absent
          /\ inbox = Absent /\ changes = Absent /\ waiting = Absent
  /\ IF focus = "grants" THEN V!AccessInit
     ELSE /\ contract = Absent /\ staffHeld = Absent /\ staffVersion = Absent
          /\ staffRequest = Absent /\ audit = Absent /\ staffFaults = Absent
  /\ IF focus = "accounts" THEN I!Init
     ELSE /\ identityAccount = Absent /\ token = Absent /\ busy = Absent
          /\ link = Absent /\ identityWorker = Absent /\ identityFaults = Absent
  /\ IF focus = "requests" THEN I!AuthInit
     ELSE /\ env = Absent /\ running = Absent /\ rotation = Absent
          /\ switched = Absent /\ subject = Absent /\ session = Absent
          /\ bearer = Absent /\ req = Absent /\ identityNow = Absent
          /\ outages = Absent
  /\ IF focus = "admins" THEN A!Init
     ELSE /\ adminHeld = Absent /\ adminVersion = Absent
          /\ adminRequest = Absent /\ adminNow = Absent /\ totp = Absent
          /\ codes = Absent /\ reauth = Absent /\ proof = Absent
          /\ spent = Absent /\ done = Absent
  /\ IF focus = "audit" THEN A!SearchInit
     ELSE /\ rows = Absent /\ filter = Absent /\ limit = Absent
          /\ standing = Absent /\ cursor = Absent /\ pages = Absent
          /\ answers = Absent /\ missed = Absent /\ shown = Absent
          /\ phase = Absent

MCNext ==
  \/ Only("staff") /\ V!Next
  \/ Only("grants") /\ V!AccessNext
  \/ Only("accounts") /\ I!Next
  \/ Only("requests") /\ I!AuthNext
  \/ Only("admins") /\ A!Next
  \/ Only("audit") /\ A!SearchNext

MCSpec == MCInit /\ [][MCNext]_mcVars

-----------------------------------------------------------------------------
(* Properties.                                                             *)

\* Who may act is proven and recorded: sessions and links belong to what the
\* account is now, a request was admitted with a live token and nobody is signed
\* out by a key change (Identity), an operation that needs it has its proof and
\* the audit pages show every row once (AdminAccess), an invitation's link works,
\* a removed member holds nothing, and an act of a shop names the grant that
\* allowed it (VendorStaff).
AccessIsProven ==
  /\ focus = "accounts" => I!SessionsAreCurrent /\ I!LinksFollowAddress
  /\ focus = "requests" => I!AdmittedWasLive /\ I!NoOneIsSignedOut
  /\ focus = "admins" => A!OperationsAreProven
  /\ focus = "audit" => A!PagesShowEachRowOnce
  /\ focus = "staff" => V!SentLinkWorks /\ V!RevokedHoldsNothing
  /\ focus = "grants" => V!AuditNamesTheGrant

\* An invitation gives what its sender holds, or held when the acceptance began,
\* and an admin's change of grants is applied to the grants it was shown
\* (VendorStaff, AdminAccess).
GrantsComeFromHolders ==
  [][/\ focus = "staff" => V!GrantedByHolder
     /\ focus = "admins" => A!ChangesFollowReading]_mcVars

\* "The inviter must still be able to grant this today" (staff_usecase.go
\* AcceptInvitation).  The code breaks it (VendorStaff.GrantedToday).
InviterGrantsToday == [][focus = "staff" => V!GrantedToday]_mcVars

=============================================================================
