---------------------------- MODULE AccessProofs ----------------------------
(***************************************************************************)
(* Who may act, for any number of accounts, tokens, links, invitations,    *)
(* members, admins, codes, services and audit rows: MCAccess's properties  *)
(* and, one component at a time, those of VendorStaff, Identity and        *)
(* AdminAccess.                                                            *)
(*                                                                         *)
(* GrantsInv: the grant a command was allowed by, or an audit row names,   *)
(*   covers what was done.                                                 *)
(* StaffInv: a job mails the token stored last, what is marked sent was    *)
(*   mailed, and only the owner owns.                                      *)
(* AccountsInv: a token that works is of this password and the only one of *)
(*   its session; a link that works went to the account's address.         *)
(* RequestsInv: each process runs with the keys of this stage of the       *)
(*   rotation or of the one before, and a token whose key is no longer     *)
(*   trusted has expired.                                                  *)
(* ChangesInv, FactorInv: grants whose version did not move did not change *)
(*   either; a code is spent once, a proof costs a code and an operation   *)
(*   a proof.                                                              *)
(* SearchInv: what the pages went beyond was shown, once, and a service    *)
(*   answers with all it has left or with a full page of the newest.       *)
(***************************************************************************)
EXTENDS MCAccess, FiniteSetTheorems, TLAPS

-----------------------------------------------------------------------------
(* A finite set with a strict order has a least element.                   *)
LEMMA Least ==
  ASSUME NEW S, IsFiniteSet(S), S # {}, NEW R,
         \A x \in S : <<x, x>> \notin R,
         \A x, y, z \in S : <<x, y>> \in R /\ <<y, z>> \in R => <<x, z>> \in R
  PROVE  \E x \in S : \A y \in S : <<y, x>> \notin R
<1> DEFINE below(x) == {y \in S : <<y, x>> \in R}
           T == {k \in SUBSET S : \E x \in S : k = below(x)}
<1>1. T \subseteq FiniteSubsetsOf(S)
  <2>1. \A k \in T : k \in SUBSET S
    OBVIOUS
  <2> HIDE DEF T
  <2> QED BY <2>1, FS_Subset DEF FiniteSubsetsOf
<1>2. T # {}
  <2>1. PICK x \in S : TRUE
    OBVIOUS
  <2>2. below(x) \in T
    OBVIOUS
  <2> QED BY <2>2
<1>3. IsWellFoundedOn(StrictSubsetOrdering(S), FiniteSubsetsOf(S))
  BY FS_StrictSubsetOrderingWellFounded
<1> HIDE DEF T
<1>4. \E m \in T : \A k \in T : <<k, m>> \notin StrictSubsetOrdering(S)
  BY <1>1, <1>2, <1>3, WFMin, Zenon
<1>5. PICK m \in T : \A k \in T : <<k, m>> \notin StrictSubsetOrdering(S)
  BY <1>4
<1>6. PICK x \in S : m = below(x)
  BY <1>5 DEF T
<1>7. ASSUME NEW y \in S, <<y, x>> \in R PROVE FALSE
  <2>1. below(y) \in T
    BY DEF T
  <2>2. below(y) \subseteq below(x) /\ y \in below(x) /\ y \notin below(y)
    BY <1>7
  <2>3. <<below(y), below(x)>> \in StrictSubsetOrdering(S)
    BY <2>2 DEF StrictSubsetOrdering
  <2> QED BY <1>5, <1>6, <2>1, <2>3
<1> QED BY <1>7

-----------------------------------------------------------------------------
(* A command and the grant that allows it.                                 *)

GrantRecords == [role : {"none", "owner", "staff"}, version : Nat]

Commands == [stage : {"idle", "asking", "allowed", "owner_only"}, permission : {"none"} \cup ShopPermissions, grant : GrantRecords]

\* Grant g let p use a permission.
Covers(g, p, permission) ==
  IF g.role = "owner" THEN p = ShopOwner
  ELSE g.version \in 1 .. staffVersion /\ permission \in staffHeld[g.version] \ ShopOwnerOnly

GrantsInv ==
  /\ staffVersion \in 1 .. MembershipVersions + 1
  /\ staffHeld \in [1 .. MembershipVersions -> SUBSET V!ShopGrantable]
  /\ staffRequest \in [V!ShopPeople -> Commands]
  /\ \A p \in V!ShopPeople : staffRequest[p].stage = "allowed" =>
       Covers(staffRequest[p].grant, p, staffRequest[p].permission)
  /\ \A row \in audit : Covers(row.grant, row.who, row.permission)

LEMMA InitHasGrantsInv == V!AccessInit => GrantsInv
BY AccessAssumption DEF V!AccessInit, GrantsInv, V!ShopPeople, V!Idle, V!NoGrant, Commands, GrantRecords, V!ShopGrantable

LEMMA NextKeepsGrantsInv == GrantsInv /\ V!AccessNext => GrantsInv'
<1> SUFFICES ASSUME GrantsInv, V!AccessNext PROVE GrantsInv'
  OBVIOUS
<1> USE DEF GrantsInv, Commands, GrantRecords, Covers
<1>1. CASE V!Deploys
  BY <1>1 DEF V!Deploys
<1>2. ASSUME NEW permissions \in SUBSET V!ShopGrantable, V!MembershipChanges(permissions) PROVE GrantsInv'
  BY <1>2, AccessAssumption DEF V!MembershipChanges
<1>3. ASSUME NEW p \in V!ShopPeople, NEW permission \in ShopPermissions, V!Asks(p, permission) PROVE GrantsInv'
  BY <1>3 DEF V!Asks
<1>4. ASSUME NEW p \in V!ShopPeople, V!Admit(p) PROVE GrantsInv'
  <2>1. UNCHANGED <<staffHeld, staffVersion, audit>> /\ staffRequest[p] \in Commands
    BY <1>4 DEF V!Admit
  <2>2. CASE V!Allowed(p, staffRequest[p].permission)
    <3>1. V!GrantOf(p) \in GrantRecords /\ Covers(V!GrantOf(p), p, staffRequest[p].permission)
      BY <2>2, AccessAssumption DEF V!GrantOf, V!Allowed, V!ShopGrantable
    <3>2. PICK c : c = [staffRequest[p] EXCEPT !.stage = "allowed", !.grant = V!GrantOf(p)]
      OBVIOUS
    <3>3. staffRequest' = [staffRequest EXCEPT ![p] = c]
      BY <1>4, <2>2, <3>2 DEF V!Admit, V!Answer, V!UsedGrant
    <3>4. c \in Commands /\ c.permission = staffRequest[p].permission /\ c.grant = V!GrantOf(p)
      BY <2>1, <3>1, <3>2
    <3> QED BY <2>1, <3>1, <3>3, <3>4
  <2>3. CASE ~V!Allowed(p, staffRequest[p].permission)
    <3>1. staffRequest' = [staffRequest EXCEPT ![p] = V!Idle]
      BY <1>4, <2>3 DEF V!Admit, V!Answer
    <3> QED BY <2>1, <3>1 DEF V!Idle, V!NoGrant
  <2> QED BY <2>2, <2>3
<1>5. ASSUME NEW p \in V!ShopPeople, V!FallsBack(p) PROVE GrantsInv'
  BY <1>5 DEF V!FallsBack
<1>6. ASSUME NEW p \in V!ShopPeople, V!ownerOnly(p) PROVE GrantsInv'
  BY <1>6 DEF V!ownerOnly, V!Answer, V!UsedGrant, V!OwnedBy, V!Idle, V!NoGrant
<1>7. ASSUME NEW p \in V!ShopPeople, V!Unavailable(p) PROVE GrantsInv'
  BY <1>7 DEF V!Unavailable, V!Idle, V!NoGrant
<1>8. ASSUME NEW p \in V!ShopPeople, V!Commits(p) PROVE GrantsInv'
  BY <1>8 DEF V!Commits, V!Idle, V!NoGrant
<1> QED BY <1>1, <1>2, <1>3, <1>4, <1>5, <1>6, <1>7, <1>8 DEF V!AccessNext

LEMMA GrantsInvNamesGrants == GrantsInv => V!AuditNamesTheGrant
BY DEF GrantsInv, Covers, V!AuditNamesTheGrant

-----------------------------------------------------------------------------
(* Staff and invitations.                                                  *)

Members == [role : {"none", "owner", "staff"}, status : {"none", "active", "revoked"}, permissions : SUBSET Permissions]

InvitationRecords ==
  [to : V!People, by : V!People, permissions : SUBSET Permissions,
   status : {"none", "pending", "superseded", "revoked", "accepted"}, expired : BOOLEAN, token : Nat,
   delivery : {"queued", "sent", "parked", "closed"}, attempts : Nat, leased : BOOLEAN]

Jobs == [phase : {"idle", "claimed", "send", "sent", "failed"}, token : Nat]

\* The owner owns, and nobody else does.
MembersInv ==
  /\ member \in [V!People -> Members]
  /\ \A u \in V!People : member[u].role = "owner" <=> u = Owner
  /\ member[Owner].status = "active"

\* A job that mails sends the token stored last, and what is marked sent was mailed.
MailInv(n) ==
  /\ staffWorker[n].phase \in {"send", "sent", "failed"} => invitation[n].token = staffWorker[n].token
  /\ staffWorker[n].phase = "sent" => staffWorker[n].token \in inbox[n]
  /\ invitation[n].delivery = "sent" => invitation[n].token \in inbox[n]
  /\ invitation[n].status = "none" => staffWorker[n].phase = "idle"

InvitationsInv ==
  /\ invitation \in [Invitations -> InvitationRecords]
  /\ staffWorker \in [Invitations -> Jobs]
  /\ inbox \in [Invitations -> SUBSET Nat]
  /\ \A n \in Invitations : MailInv(n)

ShopInv == MembersInv /\ InvitationsInv

\* What waits for a row is a request.
StaffInv == ShopInv /\ (waiting # V!NoWait => waiting.request \in V!StaffRequests)

LEMMA InitHasStaffInv == V!Init => StaffInv
BY AccessAssumption DEF V!Init, StaffInv, ShopInv, MembersInv, InvitationsInv, MailInv, Members, InvitationRecords, Jobs,
  V!People, V!NoMember, V!NoJob, V!NoToken

LEMMA InvitationsRest ==
  ASSUME InvitationsInv, UNCHANGED <<invitation, staffWorker, inbox>> PROVE InvitationsInv'
BY DEF InvitationsInv, MailInv

LEMMA MembersRest == ASSUME MembersInv, UNCHANGED member PROVE MembersInv'
BY DEF MembersInv

\* One membership of the staff changes.
LEMMA MemberChanges ==
  ASSUME MembersInv, NEW u \in V!People, u # Owner, NEW m \in Members, m.role # "owner",
         member' = [member EXCEPT ![u] = m]
  PROVE  MembersInv'
BY DEF MembersInv, V!People

\* One invitation and its job change, and its inbox only grows.
LEMMA InvitationChanges ==
  ASSUME InvitationsInv, NEW n \in Invitations, NEW i \in InvitationRecords, NEW w \in Jobs, NEW b \in SUBSET Nat,
         invitation' = [invitation EXCEPT ![n] = i], staffWorker' = [staffWorker EXCEPT ![n] = w],
         inbox' = [inbox EXCEPT ![n] = b],
         w.phase \in {"send", "sent", "failed"} => i.token = w.token,
         w.phase = "sent" => w.token \in b, i.delivery = "sent" => i.token \in b,
         i.status = "none" => w.phase = "idle"
  PROVE  InvitationsInv'
<1>1. /\ invitation' \in [Invitations -> InvitationRecords] /\ staffWorker' \in [Invitations -> Jobs]
      /\ inbox' \in [Invitations -> SUBSET Nat]
  BY DEF InvitationsInv
<1>2. ASSUME NEW k \in Invitations PROVE MailInv(k)'
  <2>1. CASE k = n
    BY <2>1 DEF InvitationsInv, MailInv
  <2>2. CASE k # n
    BY <2>2 DEF InvitationsInv, MailInv
  <2> QED BY <2>1, <2>2
<1> QED BY <1>1, <1>2 DEF InvitationsInv

\* The jobs rest; an invitation changes in what no job is concerned with.
LEMMA RowChanges ==
  ASSUME InvitationsInv, NEW n \in Invitations, NEW i \in InvitationRecords,
         invitation' = [invitation EXCEPT ![n] = i], UNCHANGED <<staffWorker, inbox>>,
         i.token = invitation[n].token, i.delivery = "sent" => invitation[n].delivery = "sent",
         i.status = "none" => invitation[n].status = "none"
  PROVE  InvitationsInv'
<1>1. PICK w \in Jobs : w = staffWorker[n] /\ staffWorker' = [staffWorker EXCEPT ![n] = w]
  BY DEF InvitationsInv
<1>2. PICK b \in SUBSET Nat : b = inbox[n] /\ inbox' = [inbox EXCEPT ![n] = b]
  BY DEF InvitationsInv
<1>3. /\ w.phase \in {"send", "sent", "failed"} => i.token = w.token
      /\ w.phase = "sent" => w.token \in b
      /\ i.delivery = "sent" => i.token \in b
      /\ i.status = "none" => w.phase = "idle"
  BY <1>1, <1>2 DEF InvitationsInv, MailInv
<1> QED BY <1>1, <1>2, <1>3, InvitationChanges

\* A job moves, the invitation and its inbox rest.
LEMMA JobChanges ==
  ASSUME InvitationsInv, NEW n \in Invitations, NEW w \in Jobs,
         staffWorker' = [staffWorker EXCEPT ![n] = w], UNCHANGED <<invitation, inbox>>,
         w.phase \in {"send", "sent", "failed"} => invitation[n].token = w.token,
         w.phase # "sent", invitation[n].status = "none" => w.phase = "idle"
  PROVE  InvitationsInv'
<1>1. PICK i \in InvitationRecords : i = invitation[n] /\ invitation' = [invitation EXCEPT ![n] = i]
  BY DEF InvitationsInv
<1>2. PICK b \in SUBSET Nat : b = inbox[n] /\ inbox' = [inbox EXCEPT ![n] = b]
  BY DEF InvitationsInv
<1>3. i.delivery = "sent" => i.token \in b
  BY <1>1, <1>2 DEF InvitationsInv, MailInv
<1> QED BY <1>1, <1>2, <1>3, InvitationChanges

LEMMA MemberActionsKeepInv ==
  ASSUME ShopInv, NEW actor \in V!People, NEW u \in Staff, NEW held,
         V!RemoveMember(actor, u, held) \/ \E grant \in V!Grants : V!UpdateMember(actor, u, grant, held)
  PROVE  ShopInv'
<1>1. UNCHANGED <<invitation, staffWorker, inbox>> /\ u \in V!People /\ u # Owner
  BY AccessAssumption DEF V!RemoveMember, V!UpdateMember, V!People
<1>2. member[u] \in Members /\ member[u].role # "owner"
  BY <1>1 DEF ShopInv, MembersInv
<1>3. CASE V!RemoveMember(actor, u, held)
  <2>1. PICK m : m = [member[u] EXCEPT !.status = "revoked", !.permissions = {}]
    OBVIOUS
  <2>2. member' = [member EXCEPT ![u] = m]
    <3>1. member' = [member EXCEPT ![u].status = "revoked", ![u].permissions = {}]
      BY <1>3 DEF V!RemoveMember, V!RevokeMember
    <3>2. member = [x \in V!People |-> member[x]]
      BY DEF ShopInv, MembersInv
    <3> QED BY ONLY <1>1, <2>1, <3>1, <3>2
  <2>3. m \in Members /\ m.role # "owner"
    BY <1>2, <2>1 DEF Members
  <2> QED BY <1>1, <2>2, <2>3, MemberChanges, InvitationsRest DEF ShopInv
<1>4. ASSUME NEW grant \in V!Grants, V!UpdateMember(actor, u, grant, held) PROVE ShopInv'
  <2>1. PICK m : m = [member[u] EXCEPT !.permissions = grant]
    OBVIOUS
  <2>2. member' = [member EXCEPT ![u] = m]
    BY <1>1, <1>4, <2>1 DEF V!UpdateMember, V!UpdateGrants, ShopInv, MembersInv
  <2>3. m \in Members /\ m.role # "owner"
    BY <1>2, <2>1 DEF Members, V!Grants
  <2> QED BY <1>1, <2>2, <2>3, MemberChanges, InvitationsRest DEF ShopInv
<1> QED BY <1>3, <1>4

\* closeInvitation leaves token and recipient alone.
LEMMA CloseKeepsInv ==
  ASSUME InvitationsInv, NEW n \in Invitations, NEW status \in {"revoked", "accepted"},
         V!closeInvitation(n, status), UNCHANGED <<staffWorker, inbox>>
  PROVE  InvitationsInv'
<1>1. PICK i : i = [invitation[n] EXCEPT !.status = status, !.leased = FALSE, !.delivery = V!closed(@)]
  OBVIOUS
<1>2. invitation[n] \in InvitationRecords
  BY DEF InvitationsInv
<1>3. invitation' = [invitation EXCEPT ![n] = i]
  BY <1>1 DEF V!closeInvitation, InvitationsInv
<1>4. i.delivery = V!closed(invitation[n].delivery) /\ i.token = invitation[n].token /\ i.status = status
  BY <1>1, <1>2 DEF InvitationRecords
<1>5. V!closed(invitation[n].delivery) \in {"closed", invitation[n].delivery}
  BY DEF V!closed
<1>6. i \in InvitationRecords
  BY <1>1, <1>2, <1>5 DEF InvitationRecords
<1> QED BY <1>3, <1>4, <1>5, <1>6, RowChanges

LEMMA AcceptKeepsInv ==
  ASSUME ShopInv, NEW u \in Staff, NEW n \in Invitations, NEW held, V!AcceptInvitation(u, n, held) PROVE ShopInv'
<1>1. InvitationsInv'
  BY CloseKeepsInv DEF V!AcceptInvitation, ShopInv
<1>2. PICK m : /\ m = [role |-> "staff", status |-> "active", permissions |-> invitation[n].permissions]
               /\ member' = [member EXCEPT ![u] = m]
  BY DEF V!AcceptInvitation, V!JoinAsStaff
<1>3. invitation[n].permissions \in SUBSET Permissions
  BY DEF ShopInv, InvitationsInv, InvitationRecords
<1>4. m \in Members /\ m.role # "owner" /\ u \in V!People /\ u # Owner
  BY <1>2, <1>3, AccessAssumption DEF Members, V!People
<1> QED BY <1>1, <1>2, <1>4, MemberChanges DEF ShopInv

LEMMA InviteKeepsInv ==
  ASSUME ShopInv, NEW n \in Invitations, NEW actor \in V!People, NEW u \in Staff, NEW grant \in V!Grants,
         NEW held, V!Invite(n, actor, u, grant, held)
  PROVE  ShopInv'
<1>1. UNCHANGED <<member, staffWorker, inbox>> /\ V!CreateInvitation(n, actor, u, grant)
  BY DEF V!Invite
<1>2. ASSUME NEW k \in Invitations PROVE invitation'[k] \in InvitationRecords /\ MailInv(k)'
  <2>1. CASE k = n
    <3>1. invitation'[k] = [to |-> u, by |-> actor, permissions |-> grant, status |-> "pending", expired |-> FALSE,
             token |-> V!NoToken, delivery |-> "queued", attempts |-> 0, leased |-> FALSE]
      BY <1>1, <2>1 DEF V!CreateInvitation
    <3>2. invitation'[k] \in InvitationRecords
      BY <3>1 DEF InvitationRecords, V!NoToken, V!Grants, V!People
    <3>3. invitation[k].status = "none"
      BY <2>1 DEF V!Invite
    <3> QED BY <1>1, <3>1, <3>2, <3>3 DEF ShopInv, InvitationsInv, MailInv
  <2>2. ASSUME k # n PROVE invitation'[k] \in InvitationRecords /\ MailInv(k)'
    <3>1. PICK i \in InvitationRecords : i = invitation[k]
      BY DEF ShopInv, InvitationsInv
    <3>2. \/ invitation'[k] = [i EXCEPT !.status = "superseded", !.delivery = "closed", !.leased = FALSE]
          \/ invitation'[k] = i
      BY <1>1, <2>2, <3>1 DEF V!CreateInvitation
    <3>3. MailInv(k)
      BY DEF ShopInv, InvitationsInv
    <3>4. /\ invitation'[k] \in InvitationRecords /\ invitation'[k].token = i.token
          /\ invitation'[k].delivery \in {"closed", i.delivery} /\ invitation'[k].status \in {"superseded", i.status}
      <4>1. PICK x : x = [i EXCEPT !.status = "superseded", !.delivery = "closed", !.leased = FALSE]
        OBVIOUS
      <4>2. x \in InvitationRecords /\ x.token = i.token /\ x.delivery = "closed" /\ x.status = "superseded"
        BY <4>1 DEF InvitationRecords
      <4> QED BY <3>2, <4>1, <4>2
    <3> QED BY <1>1, <3>1, <3>3, <3>4 DEF MailInv
  <2> QED BY <2>1, <2>2
<1>3. invitation' \in [Invitations -> InvitationRecords]
  BY <1>1, <1>2 DEF V!CreateInvitation
<1> QED BY <1>1, <1>2, <1>3, MembersRest DEF ShopInv, InvitationsInv

LEMMA ClaimKeepsInv ==
  ASSUME InvitationsInv, NEW n \in Invitations, V!ClaimInvitationDelivery(n) PROVE InvitationsInv'
<1>1. PICK i : i = [invitation[n] EXCEPT !.leased = TRUE, !.attempts = @ + 1]
  OBVIOUS
<1>2. invitation[n] \in InvitationRecords /\ invitation = [k \in Invitations |-> invitation[k]] /\ MailInv(n)
  BY DEF InvitationsInv
<1>3. invitation' = [invitation EXCEPT ![n] = i]
  BY <1>1, <1>2 DEF V!ClaimInvitationDelivery
<1>4. PICK w : /\ w = [phase |-> "claimed", token |-> invitation[n].attempts + 1]
               /\ staffWorker' = [staffWorker EXCEPT ![n] = w]
  BY DEF V!ClaimInvitationDelivery
<1>5. w \in Jobs
  BY <1>2, <1>4 DEF Jobs, InvitationRecords
<1>6. PICK b \in SUBSET Nat : b = inbox[n] /\ inbox' = [inbox EXCEPT ![n] = b]
  BY DEF InvitationsInv, V!ClaimInvitationDelivery
<1>7. i \in InvitationRecords /\ i.token = invitation[n].token /\ i.delivery = invitation[n].delivery
      /\ i.status = invitation[n].status
  <2>1. PICK c \in InvitationRecords : c = invitation[n] /\ i = [c EXCEPT !.leased = TRUE, !.attempts = c.attempts + 1]
    BY <1>1, <1>2
  <2>2. c.attempts + 1 \in Nat
    BY DEF InvitationRecords
  <2> QED BY <2>1, <2>2 DEF InvitationRecords
<1>8. invitation[n].status = "pending"
  BY DEF V!ClaimInvitationDelivery, V!Usable, V!Pending
<1>9. i.delivery = "sent" => i.token \in b
  BY <1>2, <1>6, <1>7 DEF MailInv
<1>10. w.phase = "claimed" /\ i.status # "none"
  BY <1>4, <1>7, <1>8
<1> QED BY <1>3, <1>4, <1>5, <1>6, <1>7, <1>9, <1>10, InvitationChanges

LEMMA SetTokenKeepsInv ==
  ASSUME InvitationsInv, NEW n \in Invitations, V!SetInvitationToken(n) PROVE InvitationsInv'
<1>1. invitation[n] \in InvitationRecords /\ staffWorker[n] \in Jobs /\ MailInv(n)
      /\ staffWorker = [k \in Invitations |-> staffWorker[k]]
  BY DEF InvitationsInv
<1>2. PICK b \in SUBSET Nat : b = inbox[n] /\ inbox' = [inbox EXCEPT ![n] = b]
  BY DEF InvitationsInv, V!SetInvitationToken
<1>3. CASE V!Pending(n) /\ invitation[n].delivery = "queued"
  <2>1. PICK i : i = [invitation[n] EXCEPT !.token = staffWorker[n].token]
    OBVIOUS
  <2>2. PICK w : w = [staffWorker[n] EXCEPT !.phase = "send"]
    OBVIOUS
  <2>3. invitation' = [invitation EXCEPT ![n] = i] /\ staffWorker' = [staffWorker EXCEPT ![n] = w]
    BY <1>1, <1>3, <2>1, <2>2 DEF V!SetInvitationToken, InvitationsInv
  <2>4. i \in InvitationRecords /\ w \in Jobs /\ i.token = w.token /\ w.phase = "send"
        /\ i.delivery = "queued" /\ i.status = "pending"
    BY <1>1, <1>3, <2>1, <2>2 DEF InvitationRecords, Jobs, V!Pending
  <2> QED BY <1>2, <2>3, <2>4, InvitationChanges
<1>4. CASE ~(V!Pending(n) /\ invitation[n].delivery = "queued")
  <2>1. PICK w : w = V!NoJob /\ staffWorker' = [staffWorker EXCEPT ![n] = w] /\ UNCHANGED <<invitation, inbox>>
    BY <1>4 DEF V!SetInvitationToken
  <2>2. w \in Jobs /\ w.phase = "idle"
    BY <2>1 DEF V!NoJob, V!NoToken, Jobs
  <2> QED BY <2>1, <2>2, JobChanges
<1> QED BY <1>3, <1>4

LEMMA SendKeepsInv ==
  ASSUME InvitationsInv, NEW n \in Invitations, V!send(n) PROVE InvitationsInv'
<1>1. staffWorker[n] \in Jobs /\ MailInv(n) /\ staffWorker = [k \in Invitations |-> staffWorker[k]]
      /\ inbox = [k \in Invitations |-> inbox[k]] /\ inbox[n] \in SUBSET Nat
  BY DEF InvitationsInv
<1>2. PICK outcome \in {"sent", "failed"} :
         /\ staffWorker' = [staffWorker EXCEPT ![n].phase = outcome]
         /\ inbox' \in IF outcome = "sent" THEN {[inbox EXCEPT ![n] = @ \cup {staffWorker[n].token}]}
                     ELSE {inbox, [inbox EXCEPT ![n] = @ \cup {staffWorker[n].token}]}
  BY DEF V!send
<1>3. PICK w : w = [staffWorker[n] EXCEPT !.phase = outcome]
  OBVIOUS
<1>4. staffWorker' = [staffWorker EXCEPT ![n] = w]
  BY <1>1, <1>2, <1>3
<1>5. w \in Jobs /\ w.token = staffWorker[n].token /\ w.phase = outcome
  BY <1>1, <1>3 DEF Jobs
<1>6. PICK b \in SUBSET Nat : /\ inbox' = [inbox EXCEPT ![n] = b] /\ inbox[n] \subseteq b
                              /\ outcome = "sent" => w.token \in b
  <2>1. w.token \in Nat
    BY <1>5 DEF Jobs
  <2>2. \/ inbox' = inbox /\ outcome = "failed"
        \/ inbox' = [inbox EXCEPT ![n] = inbox[n] \cup {w.token}]
    BY <1>1, <1>2, <1>5
  <2>3. CASE inbox' = inbox /\ outcome = "failed"
    BY <1>1, <2>3
  <2>4. CASE inbox' = [inbox EXCEPT ![n] = inbox[n] \cup {w.token}]
    <3>1. PICK b : b = inbox[n] \cup {w.token}
      OBVIOUS
    <3>2. b \in SUBSET Nat /\ inbox[n] \subseteq b /\ w.token \in b
      BY <1>1, <2>1, <3>1
    <3> QED BY <2>4, <3>1, <3>2
  <2> QED BY <2>2, <2>3, <2>4
<1>7. PICK i \in InvitationRecords : i = invitation[n] /\ invitation' = [invitation EXCEPT ![n] = i]
  BY DEF InvitationsInv, V!send
<1>8. i.token = w.token /\ i.status # "none" /\ (i.delivery = "sent" => i.token \in b)
  BY <1>1, <1>5, <1>6, <1>7 DEF MailInv, V!send
<1> QED BY <1>4, <1>5, <1>6, <1>7, <1>8, InvitationChanges

LEMMA FinishKeepsInv ==
  ASSUME InvitationsInv, NEW n \in Invitations, V!FinishInvitationDelivery(n) PROVE InvitationsInv'
<1>1. PICK c \in InvitationRecords : c = invitation[n]
  BY DEF InvitationsInv
<1>2. MailInv(n) /\ invitation = [k \in Invitations |-> invitation[k]] /\ staffWorker[n].phase \in {"sent", "failed"}
  BY DEF InvitationsInv, V!FinishInvitationDelivery
<1>3. PICK w : w = V!NoJob /\ staffWorker' = [staffWorker EXCEPT ![n] = w]
  BY DEF V!FinishInvitationDelivery
<1>4. w \in Jobs /\ w.phase = "idle"
  BY <1>3 DEF V!NoJob, V!NoToken, Jobs
<1>5. PICK b \in SUBSET Nat : b = inbox[n] /\ inbox' = [inbox EXCEPT ![n] = b]
  BY DEF InvitationsInv, V!FinishInvitationDelivery
<1>6. CASE c.delivery # "queued"
  <2>1. invitation' = [invitation EXCEPT ![n] = c]
    BY <1>1, <1>2, <1>6 DEF V!FinishInvitationDelivery
  <2>2. c.delivery = "sent" => c.token \in b
    BY <1>1, <1>2, <1>5 DEF MailInv
  <2> QED BY <1>3, <1>4, <1>5, <2>1, <2>2, InvitationChanges
<1>7. CASE c.delivery = "queued"
  <2>1. PICK delivery \in {"sent", "parked", "queued"} :
          /\ delivery = "sent" => staffWorker[n].phase = "sent"
          /\ invitation' = [invitation EXCEPT ![n].leased = FALSE, ![n].delivery = delivery]
    BY <1>1, <1>7 DEF V!FinishInvitationDelivery
  <2>2. PICK i : i = [c EXCEPT !.leased = FALSE, !.delivery = delivery]
    OBVIOUS
  <2>3. invitation' = [invitation EXCEPT ![n] = i]
    BY <1>1, <1>2, <2>1, <2>2
  <2>4. i \in InvitationRecords /\ i.token = c.token /\ i.delivery = delivery /\ i.status = c.status
    BY <2>2 DEF InvitationRecords
  <2>5. i.delivery = "sent" => i.token \in b
    BY <1>1, <1>2, <1>5, <2>1, <2>4 DEF MailInv
  <2> QED BY <1>3, <1>4, <1>5, <2>3, <2>4, <2>5, InvitationChanges
<1> QED BY <1>6, <1>7

\* A request keeps the tables sound, whatever grants it goes by.
LEMMA ServeKeepsInv ==
  ASSUME ShopInv, NEW r \in V!StaffRequests, NEW held, V!Serve(r, held) PROVE ShopInv'
<1>1. MembersInv /\ InvitationsInv
  BY DEF ShopInv
<1>2. CASE r.kind = "update"
  <2>1. r.by \in V!People /\ r.to \in Staff /\ r.grant \in V!Grants /\ V!UpdateMember(r.by, r.to, r.grant, held)
    BY <1>2 DEF V!StaffRequests, V!Serve
  <2> QED BY <2>1, MemberActionsKeepInv
<1>3. CASE r.kind = "remove"
  <2>1. r.by \in V!People /\ r.to \in Staff /\ V!RemoveMember(r.by, r.to, held)
    BY <1>3 DEF V!StaffRequests, V!Serve
  <2> QED BY <2>1, MemberActionsKeepInv
<1>4. CASE r.kind = "invite"
  <2>1. /\ r.by \in V!People /\ r.to \in Staff /\ r.grant \in V!Grants /\ r.n \in Invitations
        /\ V!Invite(r.n, r.by, r.to, r.grant, held)
    BY <1>4 DEF V!StaffRequests, V!Serve
  <2> QED BY <2>1, InviteKeepsInv
<1>5. CASE r.kind = "revoke"
  <2>1. r.n \in Invitations /\ V!RevokeInvitation(r.by, r.n, held)
    BY <1>5 DEF V!StaffRequests, V!Serve
  <2> QED BY <1>1, <2>1, CloseKeepsInv, MembersRest DEF V!RevokeInvitation, ShopInv
<1>6. CASE r.kind = "accept"
  <2>1. r.to \in Staff /\ r.n \in Invitations /\ V!AcceptInvitation(r.to, r.n, held)
    BY <1>6 DEF V!StaffRequests, V!Serve
  <2> QED BY <2>1, AcceptKeepsInv
<1> QED BY <1>2, <1>3, <1>4, <1>5, <1>6 DEF V!Serve

LEMMA NextKeepsStaffInv == StaffInv /\ V!Next => StaffInv'
<1> SUFFICES ASSUME StaffInv, V!Next PROVE StaffInv'
  OBVIOUS
<1>1. MembersInv /\ InvitationsInv /\ ShopInv
  BY DEF StaffInv, ShopInv
<1>2. ASSUME V!SwitchChanges \/ \E u \in V!People : V!AccountChanges(u) PROVE ShopInv'
  BY <1>1, <1>2, MembersRest, InvitationsRest DEF V!SwitchChanges, V!AccountChanges, ShopInv
<1>3. ASSUME NEW r \in V!StaffRequests, V!Served(r) \/ V!Waits(r) PROVE StaffInv'
  <2>1. CASE V!Served(r)
    <3>1. ShopInv'
      BY <1>1, <2>1, ServeKeepsInv DEF V!Served
    <3> QED BY <2>1, <3>1 DEF V!Served, StaffInv
  <2>2. CASE V!Waits(r)
    <3>1. ShopInv' /\ waiting'.request = r
      BY <1>1, <2>2, MembersRest, InvitationsRest DEF V!Waits, ShopInv
    <3> QED BY <3>1 DEF StaffInv
  <2> QED BY <1>3, <2>1, <2>2
<1>8. CASE V!GoesOn
  <2>1. ShopInv'
    <3>1. CASE V!Serve(waiting.request, waiting.held)
      BY <1>1, <1>8, <3>1, ServeKeepsInv DEF V!GoesOn, StaffInv
    <3>2. CASE UNCHANGED <<member, staffAccount, enabled, paused, invitation, staffWorker, inbox, changes>>
      BY <1>1, <3>2, MembersRest, InvitationsRest DEF ShopInv
    <3> QED BY <1>8, <3>1, <3>2 DEF V!GoesOn
  <2> QED BY <1>8, <2>1 DEF V!GoesOn, StaffInv
<1>4. ASSUME NEW n \in Invitations, V!Expire(n) PROVE ShopInv'
  <2>1. PICK c \in InvitationRecords : c = invitation[n]
    BY <1>1 DEF InvitationsInv
  <2>2. PICK i : i = [c EXCEPT !.expired = TRUE]
    OBVIOUS
  <2>3. i \in InvitationRecords /\ i.token = c.token /\ i.delivery = c.delivery /\ i.status = c.status
    BY <2>2 DEF InvitationRecords
  <2>4. invitation' = [invitation EXCEPT ![n] = i]
    BY <1>1, <1>4, <2>1, <2>2 DEF V!Expire, InvitationsInv
  <2> QED BY <1>1, <1>4, <2>1, <2>3, <2>4, RowChanges, MembersRest DEF V!Expire, ShopInv
<1>5. ASSUME NEW n \in Invitations, V!LeaseEnds(n) PROVE ShopInv'
  <2>1. PICK c \in InvitationRecords : c = invitation[n]
    BY <1>1 DEF InvitationsInv
  <2>2. PICK i : i = [c EXCEPT !.leased = FALSE]
    OBVIOUS
  <2>3. i \in InvitationRecords /\ i.token = c.token /\ i.delivery = c.delivery /\ i.status = c.status
    BY <2>2 DEF InvitationRecords
  <2>4. invitation' = [invitation EXCEPT ![n] = i]
    BY <1>1, <1>5, <2>1, <2>2 DEF V!LeaseEnds, InvitationsInv
  <2>5. UNCHANGED <<member, staffWorker, inbox>>
    BY <1>5 DEF V!LeaseEnds
  <2>6. InvitationsInv'
    BY <1>1, <2>1, <2>3, <2>4, <2>5, RowChanges
  <2> QED BY <1>1, <2>5, <2>6, MembersRest DEF ShopInv
<1>6. ASSUME NEW n \in Invitations, V!Crash(n) PROVE ShopInv'
  <2>1. PICK w : w = V!NoJob /\ staffWorker' = [staffWorker EXCEPT ![n] = w]
    BY <1>6 DEF V!Crash
  <2>2. w \in Jobs /\ w.phase = "idle"
    BY <2>1 DEF V!NoJob, V!NoToken, Jobs
  <2> QED BY <1>1, <1>6, <2>1, <2>2, JobChanges, MembersRest DEF V!Crash, ShopInv
<1>7. ASSUME NEW n \in Invitations,
             V!ClaimInvitationDelivery(n) \/ V!SetInvitationToken(n) \/ V!send(n) \/ V!FinishInvitationDelivery(n)
      PROVE  ShopInv'
  <2>1. InvitationsInv'
    BY <1>1, <1>7, ClaimKeepsInv, SetTokenKeepsInv, SendKeepsInv, FinishKeepsInv
  <2>2. UNCHANGED member
    BY <1>7 DEF V!ClaimInvitationDelivery, V!SetInvitationToken, V!send, V!FinishInvitationDelivery
  <2> QED BY <1>1, <2>1, <2>2, MembersRest DEF ShopInv
<1>9. ASSUME UNCHANGED waiting, ShopInv' PROVE StaffInv'
  BY <1>9 DEF StaffInv
<1> QED BY <1>2, <1>3, <1>4, <1>5, <1>6, <1>7, <1>8, <1>9 DEF V!Next

\* What a person may do follows from the membership's row.
LEMMA StaffInvProtects == StaffInv => V!SentLinkWorks /\ V!RevokedHoldsNothing
<1> SUFFICES ASSUME StaffInv PROVE V!SentLinkWorks /\ V!RevokedHoldsNothing
  OBVIOUS
<1>1. V!SentLinkWorks
  BY DEF StaffInv, ShopInv, InvitationsInv, MailInv, V!SentLinkWorks
<1>2. ASSUME NEW u \in Staff, NEW p \in Permissions, member[u].status # "active" \/ p \in OwnerOnly
      PROVE  ~V!Authorize(u, p)
  BY <1>2, AccessAssumption DEF StaffInv, ShopInv, MembersInv, V!Authorize, V!usable, V!Has, V!Active, V!Grantable, V!People
<1>3. ASSUME NEW p \in Permissions, Owner \in staffAccount PROVE V!Authorize(Owner, p)
  BY <1>3 DEF StaffInv, ShopInv, MembersInv, V!Authorize, V!usable, V!Has, V!Active, V!Known, V!accountMayAct, V!People
<1> QED BY <1>1, <1>2, <1>3 DEF V!RevokedHoldsNothing

\* Among the requests only an acceptance accepts, and only its own invitation.
LEMMA OthersDoNotAccept ==
  ASSUME InvitationsInv, NEW n \in Invitations, V!Pending(n),
         NEW r \in V!StaffRequests, NEW held, V!Serve(r, held), ~(r.kind = "accept" /\ r.n = n)
  PROVE  invitation'[n].status # "accepted"
<1> DEFINE S == invitation'[n].status # "accepted"
<1>1. PICK c \in InvitationRecords : c = invitation[n] /\ c.status = "pending"
  BY DEF InvitationsInv, V!Pending
<1>2. invitation = [k \in Invitations |-> invitation[k]]
  BY DEF InvitationsInv
<1>3. CASE r.kind \in {"update", "remove"}
  <2>1. UNCHANGED invitation
    BY <1>3 DEF V!Serve, V!RemoveMember, V!UpdateMember
  <2> QED BY <1>1, <2>1
<1>4. CASE r.kind = "invite"
  <2>1. V!Invite(r.n, r.by, r.to, r.grant, held)
    BY <1>4 DEF V!Serve
  <2>2. PICK new : new = [to |-> r.to, by |-> r.by, permissions |-> r.grant, status |-> "pending", expired |-> FALSE,
                          token |-> V!NoToken, delivery |-> "queued", attempts |-> 0, leased |-> FALSE]
    OBVIOUS
  <2>3. PICK x : x = [c EXCEPT !.status = "superseded", !.delivery = "closed", !.leased = FALSE]
    OBVIOUS
  <2>4. new.status = "pending" /\ x.status = "superseded"
    BY <2>2, <2>3 DEF InvitationRecords
  <2>5. invitation'[n] \in {new, x, c}
    BY <1>1, <2>1, <2>2, <2>3 DEF V!Invite, V!CreateInvitation
  <2> QED BY <1>1, <2>4, <2>5
<1>5. ASSUME NEW k \in Invitations, NEW status, V!closeInvitation(k, status), k = n => status = "revoked" PROVE S
  <2>1. PICK d \in InvitationRecords : d = invitation[k]
    BY DEF InvitationsInv
  <2>2. PICK x : x = [d EXCEPT !.status = status, !.leased = FALSE, !.delivery = V!closed(@)]
    OBVIOUS
  <2>3. invitation' = [invitation EXCEPT ![k] = x]
    BY <1>2, <1>5, <2>1, <2>2 DEF V!closeInvitation
  <2>4. x.status = status
    BY <2>2 DEF InvitationRecords
  <2> QED BY <1>1, <1>2, <1>5, <2>3, <2>4
<1>6. CASE r.kind = "revoke"
  <2>1. r.n \in Invitations /\ V!closeInvitation(r.n, "revoked")
    BY <1>6 DEF V!StaffRequests, V!Serve, V!RevokeInvitation
  <2> QED BY <1>5, <2>1
<1>7. CASE r.kind = "accept"
  <2>1. r.n \in Invitations /\ r.n # n /\ V!closeInvitation(r.n, "accepted")
    BY <1>7 DEF V!StaffRequests, V!Serve, V!AcceptInvitation
  <2> QED BY <1>5, <2>1
<1> QED BY <1>3, <1>4, <1>6, <1>7 DEF V!Serve

\* Neither the delivery of an invitation nor the time that passes accepts it.
LEMMA DeliveryDoesNotAccept ==
  ASSUME InvitationsInv, NEW n \in Invitations, V!Pending(n), NEW k \in Invitations,
         \/ V!ClaimInvitationDelivery(k) \/ V!SetInvitationToken(k) \/ V!send(k) \/ V!FinishInvitationDelivery(k)
         \/ V!Expire(k) \/ V!Crash(k) \/ V!LeaseEnds(k)
  PROVE  invitation'[n].status # "accepted"
<1> DEFINE S == invitation'[n].status # "accepted"
<1>1. PICK c \in InvitationRecords : c = invitation[n] /\ c.status = "pending"
  BY DEF InvitationsInv, V!Pending
<1>2. invitation = [j \in Invitations |-> invitation[j]]
  BY DEF InvitationsInv
<1>3. PICK d \in InvitationRecords : d = invitation[k]
  BY DEF InvitationsInv
<1>4. CASE V!send(k) \/ V!Crash(k)
  BY <1>1, <1>4 DEF V!send, V!Crash
<1>5. CASE V!Expire(k) \/ V!LeaseEnds(k)
  <2>1. invitation' = [invitation EXCEPT ![k].expired = TRUE] \/ invitation' = [invitation EXCEPT ![k].leased = FALSE]
    BY <1>5 DEF V!Expire, V!LeaseEnds
  <2> QED BY <1>1, <1>2, <1>3, <2>1 DEF InvitationRecords
<1>6. CASE V!ClaimInvitationDelivery(k)
  BY <1>1, <1>2, <1>3, <1>6 DEF InvitationRecords, V!ClaimInvitationDelivery
<1>7. CASE V!SetInvitationToken(k)
  BY <1>1, <1>2, <1>3, <1>7 DEF InvitationRecords, V!SetInvitationToken
<1>8. CASE V!FinishInvitationDelivery(k)
  <2>1. \/ UNCHANGED invitation
        \/ \E delivery : invitation' = [invitation EXCEPT ![k].leased = FALSE, ![k].delivery = delivery]
    BY <1>8 DEF V!FinishInvitationDelivery
  <2>2. ASSUME NEW delivery, invitation' = [invitation EXCEPT ![k].leased = FALSE, ![k].delivery = delivery] PROVE S
    <3>1. PICK x : x = [d EXCEPT !.leased = FALSE, !.delivery = delivery]
      OBVIOUS
    <3>2. x.status = d.status
      BY <3>1 DEF InvitationRecords
    <3>3. invitation' = [invitation EXCEPT ![k] = x]
      BY <1>2, <1>3, <2>2, <3>1
    <3> QED BY <1>1, <1>2, <1>3, <3>2, <3>3
  <2> QED BY <1>1, <2>1, <2>2
<1> QED BY <1>4, <1>5, <1>6, <1>7, <1>8

\* Nobody is let in but by an acceptance, with the grants as they are or as the
\* acceptance caught behind the sender's row has read them.
LEMMA OnlyAcceptanceAccepts ==
  ASSUME StaffInv, V!Next, NEW n \in Invitations, V!Pending(n), invitation'[n].status = "accepted"
  PROVE  \E r \in V!StaffRequests : \E held :
           /\ V!Serve(r, held) /\ r.kind = "accept" /\ r.n = n
           /\ held = member[r.by].permissions \/ (waiting.request = r /\ held = waiting.held)
<1>1. InvitationsInv /\ (waiting # V!NoWait => waiting.request \in V!StaffRequests)
  BY DEF StaffInv, ShopInv
<1>2. ~UNCHANGED invitation
  BY <1>1 DEF V!Pending
<1>3. \E r \in V!StaffRequests : \E held :
        V!Serve(r, held) /\ (held = member[r.by].permissions \/ (waiting.request = r /\ held = waiting.held))
  <2>1. ASSUME NEW r \in V!StaffRequests, V!Served(r) \/ V!Waits(r) PROVE V!Serve(r, member[r.by].permissions)
    BY <1>2, <2>1 DEF V!Served, V!Waits
  <2>2. ASSUME V!GoesOn PROVE waiting.request \in V!StaffRequests /\ V!Serve(waiting.request, waiting.held)
    BY <1>1, <1>2, <2>2 DEF V!GoesOn
  <2>3. ~(V!SwitchChanges \/ \E u \in V!People : V!AccountChanges(u))
    BY <1>2 DEF V!SwitchChanges, V!AccountChanges
  <2>4. ~\E k \in Invitations :
          \/ V!ClaimInvitationDelivery(k) \/ V!SetInvitationToken(k) \/ V!send(k) \/ V!FinishInvitationDelivery(k)
          \/ V!Expire(k) \/ V!Crash(k) \/ V!LeaseEnds(k)
    BY <1>1, DeliveryDoesNotAccept
  <2> QED BY <2>1, <2>2, <2>3, <2>4 DEF V!Next
<1> QED BY <1>1, <1>3, OthersDoNotAccept

\* A row read with the grants it has is that row.
LEMMA ReadAsItIs ==
  ASSUME MembersInv, NEW x \in V!People PROVE V!FindMembership(x, member[x].permissions) = member[x]
<1>1. PICK m \in Members : m = member[x]
  BY DEF MembersInv
<1>2. [m EXCEPT !.permissions = m.permissions] = m
  BY DEF Members
<1> QED BY <1>1, <1>2 DEF V!FindMembership

LEMMA StaffStepsAreGranted == StaffInv /\ V!Next => V!GrantedByHolder
<1> SUFFICES ASSUME StaffInv, V!Next, NEW n \in Invitations, V!Pending(n), invitation'[n].status = "accepted"
             PROVE  LET sender == invitation[n].by
                        caught == waiting.request.kind = "accept" /\ waiting.request.n = n
                    IN  \/ V!LetIn(n, member[sender])
                        \/ caught /\ V!LetIn(n, V!FindMembership(sender, waiting.held))
  BY DEF V!GrantedByHolder, V!LetIn
<1>0. PICK r \in V!StaffRequests : \E held :
        /\ V!Serve(r, held) /\ r.kind = "accept" /\ r.n = n
        /\ held = member[r.by].permissions \/ (waiting.request = r /\ held = waiting.held)
  BY OnlyAcceptanceAccepts
<1>1. PICK held :
        /\ V!Serve(r, held) /\ r.kind = "accept" /\ r.n = n
        /\ held = member[r.by].permissions \/ (waiting.request = r /\ held = waiting.held)
  BY <1>0
<1>2. r.by \in V!People /\ r.to \in Staff /\ invitation[n].by = r.by /\ V!AcceptInvitation(r.to, n, held)
  BY <1>1 DEF V!StaffRequests, V!Serve
<1>3. /\ invitation[n].to = r.to
      /\ V!CheckGrantor(V!FindMembership(r.by, held), invitation[n].permissions)
      /\ V!JoinAsStaff(r.to, invitation[n].permissions)
  BY <1>2 DEF V!AcceptInvitation
<1>4. member'[r.to].permissions = invitation[n].permissions
  BY <1>2, <1>3 DEF StaffInv, ShopInv, MembersInv, V!JoinAsStaff, V!People
<1>5. V!LetIn(n, V!FindMembership(r.by, held))
  BY <1>3, <1>4 DEF V!LetIn, V!CheckGrantor, V!StaffManage
<1>6. CASE held = member[r.by].permissions
  <2>1. V!FindMembership(r.by, held) = member[r.by]
    BY <1>2, <1>6, ReadAsItIs DEF StaffInv, ShopInv
  <2> QED BY <1>2, <1>5, <2>1
<1>7. CASE waiting.request = r /\ held = waiting.held
  BY <1>1, <1>2, <1>5, <1>7
<1> QED BY <1>1, <1>6, <1>7

-----------------------------------------------------------------------------
(* The account, its sessions and its links.                                *)

Emails == Addresses \cup {"none"}

Accounts == [state : {"none", "active", "disabled"}, password : Nat, version : Nat, email : Emails, verified : BOOLEAN]

TokenRecords == [state : {"none", "live", "revoked"}, family : Nat, since : Nat]

\* What a request read before it locked the account.
ReadIsTyped ==
  /\ busy.op = "refresh" => busy.id \in I!Tokens
  /\ busy.op = "email" => busy.email \in Emails

\* A session is named by a token that was issued before.
TokensInv ==
  /\ identityAccount \in Accounts
  /\ token \in [I!Tokens -> TokenRecords]
  /\ I!SessionsAreCurrent
  /\ \A t \in I!Tokens : token[t].state # "none" =>
       /\ identityAccount.state # "none"
       /\ token[t].family \in I!Tokens /\ token[token[t].family].state # "none"
  /\ ReadIsTyped

LEMMA NextTokenIsUnused ==
  ASSUME I!TokenLeft PROVE I!NextToken \in I!Tokens /\ token[I!NextToken].state = "none"
<1> DEFINE S == {t \in I!Tokens : token[t].state = "none"}
           R == {ss \in S \X S : ss[1] < ss[2]}
<1>1. IsFiniteSet(S)
  <2>1. IsFiniteSet(I!Tokens) /\ S \in SUBSET I!Tokens
    BY FS_Interval, AccessAssumption DEF I!Tokens
  <2> HIDE DEF S
  <2> QED BY <2>1, FS_Subset
<1>2. S # {} /\ S \subseteq Int
  BY AccessAssumption DEF I!TokenLeft, I!Tokens
<1>3. \A x \in S : <<x, x>> \notin R
  BY <1>2
<1>4. \A x, y, z \in S : <<x, y>> \in R /\ <<y, z>> \in R => <<x, z>> \in R
  BY <1>2
<1> HIDE DEF R
<1>5. \E x \in S : \A y \in S : <<y, x>> \notin R
  <2> HIDE DEF S
  <2> QED BY <1>1, <1>2, <1>3, <1>4, Least
<1>6. PICK x \in S : \A y \in S : <<y, x>> \notin R
  BY <1>5
<1>7. \A k \in I!Tokens : k < x => token[k].state # "none"
  BY <1>6 DEF R
<1> QED BY <1>6, <1>7 DEF I!NextToken

\* Some live tokens are revoked, all of them unless the account keeps its
\* state and version.
LEMMA RevocationKeepsInv ==
  ASSUME TokensInv, identityAccount' \in Accounts, identityAccount'.state # "none",
         token' = [t \in I!Tokens |-> token'[t]],
         \A t \in I!Tokens : token'[t] = token[t] \/ (token[t].state = "live" /\ token'[t] = I!Revoked(t)),
         \/ \A t \in I!Tokens : token'[t].state # "live"
         \/ identityAccount'.state = identityAccount.state /\ identityAccount'.version = identityAccount.version,
         ReadIsTyped'
  PROVE  TokensInv'
<1>1. ASSUME NEW t \in I!Tokens
      PROVE  /\ token'[t] \in TokenRecords /\ token'[t].family = token[t].family
             /\ token'[t].state = "live" => token'[t] = token[t]
             /\ token'[t].state = "none" <=> token[t].state = "none"
  <2>1. PICK k \in TokenRecords : k = token[t]
    BY DEF TokensInv
  <2>2. PICK x : x = [k EXCEPT !.state = "revoked", !.since = 0]
    OBVIOUS
  <2>3. x \in TokenRecords /\ x.family = k.family /\ x.state = "revoked"
    BY <2>2 DEF TokenRecords
  <2>4. token'[t] = k \/ (k.state = "live" /\ token'[t] = x)
    BY <2>1, <2>2 DEF I!Revoked
  <2> QED BY <2>1, <2>3, <2>4
<1>2. I!SessionsAreCurrent'
  <2>1. \A t \in I!Tokens : I!Live(t)' => token'[t] = token[t] /\ I!Live(t)
    BY <1>1 DEF I!Live
  <2>2. CASE \A t \in I!Tokens : token'[t].state # "live"
    BY <2>2 DEF I!SessionsAreCurrent, I!Live
  <2>3. CASE identityAccount'.state = identityAccount.state /\ identityAccount'.version = identityAccount.version
    BY <2>1, <2>3 DEF TokensInv, I!SessionsAreCurrent, I!Active
  <2> QED BY <2>2, <2>3
<1> QED BY <1>1, <1>2 DEF TokensInv

\* A token is issued in an unused place: a session of its own, or the next one
\* of a session whose token is spent by the same step.
LEMMA NewTokenKeepsInv ==
  ASSUME TokensInv, identityAccount' \in Accounts, I!Active',
         identityAccount' = identityAccount \/ identityAccount.state = "none",
         NEW q \in I!Tokens, token[q].state = "none",
         token' \in [I!Tokens -> TokenRecords],
         token'[q].state = "live", token'[q].since = identityAccount'.version, token'[q].family \in I!Tokens,
         token'[q].family = q \/ token[token'[q].family].state # "none",
         \A t \in I!Tokens : t # q =>
            /\ token'[t] = token[t] \/ (token'[t].state = "revoked" /\ token'[t].family = token[t].family /\ token[t].state # "none")
            /\ token'[t].state = "live" => token'[t].family # token'[q].family,
         ReadIsTyped'
  PROVE  TokensInv'
<1>5. I!SessionsAreCurrent'
  <2>1. ASSUME NEW t \in I!Tokens, token'[t].state = "live" PROVE token'[t].since = identityAccount'.version
    <3>1. CASE t = q
      BY <3>1
    <3>2. CASE t # q
      BY <2>1, <3>2 DEF TokensInv, I!SessionsAreCurrent, I!Live
    <3> QED BY <3>1, <3>2
  <2>2. ASSUME NEW t \in I!Tokens, NEW k \in I!Tokens, token'[t].state = "live", token'[k].state = "live",
               token'[t].family = token'[k].family
        PROVE t = k
    <3>1. CASE t # q /\ k # q
      BY <2>2, <3>1 DEF TokensInv, I!SessionsAreCurrent, I!Live
    <3>2. CASE t = q \/ k = q
      BY <2>2, <3>2
    <3> QED BY <3>1, <3>2
  <2> QED BY <2>1, <2>2 DEF I!SessionsAreCurrent, I!Live
<1>6. ASSUME NEW t \in I!Tokens, token'[t].state # "none"
      PROVE token'[t].family \in I!Tokens /\ token'[token'[t].family].state # "none"
  <2>1. \A k \in I!Tokens : token[k].state # "none" => token'[k].state # "none"
    OBVIOUS
  <2>2. CASE t = q
    BY <2>1, <2>2
  <2>3. CASE t # q
    BY <1>6, <2>1, <2>3 DEF TokensInv
  <2> QED BY <2>2, <2>3
<1>7. identityAccount'.state # "none"
  BY DEF I!Active
<1> QED BY <1>5, <1>6, <1>7 DEF TokensInv

LinkRecords ==
  [kind : {"none", "reset", "verify", "change", "changed"}, expired : BOOLEAN, address : Emails, version : Nat,
   to : SUBSET Emails, status : {"none", "pending", "sending", "sent", "failed"}, attempts : Nat, leased : BOOLEAN]

\* An account that never was has no links.
LinksInv ==
  /\ link \in [I!Links -> LinkRecords]
  /\ I!LinksFollowAddress
  /\ identityAccount.state = "none" => \A n \in I!Links : link[n].kind = "none"

\* The link l follows from k: it is dead, new, or k with other delivery fields.
Follows(l, k) ==
  \/ l.kind = "none"
  \/ l.to = {} /\ identityAccount'.state # "none"
  \/ l.kind = k.kind /\ (k.expired => l.expired) /\ l.to = k.to

LEMMA NoLinkIsDead == I!NoLink \in LinkRecords /\ I!NoLink.kind = "none" /\ I!NoLink.to = {}
  BY DEF I!NoLink, LinkRecords, Emails

LEMMA InvalidateYields ==
  ASSUME NEW ls \in [I!Links -> LinkRecords], NEW kinds
  PROVE  /\ I!Invalidate(ls, kinds) \in [I!Links -> LinkRecords]
         /\ \A n \in I!Links : I!Invalidate(ls, kinds)[n] = IF ls[n].kind \in kinds THEN I!NoLink ELSE ls[n]
  BY NoLinkIsDead DEF I!Invalidate

LEMMA QueueDeliveryYields ==
  ASSUME NEW ls \in [I!Links -> LinkRecords], NEW m \in I!Links, NEW kind \in {"reset", "verify", "change", "changed"},
         NEW address \in Emails, NEW v \in Nat
  PROVE  /\ I!QueueDelivery(ls, m, kind, address, v) \in [I!Links -> LinkRecords]
         /\ I!QueueDelivery(ls, m, kind, address, v)[m].to = {}
         /\ \A n \in I!Links : n # m => I!QueueDelivery(ls, m, kind, address, v)[n] = ls[n]
<1>1. PICK d \in LinkRecords : d = I!NoLink
  BY NoLinkIsDead
<1>2. PICK r : r = [d EXCEPT !.kind = kind, !.address = address, !.version = v, !.status = "pending"]
  OBVIOUS
<1>3. r \in LinkRecords /\ r.to = {}
  BY <1>1, <1>2, NoLinkIsDead DEF LinkRecords
<1>4. I!QueueDelivery(ls, m, kind, address, v) = [ls EXCEPT ![m] = r]
  BY <1>1, <1>2 DEF I!QueueDelivery
<1> QED BY <1>3, <1>4

LEMMA SweepYields ==
  ASSUME NEW ls \in [I!Links -> LinkRecords]
  PROVE  /\ I!SweepDeliveries(ls) \in [I!Links -> LinkRecords]
         /\ \A n \in I!Links :
              LET l == I!SweepDeliveries(ls)[n]
              IN  l.kind = "none" \/ (l.kind = ls[n].kind /\ l.expired = ls[n].expired /\ l.to = ls[n].to)
<1>1. I!SweepDeliveries(ls) = [n \in I!Links |-> I!SweepDeliveries(ls)[n]]
  BY DEF I!SweepDeliveries
<1>2. ASSUME NEW n \in I!Links
      PROVE  /\ I!SweepDeliveries(ls)[n] \in LinkRecords
             /\ \/ I!SweepDeliveries(ls)[n].kind = "none"
                \/ /\ I!SweepDeliveries(ls)[n].kind = ls[n].kind
                   /\ I!SweepDeliveries(ls)[n].expired = ls[n].expired /\ I!SweepDeliveries(ls)[n].to = ls[n].to
  <2>1. PICK k \in LinkRecords : k = ls[n]
    OBVIOUS
  <2>2. PICK r : r = [k EXCEPT !.status = "failed", !.leased = FALSE, !.attempts = 0]
    OBVIOUS
  <2>3. r \in LinkRecords /\ r.kind = k.kind /\ r.expired = k.expired /\ r.to = k.to
    BY <2>2 DEF LinkRecords
  <2>4. I!SweepDeliveries(ls)[n] \in {I!NoLink, r, k}
    BY <2>1, <2>2 DEF I!SweepDeliveries, I!Delivered
  <2> QED BY <2>1, <2>3, <2>4, NoLinkIsDead
<1> QED BY <1>1, <1>2

\* What no delivery is sent with keeps the links' invariant.
LEMMA LinksKeepInv ==
  ASSUME LinksInv, link' \in [I!Links -> LinkRecords],
         identityAccount'.state = "none" => identityAccount.state = "none",
         \A n \in I!Links : Follows(link'[n], link[n]),
         \/ identityAccount'.email = identityAccount.email
         \/ \A n \in I!Links : link'[n].kind \in {"reset", "verify"} => link'[n].to = {}
  PROVE  LinksInv'
<1>1. I!LinksFollowAddress'
  <2>1. ASSUME NEW n \in I!Links, link'[n].kind \in {"reset", "verify"}, ~link'[n].expired
        PROVE link'[n].to \subseteq {identityAccount'.email}
    <3>1. CASE link'[n].to = {}
      BY <3>1
    <3>2. CASE link'[n].to # {}
      <4>1. link'[n].kind = link[n].kind /\ ~link[n].expired /\ link'[n].to = link[n].to /\ identityAccount'.email = identityAccount.email
        BY <2>1, <3>2 DEF Follows
      <4>2. link[n].to \subseteq {identityAccount.email}
        BY <2>1, <4>1 DEF LinksInv, I!LinksFollowAddress, I!Usable
      <4> QED BY <4>1, <4>2
    <3> QED BY <3>1, <3>2
  <2> QED BY <2>1 DEF I!LinksFollowAddress, I!Usable
<1>2. identityAccount'.state = "none" => \A n \in I!Links : link'[n].kind = "none"
  BY DEF LinksInv, Follows
<1> QED BY <1>1, <1>2 DEF LinksInv

LEMMA NextLinkIsFree == ASSUME I!LinkLeft PROVE I!NextLink \in I!Links
  BY DEF I!LinkLeft, I!NextLink

AccountsInv == TokensInv /\ LinksInv

LEMMA InitHasAccountsInv == I!Init => AccountsInv
<1> SUFFICES ASSUME I!Init PROVE AccountsInv
  OBVIOUS
<1>1. TokensInv
  BY DEF I!Init, TokensInv, ReadIsTyped, Accounts, TokenRecords, Emails, I!NoToken, I!SessionsAreCurrent, I!Live, I!Idle
<1>2. LinksInv
  BY NoLinkIsDead DEF I!Init, LinksInv, I!LinksFollowAddress
<1> QED BY <1>1, <1>2 DEF AccountsInv

LEMMA TokensRest ==
  ASSUME TokensInv, UNCHANGED <<identityAccount, token>>, ReadIsTyped'
  PROVE  TokensInv'
  BY DEF TokensInv, I!SessionsAreCurrent, I!Live, I!Active

LEMMA LinksRest ==
  ASSUME LinksInv, UNCHANGED link, identityAccount' \in Accounts, identityAccount'.state = "none" => identityAccount.state = "none",
         identityAccount'.email = identityAccount.email
  PROVE  LinksInv'
  BY DEF LinksInv, I!LinksFollowAddress, I!Usable

\* One mail is sent, by a job whose link may have ended since: what still works
\* goes to the address the account has.
LEMMA NotifyKeepsLinks ==
  ASSUME AccountsInv, I!NotifyReset
  PROVE  LinksInv'
<1> DEFINE m == identityWorker.id
<1>1. UNCHANGED identityAccount /\ identityAccount \in Accounts
  BY DEF I!NotifyReset, AccountsInv, TokensInv
<1>2. CASE UNCHANGED link
  BY <1>1, <1>2, LinksRest DEF AccountsInv
<1>3. CASE m \notin I!Links
  <2>1. UNCHANGED link
    BY <1>3 DEF I!NotifyReset, AccountsInv, LinksInv
  <2> QED BY <1>2, <2>1
<1>4. CASE m \in I!Links /\ I!Readable(m) /\ link' = [link EXCEPT ![m].to = @ \cup {I!AddressOf(m)}]
  <2>1. PICK k \in LinkRecords : k = link[m]
    BY <1>4 DEF AccountsInv, LinksInv
  <2>2. I!AddressOf(m) \in Emails
    BY <1>1, <2>1 DEF I!AddressOf, Accounts, LinkRecords
  <2>3. PICK r : r = [k EXCEPT !.to = @ \cup {I!AddressOf(m)}]
    OBVIOUS
  <2>4. r \in LinkRecords /\ r.kind = k.kind /\ r.expired = k.expired /\ r.to = k.to \cup {I!AddressOf(m)}
    BY <2>2, <2>3 DEF LinkRecords
  <2>5. link' = [link EXCEPT ![m] = r]
    BY <1>4, <2>1, <2>3
  <2>6. link' \in [I!Links -> LinkRecords] /\ link'[m] = r /\ \A n \in I!Links : n # m => link'[n] = link[n]
    BY <1>4, <2>4, <2>5 DEF AccountsInv, LinksInv
  <2>7. k.kind \in {"reset", "verify"} => I!AddressOf(m) = identityAccount.email
    BY <1>4, <2>1 DEF I!Readable, I!AddressOf
  <2>8. (k.kind \in {"reset", "verify"} /\ ~k.expired) => k.to \subseteq {identityAccount.email}
    BY <1>4, <2>1 DEF AccountsInv, LinksInv, I!LinksFollowAddress, I!Usable
  <2>9. I!LinksFollowAddress'
    BY <1>1, <2>4, <2>6, <2>7, <2>8 DEF AccountsInv, LinksInv, I!LinksFollowAddress, I!Usable
  <2> QED BY <1>1, <2>1, <2>4, <2>6, <2>9 DEF AccountsInv, LinksInv
<1>5. link' = link \/ (I!Readable(m) /\ link' = [link EXCEPT ![m].to = @ \cup {I!AddressOf(m)}])
  BY DEF I!NotifyReset
<1> QED BY <1>2, <1>3, <1>4, <1>5

\* An action of the delivery changes fields of one link that say nothing of
\* whom it was mailed to.
LEMMA DeliveryKeepsLinks ==
  ASSUME AccountsInv, UNCHANGED identityAccount,
         \/ I!SweepOnly \/ I!FinishDelivery
         \/ \E n \in I!Links : I!ClaimDelivery(n) \/ I!LeaseEnds(n) \/ I!Expire(n)
  PROVE  LinksInv'
<1>1. identityAccount \in Accounts /\ LinksInv
  BY DEF AccountsInv, TokensInv
<1>2. ASSUME NEW n \in I!Links, NEW r \in LinkRecords, link' = [link EXCEPT ![n] = r], Follows(r, link[n])
      PROVE LinksInv'
  <2>1. link' \in [I!Links -> LinkRecords] /\ link'[n] = r /\ \A k \in I!Links : k # n => link'[k] = link[k]
    BY <1>1, <1>2 DEF LinksInv
  <2>2. \A k \in I!Links : Follows(link'[k], link[k])
    BY <1>2, <2>1 DEF Follows
  <2> QED BY <1>1, <2>1, <2>2, LinksKeepInv
<1>3. CASE UNCHANGED link
  BY <1>1, <1>3, LinksRest
<1>4. CASE I!SweepOnly
  <2>1. link' = I!SweepDeliveries(link)
    BY <1>4 DEF I!SweepOnly
  <2>2. link' \in [I!Links -> LinkRecords] /\ \A n \in I!Links : Follows(link'[n], link[n])
    BY <1>1, <2>1, SweepYields DEF LinksInv, Follows
  <2> QED BY <1>1, <2>2, LinksKeepInv
<1>5. ASSUME NEW n \in I!Links, I!ClaimDelivery(n) PROVE LinksInv'
  <2>1. PICK k \in LinkRecords : k = link[n]
    BY <1>1 DEF LinksInv
  <2>2. PICK r : r = [k EXCEPT !.status = "sending", !.attempts = @ + 1, !.leased = TRUE]
    OBVIOUS
  <2>3. r \in LinkRecords /\ r.kind = k.kind /\ r.expired = k.expired /\ r.to = k.to
    <3>1. PICK tries \in Nat : tries = k.attempts + 1
      BY DEF LinkRecords
    <3>2. r = [k EXCEPT !.status = "sending", !.attempts = tries, !.leased = TRUE]
      BY <2>2, <3>1
    <3> QED BY <3>2 DEF LinkRecords
  <2>4. PICK ls : ls = [link EXCEPT ![n].status = "sending", ![n].attempts = @ + 1, ![n].leased = TRUE]
    OBVIOUS
  <2>5. ls = [link EXCEPT ![n] = r]
    BY <1>1, <2>1, <2>2, <2>4 DEF LinksInv
  <2>6. ls \in [I!Links -> LinkRecords] /\ ls[n] = r /\ \A j \in I!Links : j # n => ls[j] = link[j]
    BY <1>1, <2>3, <2>5 DEF LinksInv
  <2>7. link' = I!SweepDeliveries(ls)
    BY <1>5, <2>4 DEF I!ClaimDelivery
  <2>8. link' \in [I!Links -> LinkRecords] /\ \A j \in I!Links : Follows(link'[j], ls[j])
    BY <2>6, <2>7, SweepYields DEF Follows
  <2>9. \A j \in I!Links : Follows(link'[j], link[j])
    BY <2>1, <2>3, <2>6, <2>8 DEF Follows
  <2> QED BY <1>1, <2>8, <2>9, LinksKeepInv
<1>6. ASSUME NEW n \in I!Links, I!LeaseEnds(n) \/ I!Expire(n) PROVE LinksInv'
  <2>1. PICK k \in LinkRecords : k = link[n]
    BY <1>1 DEF LinksInv
  <2>2. PICK r : r = [k EXCEPT !.leased = FALSE]
    OBVIOUS
  <2>3. PICK s : s = [k EXCEPT !.expired = TRUE]
    OBVIOUS
  <2>4. /\ r \in LinkRecords /\ r.kind = k.kind /\ r.expired = k.expired /\ r.to = k.to
        /\ s \in LinkRecords /\ s.kind = k.kind /\ s.expired /\ s.to = k.to
    BY <2>2, <2>3 DEF LinkRecords
  <2>5. Follows(r, link[n]) /\ Follows(s, link[n]) /\ Follows(I!NoLink, link[n])
    BY <2>1, <2>4, NoLinkIsDead DEF Follows
  <2>6. CASE I!LeaseEnds(n)
    <3>1. link' = [link EXCEPT ![n] = r]
      BY <1>1, <2>1, <2>2, <2>6 DEF I!LeaseEnds, LinksInv
    <3> QED BY <1>2, <2>4, <2>5, <3>1
  <2>7. CASE I!Expire(n)
    <3>1. link' = [link EXCEPT ![n] = s] \/ link' = [link EXCEPT ![n] = I!NoLink]
      BY <1>1, <2>1, <2>3, <2>7 DEF I!Expire, LinksInv
    <3> QED BY <1>2, <2>4, <2>5, <3>1, NoLinkIsDead
  <2> QED BY <1>6, <2>6, <2>7
<1>7. CASE I!FinishDelivery
  <2> DEFINE n == identityWorker.id
  <2>1. CASE n \notin I!Links
    <3>1. UNCHANGED link
      BY <1>1, <1>7, <2>1 DEF I!FinishDelivery, LinksInv
    <3> QED BY <1>3, <3>1
  <2>2. CASE n \in I!Links
    <3>1. PICK k \in LinkRecords : k = link[n]
      BY <1>1, <2>2 DEF LinksInv
    <3>2. ASSUME NEW status \in {"sent", "failed"} PROVE I!Delivered(k, status) \in LinkRecords /\ Follows(I!Delivered(k, status), k)
      <4>1. PICK r : r = [k EXCEPT !.status = status, !.leased = FALSE, !.attempts = 0]
        OBVIOUS
      <4>2. r \in LinkRecords /\ r.kind = k.kind /\ r.expired = k.expired /\ r.to = k.to
        BY <4>1 DEF LinkRecords
      <4> QED BY <4>1, <4>2 DEF I!Delivered, Follows
    <3>3. PICK s : s = [k EXCEPT !.leased = FALSE, !.status = "pending"]
      OBVIOUS
    <3>4. s \in LinkRecords /\ Follows(s, k)
      <4>1. s \in LinkRecords /\ s.kind = k.kind /\ s.expired = k.expired /\ s.to = k.to
        BY <3>3 DEF LinkRecords
      <4> QED BY <4>1 DEF Follows
    <3>5. Follows(I!NoLink, k)
      BY NoLinkIsDead DEF Follows
    <3>6. \/ UNCHANGED link
          \/ link' = [link EXCEPT ![n] = I!NoLink]
          \/ link' = [link EXCEPT ![n] = I!Delivered(k, "sent")]
          \/ link' = [link EXCEPT ![n] = I!Delivered(k, "failed")]
          \/ link' = [link EXCEPT ![n] = s]
      <4>1. [link EXCEPT ![n].leased = FALSE, ![n].status = "pending"] = [link EXCEPT ![n] = s]
        BY <1>1, <2>2, <3>1, <3>3 DEF LinksInv
      <4>2. \A status : [link EXCEPT ![n] = I!Delivered(@, status)] = [link EXCEPT ![n] = I!Delivered(k, status)]
        BY <1>1, <2>2, <3>1 DEF LinksInv
      <4> QED BY <1>7, <4>1, <4>2 DEF I!FinishDelivery
    <3> QED BY <1>2, <1>3, <2>2, <3>1, <3>2, <3>4, <3>5, <3>6, NoLinkIsDead
  <2> QED BY <2>1, <2>2
<1> QED BY <1>4, <1>5, <1>6, <1>7

\* Ending sessions.
LEMMA RevokeFamilyYields ==
  ASSUME NEW family
  PROVE  /\ I!RevokeFamily(family) = [t \in I!Tokens |-> I!RevokeFamily(family)[t]]
         /\ \A t \in I!Tokens : I!RevokeFamily(family)[t] = token[t] \/ (token[t].state = "live" /\ I!RevokeFamily(family)[t] = I!Revoked(t))
  BY DEF I!RevokeFamily, I!Live

LEMMA RevokeAllYields ==
  ASSUME TokensInv
  PROVE  /\ I!RevokeAllForUser = [t \in I!Tokens |-> I!RevokeAllForUser[t]]
         /\ \A t \in I!Tokens : I!RevokeAllForUser[t] = token[t] \/ (token[t].state = "live" /\ I!RevokeAllForUser[t] = I!Revoked(t))
         /\ \A t \in I!Tokens : I!RevokeAllForUser[t].state # "live"
<1>1. ASSUME NEW t \in I!Tokens PROVE I!Revoked(t).state # "live"
  <2>1. PICK k \in TokenRecords : k = token[t]
    BY DEF TokensInv
  <2>2. PICK x : x = [k EXCEPT !.state = "revoked", !.since = 0]
    OBVIOUS
  <2>3. x.state = "revoked"
    BY <2>2 DEF TokenRecords
  <2> QED BY <2>1, <2>2, <2>3 DEF I!Revoked
<1> QED BY <1>1 DEF I!RevokeAllForUser, I!Live

LEMMA UpdatePasswordYields ==
  ASSUME identityAccount \in Accounts, I!UpdatePasswordHash
  PROVE  /\ identityAccount' \in Accounts /\ identityAccount'.state = identityAccount.state
         /\ identityAccount'.email = identityAccount.email
<1>1. PICK k \in Accounts : k = identityAccount
  OBVIOUS
<1>2. PICK v \in Nat : v = k.version + 1
  BY DEF Accounts
<1>3. PICK x : x = [k EXCEPT !.password = v, !.version = v]
  OBVIOUS
<1>4. x \in Accounts /\ x.state = k.state /\ x.email = k.email
  BY <1>3 DEF Accounts
<1>5. identityAccount' = x
  BY <1>1, <1>2, <1>3 DEF I!UpdatePasswordHash
<1> QED BY <1>1, <1>4, <1>5

LEMMA InvalidationFollows ==
  ASSUME NEW ls \in [I!Links -> LinkRecords], \A n \in I!Links : Follows(ls[n], link[n]), NEW kinds
  PROVE  /\ I!Invalidate(ls, kinds) \in [I!Links -> LinkRecords]
         /\ \A n \in I!Links : Follows(I!Invalidate(ls, kinds)[n], link[n])
  BY InvalidateYields, NoLinkIsDead DEF Follows

LEMMA QueueFollows ==
  ASSUME NEW ls \in [I!Links -> LinkRecords], \A n \in I!Links : Follows(ls[n], link[n]), NEW m \in I!Links,
         NEW kind \in {"reset", "verify", "change", "changed"}, NEW address \in Emails, NEW v \in Nat,
         identityAccount'.state # "none"
  PROVE  /\ I!QueueDelivery(ls, m, kind, address, v) \in [I!Links -> LinkRecords]
         /\ \A n \in I!Links : Follows(I!QueueDelivery(ls, m, kind, address, v)[n], link[n])
<1>1. I!QueueDelivery(ls, m, kind, address, v) \in [I!Links -> LinkRecords]
  BY QueueDeliveryYields
<1>2. ASSUME NEW n \in I!Links PROVE Follows(I!QueueDelivery(ls, m, kind, address, v)[n], link[n])
  <2>1. CASE n = m
    BY <2>1, QueueDeliveryYields DEF Follows
  <2>2. CASE n # m
    BY <2>2, QueueDeliveryYields
  <2> QED BY <2>1, <2>2
<1> QED BY <1>1, <1>2

LEMMA LinksFollowThemselves ==
  ASSUME LinksInv PROVE link \in [I!Links -> LinkRecords] /\ \A n \in I!Links : Follows(link[n], link[n])
  BY DEF LinksInv, Follows

LEMMA RegisterKeepsInv ==
  ASSUME AccountsInv, NEW a \in Addresses, I!Register(a) PROVE AccountsInv'
<1>1. PICK x : x = [state |-> "active", password |-> 1, version |-> 1, email |-> a, verified |-> FALSE]
  OBVIOUS
<1>2. identityAccount' = x /\ x \in Accounts /\ x.state = "active" /\ x.version = 1 /\ x.email = a
  BY <1>1 DEF I!Register, Accounts, Emails
<1>3. identityAccount.state = "none" /\ I!TokenLeft /\ I!LinkLeft /\ UNCHANGED busy
  BY DEF I!Register, I!issueTokens
<1>4. PICK q \in I!Tokens : q = I!NextToken /\ token[q].state = "none"
  BY <1>3, NextTokenIsUnused
<1>5. token' = [token EXCEPT ![q] = [state |-> "live", family |-> q, since |-> identityAccount'.version]]
  BY <1>2, <1>4 DEF I!Register, I!issueTokens, I!CreateToken
<1>6. \A t \in I!Tokens : token[t].state = "none"
  BY <1>3 DEF AccountsInv, TokensInv
<1>7. TokensInv'
  <2>1. TokensInv /\ token \in [I!Tokens -> TokenRecords] /\ identityAccount' \in Accounts /\ I!Active'
    BY <1>2 DEF AccountsInv, TokensInv, I!Active
  <2>2. ReadIsTyped'
    BY <1>3, <2>1 DEF TokensInv, ReadIsTyped
  <2>3. \A t \in I!Tokens : token[t].state = "live" => token[t].family # q
    BY <1>6
  <2>4. PICK r : r = [state |-> "live", family |-> q, since |-> identityAccount'.version]
    OBVIOUS
  <2>5. r \in TokenRecords /\ r.state = "live" /\ r.family = q /\ r.since = identityAccount'.version
    BY <1>2, <2>4 DEF TokenRecords, I!Tokens
  <2>6. token' = [token EXCEPT ![q] = r]
    BY <1>5, <2>4
  <2>7. token' \in [I!Tokens -> TokenRecords] /\ token'[q] = r /\ \A t \in I!Tokens : t # q => token'[t] = token[t]
    BY <2>1, <2>5, <2>6
  <2> QED BY <1>3, <1>4, <2>1, <2>2, <2>3, <2>5, <2>7, NewTokenKeepsInv
<1>8. LinksInv'
  <2>1. LinksInv /\ I!NextLink \in I!Links
    BY <1>3, NextLinkIsFree DEF AccountsInv
  <2>2. link' = I!QueueDelivery(I!Invalidate(link, {"verify"}), I!NextLink, "verify", a, 0)
    BY DEF I!Register, I!IssueVerification
  <2>3. /\ I!Invalidate(link, {"verify"}) \in [I!Links -> LinkRecords]
        /\ \A n \in I!Links : Follows(I!Invalidate(link, {"verify"})[n], link[n])
    BY <2>1, LinksFollowThemselves, InvalidationFollows
  <2>4. a \in Emails /\ 0 \in Nat /\ identityAccount'.state # "none"
    BY <1>2 DEF Emails
  <2>5. link' \in [I!Links -> LinkRecords] /\ \A n \in I!Links : Follows(link'[n], link[n])
    BY <2>1, <2>2, <2>3, <2>4, QueueFollows
  <2>6. \A n \in I!Links : link[n].kind = "none"
    BY <1>3, <2>1 DEF LinksInv
  <2>7. \A n \in I!Links : link'[n].kind \in {"reset", "verify"} => link'[n].to = {}
    BY <2>5, <2>6 DEF Follows
  <2> QED BY <2>1, <2>4, <2>5, <2>7, LinksKeepInv
<1> QED BY <1>7, <1>8 DEF AccountsInv

LEMMA RefreshKeepsInv ==
  ASSUME AccountsInv, I!login \/ I!refreshToken PROVE AccountsInv'
<1>1. UNCHANGED <<identityAccount, link>> /\ busy' = I!Idle
  BY DEF I!login, I!refreshToken
<1>2. LinksInv' /\ TokensInv /\ identityAccount \in Accounts /\ token \in [I!Tokens -> TokenRecords]
  BY <1>1, LinksRest DEF AccountsInv, TokensInv
<1>3. ReadIsTyped'
  BY <1>1 DEF I!Idle, ReadIsTyped
<1>4. CASE UNCHANGED token
  BY <1>1, <1>2, <1>3, <1>4, TokensRest DEF AccountsInv
<1>5. CASE I!Active /\ I!TokenLeft /\ token' = I!CreateToken(token, I!NextToken, identityAccount.version)
  <2>1. PICK q \in I!Tokens : q = I!NextToken /\ token[q].state = "none"
    BY <1>5, NextTokenIsUnused
  <2>2. token' = [token EXCEPT ![q] = [state |-> "live", family |-> q, since |-> identityAccount'.version]]
    BY <1>1, <1>5, <2>1 DEF I!CreateToken
  <2>3. \A t \in I!Tokens : token[t].state = "live" => token[t].family # q
    BY <1>2, <2>1 DEF TokensInv
  <2>4. I!Active' /\ identityAccount' \in Accounts
    BY <1>1, <1>2, <1>5 DEF I!Active
  <2>6. PICK r : r = [state |-> "live", family |-> q, since |-> identityAccount'.version]
    OBVIOUS
  <2>7. r \in TokenRecords /\ r.state = "live" /\ r.family = q /\ r.since = identityAccount'.version
    BY <2>4, <2>6 DEF Accounts, TokenRecords, I!Tokens
  <2>8. token' = [token EXCEPT ![q] = r]
    BY <2>2, <2>6
  <2>9. token' \in [I!Tokens -> TokenRecords] /\ token'[q] = r /\ \A t \in I!Tokens : t # q => token'[t] = token[t]
    BY <1>2, <2>7, <2>8
  <2>5. TokensInv'
    BY <1>1, <1>2, <1>3, <2>1, <2>3, <2>4, <2>7, <2>9, NewTokenKeepsInv
  <2> QED BY <1>2, <2>5 DEF AccountsInv
<1>6. CASE /\ I!refreshToken /\ I!Active /\ I!Live(busy.id) /\ I!TokenLeft
           /\ token' = I!CreateToken(I!RevokeToken(busy.id), token[busy.id].family, token[busy.id].since)
  <2>1. PICK q \in I!Tokens : q = I!NextToken /\ token[q].state = "none"
    BY <1>6, NextTokenIsUnused
  <2>2. PICK b \in I!Tokens : b = busy.id
    BY <1>2, <1>6 DEF TokensInv, ReadIsTyped, I!refreshToken
  <2>3. PICK k \in TokenRecords : k = token[b]
    BY <1>2
  <2>4. PICK x : x = [k EXCEPT !.state = "revoked", !.since = 0]
    OBVIOUS
  <2>5. x \in TokenRecords /\ x.state = "revoked" /\ x.family = k.family
    BY <2>4 DEF TokenRecords
  <2>6. PICK base : base = [token EXCEPT ![b] = x]
    OBVIOUS
  <2>7. k.state = "live" /\ k.since = identityAccount.version /\ k.family \in I!Tokens /\ token[k.family].state # "none"
    BY <1>2, <1>6, <2>2, <2>3 DEF I!Live, TokensInv, I!SessionsAreCurrent
  <2>8. base \in [I!Tokens -> TokenRecords] /\ base[b] = x /\ \A t \in I!Tokens : t # b => base[t] = token[t]
    BY <1>2, <2>5, <2>6
  <2>9. token' = [base EXCEPT ![q] = [state |-> "live", family |-> k.family, since |-> identityAccount'.version]]
    BY <1>1, <1>6, <2>1, <2>2, <2>3, <2>4, <2>6, <2>7 DEF I!CreateToken, I!RevokeToken, I!Revoked
  <2>10. \A t \in I!Tokens :
            base[t] = token[t] \/ (base[t].state = "revoked" /\ base[t].family = token[t].family /\ token[t].state # "none")
    BY <2>3, <2>5, <2>7, <2>8
  <2>11. \A t \in I!Tokens : base[t].state = "live" => base[t].family # k.family
    BY <1>2, <2>3, <2>5, <2>7, <2>8 DEF TokensInv, I!SessionsAreCurrent, I!Live
  <2>12. I!Active' /\ identityAccount' \in Accounts
    BY <1>1, <1>2, <1>6 DEF I!Active
  <2>13. PICK r : r = [state |-> "live", family |-> k.family, since |-> identityAccount'.version]
    OBVIOUS
  <2>14. r \in TokenRecords /\ r.state = "live" /\ r.family = k.family /\ r.since = identityAccount'.version
    BY <2>12, <2>13 DEF Accounts, TokenRecords
  <2>15. token' = [base EXCEPT ![q] = r]
    BY <2>9, <2>13
  <2>16. token' \in [I!Tokens -> TokenRecords] /\ token'[q] = r /\ \A t \in I!Tokens : t # q => token'[t] = base[t]
    BY <2>8, <2>14, <2>15
  <2>17. \A t \in I!Tokens : t # q =>
            /\ token'[t] = token[t] \/ (token'[t].state = "revoked" /\ token'[t].family = token[t].family /\ token[t].state # "none")
            /\ token'[t].state = "live" => token'[t].family # token'[q].family
    BY <2>10, <2>11, <2>14, <2>16
  <2>18. TokensInv'
    BY <1>1, <1>2, <1>3, <2>1, <2>7, <2>12, <2>14, <2>16, <2>17, NewTokenKeepsInv
  <2> QED BY <1>2, <2>18 DEF AccountsInv
<1>7. CASE I!login
  BY <1>4, <1>5, <1>7 DEF I!login, I!issueTokens, I!sameCredentials
<1>8. CASE I!refreshToken
  BY <1>4, <1>6, <1>8 DEF I!refreshToken, I!issueTokensForFamily
<1> QED BY <1>7, <1>8

LEMMA EndsOfSessionsKeepInv ==
  ASSUME AccountsInv,
         \/ \E t \in I!Tokens : I!Logout(t)
         \/ \E family : I!RevokeSession(family) \/ \E all \in BOOLEAN : I!Revoke(family, all)
         \/ \E active \in BOOLEAN : I!setActive(active)
  PROVE  AccountsInv'
<1>1. TokensInv /\ LinksInv /\ identityAccount \in Accounts
  BY DEF AccountsInv, TokensInv
<1>2. UNCHANGED <<link, busy>>
  BY DEF I!Logout, I!RevokeSession, I!Revoke, I!setActive
<1>3. ReadIsTyped'
  BY <1>1, <1>2 DEF TokensInv, ReadIsTyped
<1>4. ASSUME UNCHANGED identityAccount, NEW family, token' = I!RevokeFamily(family) \/ token' = I!RevokeAllForUser
      PROVE AccountsInv'
  <2>1. token' = [t \in I!Tokens |-> token'[t]] /\ \A t \in I!Tokens : token'[t] = token[t] \/ (token[t].state = "live" /\ token'[t] = I!Revoked(t))
    BY <1>1, <1>4, RevokeFamilyYields, RevokeAllYields
  <2>2. CASE identityAccount.state = "none"
    <3>1. \A t \in I!Tokens : token[t].state = "none"
      BY <1>1, <2>2 DEF TokensInv
    <3>2. \A t \in I!Tokens : token'[t] = token[t]
      BY <2>1, <3>1
    <3>3. token = [t \in I!Tokens |-> token[t]]
      BY <1>1 DEF TokensInv
    <3>4. UNCHANGED token
      BY <2>1, <3>2, <3>3
    <3> QED BY <1>1, <1>2, <1>3, <1>4, <3>4, TokensRest, LinksRest DEF AccountsInv
  <2>3. CASE identityAccount.state # "none"
    <3>1. TokensInv'
      BY <1>1, <1>3, <1>4, <2>1, <2>3, RevocationKeepsInv
    <3> QED BY <1>1, <1>2, <1>4, <3>1, LinksRest DEF AccountsInv
  <2> QED BY <2>2, <2>3
<1>5. ASSUME NEW active \in BOOLEAN, I!setActive(active) PROVE AccountsInv'
  <2>1. PICK a \in Accounts : a = identityAccount
    BY <1>1
  <2>2. PICK x : x = [a EXCEPT !.state = IF active THEN "active" ELSE "disabled"]
    OBVIOUS
  <2>3. /\ x \in Accounts /\ x.version = a.version /\ x.email = a.email
        /\ x.state = IF active THEN "active" ELSE "disabled"
    BY <2>2 DEF Accounts
  <2>4. identityAccount' = x /\ a.state # "none"
    BY <1>5, <2>1, <2>2 DEF I!setActive
  <2>5. LinksInv'
    BY <1>1, <1>2, <2>1, <2>3, <2>4, LinksRest
  <2>6. CASE active
    <3>1. UNCHANGED token /\ x.state = "active"
      BY <1>5, <2>3, <2>6 DEF I!setActive
    <3>2. TokensInv'
      BY <1>1, <1>2, <2>1, <2>3, <2>4, <3>1 DEF TokensInv, ReadIsTyped, I!SessionsAreCurrent, I!Live, I!Active
    <3> QED BY <2>5, <3>2 DEF AccountsInv
  <2>7. CASE ~active
    <3>1. token' = I!RevokeAllForUser
      BY <1>5, <2>7 DEF I!setActive
    <3>2. /\ token' = [t \in I!Tokens |-> token'[t]] /\ \A t \in I!Tokens : token'[t].state # "live"
          /\ \A t \in I!Tokens : token'[t] = token[t] \/ (token[t].state = "live" /\ token'[t] = I!Revoked(t))
      BY <1>1, <3>1, RevokeAllYields
    <3>3. identityAccount' \in Accounts /\ identityAccount'.state # "none"
      BY <2>3, <2>4
    <3>4. TokensInv'
      BY <1>1, <1>3, <3>2, <3>3, RevocationKeepsInv
    <3> QED BY <2>5, <3>4 DEF AccountsInv
  <2> QED BY <2>6, <2>7
<1>6. ASSUME NEW t \in I!Tokens, I!Logout(t) PROVE AccountsInv'
  BY <1>4, <1>6 DEF I!Logout
<1>7. ASSUME NEW family, I!RevokeSession(family) \/ \E all \in BOOLEAN : I!Revoke(family, all) PROVE AccountsInv'
  <2>1. UNCHANGED identityAccount /\ (token' = I!RevokeFamily(family) \/ token' = I!RevokeAllForUser)
    BY <1>7 DEF I!RevokeSession, I!Revoke
  <2> QED BY <1>4, <2>1
<1> QED BY <1>5, <1>6, <1>7

\* The credentials change, and with them every session ends.
LEMMA CredentialsKeepInv ==
  ASSUME AccountsInv,
         \/ I!resetPassword \/ I!ChangePassword
         \/ \E n \in I!Links : I!ConfirmEmailChange(n) \/ I!UseVerification(n)
  PROVE  AccountsInv'
<1>1. TokensInv /\ LinksInv /\ identityAccount \in Accounts /\ link \in [I!Links -> LinkRecords]
  BY DEF AccountsInv, TokensInv, LinksInv
<1>2. ASSUME token' = I!RevokeAllForUser, identityAccount' \in Accounts, identityAccount'.state # "none",
             ReadIsTyped'
      PROVE TokensInv'
  BY <1>1, <1>2, RevokeAllYields, RevocationKeepsInv
<1>3. ASSUME I!UpdatePasswordHash, token' = I!RevokeAllForUser, busy' = I!Idle, I!Active,
             link' = I!Invalidate(link, {"reset"}) \/ link' = I!Invalidate(I!Invalidate(link, {"change"}), {"reset"})
      PROVE AccountsInv'
  <2>1. /\ identityAccount' \in Accounts /\ identityAccount'.state = identityAccount.state
        /\ identityAccount'.email = identityAccount.email
    BY <1>1, <1>3, UpdatePasswordYields
  <2>2. link' \in [I!Links -> LinkRecords] /\ \A n \in I!Links : Follows(link'[n], link[n])
    <3>1. \A n \in I!Links : Follows(link[n], link[n])
      BY <1>1, LinksFollowThemselves
    <3>2. /\ I!Invalidate(link, {"change"}) \in [I!Links -> LinkRecords]
          /\ \A n \in I!Links : Follows(I!Invalidate(link, {"change"})[n], link[n])
      BY <1>1, <3>1, InvalidationFollows
    <3> QED BY <1>1, <1>3, <3>1, <3>2, InvalidationFollows
  <2>3. identityAccount'.state # "none" /\ ReadIsTyped'
    BY <1>3, <2>1 DEF I!Active, I!Idle, ReadIsTyped
  <2>4. LinksInv'
    BY <1>1, <2>1, <2>2, LinksKeepInv
  <2> QED BY <1>2, <1>3, <2>1, <2>3, <2>4 DEF AccountsInv
<1>4. ASSUME UNCHANGED <<identityAccount, token, link>>, busy' = I!Idle PROVE AccountsInv'
  <2>1. ReadIsTyped'
    BY <1>4 DEF I!Idle, ReadIsTyped
  <2> QED BY <1>1, <1>4, <2>1, TokensRest, LinksRest DEF AccountsInv
<1>5. CASE I!resetPassword
  BY <1>3, <1>4, <1>5 DEF I!resetPassword, I!InvalidateForUser
<1>6. CASE I!ChangePassword
  <2>1. I!actor(busy.id) => I!Active
    BY DEF I!actor, I!SessionActive
  <2> QED BY <1>3, <1>4, <1>6, <2>1 DEF I!ChangePassword, I!InvalidateForUser, I!InvalidateEmailChanges
<1>7. ASSUME NEW n \in I!Links, I!ConfirmEmailChange(n) PROVE AccountsInv'
  <2>1. PICK a \in Accounts : a = identityAccount
    BY <1>1
  <2>2. PICK address \in Emails : address = link[n].address
    BY <1>1 DEF LinkRecords
  <2>3. PICK v \in Nat : v = a.version + 1
    BY DEF Accounts
  <2>4. PICK x : x = [a EXCEPT !.email = address, !.verified = TRUE, !.version = v]
    OBVIOUS
  <2>5. x \in Accounts /\ x.state = a.state /\ a.state = "active" /\ a.email \in Emails
    BY <1>7, <2>1, <2>4 DEF Accounts, I!ConfirmEmailChange, I!Active
  <2>6. identityAccount' = x
    BY <1>7, <2>1, <2>2, <2>3, <2>4 DEF I!ConfirmEmailChange, I!CompleteEmailChange
  <2>7. identityAccount' \in Accounts /\ identityAccount'.state # "none"
    BY <2>5, <2>6
  <2>8. TokensInv'
    BY <1>1, <1>2, <1>7, <2>7 DEF I!ConfirmEmailChange, TokensInv, ReadIsTyped
  <2>9. PICK ls : ls = I!Invalidate(link, {"change", "verify"})
    OBVIOUS
  <2>10. PICK lt : lt = I!Invalidate(ls, {"reset"})
    OBVIOUS
  <2>11. ls \in [I!Links -> LinkRecords] /\ \A k \in I!Links : Follows(ls[k], link[k]) /\ ls[k].kind # "verify"
    BY <1>1, <2>9, LinksFollowThemselves, InvalidationFollows, InvalidateYields, NoLinkIsDead
  <2>12. lt \in [I!Links -> LinkRecords] /\ \A k \in I!Links : Follows(lt[k], link[k]) /\ lt[k].kind \notin {"reset", "verify"}
    <3>1. lt \in [I!Links -> LinkRecords] /\ \A k \in I!Links : Follows(lt[k], link[k])
      BY <2>10, <2>11, InvalidationFollows
    <3>2. \A k \in I!Links : lt[k] = IF ls[k].kind \in {"reset"} THEN I!NoLink ELSE ls[k]
      BY <2>10, <2>11, InvalidateYields
    <3> QED BY <2>11, <3>1, <3>2, NoLinkIsDead
  <2>13. link' = I!QueueDelivery(lt, n, "changed", a.email, 0)
    BY <1>7, <2>1, <2>9, <2>10 DEF I!ConfirmEmailChange, I!CompleteEmailChange, I!InvalidateForUser
  <2>14. link' \in [I!Links -> LinkRecords] /\ \A k \in I!Links : Follows(link'[k], link[k])
    BY <2>5, <2>7, <2>12, <2>13, QueueFollows
  <2>15. link'[n].to = {} /\ \A k \in I!Links : k # n => link'[k] = lt[k]
    BY <2>5, <2>12, <2>13, QueueDeliveryYields
  <2>16. \A k \in I!Links : link'[k].kind \in {"reset", "verify"} => link'[k].to = {}
    BY <2>12, <2>15
  <2>17. LinksInv'
    BY <1>1, <2>7, <2>14, <2>16, LinksKeepInv
  <2> QED BY <2>8, <2>17 DEF AccountsInv
<1>8. ASSUME NEW n \in I!Links, I!UseVerification(n) PROVE AccountsInv'
  <2>1. PICK a \in Accounts : a = identityAccount
    BY <1>1
  <2>2. PICK x : x = [a EXCEPT !.verified = TRUE]
    OBVIOUS
  <2>3. x \in Accounts /\ x.state = a.state /\ x.version = a.version /\ x.email = a.email
    BY <2>2 DEF Accounts
  <2>4. identityAccount' = x /\ UNCHANGED <<token, busy>> /\ link' = [link EXCEPT ![n] = I!NoLink]
    BY <1>8, <2>1, <2>2 DEF I!UseVerification
  <2>5. TokensInv'
    BY <1>1, <2>1, <2>3, <2>4 DEF TokensInv, ReadIsTyped, I!SessionsAreCurrent, I!Live, I!Active
  <2>6. link' \in [I!Links -> LinkRecords] /\ link'[n] = I!NoLink /\ \A k \in I!Links : k # n => link'[k] = link[k]
    BY <1>1, <2>4, NoLinkIsDead
  <2>7. \A k \in I!Links : Follows(link'[k], link[k])
    BY <1>1, <2>6, LinksFollowThemselves, NoLinkIsDead DEF Follows
  <2>8. LinksInv'
    BY <1>1, <2>1, <2>3, <2>4, <2>6, <2>7, LinksKeepInv
  <2> QED BY <2>5, <2>8 DEF AccountsInv
<1> QED BY <1>5, <1>6, <1>7, <1>8

LEMMA NewLinksKeepInv ==
  ASSUME AccountsInv, I!requestPasswordReset \/ I!RequestEmailChange \/ I!Resend PROVE AccountsInv'
<1>1. TokensInv /\ LinksInv /\ identityAccount \in Accounts /\ UNCHANGED <<identityAccount, token>>
  BY DEF AccountsInv, TokensInv, I!requestPasswordReset, I!RequestEmailChange, I!Resend
<1>2. (busy' = busy \/ busy' = I!Idle) /\ I!LinkLeft
  BY DEF I!requestPasswordReset, I!RequestEmailChange, I!Resend
<1>3. TokensInv'
  BY <1>1, <1>2, TokensRest DEF TokensInv, ReadIsTyped, I!Idle
<1>4. CASE UNCHANGED link
  BY <1>1, <1>3, <1>4, LinksRest DEF AccountsInv
<1>5. ASSUME I!Active, NEW kinds, NEW kind \in {"reset", "verify", "change"}, NEW address \in Emails, NEW v \in Nat,
             link' = I!QueueDelivery(I!Invalidate(link, kinds), I!NextLink, kind, address, v)
      PROVE AccountsInv'
  <2>1. I!NextLink \in I!Links /\ identityAccount'.state # "none"
    BY <1>1, <1>2, <1>5, NextLinkIsFree DEF I!Active
  <2>2. /\ I!Invalidate(link, kinds) \in [I!Links -> LinkRecords]
        /\ \A n \in I!Links : Follows(I!Invalidate(link, kinds)[n], link[n])
    BY <1>1, LinksFollowThemselves, InvalidationFollows
  <2>3. link' \in [I!Links -> LinkRecords] /\ \A n \in I!Links : Follows(link'[n], link[n])
    BY <1>5, <2>1, <2>2, QueueFollows
  <2>4. LinksInv'
    BY <1>1, <2>3, LinksKeepInv
  <2> QED BY <1>3, <2>4 DEF AccountsInv
<1>6. "none" \in Emails /\ 0 \in Nat /\ identityAccount.email \in Emails /\ identityAccount.version \in Nat
  BY <1>1 DEF Emails, Accounts
<1>7. CASE I!requestPasswordReset
  BY <1>5, <1>6, <1>7 DEF I!requestPasswordReset, I!InvalidateForUser
<1>8. CASE I!Resend
  BY <1>5, <1>6, <1>8 DEF I!Resend, I!IssueVerification
<1>9. CASE I!RequestEmailChange
  <2>1. CASE I!actor(busy.id)
    <3>1. I!Active
      BY <2>1 DEF I!actor, I!SessionActive
    <3>2. busy.email \in Emails
      BY <1>1, <1>9 DEF TokensInv, ReadIsTyped, I!RequestEmailChange
    <3> QED BY <1>4, <1>5, <1>6, <1>9, <2>1, <3>1, <3>2 DEF I!RequestEmailChange, I!IssueEmailChange, I!InvalidateEmailChanges
  <2>2. CASE ~I!actor(busy.id)
    BY <1>4, <1>9, <2>2 DEF I!RequestEmailChange
  <2> QED BY <2>1, <2>2
<1> QED BY <1>7, <1>8, <1>9

LEMMA NextKeepsAccountsInv == AccountsInv /\ I!Next => AccountsInv'
<1> SUFFICES ASSUME AccountsInv, I!Next PROVE AccountsInv'
  OBVIOUS
<1>1. TokensInv /\ LinksInv /\ identityAccount \in Accounts
  BY DEF AccountsInv, TokensInv
<1>2. ASSUME NEW a \in Addresses, I!Register(a) PROVE AccountsInv'
  BY <1>2, RegisterKeepsInv
<1>3. ASSUME \/ I!checkCredentials
             \/ \E t \in I!Tokens : I!FindActiveByHash(t)
             \/ \E n \in I!Links : I!FindUsableByHash(n)
             \/ \E family : I!checkedPassword(family, "password", "none") \/ \E a \in Addresses : I!checkedPassword(family, "email", a)
      PROVE AccountsInv'
  <2>1. UNCHANGED <<identityAccount, token, link>>
    BY <1>3 DEF I!checkCredentials, I!FindActiveByHash, I!FindUsableByHash, I!checkedPassword
  <2>2. ReadIsTyped'
    <3>1. ASSUME I!checkCredentials \/ \E n \in I!Links : I!FindUsableByHash(n) PROVE ReadIsTyped'
      <4>1. I!checkCredentials => busy'.op = "login"
        BY DEF I!Snapshot, I!checkCredentials
      <4>2. ASSUME NEW n \in I!Links, I!FindUsableByHash(n) PROVE busy'.op = "reset"
        BY <4>2 DEF I!Idle, I!FindUsableByHash
      <4> QED BY <3>1, <4>1, <4>2 DEF ReadIsTyped
    <3>2. ASSUME NEW t \in I!Tokens, I!FindActiveByHash(t) PROVE ReadIsTyped'
      <4>1. busy'.op = "refresh" /\ busy'.id = t
        BY <3>2 DEF I!Idle, I!FindActiveByHash
      <4> QED BY <4>1 DEF ReadIsTyped
    <3>3. ASSUME NEW family, I!checkedPassword(family, "password", "none") PROVE ReadIsTyped'
      <4>1. busy'.op = "password"
        BY <3>3 DEF I!Snapshot, I!checkedPassword
      <4> QED BY <4>1 DEF ReadIsTyped
    <3>4. ASSUME NEW family, NEW a \in Addresses, I!checkedPassword(family, "email", a) PROVE ReadIsTyped'
      <4>1. busy'.op = "email" /\ busy'.email = a
        BY <3>4 DEF I!Snapshot, I!checkedPassword
      <4> QED BY <4>1 DEF ReadIsTyped, Emails
    <3> QED BY <1>3, <3>1, <3>2, <3>3, <3>4
  <2> QED BY <1>1, <2>1, <2>2, TokensRest, LinksRest DEF AccountsInv
<1>4. ASSUME I!SweepOnly \/ I!FinishDelivery \/ I!NotifyReset \/ \E n \in I!Links : I!ClaimDelivery(n) \/ I!LeaseEnds(n) \/ I!Expire(n)
      PROVE AccountsInv'
  <2>1. UNCHANGED <<identityAccount, token, busy>>
    BY <1>4 DEF I!SweepOnly, I!FinishDelivery, I!NotifyReset, I!ClaimDelivery, I!LeaseEnds, I!Expire
  <2>2. TokensInv'
    BY <1>1, <2>1, TokensRest DEF TokensInv, ReadIsTyped
  <2>3. LinksInv'
    BY <1>4, <2>1, NotifyKeepsLinks, DeliveryKeepsLinks
  <2> QED BY <2>2, <2>3 DEF AccountsInv
<1>5. CASE I!Crash
  <2>1. UNCHANGED <<identityAccount, token, busy, link>>
    BY <1>5 DEF I!Crash
  <2>2. TokensInv'
    BY <1>1, <2>1, TokensRest DEF TokensInv, ReadIsTyped
  <2> QED BY <1>1, <2>1, <2>2, LinksRest DEF AccountsInv
<1>6. CASE I!login \/ I!refreshToken
  BY <1>6, RefreshKeepsInv
<1>7. CASE \/ \E t \in I!Tokens : I!Logout(t)
           \/ \E family : I!RevokeSession(family) \/ \E all \in BOOLEAN : I!Revoke(family, all)
           \/ \E active \in BOOLEAN : I!setActive(active)
  BY <1>7, EndsOfSessionsKeepInv
<1>8. CASE \/ I!resetPassword \/ I!ChangePassword
           \/ \E n \in I!Links : I!ConfirmEmailChange(n) \/ I!UseVerification(n)
  BY <1>8, CredentialsKeepInv
<1>9. CASE I!requestPasswordReset \/ I!RequestEmailChange \/ I!Resend
  BY <1>9, NewLinksKeepInv
<1> QED BY <1>2, <1>3, <1>4, <1>5, <1>6, <1>7, <1>8, <1>9 DEF I!Next, I!Deliver

-----------------------------------------------------------------------------
(* A request, its token and the keys.                                      *)

Configs ==
  [public : SUBSET {"old", "new"}, signing : {"old", "new"}, key : {"k1", "k2"}, hashes : SUBSET {"k1", "k2"},
   legacyUntil : {Lifetime}]

Bearers == [kid : {"none", "legacy", "old", "new"}, session : Nat, role : {"buyer", "admin"}, until : Nat]

RequestRecords ==
  [phase : {"idle", "parsed", "admin", "over"}, route : {"own", "seller", "admin", "public"}, token : Bearers,
   with : Configs \cup {I!NoRequest.with}, live : BOOLEAN,
   result : {"none", "unauthorized", "unavailable", "anonymous", "admitted", "forbidden"},
   acts : {"none", "vendor", "buyer", "admin"}]

RequestsTyped ==
  /\ subject \in [role : {"buyer", "admin"}, active : BOOLEAN]
  /\ env \in Configs /\ running \in [{"identity", "order"} -> Configs]
  /\ rotation \in {"token", "service"} \X (0 .. 3)
  /\ session \in Nat /\ bearer \in Bearers /\ req \in RequestRecords
  /\ identityNow \in Nat /\ switched \in Nat

\* How far the token keys are rotated.
Stage == IF rotation[1] = "token" THEN rotation[2] ELSE 0

Trusted(n) == IF n = 0 THEN {"old"} ELSE IF n = 3 THEN {"new"} ELSE {"old", "new"}
Signing(n) == IF n \in {0, 1} THEN "old" ELSE "new"

\* A process runs with the configuration of this stage or of the one before, and
\* a token whose key is no longer trusted has expired.
KeysInv ==
  /\ env.public = Trusted(Stage) /\ env.signing = Signing(Stage)
  /\ \A p \in {"identity", "order"} :
       /\ running[p].public = Trusted(Stage) \/ (Stage # 0 /\ running[p].public = Trusted(Stage - 1))
       /\ running[p].signing = Signing(Stage) \/ (Stage # 0 /\ running[p].signing = Signing(Stage - 1))
  /\ bearer.kid # "none" /\ bearer.until <= identityNow + Lifetime
  /\ bearer.kid = "legacy" => bearer.until = Lifetime
  /\ bearer.kid = "new" => Stage \in {2, 3}
  /\ (bearer.kid = "old" /\ Stage = 2 /\ running["identity"].signing = "new") => bearer.until <= switched + Lifetime
  /\ (bearer.kid = "old" /\ Stage = 3) => bearer.until <= identityNow

\* While a request is under way its session can only end.
AnswersInv ==
  /\ req.phase = "parsed" /\ I!SessionAnswers(req.token) => req.live
  /\ req.phase = "admin" => req.live
  /\ I!AdmittedWasLive /\ I!NoOneIsSignedOut

RequestsInv == RequestsTyped /\ KeysInv /\ AnswersInv

LEMMA NoRequestIsTyped == I!NoRequest \in RequestRecords /\ I!NoRequest.phase = "idle"
<1>1. PICK w : w = I!NoRequest.with
  OBVIOUS
<1>2. I!NoBearer \in Bearers
  BY DEF I!NoBearer, Bearers
<1>3. I!NoRequest = [phase |-> "idle", route |-> "own", token |-> I!NoBearer, with |-> w, live |-> FALSE, result |-> "none", acts |-> "none"]
  BY <1>1 DEF I!NoRequest
<1> QED BY <1>1, <1>2, <1>3 DEF RequestRecords

LEMMA InitHasRequestsInv == I!AuthInit => RequestsInv
<1> SUFFICES ASSUME I!AuthInit PROVE RequestsInv
  OBVIOUS
<1>1. Lifetime \in Nat
  BY AccessAssumption
<1>2. PICK c : c = I!acceptLegacy
  OBVIOUS
<1>3. c \in Configs /\ c.public = {"old"} /\ c.signing = "old"
  BY <1>2 DEF I!acceptLegacy, Configs
<1>4. env = c /\ running = [p \in {"identity", "order"} |-> c]
  BY <1>2 DEF I!AuthInit, I!Processes
<1>5. rotation \in {"token", "service"} \X (0 .. 3) /\ rotation[2] = 0
  BY DEF I!AuthInit
<1>6. Stage = 0
  BY <1>5 DEF Stage
<1>7. subject \in [role : {"buyer", "admin"}, active : BOOLEAN] /\ session = 1 /\ identityNow = 0 /\ switched = 0
  BY DEF I!AuthInit, I!Roles
<1>8. PICK role \in {"buyer", "admin"} : role = subject.role
  BY <1>7
<1>9. bearer = [kid |-> "legacy", session |-> 1, role |-> role, until |-> Lifetime]
  BY <1>8 DEF I!AuthInit
<1>10. bearer \in Bearers /\ bearer.kid = "legacy" /\ bearer.until = Lifetime
  BY <1>1, <1>9 DEF Bearers
<1>11. req = I!NoRequest
  BY DEF I!AuthInit
<1>12. RequestsTyped
  BY <1>3, <1>4, <1>5, <1>7, <1>10, <1>11, NoRequestIsTyped DEF RequestsTyped
<1>13. KeysInv
  BY <1>1, <1>3, <1>4, <1>6, <1>7, <1>10 DEF KeysInv, Trusted, Signing
<1>14. AnswersInv
  BY <1>11, NoRequestIsTyped DEF AnswersInv, I!AdmittedWasLive, I!NoOneIsSignedOut
<1> QED BY <1>12, <1>13, <1>14 DEF RequestsInv

LEMMA BearerIsTrusted ==
  ASSUME RequestsTyped, KeysInv, identityNow < bearer.until
  PROVE  I!Parse(running["order"], bearer)
<1>1. PICK b \in Bearers : b = bearer
  BY DEF RequestsTyped
<1>2. PICK c \in Configs : c = running["order"]
  BY DEF RequestsTyped
<1>3. Stage \in 0 .. 3
  BY DEF Stage, RequestsTyped
<1>4. CASE b.kid = "legacy"
  <2>1. c.legacyUntil = Lifetime
    BY DEF Configs
  <2> QED BY <1>1, <1>2, <1>4, <2>1 DEF KeysInv, I!Parse
<1>5. CASE b.kid = "new"
  <2>1. "new" \in c.public
    BY <1>1, <1>2, <1>3, <1>5 DEF KeysInv, Trusted
  <2> QED BY <1>1, <1>2, <1>5, <2>1 DEF I!Parse, I!NewVerifier
<1>6. CASE b.kid = "old"
  <2>1. Stage # 3
    BY <1>1, <1>6 DEF KeysInv, RequestsTyped, Bearers
  <2>2. "old" \in c.public
    BY <1>2, <1>3, <2>1 DEF KeysInv, Trusted
  <2> QED BY <1>1, <1>2, <1>6, <2>2 DEF I!Parse, I!NewVerifier
<1> QED BY <1>1, <1>4, <1>5, <1>6 DEF KeysInv, Bearers

\* The operators.
LEMMA RestartKeepsInv ==
  ASSUME RequestsInv, NEW p \in {"identity", "order"}, I!Restart(p) PROVE RequestsTyped' /\ KeysInv'
<1>1. PICK e \in Configs : e = env
  BY DEF RequestsInv, RequestsTyped
<1>2. running' = [running EXCEPT ![p] = e] /\ UNCHANGED <<env, rotation, subject, session, bearer, req, identityNow>>
  BY <1>1 DEF I!Restart
<1>3. /\ running' \in [{"identity", "order"} -> Configs] /\ running'[p] = e
      /\ \A q \in {"identity", "order"} : q # p => running'[q] = running[q]
  BY <1>1, <1>2 DEF RequestsInv, RequestsTyped
<1>4. switched' = IF p = "identity" /\ e.signing # running[p].signing THEN identityNow ELSE switched
  BY <1>1 DEF I!Restart
<1>5. RequestsTyped'
  BY <1>1, <1>2, <1>3, <1>4 DEF RequestsInv, RequestsTyped
<1>6. Stage' = Stage /\ Stage \in 0 .. 3
  BY <1>2 DEF Stage, RequestsInv, RequestsTyped
<1>7. PICK b \in Bearers : b = bearer
  BY DEF RequestsInv, RequestsTyped
<1>8. (b.kid = "old" /\ Stage = 2 /\ running'["identity"].signing = "new") => b.until <= switched' + Lifetime
  <2>1. CASE p = "identity"
    BY <1>3, <1>4, <1>6, <1>7, <2>1 DEF RequestsInv, KeysInv, Signing
  <2>2. CASE p # "identity"
    BY <1>3, <1>4, <1>7, <2>2 DEF RequestsInv, KeysInv
  <2> QED BY <2>1, <2>2
<1>9. \A q \in {"identity", "order"} :
       /\ running'[q].public = Trusted(Stage) \/ (Stage # 0 /\ running'[q].public = Trusted(Stage - 1))
       /\ running'[q].signing = Signing(Stage) \/ (Stage # 0 /\ running'[q].signing = Signing(Stage - 1))
  BY <1>1, <1>3 DEF RequestsInv, KeysInv
<1> QED BY <1>2, <1>5, <1>6, <1>7, <1>8, <1>9 DEF RequestsInv, KeysInv

LEMMA RotationKeepsInv ==
  ASSUME RequestsInv, I!RotateTokenKeys \/ I!RotateServiceKeys PROVE RequestsTyped' /\ KeysInv'
<1>1. UNCHANGED <<running, switched, subject, session, bearer, req, identityNow>>
  BY DEF I!RotateTokenKeys, I!RotateServiceKeys
<1>2. PICK e \in Configs : e = env
  BY DEF RequestsInv, RequestsTyped
<1>3. PICK b \in Bearers : b = bearer
  BY DEF RequestsInv, RequestsTyped
<1>4. running["identity"] = e /\ running["order"] = e
  <2>1. I!Restarted
    BY DEF I!RotateTokenKeys, I!RotateServiceKeys, I!Step
  <2> QED BY <1>2, <2>1 DEF I!Restarted, I!Processes
<1>5. Lifetime \in Nat /\ identityNow \in Nat /\ switched \in Nat /\ b.until \in Nat
  BY <1>3, AccessAssumption DEF RequestsInv, RequestsTyped, Bearers
<1>6. /\ e.public = Trusted(Stage) /\ e.signing = Signing(Stage)
      /\ b.kid # "none" /\ b.until <= identityNow + Lifetime
      /\ b.kid = "legacy" => b.until = Lifetime
      /\ b.kid = "new" => Stage \in {2, 3}
      /\ (b.kid = "old" /\ Stage = 2 /\ e.signing = "new") => b.until <= switched + Lifetime
      /\ (b.kid = "old" /\ Stage = 3) => b.until <= identityNow
  BY <1>2, <1>3, <1>4 DEF RequestsInv, KeysInv
<1>7. ASSUME NEW n \in 0 .. 3, NEW x \in Configs, rotation' \in {"token", "service"} \X (0 .. 3), env' = x, Stage' = n,
             x.public = Trusted(n), x.signing = Signing(n),
             e.public = Trusted(n) \/ (n # 0 /\ e.public = Trusted(n - 1)),
             e.signing = Signing(n) \/ (n # 0 /\ e.signing = Signing(n - 1)),
             b.kid = "new" => n \in {2, 3},
             (b.kid = "old" /\ n = 2 /\ e.signing = "new") => b.until <= switched + Lifetime,
             (b.kid = "old" /\ n = 3) => b.until <= identityNow
      PROVE RequestsTyped' /\ KeysInv'
  <2>1. RequestsTyped'
    BY <1>1, <1>7 DEF RequestsInv, RequestsTyped
  <2>2. KeysInv'
    BY <1>1, <1>3, <1>4, <1>6, <1>7 DEF KeysInv
  <2> QED BY <2>1, <2>2
<1>8. ASSUME NEW n \in 0 .. 2, rotation = <<"token", n>>, rotation' = <<"token", n + 1>>
      PROVE Stage = n /\ Stage' = n + 1 /\ rotation' \in {"token", "service"} \X (0 .. 3) /\ n + 1 \in 0 .. 3
  BY <1>8 DEF Stage
<1>9. CASE I!Step("token", 0) /\ env' = [env EXCEPT !.public = {"old", "new"}]
  <2>1. Stage = 0 /\ Stage' = 1 /\ rotation' \in {"token", "service"} \X (0 .. 3)
    BY <1>8, <1>9 DEF I!Step
  <2>2. PICK x : x = [e EXCEPT !.public = {"old", "new"}]
    OBVIOUS
  <2>3. x \in Configs /\ x.public = {"old", "new"} /\ x.signing = e.signing /\ env' = x
    BY <1>2, <1>9, <2>2 DEF Configs
  <2> QED BY <1>6, <1>7, <2>1, <2>3 DEF Trusted, Signing
<1>10. CASE I!Step("token", 1) /\ env' = [env EXCEPT !.signing = "new"]
  <2>1. Stage = 1 /\ Stage' = 2 /\ rotation' \in {"token", "service"} \X (0 .. 3)
    BY <1>8, <1>10 DEF I!Step
  <2>2. PICK x : x = [e EXCEPT !.signing = "new"]
    OBVIOUS
  <2>3. x \in Configs /\ x.signing = "new" /\ x.public = e.public /\ env' = x
    BY <1>2, <1>10, <2>2 DEF Configs
  <2> QED BY <1>6, <1>7, <2>1, <2>3 DEF Trusted, Signing
<1>11. CASE I!Step("token", 2) /\ identityNow >= switched + Lifetime /\ env' = [env EXCEPT !.public = {"new"}]
  <2>1. Stage = 2 /\ Stage' = 3 /\ rotation' \in {"token", "service"} \X (0 .. 3)
    BY <1>8, <1>11 DEF I!Step
  <2>2. PICK x : x = [e EXCEPT !.public = {"new"}]
    OBVIOUS
  <2>3. x \in Configs /\ x.public = {"new"} /\ x.signing = e.signing /\ env' = x
    BY <1>2, <1>11, <2>2 DEF Configs
  <2>4. e.signing = "new" /\ (b.kid = "old" => b.until <= identityNow)
    BY <1>5, <1>6, <1>11, <2>1 DEF Signing
  <2> QED BY <1>6, <1>7, <2>1, <2>3, <2>4 DEF Trusted, Signing
<1>12. CASE I!RotateServiceKeys
  <2>1. PICK x : x = [e EXCEPT !.key = "k2", !.hashes = {"k1", "k2"}]
    OBVIOUS
  <2>2. PICK y : y = [e EXCEPT !.hashes = {"k2"}]
    OBVIOUS
  <2>3. x \in Configs /\ y \in Configs /\ x.public = e.public /\ y.public = e.public /\ x.signing = e.signing /\ y.signing = e.signing
    BY <2>1, <2>2 DEF Configs
  <2>4. env' = x \/ env' = y
    BY <1>2, <1>12, <2>1, <2>2 DEF I!RotateServiceKeys, I!Keys
  <2>5. PICK n \in 0 .. 1 : rotation = <<"service", n>> /\ rotation' = <<"service", n + 1>>
    BY <1>12 DEF I!RotateServiceKeys, I!Step
  <2>6. Stage = 0 /\ Stage' = 0 /\ rotation' \in {"token", "service"} \X (0 .. 3)
    BY <2>5 DEF Stage
  <2> QED BY <1>6, <1>7, <2>3, <2>4, <2>6
<1> QED BY <1>9, <1>10, <1>11, <1>12 DEF I!RotateTokenKeys, I!Kids

\* The account and the clock.
LEMMA SignInKeepsKeys ==
  ASSUME RequestsInv, I!SignIn PROVE RequestsTyped' /\ KeysInv'
<1>1. UNCHANGED <<env, running, rotation, switched, subject, req, identityNow>>
  BY DEF I!SignIn
<1>2. session' \in Nat
  BY DEF I!SignIn, RequestsInv, RequestsTyped, Bearers
<1>3. PICK c \in Configs : c = running["identity"]
  BY DEF RequestsInv, RequestsTyped
<1>4. PICK role \in {"buyer", "admin"} : role = subject.role
  BY DEF RequestsInv, RequestsTyped
<1>5. PICK until \in Nat : until = identityNow + Lifetime
  BY AccessAssumption DEF RequestsInv, RequestsTyped
<1>6. bearer' = [kid |-> c.signing, session |-> session', role |-> role, until |-> until]
  BY <1>3, <1>4, <1>5 DEF I!SignIn, I!IssueSessionToken
<1>7. bearer' \in Bearers /\ bearer'.kid = c.signing /\ bearer'.until = until
  BY <1>2, <1>6 DEF Bearers, Configs
<1>8. RequestsTyped'
  BY <1>1, <1>2, <1>7 DEF RequestsInv, RequestsTyped
<1>9. Stage' = Stage /\ Stage \in 0 .. 3
  BY <1>1 DEF Stage, RequestsInv, RequestsTyped
<1>10. c.signing \in {"old", "new"} /\ (c.signing = Signing(Stage) \/ (Stage # 0 /\ c.signing = Signing(Stage - 1)))
  BY <1>3 DEF Configs, RequestsInv, KeysInv
<1>11. c.signing = "new" => Stage \in {2, 3}
  BY <1>9, <1>10 DEF Signing
<1>12. c.signing = "old" => Stage # 3
  BY <1>9, <1>10 DEF Signing
<1> QED BY <1>1, <1>3, <1>5, <1>7, <1>8, <1>9, <1>10, <1>11, <1>12 DEF RequestsInv, KeysInv

LEMMA KeysRest ==
  ASSUME RequestsTyped, KeysInv, UNCHANGED <<env, running, rotation, switched, bearer>>, identityNow' \in Nat, identityNow' >= identityNow
  PROVE  KeysInv'
<1>1. Stage' = Stage
  BY DEF Stage
<1>2. Lifetime \in Nat /\ bearer.until \in Nat /\ identityNow \in Nat
  BY AccessAssumption DEF RequestsTyped, Bearers
<1>3. bearer.until <= identityNow + Lifetime => bearer.until <= identityNow' + Lifetime
  BY <1>2
<1>4. bearer.until <= identityNow => bearer.until <= identityNow'
  BY <1>2
<1> QED BY <1>1, <1>3, <1>4 DEF KeysInv

LEMMA AnswersRest ==
  ASSUME RequestsTyped, AnswersInv, UNCHANGED req, identityNow' \in Nat, identityNow' >= identityNow,
         I!SessionAnswers(req.token)' => I!SessionAnswers(req.token)
  PROVE  AnswersInv'
<1>1. req.token.until \in Nat /\ identityNow \in Nat
  BY DEF RequestsTyped, RequestRecords, Bearers
<1>2. identityNow >= req.token.until => identityNow' >= req.token.until
  BY <1>1
<1> QED BY <1>2 DEF AnswersInv, I!AdmittedWasLive, I!NoOneIsSignedOut

LEMMA FinishYields ==
  ASSUME req \in RequestRecords,
         NEW result \in {"none", "unauthorized", "unavailable", "anonymous", "admitted", "forbidden"},
         NEW act \in {"none", "vendor", "buyer", "admin"}, I!Finish(result, act)
  PROVE  /\ req' \in RequestRecords /\ req'.phase = "over" /\ req'.result = result
         /\ req'.token = req.token /\ req'.live = req.live
<1>1. PICK q \in RequestRecords : q = req
  OBVIOUS
<1>2. req' = [q EXCEPT !.phase = "over", !.result = result, !.acts = act]
  BY <1>1 DEF I!Finish
<1>3. req'.phase = "over" /\ req'.result = result /\ req'.token = q.token /\ req'.live = q.live
  BY <1>2 DEF RequestRecords
<1>4. PICK r : r = [q EXCEPT !.phase = "over"]
  OBVIOUS
<1>5. PICK s : s = [r EXCEPT !.result = result]
  OBVIOUS
<1>6. r \in RequestRecords
  BY <1>4 DEF RequestRecords
<1>7. s \in RequestRecords
  BY <1>5, <1>6 DEF RequestRecords
<1>8. req' = [s EXCEPT !.acts = act]
  BY <1>2, <1>4, <1>5
<1>9. req' \in RequestRecords
  BY <1>7, <1>8 DEF RequestRecords
<1> QED BY <1>1, <1>3, <1>9

\* A request is let in only when it was live, and answered 401 only when it was not.
LEMMA FinishedIsTrue ==
  ASSUME RequestsTyped,
         NEW result \in {"none", "unauthorized", "unavailable", "anonymous", "admitted", "forbidden"},
         NEW act \in {"none", "vendor", "buyer", "admin"}, I!Finish(result, act),
         UNCHANGED <<env, running, rotation, switched, subject, session, bearer, identityNow>>,
         result = "admitted" => req.live,
         result = "unauthorized" => ~I!SessionAnswers(req.token)
  PROVE  RequestsTyped' /\ AnswersInv'
<1>1. /\ req' \in RequestRecords /\ req'.phase = "over" /\ req'.result = result
      /\ req'.token = req.token /\ req'.live = req.live
  BY FinishYields DEF RequestsTyped
<1>2. RequestsTyped'
  BY <1>1 DEF RequestsTyped
<1>3. AnswersInv'
  BY <1>1 DEF AnswersInv, I!AdmittedWasLive, I!NoOneIsSignedOut, I!SessionAnswers
<1> QED BY <1>2, <1>3

LEMMA RequireAuthKeepsInv ==
  ASSUME RequestsInv, NEW route \in {"own", "seller", "admin", "public"}, I!RequireAuth(route)
  PROVE  RequestsTyped' /\ AnswersInv'
<1>1. UNCHANGED <<env, running, rotation, switched, subject, session, bearer, identityNow>>
  BY DEF I!RequireAuth
<1>2. PICK b \in Bearers : b = bearer
  BY DEF RequestsInv, RequestsTyped
<1>3. PICK c \in Configs : c = running["order"]
  BY DEF RequestsInv, RequestsTyped
<1>4. PICK live \in BOOLEAN : live = (I!SessionAnswers(bearer) /\ identityNow < bearer.until)
  OBVIOUS
<1>5. PICK ph \in {"parsed", "over"} : ph = IF I!Parse(running["order"], bearer) THEN "parsed" ELSE "over"
  OBVIOUS
<1>6. PICK result \in {"none", "anonymous", "unauthorized"} :
         result = IF I!Parse(running["order"], bearer) THEN "none" ELSE I!Refused(route, "unauthorized")
  BY DEF I!Refused
<1>7. req' = [phase |-> ph, route |-> route, token |-> b, with |-> c, live |-> live, result |-> result, acts |-> "none"]
  BY <1>2, <1>3, <1>4, <1>5, <1>6 DEF I!RequireAuth
<1>8. req' \in RequestRecords /\ req'.phase = ph /\ req'.token = b /\ req'.live = live /\ req'.result = result
  BY <1>7 DEF RequestRecords
<1>9. RequestsTyped'
  BY <1>1, <1>8 DEF RequestsInv, RequestsTyped
<1>10. I!Parse(running["order"], bearer) => identityNow < bearer.until
  BY DEF I!Parse
<1>11. ~I!Parse(running["order"], bearer) => identityNow >= bearer.until
  BY BearerIsTrusted DEF RequestsInv, RequestsTyped, Bearers
<1>12. I!SessionAnswers(bearer)' = I!SessionAnswers(bearer)
  BY <1>1 DEF I!SessionAnswers
<1>13. AnswersInv'
  <2>1. req'.phase = "parsed" /\ I!SessionAnswers(req.token)' => req'.live
    BY <1>1, <1>2, <1>4, <1>5, <1>8, <1>10, <1>12 DEF I!SessionAnswers
  <2>2. I!AdmittedWasLive' /\ req'.phase # "admin"
    BY <1>8 DEF I!AdmittedWasLive
  <2>3. I!NoOneIsSignedOut'
    BY <1>1, <1>2, <1>5, <1>8, <1>11 DEF I!NoOneIsSignedOut
  <2> QED BY <2>1, <2>2, <2>3 DEF AnswersInv
<1> QED BY <1>9, <1>13

LEMMA VerifiedKeepsInv ==
  ASSUME RequestsInv, NEW answered \in BOOLEAN, I!Verified(answered)
  PROVE  RequestsTyped' /\ AnswersInv'
<1>1. UNCHANGED <<env, running, rotation, switched, subject, session, bearer, identityNow>> /\ req.phase = "parsed"
  BY DEF I!Verified
<1>2. PICK q \in RequestRecords : q = req
  BY DEF RequestsInv, RequestsTyped
<1>3. PICK called \in BOOLEAN : called = (answered /\ I!Authenticate(req.with.key))
  OBVIOUS
<1>4. PICK answer \in {"unavailable", "valid", "invalid"} : answer = I!RemoteVerifier(called)
  BY DEF I!RemoteVerifier, I!VerifySession
<1>5. answer = "valid" => I!SessionAnswers(req.token)
  BY <1>4 DEF I!RemoteVerifier, I!VerifySession
<1>6. answer = "invalid" => ~I!SessionAnswers(req.token)
  BY <1>4 DEF I!RemoteVerifier, I!VerifySession
<1>7. answer = "valid" => req.live
  BY <1>1, <1>5 DEF RequestsInv, AnswersInv
<1>8. ASSUME NEW result \in {"none", "unauthorized", "unavailable", "anonymous", "admitted", "forbidden"},
             NEW act \in {"none", "vendor", "buyer", "admin"}, I!Finish(result, act),
             result = "admitted" => answer = "valid", result = "unauthorized" => answer = "invalid"
      PROVE RequestsTyped' /\ AnswersInv'
  BY <1>1, <1>6, <1>7, <1>8, FinishedIsTrue DEF RequestsInv
<1>9. \/ answer = "unavailable" /\ I!Finish(I!Refused(req.route, "unavailable"), "none")
      \/ answer = "invalid" /\ I!Finish(I!Refused(req.route, "unauthorized"), "none")
      \/ /\ answer = "valid"
         /\ \/ I!Finish("admitted", "vendor") \/ req' = [req EXCEPT !.phase = "admin"]
            \/ I!Finish("admitted", req.token.role) \/ I!Finish("forbidden", "none")
  <2>1. CASE answer = "unavailable"
    BY <1>3, <1>4, <2>1 DEF I!Verified
  <2>2. CASE answer = "invalid"
    BY <1>3, <1>4, <2>2 DEF I!Verified
  <2>3. CASE answer = "valid"
    BY <1>3, <1>4, <2>3 DEF I!Verified
  <2> QED BY <2>1, <2>2, <2>3
<1>10. CASE answer = "unavailable" /\ I!Finish(I!Refused(req.route, "unavailable"), "none")
  BY <1>8, <1>10 DEF I!Refused
<1>11. CASE answer = "invalid" /\ I!Finish(I!Refused(req.route, "unauthorized"), "none")
  BY <1>8, <1>11 DEF I!Refused
<1>12. CASE answer = "valid" /\ (I!Finish("admitted", "vendor") \/ I!Finish("admitted", req.token.role) \/ I!Finish("forbidden", "none"))
  <2>1. req.token.role \in {"buyer", "admin"}
    BY <1>2 DEF RequestRecords, Bearers
  <2> QED BY <1>8, <1>12, <2>1
<1>13. CASE answer = "valid" /\ req' = [req EXCEPT !.phase = "admin"]
  <2>1. req' \in RequestRecords /\ req'.phase = "admin" /\ req'.live = req.live
    BY <1>2, <1>13 DEF RequestRecords
  <2>2. RequestsTyped'
    BY <1>1, <2>1 DEF RequestsInv, RequestsTyped
  <2>3. AnswersInv'
    BY <1>7, <1>13, <2>1 DEF AnswersInv, I!AdmittedWasLive, I!NoOneIsSignedOut
  <2> QED BY <2>2, <2>3
<1> QED BY <1>9, <1>10, <1>11, <1>12, <1>13

LEMMA RequireRoleKeepsInv ==
  ASSUME RequestsInv, NEW answered \in BOOLEAN, I!RequireRole(answered)
  PROVE  RequestsTyped' /\ AnswersInv'
<1>1. UNCHANGED <<env, running, rotation, switched, subject, session, bearer, identityNow>> /\ req.live
  BY DEF I!RequireRole, RequestsInv, AnswersInv
<1>2. I!Finish("unavailable", "none") \/ I!Finish("admitted", "admin") \/ I!Finish("forbidden", "none")
  BY DEF I!RequireRole
<1> QED BY <1>1, <1>2, FinishedIsTrue DEF RequestsInv

LEMMA NextKeepsRequestsInv == RequestsInv /\ I!AuthNext => RequestsInv'
<1> SUFFICES ASSUME RequestsInv, I!AuthNext PROVE RequestsInv'
  OBVIOUS
<1>1. RequestsTyped /\ KeysInv /\ AnswersInv /\ identityNow \in Nat
  BY DEF RequestsInv, RequestsTyped
<1>2. ASSUME UNCHANGED <<env, running, rotation, switched, subject, session, bearer, identityNow>>, RequestsTyped', AnswersInv'
      PROVE RequestsInv'
  BY <1>1, <1>2, KeysRest DEF RequestsInv
<1>3. ASSUME RequestsTyped', KeysInv', UNCHANGED <<subject, session, req, identityNow>> PROVE RequestsInv'
  <2>1. AnswersInv'
    BY <1>1, <1>3, AnswersRest DEF I!SessionAnswers
  <2> QED BY <1>3, <2>1 DEF RequestsInv
<1>4. ASSUME NEW p \in I!Processes, I!Restart(p) PROVE RequestsInv'
  BY <1>3, <1>4, RestartKeepsInv DEF I!Processes, I!Restart
<1>5. CASE I!RotateTokenKeys \/ I!RotateServiceKeys
  BY <1>3, <1>5, RotationKeepsInv DEF I!RotateTokenKeys, I!RotateServiceKeys
<1>6. CASE I!SignIn
  <2>1. UNCHANGED req /\ req.phase = "idle"
    BY <1>6 DEF I!SignIn
  <2>2. AnswersInv'
    BY <2>1 DEF AnswersInv, I!AdmittedWasLive, I!NoOneIsSignedOut
  <2> QED BY <1>6, <2>2, SignInKeepsKeys DEF RequestsInv
<1>7. CASE I!SessionRevoked \/ I!SetActive
  <2>1. UNCHANGED <<env, running, rotation, switched, bearer, req, identityNow>> /\ session' = 0
    BY <1>7 DEF I!SessionRevoked, I!SetActive
  <2>2. subject' \in [role : {"buyer", "admin"}, active : BOOLEAN]
    <3>1. PICK s \in [role : {"buyer", "admin"}, active : BOOLEAN] : s = subject
      BY <1>1 DEF RequestsTyped
    <3>2. subject' = s \/ subject' = [s EXCEPT !.active = FALSE]
      BY <1>7, <3>1 DEF I!SessionRevoked, I!SetActive
    <3> QED BY <3>2
  <2>3. RequestsTyped'
    BY <1>1, <2>1, <2>2 DEF RequestsTyped
  <2>4. AnswersInv'
    BY <1>1, <2>1, AnswersRest DEF I!SessionAnswers
  <2>5. KeysInv'
    BY <1>1, <2>1, KeysRest
  <2> QED BY <2>3, <2>4, <2>5 DEF RequestsInv
<1>8. CASE I!Tick
  <2>1. UNCHANGED <<env, running, rotation, switched, subject, session, bearer, req>> /\ identityNow' = identityNow + 1
    BY <1>8 DEF I!Tick
  <2>2. identityNow' \in Nat /\ identityNow' >= identityNow
    BY <1>1, <2>1
  <2>3. RequestsTyped'
    BY <1>1, <2>1, <2>2 DEF RequestsTyped
  <2>4. AnswersInv'
    BY <1>1, <2>1, <2>2, AnswersRest DEF I!SessionAnswers
  <2>5. KeysInv'
    BY <1>1, <2>1, <2>2, KeysRest
  <2> QED BY <2>3, <2>4, <2>5 DEF RequestsInv
<1>9. ASSUME NEW route \in I!Routes, I!RequireAuth(route) PROVE RequestsInv'
  BY <1>2, <1>9, RequireAuthKeepsInv DEF I!Routes, I!RequireAuth
<1>10. ASSUME NEW answered \in BOOLEAN, I!Verified(answered) PROVE RequestsInv'
  BY <1>2, <1>10, VerifiedKeepsInv DEF I!Verified
<1>11. ASSUME NEW answered \in BOOLEAN, I!RequireRole(answered) PROVE RequestsInv'
  BY <1>2, <1>11, RequireRoleKeepsInv DEF I!RequireRole
<1>12. CASE I!Done
  <2>1. UNCHANGED <<env, running, rotation, switched, subject, session, bearer, identityNow>> /\ req' = I!NoRequest
    BY <1>12 DEF I!Done
  <2>2. PICK q \in RequestRecords : q = I!NoRequest /\ q.phase = "idle"
    BY NoRequestIsTyped
  <2>3. RequestsTyped'
    BY <1>1, <2>1, <2>2 DEF RequestsTyped
  <2>4. AnswersInv'
    BY <2>1, <2>2 DEF AnswersInv, I!AdmittedWasLive, I!NoOneIsSignedOut
  <2> QED BY <1>2, <2>1, <2>3, <2>4
<1> QED BY <1>4, <1>5, <1>6, <1>7, <1>8, <1>9, <1>10, <1>11, <1>12 DEF I!AuthNext

-----------------------------------------------------------------------------
(* An admin's grants and the change another admin makes.                   *)

Bundled == Bundles \cup {AccessManage}

ChangeRecords ==
  [phase : {"idle", "looked", "allowed"}, actor : Admins \cup {"none"}, subject : Admins \cup {"none"},
   version : Nat, seen : SUBSET Bundled]

\* Each save counts, so a version seen and not outdated means grants not changed.
ChangesInv ==
  /\ adminHeld \in [Admins -> SUBSET Bundled] /\ adminVersion \in [Admins -> Nat]
  /\ adminRequest \in [Requests -> ChangeRecords]
  /\ \A r \in Requests : adminRequest[r].phase # "idle" =>
       /\ adminRequest[r].subject \in Admins
       /\ adminRequest[r].version <= adminVersion[adminRequest[r].subject]
       /\ adminRequest[r].version = adminVersion[adminRequest[r].subject] => adminRequest[r].seen = adminHeld[adminRequest[r].subject]

LEMMA NoChangeIsTyped == A!NoRequest \in ChangeRecords /\ A!NoRequest.phase = "idle"
  BY DEF A!NoRequest, ChangeRecords

LEMMA SavedGrantsKeepInv ==
  ASSUME ChangesInv, NEW a \in Admins, NEW grants \in SUBSET Bundled, A!SaveGrants(a, grants),
         adminRequest' \in [Requests -> ChangeRecords],
         \A r \in Requests : adminRequest'[r] = adminRequest[r] \/ adminRequest'[r].phase = "idle"
  PROVE  ChangesInv'
<1>1. /\ adminHeld' \in [Admins -> SUBSET Bundled] /\ adminVersion' \in [Admins -> Nat]
      /\ adminVersion'[a] = adminVersion[a] + 1
      /\ \A b \in Admins : b # a => adminHeld'[b] = adminHeld[b] /\ adminVersion'[b] = adminVersion[b]
  BY DEF ChangesInv, A!SaveGrants
<1>2. ASSUME NEW r \in Requests, adminRequest'[r].phase # "idle"
      PROVE /\ adminRequest'[r].subject \in Admins
            /\ adminRequest'[r].version <= adminVersion'[adminRequest'[r].subject]
            /\ adminRequest'[r].version = adminVersion'[adminRequest'[r].subject] => adminRequest'[r].seen = adminHeld'[adminRequest'[r].subject]
  <2>1. PICK q \in ChangeRecords : q = adminRequest[r] /\ adminRequest'[r] = q /\ q.phase # "idle"
    BY <1>2 DEF ChangesInv
  <2>2. PICK s \in Admins : s = q.subject
    BY <2>1 DEF ChangesInv
  <2>3. q.version <= adminVersion[s] /\ (q.version = adminVersion[s] => q.seen = adminHeld[s])
    BY <2>1, <2>2 DEF ChangesInv
  <2>4. q.version \in Nat /\ adminVersion[s] \in Nat
    BY <2>1, <2>2 DEF ChangesInv, ChangeRecords
  <2>5. CASE s = a
    BY <1>1, <2>1, <2>2, <2>3, <2>4, <2>5
  <2>6. CASE s # a
    BY <1>1, <2>1, <2>2, <2>3, <2>6
  <2> QED BY <2>5, <2>6
<1> QED BY <1>1, <1>2 DEF ChangesInv

LEMMA ChangesRest ==
  ASSUME ChangesInv, UNCHANGED <<adminHeld, adminVersion>>, NEW r \in Requests, NEW q \in ChangeRecords,
         adminRequest' = [adminRequest EXCEPT ![r] = q],
         \/ q.phase = "idle"
         \/ /\ adminRequest[r].phase # "idle"
            /\ q.subject = adminRequest[r].subject /\ q.version = adminRequest[r].version /\ q.seen = adminRequest[r].seen
         \/ q.subject \in Admins /\ q.version = adminVersion[q.subject] /\ q.seen = adminHeld[q.subject]
  PROVE  ChangesInv'
<1>1. adminRequest' \in [Requests -> ChangeRecords] /\ adminRequest'[r] = q /\ \A k \in Requests : k # r => adminRequest'[k] = adminRequest[k]
  BY DEF ChangesInv
<1>2. q.phase # "idle" =>
        /\ q.subject \in Admins /\ q.version <= adminVersion[q.subject]
        /\ q.version = adminVersion[q.subject] => q.seen = adminHeld[q.subject]
  <2>1. CASE q.subject \in Admins /\ q.version = adminVersion[q.subject] /\ q.seen = adminHeld[q.subject]
    BY <2>1 DEF ChangesInv
  <2>2. CASE adminRequest[r].phase # "idle"
    BY <2>1, <2>2 DEF ChangesInv
  <2> QED BY <2>1, <2>2
<1> QED BY <1>1, <1>2 DEF ChangesInv

LEMMA InitHasChangesInv == A!Init => ChangesInv
  BY NoChangeIsTyped DEF A!Init, ChangesInv

LEMMA ReauthenticationKeepsChanges == ASSUME ChangesInv, UNCHANGED <<adminHeld, adminVersion, adminRequest>> PROVE ChangesInv'
  BY DEF ChangesInv

LEMMA ChangeAccessKeepsChanges ==
  ASSUME ChangesInv, A!ChangeAccess PROVE ChangesInv' /\ A!ChangesFollowReading
<1>1. ASSUME NEW a \in Admins, A!BootstrapAccessManager(a) PROVE ChangesInv' /\ A!ChangesFollowReading
  <2>1. A!SaveGrants(a, adminHeld[a] \cup {AccessManage}) /\ UNCHANGED adminRequest
    BY <1>1 DEF A!BootstrapAccessManager
  <2>2. adminHeld[a] \cup {AccessManage} \in SUBSET Bundled
    BY DEF ChangesInv, Bundled
  <2>3. ChangesInv'
    BY <2>1, <2>2, SavedGrantsKeepInv DEF ChangesInv
  <2>4. A!ChangesFollowReading
    BY <2>1, NoChangeIsTyped DEF A!ChangesFollowReading
  <2> QED BY <2>3, <2>4
<1>2. ASSUME NEW r \in Requests, NEW actor \in Admins, NEW subj \in Admins, A!ListSubjects(r, actor, subj)
      PROVE ChangesInv' /\ A!ChangesFollowReading
  <2>1. UNCHANGED <<adminHeld, adminVersion>>
    BY <1>2 DEF A!ListSubjects
  <2>2. PICK q : q = [phase |-> "looked", actor |-> actor, subject |-> subj, version |-> adminVersion[subj], seen |-> adminHeld[subj]]
    OBVIOUS
  <2>3. q \in ChangeRecords /\ q.subject = subj /\ q.version = adminVersion[subj] /\ q.seen = adminHeld[subj]
    BY <2>2 DEF ChangesInv, ChangeRecords
  <2>4. adminRequest' = [adminRequest EXCEPT ![r] = q]
    BY <1>2, <2>2 DEF A!ListSubjects
  <2>5. ChangesInv'
    BY <2>1, <2>3, <2>4, ChangesRest
  <2> QED BY <2>1, <2>5 DEF A!ChangesFollowReading
<1>3. ASSUME NEW r \in Requests, A!require(r) PROVE ChangesInv' /\ A!ChangesFollowReading
  <2>1. UNCHANGED <<adminHeld, adminVersion>> /\ adminRequest[r].phase = "looked"
    BY <1>3 DEF A!require
  <2>2. PICK k \in ChangeRecords : k = adminRequest[r]
    BY DEF ChangesInv
  <2>3. PICK q : q = [k EXCEPT !.phase = "allowed"]
    OBVIOUS
  <2>4. q \in ChangeRecords /\ q.subject = k.subject /\ q.version = k.version /\ q.seen = k.seen
    BY <2>3 DEF ChangeRecords
  <2>5. adminRequest' = [adminRequest EXCEPT ![r] = q] \/ adminRequest' = [adminRequest EXCEPT ![r] = A!NoRequest]
    BY <1>3, <2>2, <2>3 DEF A!require, ChangesInv
  <2>6. ChangesInv'
    BY <2>1, <2>2, <2>4, <2>5, ChangesRest, NoChangeIsTyped
  <2> QED BY <2>1, <2>6 DEF A!ChangesFollowReading
<1>4. ASSUME NEW r \in Requests, NEW bundle \in Bundles, A!Grant(r, bundle) \/ A!Revoke(r, bundle)
      PROVE ChangesInv' /\ A!ChangesFollowReading
  <2>1. adminRequest[r].phase = "allowed" /\ adminRequest' = [adminRequest EXCEPT ![r] = A!NoRequest]
    BY <1>4 DEF A!Grant, A!Revoke
  <2>2. PICK s \in Admins : s = adminRequest[r].subject
    BY <2>1 DEF ChangesInv
  <2>3. /\ adminRequest' \in [Requests -> ChangeRecords]
        /\ \A k \in Requests : k # r => adminRequest'[k] = adminRequest[k]
        /\ adminRequest'[r].phase = "idle"
    BY <2>1, NoChangeIsTyped DEF ChangesInv
  <2>4. \/ UNCHANGED <<adminHeld, adminVersion>>
        \/ A!bumpVersion(r) /\ (A!SaveGrants(s, adminHeld[s] \cup {bundle}) \/ A!SaveGrants(s, adminHeld[s] \ {bundle}))
    <3>1. CASE A!Grant(r, bundle)
      BY <2>2, <3>1 DEF A!Grant
    <3>2. CASE A!Revoke(r, bundle)
      BY <2>2, <3>2 DEF A!Revoke
    <3> QED BY <1>4, <3>1, <3>2
  <2>5. CASE UNCHANGED <<adminHeld, adminVersion>>
    <3>1. ChangesInv'
      BY <2>1, <2>5, ChangesRest, NoChangeIsTyped
    <3> QED BY <2>5, <3>1 DEF A!ChangesFollowReading
  <2>6. CASE A!bumpVersion(r) /\ (A!SaveGrants(s, adminHeld[s] \cup {bundle}) \/ A!SaveGrants(s, adminHeld[s] \ {bundle}))
    <3>1. adminHeld[s] \cup {bundle} \in SUBSET Bundled /\ adminHeld[s] \ {bundle} \in SUBSET Bundled
      BY DEF ChangesInv, Bundled
    <3>2. ChangesInv'
      BY <2>3, <2>6, <3>1, SavedGrantsKeepInv
    <3>3. adminHeld[s] = adminRequest[r].seen
      BY <2>1, <2>2, <2>6 DEF A!bumpVersion, ChangesInv
    <3>4. A!ChangesFollowReading
      BY <2>2, <2>3, <3>3, NoChangeIsTyped DEF A!ChangesFollowReading
    <3> QED BY <3>2, <3>4
  <2> QED BY <2>4, <2>5, <2>6
<1> QED BY <1>1, <1>2, <1>3, <1>4 DEF A!ChangeAccess

LEMMA NextKeepsChangesInv == ChangesInv /\ A!Next => ChangesInv' /\ A!ChangesFollowReading
<1> SUFFICES ASSUME ChangesInv, A!Next PROVE ChangesInv' /\ A!ChangesFollowReading
  OBVIOUS
<1>1. A!Reauthenticate => UNCHANGED <<adminHeld, adminVersion, adminRequest>>
  BY DEF A!Reauthenticate, A!access, A!Tick, A!Start, A!Confirm, A!PasswordMatches, A!RequireFactor, A!GiveUp,
         A!CreateProof, A!Perform, A!ProofExpires
<1>2. CASE A!Reauthenticate
  BY <1>1, <1>2, ReauthenticationKeepsChanges DEF A!ChangesFollowReading
<1>3. CASE A!ChangeAccess
  BY <1>3, ChangeAccessKeepsChanges
<1> QED BY <1>2, <1>3 DEF A!Next

-----------------------------------------------------------------------------
(* The second factor: every code spent pays for one proof, and every proof  *)
(* for one operation.                                                      *)

Slots == 1 .. MaxProofs

ProofRecords ==
  [state : {"none", "fresh", "consumed", "expired"}, admin : Admins \cup {"none"}, op : Operations \cup {"none"}]
FactorRecords == [state : {"none", "started", "confirmed"}, lastUsed : Nat]
ReauthRecords == [phase : {"idle", "password", "factor"}, op : Operations \cup {"none"}]

Proofs(a) == {n \in Slots : proof[n].state # "none" /\ proof[n].admin = a}
Consumed(a, op) == {n \in Slots : proof[n].state = "consumed" /\ proof[n].admin = a /\ proof[n].op = op}

ProofsTyped ==
  /\ proof \in [Slots -> ProofRecords] /\ totp \in [Admins -> FactorRecords]
  /\ codes \in [Admins -> SUBSET RecoveryCodes] /\ reauth \in [Admins -> ReauthRecords]
  /\ done \in [Admins -> [Operations -> Nat]]
  /\ spent = [a \in Admins |-> spent[a]] /\ \A a \in Admins : IsFiniteSet(spent[a])

\* A code is accepted once: its step is behind the last one used, a recovery
\* code is no longer on the list, and there is no other before the authenticator
\* is confirmed.
CodesInv ==
  \A a \in Admins :
    /\ totp[a].state # "confirmed" => spent[a] = {} /\ codes[a] = {}
    /\ \A step \in Nat : <<"step", step>> \in spent[a] => step <= totp[a].lastUsed
    /\ \A code \in codes[a] : <<"code", code>> \notin spent[a]

\* A reauthentication that passed its factor still has its proof to come.
ProofsInv ==
  \A a \in Admins :
    /\ Cardinality(Proofs(a)) + (IF reauth[a].phase = "factor" THEN 1 ELSE 0) <= Cardinality(spent[a])
    /\ \A op \in Operations : done[a][op] <= Cardinality(Consumed(a, op))

FactorInv == ProofsTyped /\ CodesInv /\ ProofsInv

LEMMA SlotsAreFinite ==
  /\ \A a : IsFiniteSet(Proofs(a)) /\ Cardinality(Proofs(a)) \in Nat
  /\ \A a, op : IsFiniteSet(Consumed(a, op)) /\ Cardinality(Consumed(a, op)) \in Nat
<1>1. IsFiniteSet(Slots)
  <2>1. MaxProofs \in Nat
    BY AccessAssumption
  <2>2. 1 \in Int /\ MaxProofs \in Int
    BY <2>1
  <2> QED BY <2>2, FS_Interval DEF Slots
<1>2. \A S \in SUBSET Slots : IsFiniteSet(S) /\ Cardinality(S) \in Nat
  BY <1>1, FS_Subset, FS_CardinalityType
<1>3. \A a : Proofs(a) \in SUBSET Slots
  BY DEF Proofs
<1>4. \A a, op : Consumed(a, op) \in SUBSET Slots
  BY DEF Consumed
<1> QED BY <1>2, <1>3, <1>4

LEMMA SpentIsCounted == ASSUME ProofsTyped PROVE \A a \in Admins : Cardinality(spent[a]) \in Nat
  BY FS_CardinalityType DEF ProofsTyped

LEMMA SameCardinality == \A S : A!Cardinality(S) = Cardinality(S)
  BY DEF A!Cardinality, Cardinality

LEMMA FactorInvProves == FactorInv => A!OperationsAreProven
<1> SUFFICES ASSUME FactorInv PROVE A!OperationsAreProven
  OBVIOUS
<1>1. ASSUME NEW a \in Admins PROVE Cardinality(Proofs(a)) <= Cardinality(spent[a])
  BY SlotsAreFinite, SpentIsCounted DEF FactorInv, ProofsInv
<1>2. ASSUME NEW a \in Admins, NEW op \in Operations
      PROVE done[a][op] <= Cardinality({n \in Proofs(a) : proof[n].op = op})
  <2>1. PICK P : P = {n \in Proofs(a) : proof[n].op = op}
    OBVIOUS
  <2>2. P \subseteq Proofs(a) /\ Consumed(a, op) \subseteq P
    BY <2>1 DEF Proofs, Consumed
  <2>3. IsFiniteSet(P) /\ Cardinality(P) \in Nat
    BY <2>2, SlotsAreFinite, FS_Subset, FS_CardinalityType
  <2>4. Cardinality(Consumed(a, op)) <= Cardinality(P)
    BY <2>2, <2>3, FS_Subset
  <2>5. done[a][op] \in Nat /\ Cardinality(Consumed(a, op)) \in Nat /\ done[a][op] <= Cardinality(Consumed(a, op))
    BY SlotsAreFinite DEF FactorInv, ProofsTyped, ProofsInv
  <2>6. done[a][op] <= Cardinality(P)
    BY <2>3, <2>4, <2>5
  <2> QED BY <2>1, <2>6
<1>3. \A a : Proofs(a) = {n \in 1 .. MaxProofs : proof[n].state # "none" /\ proof[n].admin = a}
  BY DEF Proofs, Slots
<1> HIDE DEF Proofs
<1>4. ASSUME NEW a \in Admins
      PROVE /\ Cardinality({n \in 1 .. MaxProofs : proof[n].state # "none" /\ proof[n].admin = a}) <= Cardinality(spent[a])
            /\ \A op \in Operations :
                 done[a][op] <= Cardinality({m \in {n \in 1 .. MaxProofs : proof[n].state # "none" /\ proof[n].admin = a} : proof[m].op = op})
  <2>1. PICK P : P = Proofs(a)
    OBVIOUS
  <2>2. P = {n \in 1 .. MaxProofs : proof[n].state # "none" /\ proof[n].admin = a}
    BY <1>3, <2>1
  <2>3. Cardinality(P) <= Cardinality(spent[a]) /\ \A op \in Operations : done[a][op] <= Cardinality({m \in P : proof[m].op = op})
    BY <1>1, <1>2, <2>1
  <2> QED BY <2>2, <2>3, Zenon
<1> QED BY <1>4, SameCardinality, Zenon DEF A!OperationsAreProven

LEMMA InitHasFactorInv == A!Init => FactorInv
<1> SUFFICES ASSUME A!Init PROVE FactorInv
  OBVIOUS
<1>1. /\ totp = [a \in Admins |-> A!NotEnrolled] /\ codes = [a \in Admins |-> {}] /\ reauth = [a \in Admins |-> A!NoReauth]
      /\ spent = [a \in Admins |-> {}] /\ done = [a \in Admins |-> [op \in Operations |-> 0]]
      /\ proof = [n \in Slots |-> [state |-> "none", admin |-> "none", op |-> "none"]]
  BY DEF A!Init, Slots
<1>2. IsFiniteSet({}) /\ Cardinality({}) = 0
  BY FS_EmptySet
<1>3. A!NotEnrolled \in FactorRecords /\ A!NotEnrolled.state = "none" /\ A!NoReauth \in ReauthRecords /\ A!NoReauth.phase = "idle"
  BY DEF A!NotEnrolled, A!NoReauth, FactorRecords, ReauthRecords
<1>4. [state |-> "none", admin |-> "none", op |-> "none"] \in ProofRecords
  BY DEF ProofRecords
<1>5. ProofsTyped
  BY <1>1, <1>2, <1>3, <1>4 DEF ProofsTyped
<1>6. CodesInv
  BY <1>1, <1>3 DEF CodesInv
<1>7. ASSUME NEW a \in Admins PROVE Proofs(a) = {} /\ \A op \in Operations : Consumed(a, op) = {}
  <2>1. PICK r : r = [state |-> "none", admin |-> "none", op |-> "none"]
    OBVIOUS
  <2>2. proof = [n \in Slots |-> r]
    BY <1>1, <2>1
  <2>3. r.state = "none"
    BY <2>1
  <2>4. \A n \in Slots : proof[n].state = "none"
    BY <2>2, <2>3
  <2> QED BY <2>4 DEF Proofs, Consumed
<1>8. ProofsInv
  <2>1. ASSUME NEW a \in Admins
        PROVE /\ Cardinality(Proofs(a)) = 0 /\ Cardinality(spent[a]) = 0 /\ reauth[a].phase # "factor"
              /\ \A op \in Operations : Cardinality(Consumed(a, op)) = 0 /\ done[a][op] = 0
    <3>1. reauth[a] = A!NoReauth /\ spent[a] = {} /\ \A op \in Operations : done[a][op] = 0
      BY <1>1
    <3> QED BY <1>2, <1>3, <1>7, <3>1
  <2> QED BY <2>1 DEF ProofsInv
<1> QED BY <1>5, <1>6, <1>8 DEF FactorInv

\* Nobody's sets of proofs change as long as the proofs do not.
LEMMA ProofsStay == UNCHANGED proof => \A a : Proofs(a)' = Proofs(a) /\ \A op : Consumed(a, op)' = Consumed(a, op)
  BY DEF Proofs, Consumed

\* An enrolment spends nothing.
LEMMA EnrolmentKeepsInv ==
  ASSUME FactorInv, NEW a \in Admins, NEW t \in FactorRecords, NEW cs \in SUBSET RecoveryCodes,
         UNCHANGED <<proof, reauth, spent, done>>, totp[a].state # "confirmed",
         totp' = [totp EXCEPT ![a] = t], codes' = [codes EXCEPT ![a] = cs],
         t.state # "confirmed" => cs = {}
  PROVE  FactorInv'
<1>1. /\ totp' \in [Admins -> FactorRecords] /\ totp'[a] = t /\ \A b \in Admins : b # a => totp'[b] = totp[b]
      /\ codes' \in [Admins -> SUBSET RecoveryCodes] /\ codes'[a] = cs /\ \A b \in Admins : b # a => codes'[b] = codes[b]
  BY DEF FactorInv, ProofsTyped
<1>2. ProofsTyped'
  BY <1>1 DEF FactorInv, ProofsTyped
<1>3. spent[a] = {}
  BY DEF FactorInv, CodesInv
<1>4. CodesInv'
  BY <1>1, <1>3 DEF FactorInv, CodesInv
<1>5. ProofsInv'
  BY ProofsStay DEF FactorInv, ProofsInv
<1> QED BY <1>2, <1>4, <1>5 DEF FactorInv

\* The phase of one reauthentication changes, and nothing is spent.
LEMMA ReauthChanges ==
  ASSUME FactorInv, NEW a \in Admins, NEW r \in ReauthRecords, r.phase # "factor",
         UNCHANGED <<proof, totp, codes, spent, done>>, reauth' = [reauth EXCEPT ![a] = r]
  PROVE  FactorInv'
<1>1. reauth' \in [Admins -> ReauthRecords] /\ reauth'[a] = r /\ \A b \in Admins : b # a => reauth'[b] = reauth[b]
  BY DEF FactorInv, ProofsTyped
<1>2. ProofsTyped' /\ CodesInv'
  BY <1>1 DEF FactorInv, ProofsTyped, CodesInv
<1>3. ProofsInv'
  <2>1. ASSUME NEW b \in Admins
        PROVE Cardinality(Proofs(b)) + (IF reauth'[b].phase = "factor" THEN 1 ELSE 0) <= Cardinality(spent[b])
    BY <1>1, <2>1, SlotsAreFinite, SpentIsCounted DEF FactorInv, ProofsInv
  <2> QED BY <2>1, ProofsStay DEF FactorInv, ProofsInv
<1> QED BY <1>2, <1>3 DEF FactorInv

\* A code is accepted: one that was never accepted before.
LEMMA FactorIsSpent ==
  ASSUME FactorInv, NEW a \in Admins, NEW r \in ReauthRecords, NEW code, code \notin spent[a],
         reauth[a].phase # "factor", reauth' = [reauth EXCEPT ![a] = r],
         spent' = [spent EXCEPT ![a] = @ \cup {code}], UNCHANGED <<proof, done>>,
         CodesInv',
         totp' \in [Admins -> FactorRecords], codes' \in [Admins -> SUBSET RecoveryCodes]
  PROVE  FactorInv'
<1>1. reauth' \in [Admins -> ReauthRecords] /\ \A b \in Admins : b # a => reauth'[b] = reauth[b]
  BY DEF FactorInv, ProofsTyped
<1>2. /\ spent' = [b \in Admins |-> spent'[b]] /\ spent'[a] = spent[a] \cup {code}
      /\ \A b \in Admins : b # a => spent'[b] = spent[b]
  BY DEF FactorInv, ProofsTyped
<1>3. IsFiniteSet(spent[a]) /\ Cardinality(spent[a]) \in Nat
  BY SpentIsCounted DEF FactorInv, ProofsTyped
<1>4. IsFiniteSet(spent'[a]) /\ Cardinality(spent'[a]) = Cardinality(spent[a]) + 1
  BY <1>2, <1>3, FS_AddElement
<1>5. ProofsTyped'
  BY <1>1, <1>2, <1>4 DEF FactorInv, ProofsTyped
<1>6. ASSUME NEW b \in Admins
      PROVE Cardinality(Proofs(b)) + (IF reauth'[b].phase = "factor" THEN 1 ELSE 0) <= Cardinality(spent'[b])
  <2>1. CASE b = a
    <3>1. Cardinality(Proofs(a)) \in Nat /\ Cardinality(Proofs(a)) <= Cardinality(spent[a])
      BY SlotsAreFinite DEF FactorInv, ProofsInv
    <3> QED BY <1>3, <1>4, <2>1, <3>1
  <2>2. CASE b # a
    BY <1>1, <1>2, <2>2 DEF FactorInv, ProofsInv
  <2> QED BY <2>1, <2>2
<1>7. ProofsInv'
  BY <1>6, ProofsStay DEF FactorInv, ProofsInv
<1> QED BY <1>5, <1>7 DEF FactorInv

LEMMA RequireFactorKeepsInv ==
  ASSUME FactorInv, NEW a \in Admins, A!RequireFactor(a) PROVE FactorInv'
<1>1. UNCHANGED <<proof, done>> /\ reauth[a].phase = "password" /\ totp[a].state = "confirmed"
  BY DEF A!RequireFactor
<1>2. PICK k \in ReauthRecords : k = reauth[a]
  BY DEF FactorInv, ProofsTyped
<1>3. PICK r : r = [k EXCEPT !.phase = "factor"]
  OBVIOUS
<1>4. r \in ReauthRecords /\ reauth' = [reauth EXCEPT ![a] = r]
  BY <1>2, <1>3 DEF ReauthRecords, A!RequireFactor, FactorInv, ProofsTyped
<1>5. ASSUME NEW step \in 1 .. MaxStep + Skew, A!VerifyTOTP(a, step), A!UseStep(a, step), UNCHANGED codes,
             spent' = [spent EXCEPT ![a] = @ \cup {<<"step", step>>}]
      PROVE FactorInv'
  <2>1. PICK t \in FactorRecords : t = totp[a]
    BY DEF FactorInv, ProofsTyped
  <2>2. step \in Nat /\ t.lastUsed \in Nat /\ step > t.lastUsed /\ t.state = "confirmed"
    BY <1>1, <1>5, <2>1 DEF A!VerifyTOTP, FactorRecords
  <2>3. PICK u : u = [t EXCEPT !.lastUsed = step]
    OBVIOUS
  <2>4. u \in FactorRecords /\ u.lastUsed = step /\ u.state = t.state
    BY <2>2, <2>3 DEF FactorRecords
  <2>5. totp' = [totp EXCEPT ![a] = u]
    BY <1>5, <2>1, <2>2, <2>3 DEF A!UseStep, FactorInv, ProofsTyped
  <2>6. totp' \in [Admins -> FactorRecords] /\ totp'[a] = u /\ \A b \in Admins : b # a => totp'[b] = totp[b]
    BY <2>4, <2>5 DEF FactorInv, ProofsTyped
  <2>7. <<"step", step>> \notin spent[a]
    BY <2>1, <2>2 DEF FactorInv, CodesInv
  <2>8. spent'[a] = spent[a] \cup {<<"step", step>>} /\ \A b \in Admins : b # a => spent'[b] = spent[b]
    BY <1>5 DEF FactorInv, ProofsTyped
  <2>9. ASSUME NEW b \in Admins
        PROVE /\ totp'[b].state # "confirmed" => spent'[b] = {} /\ codes[b] = {}
              /\ \A s \in Nat : <<"step", s>> \in spent'[b] => s <= totp'[b].lastUsed
              /\ \A code \in codes[b] : <<"code", code>> \notin spent'[b]
    <3>1. CASE b # a
      BY <2>6, <2>8, <3>1 DEF FactorInv, CodesInv
    <3>2. CASE b = a
      <4>1. \A s \in Nat : <<"step", s>> \in spent'[a] => s <= step
        <5>1. ASSUME NEW s \in Nat, <<"step", s>> \in spent[a] PROVE s <= step
          BY <2>1, <2>2, <5>1 DEF FactorInv, CodesInv
        <5>2. \A s \in Nat : <<"step", s>> = <<"step", step>> => s = step
          OBVIOUS
        <5> QED BY <2>2, <2>8, <5>1, <5>2
      <4>2. \A code \in codes[a] : <<"code", code>> \notin spent'[a]
        <5>1. \A code \in codes[a] : <<"code", code>> # <<"step", step>>
          OBVIOUS
        <5> QED BY <2>8, <5>1 DEF FactorInv, CodesInv
      <4> QED BY <2>2, <2>4, <2>6, <3>2, <4>1, <4>2
    <3> QED BY <3>1, <3>2
  <2>10. CodesInv'
    BY <1>5, <2>9 DEF CodesInv
  <2>11. codes' \in [Admins -> SUBSET RecoveryCodes]
    BY <1>5 DEF FactorInv, ProofsTyped
  <2> QED BY <1>1, <1>4, <1>5, <2>6, <2>7, <2>10, <2>11, FactorIsSpent
<1>6. ASSUME NEW code \in RecoveryCodes, A!UseRecoveryCode(a, code), UNCHANGED totp,
             spent' = [spent EXCEPT ![a] = @ \cup {<<"code", code>>}]
      PROVE FactorInv'
  <2>1. /\ code \in codes[a] /\ codes' \in [Admins -> SUBSET RecoveryCodes] /\ codes'[a] = codes[a] \ {code}
        /\ \A b \in Admins : b # a => codes'[b] = codes[b]
    BY <1>6 DEF A!UseRecoveryCode, FactorInv, ProofsTyped
  <2>2. <<"code", code>> \notin spent[a]
    BY <2>1 DEF FactorInv, CodesInv
  <2>3. spent'[a] = spent[a] \cup {<<"code", code>>} /\ \A b \in Admins : b # a => spent'[b] = spent[b]
    BY <1>6 DEF FactorInv, ProofsTyped
  <2>4. ASSUME NEW b \in Admins
        PROVE /\ totp[b].state # "confirmed" => spent'[b] = {} /\ codes'[b] = {}
              /\ \A s \in Nat : <<"step", s>> \in spent'[b] => s <= totp[b].lastUsed
              /\ \A c \in codes'[b] : <<"code", c>> \notin spent'[b]
    <3>1. CASE b # a
      BY <2>1, <2>3, <3>1 DEF FactorInv, CodesInv
    <3>2. CASE b = a
      <4>1. \A s \in Nat : <<"step", s>> # <<"code", code>>
        OBVIOUS
      <4>2. \A c \in codes'[a] : <<"code", c>> # <<"code", code>>
        BY <2>1
      <4>3. \A s \in Nat : <<"step", s>> \in spent'[a] => s <= totp[a].lastUsed
        BY <2>3, <4>1 DEF FactorInv, CodesInv
      <4>4. \A c \in codes'[a] : <<"code", c>> \notin spent'[a]
        BY <2>1, <2>3, <4>2 DEF FactorInv, CodesInv
      <4> QED BY <1>1, <3>2, <4>3, <4>4
    <3> QED BY <3>1, <3>2
  <2>5. CodesInv'
    BY <1>6, <2>4 DEF CodesInv
  <2>6. totp' \in [Admins -> FactorRecords]
    BY <1>6 DEF FactorInv, ProofsTyped
  <2> QED BY <1>1, <1>4, <1>6, <2>1, <2>2, <2>5, <2>6, FactorIsSpent
<1> QED BY <1>5, <1>6 DEF A!RequireFactor

LEMMA EnrolmentStepsKeepInv ==
  ASSUME FactorInv, NEW a \in Admins, A!Start(a) \/ \E step \in 1 .. MaxStep + Skew : A!Confirm(a, step)
  PROVE  FactorInv'
<1>1. CASE A!Start(a)
  <2>1. PICK t : t = [state |-> "started", lastUsed |-> 0]
    OBVIOUS
  <2>2. t \in FactorRecords /\ t.state = "started"
    BY <2>1 DEF FactorRecords
  <2>3. totp' = [totp EXCEPT ![a] = t] /\ totp[a].state # "confirmed" /\ UNCHANGED <<proof, reauth, spent, done, codes>>
    BY <1>1, <2>1 DEF A!Start
  <2>4. codes[a] = {} /\ codes' = [codes EXCEPT ![a] = {}]
    BY <2>3 DEF FactorInv, CodesInv, ProofsTyped
  <2> QED BY <2>2, <2>3, <2>4, EnrolmentKeepsInv
<1>2. ASSUME NEW step \in 1 .. MaxStep + Skew, A!Confirm(a, step) PROVE FactorInv'
  <2>1. PICK t : t = [state |-> "confirmed", lastUsed |-> step]
    OBVIOUS
  <2>2. t \in FactorRecords /\ t.state = "confirmed"
    BY <2>1 DEF FactorRecords
  <2>3. /\ totp' = [totp EXCEPT ![a] = t] /\ codes' = [codes EXCEPT ![a] = RecoveryCodes]
        /\ totp[a].state # "confirmed" /\ UNCHANGED <<proof, reauth, spent, done>>
    BY <1>2, <2>1 DEF A!Confirm
  <2> QED BY <2>2, <2>3, EnrolmentKeepsInv
<1> QED BY <1>1, <1>2

LEMMA ReauthStepsKeepInv ==
  ASSUME FactorInv, NEW a \in Admins, A!GiveUp(a) \/ \E op \in Operations : A!PasswordMatches(a, op)
  PROVE  FactorInv'
<1>1. UNCHANGED <<proof, totp, codes, spent, done>>
  BY DEF A!GiveUp, A!PasswordMatches
<1>2. A!NoReauth \in ReauthRecords /\ A!NoReauth.phase # "factor"
  BY DEF A!NoReauth, ReauthRecords
<1>3. CASE A!GiveUp(a)
  BY <1>1, <1>2, <1>3, ReauthChanges DEF A!GiveUp
<1>4. ASSUME NEW op \in Operations, A!PasswordMatches(a, op) PROVE FactorInv'
  <2>1. PICK r : r = [phase |-> "password", op |-> op]
    OBVIOUS
  <2>2. r \in ReauthRecords /\ r.phase # "factor" /\ reauth' = [reauth EXCEPT ![a] = r]
    BY <1>4, <2>1 DEF A!PasswordMatches, ReauthRecords
  <2> QED BY <1>1, <2>2, ReauthChanges
<1> QED BY <1>3, <1>4

LEMMA CreateProofKeepsInv ==
  ASSUME FactorInv, NEW a \in Admins, A!CreateProof(a) PROVE FactorInv'
<1>1. UNCHANGED <<totp, codes, spent, done>> /\ reauth[a].phase = "factor" /\ reauth' = [reauth EXCEPT ![a] = A!NoReauth]
  BY DEF A!CreateProof
<1>2. PICK n \in Slots : proof[n].state = "none" /\ proof' = [proof EXCEPT ![n] = [state |-> "fresh", admin |-> a, op |-> reauth[a].op]]
  BY DEF A!CreateProof, Slots
<1>3. PICK op \in Operations \cup {"none"} : op = reauth[a].op
  BY DEF FactorInv, ProofsTyped, ReauthRecords
<1>4. PICK r : r = [state |-> "fresh", admin |-> a, op |-> op]
  OBVIOUS
<1>5. r \in ProofRecords /\ r.state = "fresh" /\ r.admin = a
  BY <1>4 DEF ProofRecords
<1>6. proof' \in [Slots -> ProofRecords] /\ proof'[n] = r /\ \A m \in Slots : m # n => proof'[m] = proof[m]
  BY <1>2, <1>3, <1>4, <1>5 DEF FactorInv, ProofsTyped
<1>7. A!NoReauth \in ReauthRecords /\ A!NoReauth.phase = "idle"
  BY DEF A!NoReauth, ReauthRecords
<1>8. reauth' \in [Admins -> ReauthRecords] /\ reauth'[a].phase = "idle" /\ \A b \in Admins : b # a => reauth'[b] = reauth[b]
  BY <1>1, <1>7 DEF FactorInv, ProofsTyped
<1>9. ProofsTyped' /\ CodesInv'
  BY <1>1, <1>6, <1>8 DEF FactorInv, ProofsTyped, CodesInv
<1>10. \A b, o : Consumed(b, o)' = Consumed(b, o)
  BY <1>2, <1>5, <1>6 DEF Consumed
<1>11. Proofs(a)' = Proofs(a) \cup {n} /\ n \notin Proofs(a)
  BY <1>2, <1>5, <1>6 DEF Proofs
<1>12. \A b \in Admins : b # a => Proofs(b)' = Proofs(b)
  BY <1>2, <1>5, <1>6 DEF Proofs
<1>13. Cardinality(Proofs(a)') = Cardinality(Proofs(a)) + 1
  <2>1. PICK P : P = Proofs(a)
    OBVIOUS
  <2>2. IsFiniteSet(P) /\ n \notin P
    BY <1>11, <2>1, SlotsAreFinite
  <2>3. Cardinality(P \cup {n}) = Cardinality(P) + 1
    BY <2>2, FS_AddElement
  <2> QED BY <1>11, <2>1, <2>3
<1>14. ASSUME NEW b \in Admins
       PROVE /\ Cardinality(Proofs(b)') + (IF reauth'[b].phase = "factor" THEN 1 ELSE 0) <= Cardinality(spent[b])
             /\ \A o \in Operations : done[b][o] <= Cardinality(Consumed(b, o)')
  <2>1. CASE b = a
    <3>1. Cardinality(Proofs(a)) \in Nat /\ Cardinality(Proofs(a)) + 1 <= Cardinality(spent[a])
      BY <1>1, SlotsAreFinite DEF FactorInv, ProofsInv
    <3> QED BY <1>8, <1>10, <1>13, <2>1, <3>1 DEF FactorInv, ProofsInv
  <2>2. CASE b # a
    BY <1>8, <1>10, <1>12, <2>2 DEF FactorInv, ProofsInv
  <2> QED BY <2>1, <2>2
<1>15. ProofsInv'
  BY <1>1, <1>14 DEF ProofsInv
<1> QED BY <1>9, <1>15 DEF FactorInv

\* A proof ends, spent by its operation or out of time.
LEMMA ProofEndsKeepsInv ==
  ASSUME FactorInv, NEW n \in Slots, proof[n].state = "fresh", NEW state \in {"consumed", "expired"},
         proof' = [proof EXCEPT ![n].state = state], UNCHANGED <<totp, codes, spent, reauth>>,
         \/ UNCHANGED done
         \/ /\ state = "consumed" /\ proof[n].admin \in Admins /\ proof[n].op \in Operations
            /\ done' = [done EXCEPT ![proof[n].admin][proof[n].op] = @ + 1]
  PROVE  FactorInv'
<1>1. PICK k \in ProofRecords : k = proof[n]
  BY DEF FactorInv, ProofsTyped
<1>2. PICK r : r = [k EXCEPT !.state = state]
  OBVIOUS
<1>3. r \in ProofRecords /\ r.state = state /\ r.admin = k.admin /\ r.op = k.op
  BY <1>2 DEF ProofRecords
<1>4. proof' = [proof EXCEPT ![n] = r]
  BY <1>1, <1>2 DEF FactorInv, ProofsTyped
<1>5. proof' \in [Slots -> ProofRecords] /\ proof'[n] = r /\ \A m \in Slots : m # n => proof'[m] = proof[m]
  BY <1>3, <1>4 DEF FactorInv, ProofsTyped
<1>6. \A a : Proofs(a)' = Proofs(a)
  BY <1>1, <1>3, <1>5 DEF Proofs
<1>7. ASSUME NEW a, NEW op PROVE Consumed(a, op)' = IF state = "consumed" /\ k.admin = a /\ k.op = op THEN Consumed(a, op) \cup {n} ELSE Consumed(a, op)
  <2>1. CASE state = "consumed" /\ k.admin = a /\ k.op = op
    BY <1>1, <1>3, <1>5, <2>1 DEF Consumed
  <2>2. CASE ~(state = "consumed" /\ k.admin = a /\ k.op = op)
    BY <1>1, <1>3, <1>5, <2>2 DEF Consumed
  <2> QED BY <2>1, <2>2
<1>8. n \notin Consumed(k.admin, k.op)
  BY DEF Consumed
<1>9. /\ done' \in [Admins -> [Operations -> Nat]]
      /\ \/ UNCHANGED done
         \/ /\ state = "consumed"
            /\ \A a \in Admins, op \in Operations :
                 done'[a][op] = IF a = k.admin /\ op = k.op THEN done[a][op] + 1 ELSE done[a][op]
  <2>1. CASE UNCHANGED done
    BY <2>1 DEF FactorInv, ProofsTyped
  <2>2. CASE /\ state = "consumed" /\ k.admin \in Admins /\ k.op \in Operations
             /\ done' = [done EXCEPT ![k.admin][k.op] = @ + 1]
    <3>1. PICK row \in [Operations -> Nat] : row = done[k.admin]
      BY <2>2 DEF FactorInv, ProofsTyped
    <3>2. PICK line : line = [row EXCEPT ![k.op] = @ + 1]
      OBVIOUS
    <3>3. line \in [Operations -> Nat] /\ line[k.op] = row[k.op] + 1 /\ \A op \in Operations : op # k.op => line[op] = row[op]
      BY <2>2, <3>2
    <3>4. done' = [done EXCEPT ![k.admin] = line]
      BY <2>2, <3>1, <3>2 DEF FactorInv, ProofsTyped
    <3>5. /\ done' \in [Admins -> [Operations -> Nat]] /\ done'[k.admin] = line
          /\ \A a \in Admins : a # k.admin => done'[a] = done[a]
      BY <2>2, <3>3, <3>4 DEF FactorInv, ProofsTyped
    <3> QED BY <2>2, <3>1, <3>3, <3>5
  <2> QED BY <1>1, <2>1, <2>2
<1>10. ProofsTyped' /\ CodesInv'
  BY <1>5, <1>9 DEF FactorInv, ProofsTyped, CodesInv
<1>11. ASSUME NEW a \in Admins, NEW op \in Operations PROVE done'[a][op] <= Cardinality(Consumed(a, op)')
  <2>1. PICK C : C = Consumed(a, op)
    OBVIOUS
  <2>2. IsFiniteSet(C) /\ Cardinality(C) \in Nat /\ done[a][op] \in Nat /\ done[a][op] <= Cardinality(C)
    BY <2>1, SlotsAreFinite DEF FactorInv, ProofsTyped, ProofsInv
  <2>3. CASE state = "consumed" /\ k.admin = a /\ k.op = op
    <3>1. Cardinality(C \cup {n}) = Cardinality(C) + 1
      BY <1>8, <2>1, <2>2, <2>3, FS_AddElement
    <3>2. done'[a][op] = done[a][op] \/ done'[a][op] = done[a][op] + 1
      BY <1>9, <2>3
    <3>3. Consumed(a, op)' = C \cup {n}
      BY <1>7, <2>1, <2>3
    <3> QED BY <2>2, <3>1, <3>2, <3>3
  <2>4. CASE ~(state = "consumed" /\ k.admin = a /\ k.op = op)
    <3>1. done'[a][op] = done[a][op]
      BY <1>9, <2>4
    <3>2. Consumed(a, op)' = C
      BY <1>7, <2>1, <2>4
    <3> QED BY <2>2, <3>1, <3>2
  <2> QED BY <2>3, <2>4
<1>12. ProofsInv'
  BY <1>6, <1>11 DEF FactorInv, ProofsInv
<1> QED BY <1>10, <1>12 DEF FactorInv

LEMMA NextKeepsFactorInv == FactorInv /\ A!Next => FactorInv'
<1> SUFFICES ASSUME FactorInv, A!Next PROVE FactorInv'
  OBVIOUS
<1>1. ASSUME UNCHANGED <<proof, totp, codes, spent, reauth, done>> PROVE FactorInv'
  BY <1>1, ProofsStay DEF FactorInv, ProofsTyped, CodesInv, ProofsInv
<1>2. A!ChangeAccess \/ A!Tick => UNCHANGED <<proof, totp, codes, spent, reauth, done>>
  <2>1. A!ChangeAccess => UNCHANGED A!factor
    <3>1. ASSUME NEW a, A!BootstrapAccessManager(a) PROVE UNCHANGED A!factor
      BY <3>1 DEF A!BootstrapAccessManager
    <3>2. ASSUME NEW r, NEW actor, NEW subj, A!ListSubjects(r, actor, subj) PROVE UNCHANGED A!factor
      BY <3>2 DEF A!ListSubjects
    <3>3. ASSUME NEW r, A!require(r) PROVE UNCHANGED A!factor
      BY <3>3 DEF A!require
    <3>4. ASSUME NEW r, NEW bundle, A!Grant(r, bundle) \/ A!Revoke(r, bundle) PROVE UNCHANGED A!factor
      BY <3>4 DEF A!Grant, A!Revoke
    <3> QED BY <3>1, <3>2, <3>3, <3>4 DEF A!ChangeAccess
  <2> QED BY <2>1 DEF A!factor, A!Tick
<1>3. ASSUME NEW a \in Admins, NEW n \in Slots, NEW op \in Operations, A!Perform(n, a, op) PROVE FactorInv'
  <2>1. /\ proof[n].state = "fresh" /\ proof[n].admin = a /\ proof[n].op = op
        /\ proof' = [proof EXCEPT ![n].state = "consumed"] /\ UNCHANGED <<totp, codes, spent, reauth>>
        /\ UNCHANGED done \/ done' = [done EXCEPT ![proof[n].admin][proof[n].op] = @ + 1]
    BY <1>3 DEF A!Perform, A!ConsumeProof
  <2>2. PICK state \in {"consumed", "expired"} : state = "consumed"
    OBVIOUS
  <2>3. /\ proof[n].admin \in Admins /\ proof[n].op \in Operations
        /\ proof' = [proof EXCEPT ![n].state = state] /\ state = "consumed"
    BY <2>1, <2>2
  <2> QED BY <2>1, <2>3, ProofEndsKeepsInv
<1>4. ASSUME NEW n \in Slots, A!ProofExpires(n) PROVE FactorInv'
  <2>1. /\ proof[n].state = "fresh" /\ proof' = [proof EXCEPT ![n].state = "expired"]
        /\ UNCHANGED <<totp, codes, spent, reauth, done>>
    BY <1>4 DEF A!ProofExpires
  <2> QED BY <2>1, ProofEndsKeepsInv
<1>5. \A a \in Approvers : a \in Admins
  BY AccessAssumption
<1>6. CASE A!Reauthenticate
  BY <1>1, <1>2, <1>3, <1>4, <1>5, <1>6, RequireFactorKeepsInv, EnrolmentStepsKeepInv, ReauthStepsKeepInv, CreateProofKeepsInv
  DEF A!Reauthenticate, Slots
<1> QED BY <1>1, <1>2, <1>6 DEF A!Next

-----------------------------------------------------------------------------
(* The order of the audit rows, and the first ones of a set of them.       *)

LEMMA EntriesAreNumbered == ASSUME NEW e \in A!Entry PROVE e.t \in Nat \ {0} /\ e.s \in Sources /\ e.s \in Nat \ {0} /\ e.i \in Ids /\ e.i \in Nat \ {0}
  BY AccessAssumption DEF A!Entry

LEMMA AfterIsAnOrder ==
  /\ \A e \in A!Entry : ~A!After(e, e)
  /\ \A d, e \in A!Entry : A!After(d, e) => ~A!After(e, d)
  /\ \A d, e, f \in A!Entry : A!After(d, e) /\ A!After(e, f) => A!After(d, f)
  /\ \A d, e \in A!Entry : d = e \/ A!After(d, e) \/ A!After(e, d)
<1>1. \A e \in A!Entry : ~A!After(e, e)
  BY EntriesAreNumbered DEF A!After
<1>2. \A d, e \in A!Entry : A!After(d, e) => ~A!After(e, d)
  BY EntriesAreNumbered DEF A!After
<1>3. \A d, e, f \in A!Entry : A!After(d, e) /\ A!After(e, f) => A!After(d, f)
  BY EntriesAreNumbered DEF A!After
<1>4. ASSUME NEW d \in A!Entry, NEW e \in A!Entry, ~A!After(d, e), ~A!After(e, d) PROVE d = e
  <2>1. d.t = e.t /\ d.s = e.s /\ d.i = e.i
    BY <1>4, EntriesAreNumbered DEF A!After
  <2> QED BY <2>1 DEF A!Entry
<1> QED BY <1>1, <1>2, <1>3, <1>4

LEMMA EntriesAreFinite == ASSUME NEW S \in SUBSET A!Entry PROVE IsFiniteSet(S) /\ Cardinality(S) \in Nat
<1>1. PICK T : T = Times \X (Sources \X Ids)
  OBVIOUS
<1>2. IsFiniteSet(T)
  BY <1>1, AccessAssumption, FS_Product
<1>3. PICK f : f = [e \in A!Entry |-> <<e.t, <<e.s, e.i>>>>]
  OBVIOUS
<1>4. f \in [A!Entry -> T]
  BY <1>1, <1>3 DEF A!Entry
<1>5. \A d, e \in A!Entry : f[d] = f[e] => d = e
  <2>1. ASSUME NEW d \in A!Entry, NEW e \in A!Entry, f[d] = f[e] PROVE d = e
    <3>1. d.t = e.t /\ d.s = e.s /\ d.i = e.i
      BY <1>3, <2>1
    <3> QED BY <3>1 DEF A!Entry
  <2> QED BY <2>1
<1>6. f \in Injection(A!Entry, T)
  BY <1>4, <1>5 DEF Injection, IsInjective
<1>7. IsFiniteSet(A!Entry)
  BY <1>2, <1>6, FS_Injection
<1> QED BY <1>7, FS_Subset, FS_CardinalityType

\* A set of rows has its newest one and its oldest one.
LEMMA NewestExists == ASSUME NEW S \in SUBSET A!Entry, S # {} PROVE \E e \in S : \A d \in S : ~A!After(d, e)
<1> DEFINE R == {p \in S \X S : A!After(p[1], p[2])}
<1>1. IsFiniteSet(S)
  BY EntriesAreFinite
<1>2. \A x \in S : <<x, x>> \notin R
  BY AfterIsAnOrder
<1>3. \A x, y, z \in S : <<x, y>> \in R /\ <<y, z>> \in R => <<x, z>> \in R
  BY AfterIsAnOrder
<1>4. \A x, y \in S : A!After(y, x) => <<y, x>> \in R
  OBVIOUS
<1> HIDE DEF R
<1>5. \E x \in S : \A y \in S : <<y, x>> \notin R
  BY <1>1, <1>2, <1>3, Least
<1> QED BY <1>4, <1>5

LEMMA OldestExists == ASSUME NEW S \in SUBSET A!Entry, S # {} PROVE \E e \in S : \A d \in S : d = e \/ A!After(d, e)
<1> DEFINE R == {p \in S \X S : A!After(p[2], p[1])}
<1>1. IsFiniteSet(S)
  BY EntriesAreFinite
<1>2. \A x \in S : <<x, x>> \notin R
  BY AfterIsAnOrder
<1>3. \A x, y, z \in S : <<x, y>> \in R /\ <<y, z>> \in R => <<x, z>> \in R
  BY AfterIsAnOrder
<1>4. \A x, y \in S : A!After(x, y) => <<y, x>> \in R
  OBVIOUS
<1> HIDE DEF R
<1>5. \E x \in S : \A y \in S : <<y, x>> \notin R
  BY <1>1, <1>2, <1>3, Least
<1> QED BY <1>4, <1>5, AfterIsAnOrder

\* What the first n leave out is older than all of them, and then they are n.
LEMMA FirstLeavesOlder ==
  ASSUME NEW S \in SUBSET A!Entry, NEW n \in Nat, NEW e \in S, e \notin A!First(n, S)
  PROVE  /\ A!First(n, S) \subseteq S /\ Cardinality(A!First(n, S)) >= n
         /\ \A d \in A!First(n, S) : A!After(d, e)
<1> DEFINE newer(x) == {y \in S : A!After(y, x)}
           F == A!First(n, S)
<1>1. F = {x \in S : Cardinality(newer(x)) < n}
  BY SameCardinality DEF A!First
<1>2. \A x : newer(x) \in SUBSET A!Entry /\ newer(x) \subseteq S
  OBVIOUS
<1>3. F \in SUBSET A!Entry /\ F \subseteq S
  BY <1>1
<1>4. ASSUME NEW x \in S, NEW y \in S, A!After(x, y) PROVE newer(x) \subseteq newer(y)
  BY <1>4, AfterIsAnOrder
<1>5. ASSUME NEW P \in SUBSET A!Entry, NEW Q \in SUBSET A!Entry, P \subseteq Q PROVE Cardinality(P) <= Cardinality(Q) /\ Cardinality(P) \in Nat /\ Cardinality(Q) \in Nat
  BY <1>5, EntriesAreFinite, FS_Subset
<1>6. ASSUME NEW d \in F PROVE A!After(d, e)
  <2>1. d \in S /\ Cardinality(newer(d)) < n /\ ~(Cardinality(newer(e)) < n)
    BY <1>1
  <2>2. CASE d = e
    BY <2>1, <2>2
  <2>3. CASE A!After(e, d)
    <3>1. newer(e) \subseteq newer(d)
      BY <1>4, <2>1, <2>3
    <3>2. Cardinality(newer(e)) <= Cardinality(newer(d)) /\ Cardinality(newer(e)) \in Nat /\ Cardinality(newer(d)) \in Nat
      <4> HIDE DEF newer
      <4> QED BY <1>2, <1>5, <3>1
    <3> QED BY <2>1, <3>2
  <2> QED BY <2>1, <2>2, <2>3, AfterIsAnOrder
<1>7. Cardinality(F) >= n
  <2>1. PICK G : G = S \ F
    OBVIOUS
  <2>2. G \in SUBSET A!Entry /\ G # {}
    BY <2>1
  <2>3. PICK m \in G : \A d \in G : ~A!After(d, m)
    BY <2>2, NewestExists
  <2>4. newer(m) \subseteq F
    BY <2>1, <2>3
  <2>5. m \in S /\ ~(Cardinality(newer(m)) < n)
    BY <1>1, <2>1
  <2>6. Cardinality(newer(m)) <= Cardinality(F) /\ Cardinality(newer(m)) \in Nat /\ Cardinality(F) \in Nat
    <3> HIDE DEF newer, F
    <3> QED BY <1>2, <1>3, <1>5, <2>4
  <2> QED BY <2>5, <2>6
<1> QED BY <1>3, <1>6, <1>7

LEMMA FirstIsNotEmpty ==
  ASSUME NEW S \in SUBSET A!Entry, NEW n \in Nat \ {0}, S # {} PROVE A!First(n, S) # {}
<1> SUFFICES ASSUME A!First(n, S) = {} PROVE FALSE
  OBVIOUS
<1>1. PICK e \in S : TRUE
  OBVIOUS
<1>2. Cardinality({}) >= n
  BY <1>1, FirstLeavesOlder
<1> QED BY <1>2, FS_EmptySet

-----------------------------------------------------------------------------
(* A search of the audit trail.                                            *)

\* The pages so far went beyond this row.
Past(e) == cursor # A!None /\ ~A!After(cursor, e)

PagesTyped ==
  /\ rows \subseteq A!Entry /\ standing \subseteq rows /\ limit \in Nat \ {0}
  /\ cursor = A!None \/ cursor \in A!Entry
  /\ shown \in [A!Entry -> Nat] /\ answers = [s \in Sources |-> answers[s]]

ShownInv == \A e \in A!Entry : shown[e] <= 1 /\ (phase # "over" /\ shown[e] = 1 => Past(e))

\* What the pages went beyond was shown, and the last page leaves nothing.
StandingInv ==
  \A e \in standing : A!Matches(e) /\ e.s \notin missed /\ (phase = "over" \/ Past(e)) => shown[e] = 1

\* What a service answers holds all it has to show, or as much as was asked for
\* and nothing older than what it left out.
Answered(s) ==
  /\ answers[s] \subseteq {e \in rows : e.s = s /\ A!Matches(e) /\ ~Past(e)}
  /\ s \notin missed => \A e \in standing : e.s = s /\ A!Matches(e) /\ ~Past(e) =>
       e \in answers[s] \/ (Cardinality(answers[s]) >= limit /\ \A d \in answers[s] : A!After(d, e))

PageInv == phase = "fetching" => \A s \in Sources : answers[s] = A!Pending \/ Answered(s)

SearchInv == PagesTyped /\ ShownInv /\ StandingInv /\ PageInv

LEMMA SearchInvShowsOnce == SearchInv => A!PagesShowEachRowOnce
  BY DEF SearchInv, PagesTyped, ShownInv, StandingInv, A!PagesShowEachRowOnce

LEMMA InitHasSearchInv == A!SearchInit => SearchInv
<1> SUFFICES ASSUME A!SearchInit PROVE SearchInv
  OBVIOUS
<1>1. /\ rows \subseteq A!Entry /\ limit \in Limits /\ standing = rows /\ cursor = A!None
      /\ answers = [s \in Sources |-> A!Pending] /\ shown = [e \in A!Entry |-> 0] /\ phase = "idle"
  BY DEF A!SearchInit
<1>2. limit \in Nat \ {0}
  BY <1>1, AccessAssumption
<1> QED BY <1>1, <1>2 DEF SearchInv, PagesTyped, ShownInv, StandingInv, PageInv, Past

\* Where each service goes on is behind the cursor, in the order of the merge.
LEMMA OlderIsNotPast ==
  ASSUME PagesTyped, NEW e \in A!Entry PROVE A!Older(e, e.s) <=> ~Past(e)
<1>1. CASE cursor = A!None
  BY <1>1 DEF A!Older, Past
<1>2. CASE cursor \in A!Entry
  <2>1. PICK c \in A!Entry : c = cursor
    BY <1>2
  <2>2. cursor # A!None
    <3>1. PICK z : z = A!None
      OBVIOUS
    <3>2. z.t = 0
      BY <3>1 DEF A!None
    <3> QED BY <2>1, <3>1, <3>2, EntriesAreNumbered
  <2>3. e.i < A!CursorMax
    <3>1. Ids \in SUBSET Nat /\ IsFiniteSet(Ids) /\ e.i \in Ids
      BY EntriesAreNumbered, AccessAssumption
    <3>2. \E x \in Ids : \A y \in Ids : x >= y
      <4> DEFINE R == {p \in Ids \X Ids : p[1] > p[2]}
      <4>1. \A x \in Ids : <<x, x>> \notin R
        BY <3>1
      <4>2. \A x, y, z \in Ids : <<x, y>> \in R /\ <<y, z>> \in R => <<x, z>> \in R
        BY <3>1
      <4>3. \A x, y \in Ids : <<y, x>> \notin R => x >= y
        BY <3>1
      <4> HIDE DEF R
      <4>4. \E x \in Ids : \A y \in Ids : <<y, x>> \notin R
        BY <3>1, <4>1, <4>2, Least
      <4> QED BY <4>3, <4>4
    <3>3. A!Max(Ids) \in Ids /\ \A y \in Ids : A!Max(Ids) >= y
      BY <3>2 DEF A!Max
    <3>4. PICK x : x = A!Max(Ids)
      OBVIOUS
    <3>5. x \in Nat /\ e.i \in Nat /\ x >= e.i
      BY <3>1, <3>3, <3>4
    <3>6. A!CursorMax = x + 1
      BY <3>4 DEF A!CursorMax
    <3> QED BY <3>5, <3>6
  <2>4. /\ c.t \in Nat /\ c.s \in Nat /\ c.i \in Nat \ {0}
        /\ e.t \in Nat /\ e.s \in Nat /\ e.i \in Nat \ {0}
    BY EntriesAreNumbered
  <2>5. A!CursorId(e.s) = IF e.s = c.s THEN c.i ELSE IF e.s < c.s THEN A!CursorMax ELSE 0
    BY <2>1 DEF A!CursorId, A!NoId
  <2>6. A!Older(e, e.s) <=> e.t < c.t \/ (e.t = c.t /\ e.i < A!CursorId(e.s))
    BY <2>1, <2>2 DEF A!Older
  <2>7. e.i < A!CursorId(e.s) <=> e.s < c.s \/ (e.s = c.s /\ e.i < c.i)
    BY <2>3, <2>4, <2>5
  <2>8. A!After(c, e) <=> c.t > e.t \/ (c.t = e.t /\ c.s > e.s) \/ (c.t = e.t /\ c.s = e.s /\ c.i > e.i)
    BY DEF A!After
  <2>9. A!Older(e, e.s) <=> A!After(c, e)
    BY <2>4, <2>6, <2>7, <2>8
  <2> QED BY <2>1, <2>2, <2>9 DEF Past
<1> QED BY <1>1, <1>2 DEF PagesTyped

LEMMA AnswerKeepsInv ==
  ASSUME SearchInv, NEW s \in Sources, A!Answers(s) \/ A!Unavailable(s) PROVE SearchInv'
<1>1. UNCHANGED <<rows, filter, limit, standing, cursor, pages, shown, phase>> /\ phase = "fetching"
  BY DEF A!Answers, A!Unavailable
<1>2. \A e : Past(e)' = Past(e) /\ A!Matches(e)' = A!Matches(e)
  BY <1>1 DEF Past, A!Matches
<1>3. missed \subseteq missed' /\ \A k \in Sources : k # s => (k \in missed' <=> k \in missed)
  BY DEF A!Answers, A!Unavailable
<1>4. answers' = [k \in Sources |-> answers'[k]] /\ \A k \in Sources : k # s => answers'[k] = answers[k]
  BY DEF A!Answers, A!Unavailable, SearchInv, PagesTyped
<1>5. Answered(s)'
  <2>1. CASE A!Unavailable(s)
    <3>1. answers'[s] = {} /\ s \in missed'
      BY <2>1 DEF A!Unavailable, SearchInv, PagesTyped
    <3> QED BY <3>1 DEF Answered
  <2>2. CASE A!Answers(s)
    <3>1. PICK S : S = {e \in rows : e.s = s /\ A!Matches(e) /\ A!Older(e, s)}
      OBVIOUS
    <3>2. answers'[s] = A!First(limit, S)
      BY <2>2, <3>1 DEF A!Answers, A!Search, SearchInv, PagesTyped
    <3>3. \A e \in rows : e.s = s => (A!Older(e, s) <=> ~Past(e))
      BY OlderIsNotPast DEF SearchInv, PagesTyped
    <3>4. S \in SUBSET A!Entry /\ S = {e \in rows : e.s = s /\ A!Matches(e) /\ ~Past(e)}
      BY <3>1, <3>3 DEF SearchInv, PagesTyped
    <3>5. A!First(limit, S) \subseteq S
      BY DEF A!First
    <3>6. \A e \in S : e \in answers'[s] \/ (Cardinality(answers'[s]) >= limit /\ \A d \in answers'[s] : A!After(d, e))
      <4>1. limit \in Nat
        BY DEF SearchInv, PagesTyped
      <4>2. ASSUME NEW e \in S, e \notin A!First(limit, S)
            PROVE Cardinality(A!First(limit, S)) >= limit /\ \A d \in A!First(limit, S) : A!After(d, e)
        BY <3>4, <4>1, <4>2, FirstLeavesOlder
      <4> QED BY <3>2, <4>2
    <3>7. standing \subseteq rows
      BY DEF SearchInv, PagesTyped
    <3>8. answers'[s] \subseteq S
      BY <3>2, <3>5
    <3> QED BY <1>1, <1>2, <3>4, <3>6, <3>7, <3>8 DEF Answered
  <2> QED BY <2>1, <2>2
<1>6. ASSUME NEW k \in Sources, k # s, Answered(k) PROVE Answered(k)'
  <2>1. answers'[k] = answers[k] /\ (k \notin missed' => k \notin missed)
    BY <1>3, <1>4, <1>6
  <2> QED BY <1>1, <1>2, <1>6, <2>1 DEF Answered
<1>7. PageInv'
  BY <1>1, <1>4, <1>5, <1>6 DEF SearchInv, PageInv, A!Pending
<1>8. PagesTyped'
  BY <1>1, <1>4 DEF SearchInv, PagesTyped
<1>9. ShownInv'
  BY <1>1, <1>2 DEF SearchInv, ShownInv
<1>10. StandingInv'
  BY <1>1, <1>2, <1>3 DEF SearchInv, StandingInv
<1> QED BY <1>7, <1>8, <1>9, <1>10 DEF SearchInv

LEMMA RecordKeepsInv ==
  ASSUME SearchInv, NEW e \in A!Entry, A!Record(e) PROVE SearchInv'
<1>1. UNCHANGED <<filter, limit, standing, cursor, pages, answers, missed, shown, phase>> /\ rows' = rows \cup {e}
  BY DEF A!Record
<1>2. \A d : Past(d)' = Past(d) /\ A!Matches(d)' = A!Matches(d)
  BY <1>1 DEF Past, A!Matches
<1>3. ASSUME NEW s \in Sources, Answered(s) PROVE Answered(s)'
  BY <1>1, <1>2, <1>3 DEF Answered
<1>4. PageInv'
  BY <1>1, <1>3 DEF SearchInv, PageInv, A!Pending
<1>5. PagesTyped'
  BY <1>1 DEF SearchInv, PagesTyped
<1>6. ShownInv' /\ StandingInv'
  BY <1>1, <1>2 DEF SearchInv, ShownInv, StandingInv
<1> QED BY <1>4, <1>5, <1>6 DEF SearchInv

LEMMA SearchAuditKeepsInv ==
  ASSUME SearchInv, A!SearchAudit PROVE SearchInv'
<1>1. /\ UNCHANGED <<rows, filter, limit, standing, cursor, missed, shown>> /\ phase \in {"idle", "read"}
      /\ phase' = "fetching" /\ answers' = [s \in Sources |-> A!Pending]
  BY DEF A!SearchAudit
<1>2. \A d : Past(d)' = Past(d) /\ A!Matches(d)' = A!Matches(d)
  BY <1>1 DEF Past, A!Matches
<1>3. PageInv'
  BY <1>1 DEF PageInv, A!Pending
<1>4. PagesTyped'
  BY <1>1 DEF SearchInv, PagesTyped
<1>5. ShownInv' /\ StandingInv'
  BY <1>1, <1>2 DEF SearchInv, ShownInv, StandingInv
<1> QED BY <1>3, <1>4, <1>5 DEF SearchInv

\* A row that a service left out of a full answer is older than the whole page.
LEMMA LeftOutIsOlder ==
  ASSUME NEW M \in SUBSET A!Entry, NEW n \in Nat, NEW S \in SUBSET M, Cardinality(S) >= n,
         NEW e \in A!Entry, \A d \in S : A!After(d, e),
         NEW x \in A!First(n, M)
  PROVE  A!After(x, e)
<1>1. PICK N : N = {y \in M : A!After(y, x)}
  OBVIOUS
<1>2. x \in M /\ Cardinality(N) < n
  BY <1>1, SameCardinality DEF A!First
<1>3. N \in SUBSET A!Entry /\ S \in SUBSET A!Entry /\ Cardinality(N) \in Nat /\ Cardinality(S) \in Nat
  BY <1>1, EntriesAreFinite
<1>4. ASSUME ~A!After(x, e) PROVE FALSE
  <2>1. \A d \in S : A!After(d, x)
    BY <1>2, <1>4, AfterIsAnOrder
  <2>2. S \subseteq N
    BY <1>1, <2>1
  <2>3. Cardinality(S) <= Cardinality(N)
    BY <1>3, <2>2, EntriesAreFinite, FS_Subset
  <2> QED BY <1>2, <1>3, <2>3
<1> QED BY <1>4

LEMMA MergeKeepsInv ==
  ASSUME SearchInv, A!Merge PROVE SearchInv'
<1>1. /\ UNCHANGED <<rows, filter, limit, standing, pages, missed>> /\ phase = "fetching"
      /\ answers' = [s \in Sources |-> A!Pending]
  BY DEF A!Merge
<1>2. \A s \in Sources : Answered(s)
  BY DEF A!Merge, SearchInv, PageInv
<1>3. limit \in Nat \ {0} /\ rows \subseteq A!Entry /\ standing \subseteq rows
  BY DEF SearchInv, PagesTyped
<1>4. PICK M : M = A!Merged
  OBVIOUS
<1>5. M \in SUBSET A!Entry /\ \A e \in M : ~Past(e)
  BY <1>2, <1>3, <1>4 DEF A!Merged, Answered
<1>6. \A s \in Sources : answers[s] \in SUBSET M
  BY <1>4 DEF A!Merged
<1>7. PICK P : P = A!First(limit, M)
  OBVIOUS
<1>8. P = A!Page /\ P \in SUBSET M
  BY <1>4, <1>7 DEF A!Page, A!First
<1>9. \A e \in M : e \notin P => Cardinality(P) >= limit /\ \A d \in P : A!After(d, e)
  <2>1. ASSUME NEW e \in M, e \notin A!First(limit, M)
        PROVE Cardinality(A!First(limit, M)) >= limit /\ \A d \in A!First(limit, M) : A!After(d, e)
    BY <1>3, <1>5, <2>1, FirstLeavesOlder
  <2> QED BY <1>7, <2>1
<1>10. shown' = [e \in A!Entry |-> shown[e] + IF e \in P THEN 1 ELSE 0]
  BY <1>8 DEF A!Merge
<1>11. ASSUME NEW e \in A!Entry
       PROVE /\ e \in P => shown[e] = 0 /\ shown'[e] = 1
             /\ e \notin P => shown'[e] = shown[e]
             /\ shown[e] \in {0, 1}
  <2>1. shown[e] \in Nat /\ shown[e] <= 1 /\ (shown[e] = 1 => Past(e))
    BY <1>1 DEF SearchInv, PagesTyped, ShownInv
  <2>2. e \in P => shown[e] = 0
    BY <1>5, <1>8, <2>1
  <2> QED BY <1>10, <2>1, <2>2
<1>12. shown' \in [A!Entry -> Nat]
  BY <1>10, <1>11
<1>13. ASSUME NEW e \in standing, A!Matches(e), e.s \notin missed, ~Past(e)
       PROVE \/ e \in M
             \/ (\E s \in Sources : Cardinality(answers[s]) >= limit) /\ M # {} /\ \A x \in P : A!After(x, e)
  <2>1. PICK s \in Sources : s = e.s
    BY <1>3, <1>13, EntriesAreNumbered
  <2>2. e \in answers[s] \/ (Cardinality(answers[s]) >= limit /\ \A d \in answers[s] : A!After(d, e))
    BY <1>2, <1>13, <2>1 DEF Answered
  <2>3. CASE e \in answers[s]
    BY <1>6, <2>3
  <2>4. CASE Cardinality(answers[s]) >= limit /\ \A d \in answers[s] : A!After(d, e)
    <3>1. PICK S \in SUBSET M : S = answers[s]
      BY <1>6
    <3>2. e \in A!Entry /\ limit \in Nat
      BY <1>3, <1>13
    <3>3. \A x \in P : A!After(x, e)
      BY <1>5, <1>7, <2>4, <3>1, <3>2, LeftOutIsOlder
    <3>4. M # {}
      <4>1. S = {} => Cardinality(S) = 0
        BY FS_EmptySet
      <4> QED BY <1>3, <2>4, <3>1, <4>1
    <3> QED BY <2>4, <3>3, <3>4
  <2> QED BY <2>2, <2>3, <2>4
<1>14. M # {} => P # {}
  BY <1>3, <1>5, <1>7, FirstIsNotEmpty
<1>15. A!HasNext <=> P # {} /\ ((\E s \in Sources : Cardinality(answers[s]) >= limit) \/ Cardinality(M) > limit)
  BY <1>4, <1>8, SameCardinality DEF A!HasNext, A!Full
<1>16. ShownInv' /\ StandingInv' /\ (cursor' = A!None \/ cursor' \in A!Entry)
  <2>1. CASE A!HasNext
    <3>1. P # {} /\ P \in SUBSET A!Entry /\ phase' = "read" /\ cursor' = A!LastShown
      BY <1>5, <1>8, <1>15, <2>1 DEF A!Merge
    <3>2. cursor' \in P /\ \A x \in P : x = cursor' \/ A!After(x, cursor')
      <4>1. \E e \in P : \A x \in P : x = e \/ A!After(x, e)
        BY <3>1, OldestExists
      <4> QED BY <1>8, <3>1, <4>1 DEF A!LastShown
    <3>3. PICK c \in A!Entry : c = cursor' /\ c \in P /\ \A x \in P : x = c \/ A!After(x, c)
      BY <3>1, <3>2
    <3>4. c # A!None
      <4>1. PICK z : z = A!None
        OBVIOUS
      <4>2. z.t = 0
        BY <4>1 DEF A!None
      <4> QED BY <4>1, <4>2, EntriesAreNumbered
    <3>5. \A e : Past(e)' <=> ~A!After(c, e)
      BY <3>3, <3>4 DEF Past
    <3>6. ASSUME NEW e \in A!Entry, Past(e) PROVE Past(e)'
      <4>1. PICK d \in A!Entry : d = cursor /\ ~A!After(d, e)
        BY <3>6 DEF Past, SearchInv, PagesTyped
      <4>2. A!After(d, c)
        BY <1>5, <1>8, <3>3, <3>6, <4>1 DEF Past
      <4> QED BY <3>5, <4>1, <4>2, AfterIsAnOrder
    <3>7. \A e \in P : Past(e)'
      BY <1>5, <1>8, <3>3, <3>5, AfterIsAnOrder
    <3>8. ShownInv'
      <4>1. ASSUME NEW e \in A!Entry PROVE shown'[e] <= 1 /\ (shown'[e] = 1 => Past(e)')
        <5>1. CASE e \in P
          BY <1>11, <3>7, <5>1
        <5>2. CASE e \notin P
          BY <1>1, <1>11, <3>6, <5>2 DEF SearchInv, ShownInv
        <5> QED BY <5>1, <5>2
      <4> QED BY <4>1 DEF ShownInv
    <3>9. ASSUME NEW e \in standing, A!Matches(e), e.s \notin missed, Past(e)' PROVE shown'[e] = 1
      <4>1. e \in A!Entry
        BY <1>3
      <4>2. CASE Past(e)
        <5>1. shown[e] = 1
          BY <3>9, <4>2 DEF SearchInv, StandingInv
        <5> QED BY <1>11, <4>1, <5>1
      <4>3. CASE ~Past(e)
        <5>1. ~A!After(c, e)
          BY <3>5, <3>9
        <5>2. e \in M
          BY <1>13, <3>3, <3>9, <4>3, <5>1
        <5>3. e \in P
          BY <1>9, <3>3, <5>1, <5>2
        <5> QED BY <1>11, <4>1, <5>3
      <4> QED BY <4>2, <4>3
    <3>10. StandingInv'
      BY <1>1, <3>1, <3>9 DEF StandingInv, A!Matches
    <3> QED BY <3>3, <3>8, <3>10
  <2>2. CASE ~A!HasNext
    <3>1. phase' = "over" /\ UNCHANGED cursor
      BY <2>2 DEF A!Merge
    <3>2. ShownInv'
      BY <1>11, <3>1 DEF ShownInv
    <3>3. ASSUME NEW e \in standing, A!Matches(e), e.s \notin missed PROVE shown'[e] = 1
      <4>1. e \in A!Entry
        BY <1>3
      <4>2. CASE Past(e)
        <5>1. shown[e] = 1
          BY <3>3, <4>2 DEF SearchInv, StandingInv
        <5> QED BY <1>11, <4>1, <5>1
      <4>3. CASE ~Past(e)
        <5>1. e \in M
          BY <1>13, <1>14, <1>15, <2>2, <3>3, <4>3
        <5>2. CASE e \in P
          BY <1>11, <4>1, <5>2
        <5>3. CASE e \notin P
          <6>1. Cardinality(P) >= limit
            BY <1>9, <5>1, <5>3
          <6>2. IsFiniteSet(P) /\ IsFiniteSet(M) /\ Cardinality(P) \in Nat /\ Cardinality(M) \in Nat
            BY <1>5, <1>8, EntriesAreFinite
          <6>3. Cardinality(P \cup {e}) = Cardinality(P) + 1
            BY <5>3, <6>2, FS_AddElement
          <6>4. P \cup {e} \in SUBSET M
            BY <1>8, <5>1
          <6>5. Cardinality(P \cup {e}) <= Cardinality(M)
            BY <6>2, <6>4, FS_Subset
          <6>6. Cardinality(M) > limit
            BY <1>3, <6>1, <6>2, <6>3, <6>5
          <6> QED BY <1>14, <1>15, <2>2, <5>1, <6>6
        <5> QED BY <5>2, <5>3
      <4> QED BY <4>2, <4>3
    <3>4. StandingInv'
      BY <1>1, <3>3 DEF StandingInv, A!Matches
    <3> QED BY <3>1, <3>2, <3>4 DEF SearchInv, PagesTyped
  <2> QED BY <2>1, <2>2
<1>17. PagesTyped'
  BY <1>1, <1>12, <1>16 DEF SearchInv, PagesTyped
<1>18. PageInv'
  BY DEF PageInv, A!Merge
<1> QED BY <1>16, <1>17, <1>18 DEF SearchInv

LEMMA NextKeepsSearchInv == SearchInv /\ A!SearchNext => SearchInv'
  BY SearchAuditKeepsInv, MergeKeepsInv, RecordKeepsInv, AnswerKeepsInv DEF A!SearchNext

-----------------------------------------------------------------------------
(* Whatever does not move stays.                                           *)

LEMMA GrantsStay == ASSUME GrantsInv, UNCHANGED V!accessVars PROVE GrantsInv'
  BY DEF V!accessVars, GrantsInv, Covers

LEMMA StaffStays == ASSUME StaffInv, UNCHANGED V!vars PROVE StaffInv'
  BY MembersRest, InvitationsRest DEF V!vars, StaffInv, ShopInv

LEMMA AccountsStay == ASSUME AccountsInv, UNCHANGED I!vars PROVE AccountsInv'
<1>1. TokensInv /\ LinksInv /\ identityAccount \in Accounts /\ UNCHANGED <<identityAccount, token, busy, link>>
  BY DEF I!vars, AccountsInv, TokensInv
<1>2. ReadIsTyped'
  BY <1>1 DEF TokensInv, ReadIsTyped
<1> QED BY <1>1, <1>2, TokensRest, LinksRest DEF AccountsInv

LEMMA RequestsStay == ASSUME RequestsInv, UNCHANGED I!authVars PROVE RequestsInv'
<1>1. UNCHANGED <<env, running, rotation, switched, subject, session, bearer, req, identityNow>>
  BY DEF I!authVars
<1>2. RequestsTyped /\ KeysInv /\ AnswersInv /\ identityNow \in Nat
  BY DEF RequestsInv, RequestsTyped
<1>3. RequestsTyped'
  BY <1>1, <1>2 DEF RequestsTyped
<1>4. KeysInv'
  BY <1>1, <1>2, KeysRest
<1>5. AnswersInv'
  BY <1>1, <1>2, AnswersRest DEF I!SessionAnswers
<1> QED BY <1>3, <1>4, <1>5 DEF RequestsInv

LEMMA AdminsStay ==
  ASSUME ChangesInv, FactorInv, UNCHANGED <<adminHeld, adminVersion, adminRequest, totp, codes, reauth, proof, spent, done>>
  PROVE  ChangesInv' /\ FactorInv'
<1>1. ChangesInv'
  BY ReauthenticationKeepsChanges
<1>2. FactorInv'
  BY ProofsStay DEF FactorInv, ProofsTyped, CodesInv, ProofsInv
<1> QED BY <1>1, <1>2

LEMMA SearchStays == ASSUME SearchInv, UNCHANGED A!searchVars PROVE SearchInv'
<1>1. UNCHANGED <<rows, filter, limit, standing, cursor, pages, answers, missed, shown, phase>>
  BY DEF A!searchVars
<1>2. \A e : Past(e)' = Past(e) /\ A!Matches(e)' = A!Matches(e)
  BY <1>1 DEF Past, A!Matches
<1>3. \A s : Answered(s)' = Answered(s)
  BY <1>1, <1>2 DEF Answered
<1> QED BY <1>1, <1>2, <1>3 DEF SearchInv, PagesTyped, ShownInv, StandingInv, PageInv, A!Pending

-----------------------------------------------------------------------------
(* Theorems.                                                               *)

(* An act of a shop names the grant that allowed it: what Order writes to  *)
(* its audit was permitted by the owner's row or by the version of the     *)
(* membership it names, however often the membership changed between the   *)
(* question to Vendor and the command (VendorStaff, AccessSpec).           *)
THEOREM GrantsAreNamed == V!AccessSpec => []V!AuditNamesTheGrant
<1>1. GrantsInv /\ [V!AccessNext]_(V!accessVars) => GrantsInv'
  BY NextKeepsGrantsInv, GrantsStay
<1> QED BY <1>1, InitHasGrantsInv, GrantsInvNamesGrants, PTL DEF V!AccessSpec

(* The link in a mail marked sent works as long as its invitation is       *)
(* pending, through resends, crashes, lost answers and the end of leases,  *)
(* and a removed member may do nothing of the shop.  Nobody becomes a      *)
(* member but by a link, and with permissions its sender may grant at that *)
(* moment, or could when the acceptance, caught behind a change of the     *)
(* sender's row, began (VendorStaff, Spec).                                *)
THEOREM StaffAreLetIn ==
  V!Spec => /\ [](V!SentLinkWorks /\ V!RevokedHoldsNothing)
            /\ [][V!GrantedByHolder]_(V!vars)
<1>1. StaffInv /\ [V!Next]_(V!vars) => StaffInv' /\ [V!GrantedByHolder]_(V!vars)
  BY NextKeepsStaffInv, StaffStepsAreGranted, StaffStays
<1> QED BY <1>1, InitHasStaffInv, StaffInvProtects, PTL DEF V!Spec

(* A session lives only on the credentials it was opened with and in one   *)
(* copy, and a reset or verification link that still works was mailed to   *)
(* no address but the account's, for every interleaving of logins,         *)
(* refreshes, changes of password or address and deliveries that read      *)
(* before they lock (Identity, Spec).                                      *)
THEOREM SessionsFollowCredentials == I!Spec => [](I!SessionsAreCurrent /\ I!LinksFollowAddress)
<1>1. AccountsInv /\ [I!Next]_(I!vars) => AccountsInv'
  BY NextKeepsAccountsInv, AccountsStay
<1>2. AccountsInv => I!SessionsAreCurrent /\ I!LinksFollowAddress
  BY DEF AccountsInv, TokensInv, LinksInv
<1> QED BY <1>1, <1>2, InitHasAccountsInv, PTL DEF I!Spec

(* A request is admitted only for a session that lived, with a token not   *)
(* expired, when it came, and 401 is answered only to one whose session    *)
(* ended or whose token expired: no step of a key rotation, in any order   *)
(* of the restarts and for any lifetime of a token, signs anybody out      *)
(* (Identity, AuthSpec; deploy/gen-jwt-keys.sh).                           *)
THEOREM NobodyIsSignedOut == I!AuthSpec => [](I!AdmittedWasLive /\ I!NoOneIsSignedOut)
<1>1. RequestsInv /\ [I!AuthNext]_(I!authVars) => RequestsInv'
  BY NextKeepsRequestsInv, RequestsStay
<1>2. RequestsInv => I!AdmittedWasLive /\ I!NoOneIsSignedOut
  BY DEF RequestsInv, AnswersInv
<1> QED BY <1>1, <1>2, InitHasRequestsInv, PTL DEF I!AuthSpec

(* Every money operation has a proof of its own and every proof a code of  *)
(* its own, and a change of grants applies to exactly the grants its       *)
(* manager was shown, whoever else changes them (AdminAccess, Spec).       *)
THEOREM AdminsAreProven ==
  A!Spec => []A!OperationsAreProven /\ [][A!ChangesFollowReading]_(A!vars)
<1>1. A!Init => ChangesInv /\ FactorInv
  BY InitHasChangesInv, InitHasFactorInv
<1>2. ChangesInv /\ FactorInv /\ [A!Next]_(A!vars) => ChangesInv' /\ FactorInv' /\ [A!ChangesFollowReading]_(A!vars)
  <2>1. UNCHANGED A!vars => UNCHANGED <<adminHeld, adminVersion, adminRequest, totp, codes, reauth, proof, spent, done>>
    BY DEF A!vars, A!access, A!factor
  <2> QED BY <2>1, NextKeepsChangesInv, NextKeepsFactorInv, AdminsStay
<1> QED BY <1>1, <1>2, FactorInvProves, PTL DEF A!Spec

(* Paging the audit trail shows no row twice, and by its end every row     *)
(* that was there when it began and that a service answering every page    *)
(* holds, whatever is written meanwhile, for every size of a page and      *)
(* every number of services and rows (AdminAccess, SearchSpec).            *)
THEOREM AuditPagesAreComplete == A!SearchSpec => []A!PagesShowEachRowOnce
<1>1. SearchInv /\ [A!SearchNext]_(A!searchVars) => SearchInv'
  BY NextKeepsSearchInv, SearchStays
<1> QED BY <1>1, InitHasSearchInv, SearchInvShowsOnce, PTL DEF A!SearchSpec

-----------------------------------------------------------------------------
(* The composition the run checks.                                         *)

MCInv ==
  /\ focus = "staff" => StaffInv
  /\ focus = "grants" => GrantsInv
  /\ focus = "accounts" => AccountsInv
  /\ focus = "requests" => RequestsInv
  /\ focus = "admins" => ChangesInv /\ FactorInv
  /\ focus = "audit" => SearchInv

LEMMA MCInitHasInv == MCInit => MCInv
  BY InitHasStaffInv, InitHasGrantsInv, InitHasAccountsInv, InitHasRequestsInv, InitHasChangesInv, InitHasFactorInv,
     InitHasSearchInv DEF MCInit, MCInv

LEMMA MCNextKeepsInv ==
  MCInv /\ [MCNext]_mcVars =>
    /\ MCInv'
    /\ [/\ focus = "staff" => V!GrantedByHolder
        /\ focus = "admins" => A!ChangesFollowReading]_mcVars
<1> DEFINE G == /\ focus = "staff" => V!GrantedByHolder
                /\ focus = "admins" => A!ChangesFollowReading
<1>1. ASSUME MCInv, UNCHANGED mcVars PROVE MCInv'
  <2>1. /\ UNCHANGED focus /\ UNCHANGED V!accessVars /\ UNCHANGED V!vars /\ UNCHANGED I!vars
        /\ UNCHANGED I!authVars /\ UNCHANGED A!searchVars
        /\ UNCHANGED <<adminHeld, adminVersion, adminRequest, totp, codes, reauth, proof, spent, done>>
    BY <1>1 DEF mcVars, staffGroup, grantsGroup, accountsGroup, requestsGroup, adminsGroup, auditGroup,
                V!accessVars, V!vars, I!vars, I!authVars, A!searchVars
  <2> QED BY <1>1, <2>1, GrantsStay, StaffStays, AccountsStay, RequestsStay, AdminsStay, SearchStays DEF MCInv
<1>2. ASSUME MCInv, MCNext PROVE MCInv' /\ G
  <2>1. CASE Only("staff") /\ V!Next
    BY <1>2, <2>1, NextKeepsStaffInv, StaffStepsAreGranted DEF MCInv, Only
  <2>2. CASE Only("grants") /\ V!AccessNext
    BY <1>2, <2>2, NextKeepsGrantsInv DEF MCInv, Only
  <2>3. CASE Only("accounts") /\ I!Next
    BY <1>2, <2>3, NextKeepsAccountsInv DEF MCInv, Only
  <2>4. CASE Only("requests") /\ I!AuthNext
    BY <1>2, <2>4, NextKeepsRequestsInv DEF MCInv, Only
  <2>5. CASE Only("admins") /\ A!Next
    BY <1>2, <2>5, NextKeepsChangesInv, NextKeepsFactorInv DEF MCInv, Only
  <2>6. CASE Only("audit") /\ A!SearchNext
    BY <1>2, <2>6, NextKeepsSearchInv DEF MCInv, Only
  <2> QED BY <1>2, <2>1, <2>2, <2>3, <2>4, <2>5, <2>6 DEF MCNext
<1> QED BY <1>1, <1>2

(* Who may act is proven and recorded, in each of the six parts: the       *)
(* invariant of the run, for every number of accounts, tokens, links,      *)
(* admins, services, rows, staff and invitations and every bound.          *)
THEOREM ActsAreProven == MCSpec => []AccessIsProven
<1>1. MCInv => AccessIsProven
  BY StaffInvProtects, GrantsInvNamesGrants, FactorInvProves, SearchInvShowsOnce
  DEF MCInv, AccessIsProven, AccountsInv, TokensInv, LinksInv, RequestsInv, AnswersInv
<1>2. MCInv /\ [MCNext]_mcVars => MCInv'
  BY MCNextKeepsInv
<1> QED BY <1>1, <1>2, MCInitHasInv, PTL DEF MCSpec

(* Permissions come from one who holds them: no step lets somebody into a  *)
(* shop with more than the sender of the link holds, or held when that     *)
(* acceptance began to wait for the sender's row, or changes an admin's    *)
(* grants other than those its manager was shown (acceptInvitation,        *)
(* PermissionService).                                                     *)
THEOREM PermissionsComeFromHolders == MCSpec => GrantsComeFromHolders
<1>1. MCInv /\ [MCNext]_mcVars => MCInv'
  BY MCNextKeepsInv
<1>2. MCInv /\ [MCNext]_mcVars => [/\ focus = "staff" => V!GrantedByHolder
                                   /\ focus = "admins" => A!ChangesFollowReading]_mcVars
  BY MCNextKeepsInv
<1> QED BY <1>1, <1>2, MCInitHasInv, PTL DEF MCSpec, GrantsComeFromHolders
=============================================================================
