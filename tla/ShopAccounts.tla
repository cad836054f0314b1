---------------------------- MODULE ShopAccounts ----------------------------
(***************************************************************************)
(* Payout accounts of one shop (Vendor usecase/payout.go): the owner       *)
(* submits a version, an admin who confirmed the password for exactly that *)
(* version verifies or rejects it, the verified one becomes the default    *)
(* that Payment pays to, and a number is released only with a record of    *)
(* who read it and why.                                                    *)
(*                                                                         *)
(* The proof is spent in Identity before Vendor's own transaction, which   *)
(* locks the shop's row.  A number is the version it was encrypted for: a  *)
(* ciphertext opens only with the version it was sealed with.              *)
(***************************************************************************)
EXTENDS Integers, Sequences, FiniteSets, Naturals

CONSTANTS
  Admins, Owner,        \* the owner may be an admin too
  RequireProof,         \* whether admins have scoped permissions (AF-19)
  MaxVersions, MaxProofs, MaxReads   \* bounds of the model

VARIABLES
  accounts,   \* the versions, in order
  proofs,     \* confirmations that were not spent
  confirmed,  \* how many were given
  call,       \* Admins -> an operation whose proof was spent
  audit,      \* vendor_payout_details_audit
  released,   \* numbers that left the service
  told        \* what Payment was told to pay to

payoutVars == <<accounts, proofs, confirmed, call, audit, released, told>>

Statuses == {"pending", "verified", "rejected"}
Versions == 1..Len(accounts)

\* What a confirmation is bound to.
PayoutDecisionRef(version, verify) == <<version, IF verify THEN "verify" ELSE "reject">>
PayoutDetailsRef(version) == <<version, "details">>
Refs == (1..MaxVersions) \X {"verify", "reject", "details"}

NoRef == <<0, "none">>
NoCall == [ref |-> NoRef, proof |-> NoRef]

-----------------------------------------------------------------------------
(* The owner.                                                              *)

NextVersion == Len(accounts) + 1

\* The default of a new version waits for its verification.
NewAccount(version) == [number |-> version, status |-> "pending", default |-> FALSE, by |-> "none", proof |-> NoRef]

Submit ==
  /\ NextVersion <= MaxVersions
  /\ accounts' = Append(accounts, NewAccount(NextVersion))
  /\ UNCHANGED <<proofs, confirmed, call, audit, released, told>>

-----------------------------------------------------------------------------
(* The admins.                                                             *)

\* Identity: the password is confirmed for one operation.
Confirm(a, ref) ==
  /\ RequireProof /\ confirmed < MaxProofs /\ confirmed' = confirmed + 1
  /\ proofs' = proofs \cup {[id |-> confirmed', admin |-> a, ref |-> ref]}
  /\ UNCHANGED <<accounts, call, audit, released, told>>

ForTheAction(p, a, ref) == p.admin = a /\ p.ref[2] = ref[2]

\* Only the operation it was given for can spend it.
ConsumeProof(p, a, ref) == p.admin = a /\ p.ref = ref

\* Whatever follows, the proof is gone.
checkProof(a, ref) ==
  /\ call[a] = NoCall
  /\ IF RequireProof
     THEN \E p \in proofs :
            /\ ConsumeProof(p, a, ref) /\ proofs' = proofs \ {p}
            /\ call' = [call EXCEPT ![a] = [ref |-> ref, proof |-> p.ref]]
     ELSE call' = [call EXCEPT ![a] = [ref |-> ref, proof |-> NoRef]] /\ UNCHANGED proofs
  /\ UNCHANGED <<accounts, confirmed, audit, released, told>>

\* Nobody reviews an account of their own shop, nor one that was decided.
MayDecide(a, version) == a # Owner /\ version \in Versions /\ accounts[version].status = "pending"

\* A verified version takes over from the one paid to so far.
DecideRow(version, a, status, proof) ==
  [n \in Versions |->
    IF n = version
    THEN [accounts[n] EXCEPT !.status = status, !.default = (status = "verified"), !.by = a, !.proof = proof]
    ELSE IF status = "verified" THEN [accounts[n] EXCEPT !.default = FALSE] ELSE accounts[n]]

Decide(a) ==
  LET version == call[a].ref[1]
  IN  /\ call[a].ref[2] \in {"verify", "reject"}
      /\ accounts' = IF MayDecide(a, version)
                     THEN DecideRow(version, a, IF call[a].ref[2] = "verify" THEN "verified" ELSE "rejected", call[a].proof)
                     ELSE accounts
      /\ call' = [call EXCEPT ![a] = NoCall]
      /\ UNCHANGED <<proofs, confirmed, audit, released, told>>

DecideWithProof(a, version, verify) == checkProof(a, PayoutDecisionRef(version, verify))

DetailsWithProof(a, version) == checkProof(a, PayoutDetailsRef(version))

AuditRead(version, actor, scope) == audit' = Append(audit, [version |-> version, actor |-> actor, scope |-> scope])

\* The plaintext leaves only with the transaction that records its reading.
Details(actor, version, scope) ==
  /\ Len(audit) < MaxReads /\ version \in Versions
  /\ (scope = "payment-payout" => accounts[version].status = "verified")
  /\ AuditRead(version, actor, scope)
  /\ released' = Append(released, [number |-> accounts[version].number, to |-> actor])
  /\ UNCHANGED <<accounts, proofs, confirmed, told>>

AdminDetails(a) ==
  /\ call[a].ref[2] = "details" /\ Details(a, call[a].ref[1], "admin-verification")
  /\ call' = [call EXCEPT ![a] = NoCall]

\* The account is gone, or the answer is lost: only the proof was spent.
AdminCallFails(a) ==
  /\ call[a] # NoCall /\ call' = [call EXCEPT ![a] = NoCall]
  /\ UNCHANGED <<accounts, proofs, confirmed, audit, released, told>>

-----------------------------------------------------------------------------
(* Payment.                                                                *)

PaymentDetails(version) == Details("payment", version, "payment-payout") /\ UNCHANGED call

FindDefaultVerified == {n \in Versions : accounts[n].default /\ accounts[n].status = "verified"}

\* Without an account number: what a payout item references.
DefaultDestination ==
  /\ \E n \in FindDefaultVerified :
       /\ \A m \in FindDefaultVerified : m <= n
       /\ told' = told \cup {n}
  /\ UNCHANGED <<accounts, proofs, confirmed, call, audit, released>>

-----------------------------------------------------------------------------
PayoutInit ==
  /\ accounts = <<>> /\ proofs = {} /\ confirmed = 0
  /\ call = [a \in Admins |-> NoCall]
  /\ audit = <<>> /\ released = <<>> /\ told = {}

PayoutNext ==
  \/ Submit \/ DefaultDestination
  \/ \E a \in Admins : Decide(a) \/ AdminDetails(a) \/ AdminCallFails(a)
  \/ \E a \in Admins, ref \in Refs : Confirm(a, ref)
  \/ \E a \in Admins, v \in 1..MaxVersions :
       DetailsWithProof(a, v) \/ \E verify \in BOOLEAN : DecideWithProof(a, v, verify)
  \/ \E v \in 1..MaxVersions : PaymentDetails(v)

PayoutSpec == PayoutInit /\ [][PayoutNext]_payoutVars

-----------------------------------------------------------------------------
\* Payment pays only to accounts that an admin other than the owner verified
\* by an operation confirmed for exactly that version, never to two at once,
\* and a number that left the service has a record of its reader (payout.go
\* DecideWithProof, Decide, Details; repository Decide).
DestinationsAreProven ==
  /\ \A n \in told : accounts[n].by \in Admins \ {Owner} /\ (RequireProof => accounts[n].proof = PayoutDecisionRef(n, TRUE))
  /\ Cardinality(FindDefaultVerified) <= 1
  /\ \A i \in DOMAIN released : audit[i].version = released[i].number /\ audit[i].actor = released[i].to

-----------------------------------------------------------------------------
(***************************************************************************)
(* The addresses of a shop and the one of them that receives returned      *)
(* goods: the owner designates it, an admin or the carrier's address check *)
(* verifies exactly the version they looked at, and Order copies a         *)
(* verified destination to the returns it opens.                           *)
(*                                                                         *)
(* Changes of addresses hold the shop's row; designating one does not, and *)
(* the transaction that edits an address is open for a while: `editing' is *)
(* the address and whether it has bumped the destination's version.        *)
(***************************************************************************)
CONSTANTS
  Addresses,
  MaxVersion,     \* bound on versions of the destination
  MaxText         \* bound on edits of one address

VARIABLES
  address,     \* text version of each address, 0 when there is none
  default,     \* the default pickup addresses
  approved,    \* whether the shop was approved
  editing,     \* an edit of an address that is not committed
  dest,        \* vendor_return_destinations
  carrier,     \* a check the carrier has been asked for
  view,        \* the version and the text an admin looks at
  checked,     \* the address and text that the verified version was verified with
  slipped,     \* whether an edit changed the text under the destination's version
  snapshots    \* what is known of the address and text copied to returns

returnsVars == <<address, default, approved, editing, dest, carrier, view, checked, slipped, snapshots>>

None == "none"
NoEdit == [address |-> None, touched |-> FALSE]
Created == {a \in Addresses : address[a] > 0}
NoDest == [address |-> None, version |-> 0, verified |-> 0, rejected |-> FALSE, sent |-> 0]
NoCheck == [version |-> 0, address |-> None, text |-> 0]
NoSnapshot == [known |-> TRUE, asSeen |-> TRUE, edited |-> FALSE]
Unlocked == editing.address = None

-----------------------------------------------------------------------------
(* Addresses.                                                              *)

\* A shop's first address is its default.
Add(a) ==
  /\ Unlocked /\ address[a] = 0
  /\ address' = [address EXCEPT ![a] = 1]
  /\ default' = IF Created = {} THEN {a} ELSE default
  /\ UNCHANGED <<approved, editing, dest, carrier, view, checked, slipped, snapshots>>

SetDefault(a) ==
  /\ Unlocked /\ a \in Created
  /\ default' = {a}
  /\ UNCHANGED <<address, approved, editing, dest, carrier, view, checked, slipped, snapshots>>

\* Neither the default nor the address of the destination.
MayDelete(a) == a \notin default /\ dest.address # a

Delete(a) ==
  /\ Unlocked /\ a \in Created
  /\ MayDelete(a)
  /\ address' = [address EXCEPT ![a] = 0] /\ default' = default \ {a}
  /\ UNCHANGED <<approved, editing, dest, carrier, view, checked, slipped, snapshots>>

Touches(a) == dest.address = a

\* An edit begins; if the address is the destination's it locks the row.
UpdateBegin(a) ==
  /\ Unlocked /\ a \in Created /\ address[a] < MaxText
  /\ Touches(a) => dest.version < MaxVersion
  /\ editing' = [address |-> a, touched |-> Touches(a)]
  /\ UNCHANGED <<address, default, approved, dest, carrier, view, checked, slipped, snapshots>>

\* A new version, not verified and not rejected.
TouchAddress == [dest EXCEPT !.version = @ + 1, !.rejected = FALSE]

UpdateCommit ==
  /\ ~Unlocked
  /\ address' = [address EXCEPT ![editing.address] = @ + 1]
  /\ dest' = IF editing.touched THEN TouchAddress ELSE dest
  /\ slipped' = IF editing.touched THEN FALSE ELSE slipped \/ Touches(editing.address)
  /\ editing' = NoEdit
  /\ UNCHANGED <<default, approved, carrier, view, checked, snapshots>>

\* The row of the destination is locked by an edit that touched it.
RowFree == Unlocked \/ ~editing.touched

\* An approval needs a default pickup address.
Approve ==
  /\ ~approved /\ Unlocked /\ default # {}
  /\ approved' = TRUE
  /\ UNCHANGED <<address, default, editing, dest, carrier, view, checked, slipped, snapshots>>

-----------------------------------------------------------------------------
(* The destination.                                                        *)

Set(a) ==
  /\ a \in Created /\ RowFree /\ dest.version < MaxVersion
  /\ dest' = [dest EXCEPT !.address = a, !.version = @ + 1, !.rejected = FALSE]
  /\ slipped' = FALSE
  /\ UNCHANGED <<address, default, approved, editing, carrier, view, checked, snapshots>>

Verified(d) == d.version > 0 /\ d.verified = d.version
AwaitsDecision(d) == d.version > 0 /\ ~Verified(d) /\ ~d.rejected

Current == [version |-> dest.version, address |-> dest.address, text |-> address[dest.address]]

\* An admin opens the destination...
AdminGet ==
  /\ dest.version > 0 /\ view' = Current /\ view' # view
  /\ UNCHANGED <<address, default, approved, editing, dest, carrier, checked, slipped, snapshots>>

AnyVersion(version) == version > 0

SameVersion(version) == dest.version > 0 /\ dest.version = version

\* ... and verifies or rejects the version seen, however it was decided before.
DecideDestination(verify) ==
  /\ RowFree /\ SameVersion(view.version)
  /\ dest' = [dest EXCEPT !.verified = IF verify THEN dest.version ELSE 0, !.rejected = ~verify]
  /\ checked' = IF verify THEN view ELSE NoCheck
  /\ UNCHANGED <<address, default, approved, editing, carrier, view, slipped, snapshots>>

\* A worker asks the carrier about a version that waits for a decision...
PendingCarrierChecks ==
  /\ carrier = NoCheck /\ AwaitsDecision(dest) /\ dest.sent # dest.version
  /\ carrier' = Current
  /\ UNCHANGED <<address, default, approved, editing, dest, view, checked, slipped, snapshots>>

\* ... and records its answer for the version asked about; a decision that an
\* admin took meanwhile is kept.
applyCarrierCheck(result) ==
  /\ carrier # NoCheck /\ RowFree
  /\ carrier' = NoCheck
  /\ LET decide == AwaitsDecision(dest) /\ result # "unsupported"
     IN  IF result = "failed" \/ ~SameVersion(carrier.version) THEN UNCHANGED <<dest, checked>>
         ELSE /\ dest' = [dest EXCEPT
                   !.sent = dest.version,
                   !.verified = IF decide /\ result = "deliverable" THEN dest.version ELSE @,
                   !.rejected = @ \/ (decide /\ result = "undeliverable")]
              /\ checked' = IF decide /\ result = "deliverable" THEN carrier ELSE checked
  /\ UNCHANGED <<address, default, approved, editing, view, slipped, snapshots>>

\* Order copies the destination to a return, only when its version is verified.
Snapshot ==
  /\ Verified(dest)
  /\ snapshots' = [known |-> checked.address = dest.address /\ checked.version = dest.version,
                   asSeen |-> checked.text = address[dest.address],
                   edited |-> slipped]
  /\ UNCHANGED <<address, default, approved, editing, dest, carrier, view, checked, slipped>>

-----------------------------------------------------------------------------
ReturnsInit ==
  /\ address = [a \in Addresses |-> 0] /\ default = {} /\ approved = FALSE
  /\ editing = NoEdit /\ dest = NoDest /\ carrier = NoCheck /\ view = NoCheck
  /\ checked = NoCheck /\ slipped = FALSE /\ snapshots = NoSnapshot

ReturnsNext ==
  \/ \E a \in Addresses : Add(a) \/ SetDefault(a) \/ Delete(a) \/ UpdateBegin(a) \/ Set(a)
  \/ UpdateCommit \/ Approve \/ AdminGet
  \/ \E verify \in BOOLEAN : DecideDestination(verify)
  \/ PendingCarrierChecks
  \/ \E result \in {"deliverable", "undeliverable", "unsupported", "failed"} : applyCarrierCheck(result)
  \/ Snapshot

ReturnsSpec == ReturnsInit /\ [][ReturnsNext]_returnsVars

-----------------------------------------------------------------------------
\* A return is never sent to an address other than the one, under the version,
\* that someone verified, nor to a text they did not see unless an edit of that
\* address was open while the owner designated it; the address the destination
\* names is never deleted, and a shop that was approved keeps exactly one default
\* pickup address (vendor_address_usecase.go, return_destination.go).
DestinationWasVerified ==
  /\ snapshots.known /\ (snapshots.asSeen \/ snapshots.edited)
  /\ dest.version > 0 => dest.address \in Created
  /\ Cardinality(default) <= 1 /\ default \subseteq Created /\ (approved => default # {})

\* Order only ever copies a destination someone checked: the text a return gets
\* is the text its verifier saw.  The code breaks it: an edit that found its
\* address not designated commits after the owner designated it and the verifier
\* looked, and no version tells the two texts apart (migration 000012).
SnapshotIsAsSeen == snapshots.asSeen

=============================================================================
