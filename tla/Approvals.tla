------------------------------ MODULE Approvals ------------------------------
(***************************************************************************)
(* Maker-checker requests for manual money actions (Payment,               *)
(* usecase/approval_usecase.go).  A maker drafts a request about a target  *)
(* and submits it, a different admin decides it, and an approved action    *)
(* runs in the transaction of the decision.  The modules that own a target *)
(* (Refunds, Settlement) extend this one and join ApproveRequest with the  *)
(* action it executes.                                                     *)
(***************************************************************************)
EXTENDS Naturals, FiniteSets

CONSTANTS Admins,       \* finance admins
          NoAdmin       \* nobody

ASSUME AdminsAssumption == NoAdmin \notin Admins

VARIABLES request,      \* request[t]: the newest request about target t
          review,       \* review[t]: the checker whose permission checks passed
          preparers     \* admins who hold finance.prepare

approvalVars == <<request, review, preparers>>

NoRequest == [status |-> "none", maker |-> NoAdmin, checker |-> NoAdmin,
              outcome |-> "none", snap |-> "none", due |-> FALSE]

ApprovalInit(Targets) ==
  /\ request = [t \in Targets |-> NoRequest]
  /\ review = [t \in Targets |-> NoAdmin]
  /\ preparers = Admins

OpenRequest(t) == request[t].status \in {"draft", "pending"}

\* Store.Create: at most one open request per target.
Draft(t, maker, outcome, snap) ==
  /\ maker \in preparers
  /\ ~OpenRequest(t)
  /\ request' = [request EXCEPT ![t] =
       [NoRequest EXCEPT !.status = "draft", !.maker = maker, !.outcome = outcome, !.snap = snap]]
  /\ review' = [review EXCEPT ![t] = NoAdmin]
  /\ UNCHANGED preparers

\* Store.Transition: the row moves once, from the status it was read with.
\* A request that ends without effect (rejected, expired, cancelled) is kept
\* as "closed" only: nothing reads more of it.
Transition(t, to, checker) ==
  request' = [request EXCEPT ![t] =
    IF to \in {"pending", "approved"} THEN [@ EXCEPT !.status = to, !.checker = checker]
    ELSE [NoRequest EXCEPT !.status = "closed"]]

Submit(t) ==
  /\ request[t].status = "draft" /\ ~request[t].due
  /\ Transition(t, "pending", NoAdmin)
  /\ UNCHANGED <<review, preparers>>

\* A submission or a decision that finds the request overdue expires it.
expireIfDue(t) ==
  /\ OpenRequest(t) /\ request[t].due
  /\ Transition(t, "expired", NoAdmin)
  /\ review' = [review EXCEPT ![t] = NoAdmin]
  /\ UNCHANGED preparers

\* Mutant: the maker may decide.
DecideChecksAnyone(t, checker) ==
  /\ request[t].status = "pending" /\ review[t] = NoAdmin
  /\ request[t].maker \in preparers
  /\ review' = [review EXCEPT ![t] = checker]
  /\ UNCHANGED <<request, preparers>>

\* Decide's checks before its transaction: another person, and the maker may
\* still prepare.
DecideChecks(t, checker) ==
  /\ request[t].status = "pending" /\ review[t] = NoAdmin
  /\ checker # request[t].maker
  /\ request[t].maker \in preparers
  /\ review' = [review EXCEPT ![t] = checker]
  /\ UNCHANGED <<request, preparers>>

Reject(t, checker) ==
  /\ request[t].status = "pending" /\ ~request[t].due
  /\ checker # request[t].maker
  /\ Transition(t, "rejected", checker)
  /\ review' = [review EXCEPT ![t] = NoAdmin]
  /\ UNCHANGED preparers

\* The decision's transaction; the executed action is the caller's conjunct.
\* When that action refuses, nothing of the transaction happens.
ApproveRequest(t) ==
  /\ review[t] # NoAdmin
  /\ request[t].status = "pending" /\ ~request[t].due
  /\ Transition(t, "approved", review[t])
  /\ review' = [review EXCEPT ![t] = NoAdmin]
  /\ UNCHANGED preparers

Cancel(t) ==
  /\ OpenRequest(t)
  /\ Transition(t, "cancelled", NoAdmin)
  /\ review' = [review EXCEPT ![t] = NoAdmin]
  /\ UNCHANGED preparers

\* A decision whose transaction was rolled back.
DecisionFails(t) ==
  /\ review[t] # NoAdmin
  /\ review' = [review EXCEPT ![t] = NoAdmin]
  /\ UNCHANGED <<request, preparers>>

\* 24 hours pass (domain.ApprovalTTL).
RequestOverdue(t) ==
  /\ OpenRequest(t) /\ ~request[t].due
  /\ request' = [request EXCEPT ![t].due = TRUE]
  /\ UNCHANGED <<review, preparers>>

\* Identity takes finance.prepare away from an admin.
RevokePrepare(a) ==
  /\ a \in preparers
  /\ preparers' = preparers \ {a}
  /\ UNCHANGED <<request, review>>

\* Everything that happens to requests apart from drafting and approving.
ApprovalStep(t) ==
  \/ Submit(t)
  \/ expireIfDue(t)
  \/ \E c \in Admins : DecideChecks(t, c) \/ Reject(t, c)
  \/ Cancel(t)
  \/ DecisionFails(t)
  \/ RequestOverdue(t)
=============================================================================
