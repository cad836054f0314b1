------------------------------ MODULE MCSupport ------------------------------
(***************************************************************************)
(* The work of operators on a delivered order, for TLC: support cases with *)
(* their payout holds, the holds of returns and refunds, the response      *)
(* deadline of a case and its evidence files.  They share no table, so one *)
(* behaviour moves one of them: focus names it.                            *)
(***************************************************************************)
EXTENDS SupportCases

CONSTANTS Components,   \* the components this run moves
          CaseBound,    \* bound: refunds and intakes of one run together
          MishapBound   \* bound: crashes of the deadline worker and replays together

VARIABLE focus         \* the component that moves

mcVars == <<focus, supportVars, package, sourceVars, deadlinesVars, attachmentsVars>>

\* An acknowledgement is due after the shortest time, any other stage after two.
DurationDef(stage) == IF stage = "acknowledgement" THEN 1 ELSE 2

Only(component) ==
  /\ focus = component /\ UNCHANGED <<focus, package>>
  /\ IF component = "cases" THEN TRUE ELSE UNCHANGED supportVars
  /\ IF component = "holds" THEN TRUE ELSE UNCHANGED sourceVars
  /\ IF component = "deadlines" THEN TRUE ELSE UNCHANGED deadlinesVars
  /\ IF component = "evidence" THEN TRUE ELSE UNCHANGED attachmentsVars

MCInit ==
  /\ focus \in Components
  /\ package = [v \in VendorOrders |-> "delivered"]
  /\ SupportInit /\ (focus # "cases" => cases = [c \in CaseIds |-> NoCase])
  /\ SourceHoldsInit
  /\ DeadlinesInit /\ (focus # "deadlines" => item = NewItem("vendor_response", FALSE))
  /\ AttachmentsInit

MCNext ==
  \/ Only("cases") /\ SupportStep
     /\ Len(refunds') + Cardinality({i \in IntakeIds : intakes'[i] # "none"}) <= CaseBound
  \/ Only("holds") /\ SourceHoldsStep
  \/ Only("deadlines") /\ DeadlinesNext /\ replays' + crashes' <= MishapBound
  \/ Only("evidence") /\ AttachmentsNext

\* The sweep and the effect worker of source holds, and the deadline worker,
\* run on tickers and retry; what they send arrives or the connection ends.
MCFairness ==
  /\ \A s \in Sources :
        /\ WF_mcVars(Only("holds") /\ backfillSourceHold(s)) /\ WF_mcVars(Only("holds") /\ EnsureSourceHolds(s))
        /\ WF_mcVars(Only("holds") /\ sendAcquire(s)) /\ WF_mcVars(Only("holds") /\ acquireSourceHold(s))
        /\ WF_mcVars(Only("holds") /\ releaseSourceHold(s))
  /\ WF_mcVars(Only("deadlines") /\ Scan)
  /\ \A n \in NoticeKinds :
        /\ WF_mcVars(Only("deadlines") /\ Park(n)) /\ WF_mcVars(Only("deadlines") /\ LeaseEnds(n))
        /\ WF_mcVars(Only("deadlines") /\ \E w \in Workers : Claim(w, n))
  /\ \A w \in Workers :
        /\ WF_mcVars(Only("deadlines") /\ Record(w))
        /\ WF_mcVars(Only("deadlines") /\ \E taken \in BOOLEAN : Publish(w, taken))

MCSpec == MCInit /\ [][MCNext]_mcVars /\ MCFairness

-----------------------------------------------------------------------------
(* Properties of several components.                                       *)

\* A case ends for everybody: a source that ended frees the payout, a missed
\* deadline is told or parked and stays missed (SupportCases).
CasesEnd == EndedSourcesFreePayout /\ DueIsTold /\ MissedStaysMissed
=============================================================================
