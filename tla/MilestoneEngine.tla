-------------------------- MODULE MilestoneEngine --------------------------
(***************************************************************************)
(* Milestone escrow.  One engine holds the escrow of every organization in *)
(* a single token balance and tells the organizations apart only by the    *)
(* EscrowBalance counters it maintains by hand.                            *)
(*                                                                         *)
(*   Draft -> Funded -> Approved -> Released,  Draft | Funded -> Cancelled *)
(***************************************************************************)
EXTENDS PayrollFactory, Sequences

CONSTANT MaxMilestones  \* bound: how many milestones each organization id may create

ASSUME MilestoneAssumption == MaxMilestones \in [OrgId -> Nat]

VARIABLES
    milestones,     \* Milestone(org_id, 1 .. MilestoneCount(org_id))
    escrow,         \* EscrowBalance(org_id)
    refunded        \* total of the MilestoneCancelled events with refunded = true

milestoneVars == <<milestones, escrow, refunded>>

MilestoneStatus == {"Draft", "Funded", "Approved", "Released", "Cancelled"}
MilestoneRecord == [contractor : Accounts, amount : Int, status : MilestoneStatus]

MilestoneTypeOK ==
    /\ milestones \in [OrgId -> Seq(MilestoneRecord)]
    /\ escrow \in [OrgId -> Int]
    /\ refunded \in [OrgId -> Int]

MilestoneInit ==
    /\ milestones = [id \in OrgId |-> <<>>]
    /\ escrow = [id \in OrgId |-> 0]
    /\ refunded = [id \in OrgId |-> 0]

-----------------------------------------------------------------------------
OrganizationOf(id) == Resolve("milestone_engine", id).organization

\* resolve_org_record and assert_finance, which open every entry point.
AssertFinance(id, caller) ==
    /\ Resolvable("milestone_engine", id)
    /\ RequireRole(OrganizationOf(id), caller, "Finance")
    /\ CacheResolved("milestone_engine", id)

\* assert_transition forgotten.
InStatus_NotAsserted(id, m, status) == m \in DOMAIN milestones[id]

\* The milestone exists and stands where the transition starts.
InStatus(id, m, status) ==
    m \in DOMAIN milestones[id] /\ milestones[id][m].status = status

SetStatus(id, m, status) == milestones' = [milestones EXCEPT ![id][m].status = status]

\* The counter written without being read, and one that is never lowered.
AdjustEscrow_Overwrite(id, delta) == escrow' = [escrow EXCEPT ![id] = delta]
AdjustEscrow_NeverDown(id, delta) ==
    escrow' = [escrow EXCEPT ![id] = @ + (IF delta > 0 THEN delta ELSE 0)]

AdjustEscrow(id, delta) == escrow' = [escrow EXCEPT ![id] = @ + delta]

CreateMilestone(id, caller, contractor, amount) ==
    /\ AssertFinance(id, caller)
    /\ Len(milestones[id]) < MaxMilestones[id]
    /\ milestones' = [milestones EXCEPT ![id] =
           Append(@, [contractor |-> contractor, amount |-> amount, status |-> "Draft"])]
    /\ UNCHANGED <<escrow, refunded, balance, booked>>

FundMilestone(id, caller, m) ==
    /\ AssertFinance(id, caller)
    /\ InStatus(id, m, "Draft")
    /\ LET o      == OrganizationOf(id)
           amount == milestones[id][m].amount
       IN  /\ CanTransferOut(balance, o, MilestoneEngine, caller, MilestoneEngine, amount)
           /\ balance' = Moved(balance, TreasuryOf[o], MilestoneEngine, amount)
           /\ booked' = [booked EXCEPT ![o] = @ - amount]
           /\ AdjustEscrow(id, amount)
    /\ SetStatus(id, m, "Funded")
    /\ UNCHANGED refunded

ApproveMilestone(id, caller, m) ==
    /\ AssertFinance(id, caller)
    /\ InStatus(id, m, "Funded")
    /\ SetStatus(id, m, "Approved")
    /\ UNCHANGED <<escrow, refunded, balance, booked>>

ReleaseMilestone(id, caller, m) ==
    /\ AssertFinance(id, caller)
    /\ InStatus(id, m, "Approved")
    /\ LET record == milestones[id][m]
       IN  /\ CanMove(balance, MilestoneEngine, record.contractor, record.amount)
           /\ balance' = Moved(balance, MilestoneEngine, record.contractor, record.amount)
           /\ AdjustEscrow(id, -record.amount)
    /\ SetStatus(id, m, "Released")
    /\ UNCHANGED <<refunded, booked>>

CancelDraft(id, caller, m) ==
    /\ AssertFinance(id, caller)
    /\ InStatus(id, m, "Draft")
    /\ SetStatus(id, m, "Cancelled")
    /\ UNCHANGED <<escrow, refunded, balance, booked>>

\* The refund without its event.
CancelFunded_Unreported(id, caller, m) ==
    /\ AssertFinance(id, caller)
    /\ InStatus(id, m, "Funded")
    /\ LET home   == Resolve("milestone_engine", id).treasury
           amount == milestones[id][m].amount
       IN  /\ CanMove(balance, MilestoneEngine, home, amount)
           /\ balance' = Moved(balance, MilestoneEngine, home, amount)
           /\ AdjustEscrow(id, -amount)
    /\ SetStatus(id, m, "Cancelled")
    /\ UNCHANGED <<refunded, booked>>

\* The refund is a direct token transfer: the treasury publishes no event.
CancelFunded(id, caller, m) ==
    /\ AssertFinance(id, caller)
    /\ InStatus(id, m, "Funded")
    /\ LET home   == Resolve("milestone_engine", id).treasury
           amount == milestones[id][m].amount
       IN  /\ CanMove(balance, MilestoneEngine, home, amount)
           /\ balance' = Moved(balance, MilestoneEngine, home, amount)
           /\ AdjustEscrow(id, -amount)
           /\ refunded' = [refunded EXCEPT ![id] = @ + amount]
    /\ SetStatus(id, m, "Cancelled")
    /\ UNCHANGED booked

CancelMilestone(id, caller, m) == CancelDraft(id, caller, m) \/ CancelFunded(id, caller, m)

-----------------------------------------------------------------------------
MilestoneCall(id, caller) ==
    /\ \/ \E contractor \in Payees, amount \in Amounts :
              CreateMilestone(id, caller, contractor, amount)
       \/ \E m \in DOMAIN milestones[id] :
              \/ FundMilestone(id, caller, m)
              \/ ApproveMilestone(id, caller, m)
              \/ ReleaseMilestone(id, caller, m)
              \/ CancelMilestone(id, caller, m)
    /\ UNCHANGED <<spenders, orgVars, initialized, orgCount, registry, wasmHash>>
=============================================================================
