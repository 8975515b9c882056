--------------------------- MODULE PayrollEngine ---------------------------
(***************************************************************************)
(* run_payroll pays a batch of employees in one transaction.  The run_id   *)
(* is burned before the first item; an item that cannot be paid is         *)
(* reported and skipped, and the items after it see the treasury as the    *)
(* items before it left it.                                                *)
(***************************************************************************)
EXTENDS EmployeeRegistry, Functions

CONSTANTS
    RunIds,     \* run_id values callers pass
    Batches     \* employee_ids vectors callers pass: repeats, unknown ids, empty

ASSUME PayrollAssumption == Batches \subseteq Seq(Nat)

VARIABLES
    executedRun,    \* ExecutedRun(org_id, run_id)
    payrollResult   \* the PayrollResult each executed run returned

payrollVars == <<executedRun, payrollResult>>

ItemOutcome == {"paid", "employee_not_found", "employee_inactive", "transfer_failed"}
ItemResult == [employee : Nat, outcome : ItemOutcome, amount : Int]

PayrollTypeOK ==
    /\ executedRun \in [OrgId -> SUBSET RunIds]
    /\ DOMAIN payrollResult = OrgId
    /\ \A id \in OrgId : payrollResult[id] \in [executedRun[id] -> Seq(ItemResult)]

PayrollInit ==
    /\ executedRun = [id \in OrgId |-> {}]
    /\ payrollResult = [id \in OrgId |-> <<>>]

-----------------------------------------------------------------------------
\* pay_single_employee: what one attempt comes to on the ledger bal.
PayEmployee(bal, id, org, authorizer, e) ==
    CASE e \notin DOMAIN employees[id] -> "employee_not_found"
      [] e \in DOMAIN employees[id] \ ActiveEmployeeIds(id) -> "employee_inactive"
      [] OTHER ->
           IF CanTransferOut(bal, org, PayrollEngine, authorizer,
                             employees[id][e].wallet, employees[id][e].salary)
           THEN "paid" ELSE "transfer_failed"

\* The active flag looked at after the transfer.
AfterItem_PaysInactive(bal, id, org, e, outcome) ==
    IF outcome \in {"paid", "employee_inactive"}
    THEN Moved(bal, TreasuryOf[org], employees[id][e].wallet, employees[id][e].salary)
    ELSE bal

\* The ledger after an attempt on e, given its outcome.
AfterItem(bal, id, org, e, outcome) ==
    IF outcome = "paid"
    THEN Moved(bal, TreasuryOf[org], employees[id][e].wallet, employees[id][e].salary)
    ELSE bal

\* The loop of run_payroll: the ledger after the first i items of the batch.
LedgerAfter(id, org, authorizer, batch) ==
    LET ledger[i \in 0 .. Len(batch)] ==
            IF i = 0 THEN balance
            ELSE AfterItem(ledger[i-1], id, org, batch[i],
                           PayEmployee(ledger[i-1], id, org, authorizer, batch[i]))
    IN  ledger

\* Every item judged by the treasury as it was before the batch.
BatchResult_FromStart(id, org, authorizer, batch) ==
    LET outcome(i) == PayEmployee(balance, id, org, authorizer, batch[i])
    IN  [i \in DOMAIN batch |->
            [employee |-> batch[i],
             outcome  |-> outcome(i),
             amount   |-> IF outcome(i) = "paid"
                          THEN employees[id][batch[i]].salary ELSE 0]]

\* The loop left at the first item that fails.
BatchResult_StopsAtFailure(id, org, authorizer, batch) ==
    LET ledger == LedgerAfter(id, org, authorizer, batch)
        alone(i) == PayEmployee(ledger[i-1], id, org, authorizer, batch[i])
        outcome(i) == IF \A j \in 1 .. i-1 : alone(j) = "paid"
                      THEN alone(i) ELSE "transfer_failed"
    IN  [i \in DOMAIN batch |->
            [employee |-> batch[i],
             outcome  |-> outcome(i),
             amount   |-> IF outcome(i) = "paid"
                          THEN employees[id][batch[i]].salary ELSE 0]]

\* succeeded and failed, in batch order.
BatchResult(id, org, authorizer, batch) ==
    LET ledger == LedgerAfter(id, org, authorizer, batch)
        outcome(i) == PayEmployee(ledger[i-1], id, org, authorizer, batch[i])
    IN  [i \in DOMAIN batch |->
            [employee |-> batch[i],
             outcome  |-> outcome(i),
             amount   |-> IF outcome(i) = "paid"
                          THEN employees[id][batch[i]].salary ELSE 0]]

PaidTotal(result) == SumFunction([i \in DOMAIN result |-> result[i].amount])

\* A replayed run_id let through.
CanRunPayroll_Replay(authorizer, id, run, batch) ==
    /\ batch # <<>>
    /\ Resolvable("payroll_engine", id)
    /\ RequireRole(Resolve("payroll_engine", id).organization, authorizer, "Finance")

\* run_payroll's early returns, in the order it checks them.
CanRunPayroll(authorizer, id, run, batch) ==
    /\ run \notin executedRun[id]
    /\ batch # <<>>
    /\ Resolvable("payroll_engine", id)
    /\ RequireRole(Resolve("payroll_engine", id).organization, authorizer, "Finance")

MarkExecuted(id, run) == executedRun' = [executedRun EXCEPT ![id] = @ \cup {run}]

RunPayroll(authorizer, id, run, batch) ==
    /\ CanRunPayroll(authorizer, id, run, batch)
    /\ CacheResolved("payroll_engine", id)
    /\ MarkExecuted(id, run)
    /\ LET org    == Resolve("payroll_engine", id).organization
           result == BatchResult(id, org, authorizer, batch)
       IN  /\ payrollResult' = [payrollResult EXCEPT ![id] = Put(@, run, result)]
           /\ balance' = LedgerAfter(id, org, authorizer, batch)[Len(batch)]
           /\ booked' = [booked EXCEPT ![org] = @ - PaidTotal(result)]
    /\ UNCHANGED <<spenders, employees, orgVars, initialized, orgCount, registry, wasmHash>>

-----------------------------------------------------------------------------
PayrollCall(id, authorizer) ==
    \E run \in RunIds, batch \in Batches : RunPayroll(authorizer, id, run, batch)
=============================================================================
