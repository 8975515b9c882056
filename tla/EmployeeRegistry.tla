-------------------------- MODULE EmployeeRegistry --------------------------
(***************************************************************************)
(* The on-chain employee records, per organization id.  An HR holder       *)
(* registers, updates and deactivates; no entry point activates again.     *)
(* Currency and pay frequency decide nothing on chain and are left out.    *)
(***************************************************************************)
EXTENDS PayrollFactory, Sequences

CONSTANT MaxEmployees   \* bound: records per organization

VARIABLE employees      \* Employee(org_id, 1 .. EmployeeCount(org_id))

Employee == [wallet : Accounts, salary : Int, active : BOOLEAN]

RegistryTypeOK == employees \in [OrgId -> Seq(Employee)]

RegistryInit == employees = [id \in OrgId |-> <<>>]

\* assert_hr, with the address the call caches when it succeeds.
AssertHr(id, caller) ==
    /\ Resolvable("employee_registry", id)
    /\ RequireRole(Resolve("employee_registry", id).organization, caller, "Hr")
    /\ CacheResolved("employee_registry", id)

RegisterEmployee(id, caller, wallet, salary) ==
    /\ salary > 0
    /\ AssertHr(id, caller)
    /\ Len(employees[id]) < MaxEmployees
    /\ employees' = [employees EXCEPT ![id] =
           Append(@, [wallet |-> wallet, salary |-> salary, active |-> TRUE])]

UpdateEmployee(id, caller, e, salary) ==
    /\ salary > 0
    /\ AssertHr(id, caller)
    /\ e \in DOMAIN employees[id]
    /\ employees' = [employees EXCEPT ![id][e].salary = salary]

DeactivateEmployee(id, caller, e) ==
    /\ AssertHr(id, caller)
    /\ e \in DOMAIN employees[id]
    /\ employees' = [employees EXCEPT ![id][e].active = FALSE]

\* list_active_employee_ids
ActiveEmployeeIds(id) == {e \in DOMAIN employees[id] : employees[id][e].active}

-----------------------------------------------------------------------------
RegistryCall(id, caller) ==
    /\ \/ \E wallet \in Payees, salary \in Amounts :
              RegisterEmployee(id, caller, wallet, salary)
       \/ \E e \in DOMAIN employees[id] :
              \/ \E salary \in Amounts : UpdateEmployee(id, caller, e, salary)
              \/ DeactivateEmployee(id, caller, e)
    /\ UNCHANGED <<orgVars, treasuryVars, initialized, orgCount, registry, wasmHash>>
=============================================================================
