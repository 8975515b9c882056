-------------------------- MODULE Contracts_proofs --------------------------
(***************************************************************************)
(* The six contracts together, for any number of organizations, users,     *)
(* accounts, employees, milestones and batches: the registry and the       *)
(* engines' copies of it, the types, the escrow, the ledger an observer    *)
(* rebuilds, what a payroll run reports, and EscrowVaults.                 *)
(*                                                                         *)
(* CachesCurrent is not inductive by itself: a new entry takes the place   *)
(* of no older one only because ids are handed out in sequence, and two    *)
(* ids lead to two treasuries only because every registered organization   *)
(* is deployed and an address is deployed once.  RegistryInv adds both.    *)
(* ChainInv and MoneyInv, further down, carry the rest.                    *)
(***************************************************************************)
EXTENDS Contracts, Organization_proofs, Sums_proofs, TLAPS

RegistryInv ==
    /\ orgCount \in Nat
    /\ DOMAIN registry = 1 .. orgCount
    /\ \A id \in DOMAIN registry :
           /\ registry[id].organization \in Orgs \cap deployed
           /\ registry[id].treasury = TreasuryOf[registry[id].organization]
    /\ \A i, j \in DOMAIN registry :
           registry[i].organization = registry[j].organization => i = j
    /\ \A o \in deployed : \E id \in DOMAIN registry : registry[id].organization = o
    /\ DOMAIN cached = Engine
    /\ \A e \in Engine : \A id \in DOMAIN cached[e] :
           id \in DOMAIN registry /\ cached[e][id] = registry[id]

\* Every executed run has a result and no other has one.
ResultsInv ==
    /\ DOMAIN executedRun = OrgId
    /\ DOMAIN payrollResult = OrgId
    /\ \A id \in OrgId : DOMAIN payrollResult[id] = executedRun[id]

-----------------------------------------------------------------------------
(***************************************************************************)
(* The cache.                                                              *)
(***************************************************************************)

\* What resolving an id yields is the factory's current entry, from the copy
\* or from the factory.
LEMMA ResolvesToRegistry ==
    ASSUME RegistryInv, NEW e \in Engine, NEW id, Resolvable(e, id)
    PROVE  id \in DOMAIN registry /\ Resolve(e, id) = registry[id]
BY DEF RegistryInv, Resolvable, Resolve

\* Caching what was resolved keeps the copies current.
LEMMA CachingKeepsInv ==
    ASSUME RegistryInv, NEW e \in Engine, NEW id,
           Resolvable(e, id), CacheResolved(e, id),
           UNCHANGED <<orgCount, registry, deployed>>
    PROVE  RegistryInv'
<1>1. id \in DOMAIN registry /\ Resolve(e, id) = registry[id]
  BY ResolvesToRegistry
<1>2. /\ DOMAIN cached' = Engine
      /\ cached'[e] = Put(cached[e], id, registry[id])
      /\ \A d \in Engine \ {e} : cached'[d] = cached[d]
  BY <1>1 DEF CacheResolved, RegistryInv
<1>3. /\ DOMAIN cached'[e] = DOMAIN cached[e] \cup {id}
      /\ cached'[e][id] = registry[id]
      /\ \A j \in DOMAIN cached[e] \ {id} : cached'[e][j] = cached[e][j]
  <2> DEFINE copy == cached[e]
  <2>1. cached'[e] = Put(copy, id, registry[id])
    BY <1>2
  <2> HIDE DEF copy
  <2>2. /\ DOMAIN cached'[e] = DOMAIN copy \cup {id}
        /\ cached'[e][id] = registry[id]
        /\ \A j \in DOMAIN copy \ {id} : cached'[e][j] = copy[j]
    BY <2>1 DEF Put
  <2>3. QED BY <2>2 DEF copy
<1>4. ASSUME NEW d \in Engine, NEW j \in DOMAIN cached'[d]
      PROVE  j \in DOMAIN registry /\ cached'[d][j] = registry[j]
  <2>1. CASE d # e
    <3>1. cached'[d] = cached[d]
      BY <1>2, <2>1
    <3>2. QED BY <3>1 DEF RegistryInv
  <2>2. CASE d = e /\ j = id
    BY <1>1, <1>3, <2>2
  <2>3. CASE d = e /\ j # id
    <3>1. j \in DOMAIN cached[e] \ {id}
      BY <1>3, <2>3
    <3>2. QED BY <1>3, <2>3, <3>1 DEF RegistryInv
  <2>4. QED BY <2>1, <2>2, <2>3
<1>5. QED BY <1>2, <1>4 DEF RegistryInv

\* The calls that touch neither the registry nor a cache.
LEMMA RegistryUntouched ==
    ASSUME RegistryInv, UNCHANGED <<orgCount, registry, deployed, cached>>
    PROVE  RegistryInv'
BY DEF RegistryInv

\* create_organization writes a fresh id for a freshly deployed address.
LEMMA CreateKeepsInv ==
    ASSUME RegistryInv, NEW owner \in Users, NEW o \in Orgs, CreateOrganization(owner, o)
    PROVE  RegistryInv'
<1> DEFINE id     == orgCount + 1
           record == [organization |-> o, treasury |-> TreasuryOf[o], owner |-> owner]
<1>1. /\ orgCount' = id
      /\ registry' = Put(registry, id, record)
      /\ o \notin deployed /\ deployed' = deployed \cup {o}
      /\ cached' = cached
  BY DEF CreateOrganization, NextOrgId, Construct
<1>2. orgCount \in Nat /\ DOMAIN registry = 1 .. orgCount
  BY DEF RegistryInv
<1>3. id \notin DOMAIN registry
  BY <1>2
<1>4. /\ DOMAIN registry' = DOMAIN registry \cup {id}
      /\ registry'[id] = record
      /\ \A j \in DOMAIN registry : registry'[j] = registry[j]
  BY <1>1, <1>3 DEF Put
<1>5. orgCount' \in Nat /\ DOMAIN registry' = 1 .. orgCount'
  <2>1. 1 .. orgCount + 1 = (1 .. orgCount) \cup {orgCount + 1}
    BY <1>2
  <2>2. DOMAIN registry' = 1 .. orgCount + 1
    BY <1>2, <1>4, <2>1
  <2>3. QED BY <1>1, <1>2, <2>2
<1>6. /\ record.organization = o
      /\ record.treasury = TreasuryOf[o]
  OBVIOUS
<1> HIDE DEF record, id
<1>7. \A j \in DOMAIN registry' :
          /\ registry'[j].organization \in Orgs \cap deployed'
          /\ registry'[j].treasury = TreasuryOf[registry'[j].organization]
  BY <1>1, <1>4, <1>6 DEF RegistryInv
<1>8. \A i, j \in DOMAIN registry' :
          registry'[i].organization = registry'[j].organization => i = j
  <2>1. \A j \in DOMAIN registry : registry'[j].organization # o
    BY <1>1, <1>4 DEF RegistryInv
  <2>2. QED BY <1>4, <1>6, <2>1 DEF RegistryInv
<1>9. \A p \in deployed' : \E j \in DOMAIN registry' : registry'[j].organization = p
  <2> SUFFICES ASSUME NEW p \in deployed'
               PROVE  \E j \in DOMAIN registry' : registry'[j].organization = p
    OBVIOUS
  <2>1. CASE p = o
    BY <1>4, <1>6, <2>1
  <2>2. CASE p # o
    <3>1. PICK j \in DOMAIN registry : registry[j].organization = p
      BY <1>1, <2>2 DEF RegistryInv
    <3>2. QED BY <1>4, <3>1
  <2>3. QED BY <2>1, <2>2
<1>10. \A e \in Engine : \A j \in DOMAIN cached'[e] :
           j \in DOMAIN registry' /\ cached'[e][j] = registry'[j]
  BY <1>1, <1>4 DEF RegistryInv
<1>11. QED BY <1>1, <1>5, <1>7, <1>8, <1>9, <1>10 DEF RegistryInv

-----------------------------------------------------------------------------
(***************************************************************************)
(* RegistryInv is an invariant.                                            *)
(***************************************************************************)
LEMMA RegistryInvInit == Init => RegistryInv
<1> SUFFICES ASSUME Init PROVE RegistryInv
  OBVIOUS
<1>1. orgCount = 0 /\ registry = <<>> /\ deployed = {}
  BY DEF Init, FactoryInit, OrganizationInit
<1>2. DOMAIN registry = {} /\ 1 .. 0 = {}
  BY <1>1
<1>3. DOMAIN cached = Engine /\ \A e \in Engine : DOMAIN cached[e] = {}
  BY DEF Init, FactoryInit
<1>4. QED BY <1>1, <1>2, <1>3 DEF RegistryInv

\* A new organization gets an id and an address of its own.
LEMMA FactoryKeepsInv == RegistryInv /\ FactoryStep => RegistryInv'
<1> SUFFICES ASSUME RegistryInv, FactoryCall PROVE RegistryInv'
  BY DEF FactoryStep
<1>1. CASE \E hashes \in [WasmTarget -> Hashes] : InitializeFactory(hashes)
  BY <1>1, RegistryUntouched DEF InitializeFactory, orgVars
<1>2. CASE \E e \in Engine : InitializeEngine(e)
  BY <1>2, RegistryUntouched DEF InitializeEngine, orgVars
<1>3. CASE \E owner \in Users, o \in Orgs : CreateOrganization(owner, o)
  BY <1>3, CreateKeepsInv
<1>4. CASE \E target \in WasmTarget, h \in Hashes : UpdateWasmHash(target, h)
  BY <1>4, RegistryUntouched DEF UpdateWasmHash, orgVars
<1>5. QED BY <1>1, <1>2, <1>3, <1>4 DEF FactoryCall

\* No call on a deployed organization deploys another.
LEMMA OrganizationKeepsInv == RegistryInv /\ OrganizationStep => RegistryInv'
<1> SUFFICES ASSUME RegistryInv, OrganizationStep PROVE RegistryInv'
  OBVIOUS
<1>1. deployed' = deployed
  BY DEF OrganizationStep, MemberCall, GrantRole, RevokeRole, SetEngine, UpdateMetadataHash
<1>2. QED BY <1>1, RegistryUntouched DEF OrganizationStep, factoryVars

\* The other contracts write neither the registry nor what is deployed; the
\* engines may add a copy.
LEMMA TreasuryKeepsInv == RegistryInv /\ TreasuryStep => RegistryInv'
BY RegistryUntouched DEF TreasuryStep, orgVars, factoryVars

LEMMA EmployeesKeepInv == RegistryInv /\ RegistryStep => RegistryInv'
<1> SUFFICES ASSUME RegistryInv, NEW id \in OrgId, NEW caller \in Users,
                    RegistryCall(id, caller)
             PROVE  RegistryInv'
  BY DEF RegistryStep
<1>1. AssertHr(id, caller)
  BY DEF RegistryCall, RegisterEmployee, UpdateEmployee, DeactivateEmployee
<1>2. QED BY <1>1, CachingKeepsInv DEF AssertHr, RegistryCall, orgVars, Engine

LEMMA PayrollKeepsInv == RegistryInv /\ PayrollStep => RegistryInv'
<1> SUFFICES ASSUME RegistryInv, NEW id \in OrgId, NEW caller \in Users,
                    PayrollCall(id, caller)
             PROVE  RegistryInv'
  BY DEF PayrollStep
<1>1. PICK run \in RunIds, batch \in Batches : RunPayroll(caller, id, run, batch)
  BY DEF PayrollCall
<1>2. QED BY <1>1, CachingKeepsInv DEF RunPayroll, CanRunPayroll, orgVars, Engine

LEMMA MilestonesKeepInv == RegistryInv /\ MilestoneStep => RegistryInv'
<1> SUFFICES ASSUME RegistryInv, NEW id \in OrgId, NEW caller \in Users,
                    MilestoneCall(id, caller)
             PROVE  RegistryInv'
  BY DEF MilestoneStep
<1>1. AssertFinance(id, caller)
  BY DEF MilestoneCall, CreateMilestone, FundMilestone, ApproveMilestone,
         ReleaseMilestone, CancelMilestone, CancelDraft, CancelFunded
<1>2. QED BY <1>1, CachingKeepsInv DEF AssertFinance, MilestoneCall, orgVars, Engine

\* Every transaction keeps the registry and its copies in step.
LEMMA RegistryInvStep == RegistryInv /\ [Next]_vars => RegistryInv'
<1> SUFFICES ASSUME RegistryInv, [Next]_vars PROVE RegistryInv'
  OBVIOUS
<1>1. CASE UNCHANGED vars
  BY <1>1, RegistryUntouched DEF vars, orgVars, factoryVars
<1>2. QED
  BY <1>1, FactoryKeepsInv, OrganizationKeepsInv, TreasuryKeepsInv, EmployeesKeepInv,
     PayrollKeepsInv, MilestonesKeepInv DEF Next

\* Registry, deployed organizations and cached copies agree in every reachable
\* state: what resolving an org_id rests on.
THEOREM RegistryInvariant == Spec => []RegistryInv
<1>1. QED BY RegistryInvInit, RegistryInvStep, PTL DEF Spec

\* No engine ever acts on a stale copy of a registry entry, every deployed
\* organization is registered, and no two ids lead to one treasury, after any
\* sequence of calls on any number of organizations.
THEOREM EnginesCacheCurrent == Spec => []CachesCurrent
<1>1. RegistryInv => CachesCurrent
  <2> SUFFICES ASSUME RegistryInv PROVE CachesCurrent
    OBVIOUS
  <2>1. \A i, j \in DOMAIN registry : registry[i].treasury = registry[j].treasury => i = j
    BY AccountsAssumption DEF RegistryInv
  <2>2. QED BY <2>1 DEF RegistryInv, CachesCurrent
<1>2. QED BY <1>1, RegistryInvariant, PTL

-----------------------------------------------------------------------------
(***************************************************************************)
(* Executed runs.                                                          *)
(***************************************************************************)
LEMMA ResultsInvInit == Init => ResultsInv
BY DEF Init, PayrollInit, ResultsInv

\* run_payroll adds the one run it executes, and its result, to what there is.
LEMMA RunAddsResult ==
    ASSUME ResultsInv, NEW caller, NEW org \in OrgId, NEW new, NEW batch,
           RunPayroll(caller, org, new, batch)
    PROVE  /\ ResultsInv'
           /\ \A id \in OrgId : \A run \in executedRun[id] :
                  run \in executedRun'[id] /\ payrollResult'[id][run] = payrollResult[id][run]
<1>1. PICK result : payrollResult' = [payrollResult EXCEPT ![org] = Put(@, new, result)]
  BY DEF RunPayroll
<1>2. /\ new \notin executedRun[org]
      /\ executedRun' = [executedRun EXCEPT ![org] = @ \cup {new}]
  BY DEF RunPayroll, CanRunPayroll, MarkExecuted
<1>3. /\ DOMAIN executedRun' = OrgId /\ DOMAIN payrollResult' = OrgId
      /\ executedRun'[org] = executedRun[org] \cup {new}
      /\ payrollResult'[org] = Put(payrollResult[org], new, result)
      /\ \A id \in OrgId \ {org} :
             executedRun'[id] = executedRun[id] /\ payrollResult'[id] = payrollResult[id]
  BY <1>1, <1>2 DEF ResultsInv
<1>4. /\ DOMAIN payrollResult'[org] = executedRun'[org]
      /\ \A run \in executedRun[org] : payrollResult'[org][run] = payrollResult[org][run]
  <2> DEFINE results == payrollResult[org]
  <2>1. DOMAIN results = executedRun[org] /\ payrollResult'[org] = Put(results, new, result)
    BY <1>3 DEF ResultsInv
  <2>2. results = payrollResult[org]
    OBVIOUS
  <2> HIDE DEF results
  <2>3. /\ DOMAIN payrollResult'[org] = executedRun[org] \cup {new}
        /\ \A run \in executedRun[org] \ {new} : payrollResult'[org][run] = results[run]
    BY <2>1 DEF Put
  <2>4. QED BY <1>2, <1>3, <2>2, <2>3
<1>5. QED BY <1>3, <1>4 DEF ResultsInv

\* Every step but a run_payroll leaves the runs alone.
LEMMA RunsStep ==
    ASSUME ResultsInv, [Next]_vars
    PROVE  /\ ResultsInv'
           /\ \A id \in OrgId : \A run \in executedRun[id] :
                  run \in executedRun'[id] /\ payrollResult'[id][run] = payrollResult[id][run]
<1>1. CASE PayrollStep
  <2>1. PICK id \in OrgId, caller \in Users, run \in RunIds, batch \in Batches :
            RunPayroll(caller, id, run, batch)
    BY <1>1 DEF PayrollStep, PayrollCall
  <2>2. QED BY <2>1, RunAddsResult
<1>2. CASE UNCHANGED payrollVars
  BY <1>2 DEF payrollVars, ResultsInv
<1>3. QED
  BY <1>1, <1>2 DEF Next, vars, FactoryStep, OrganizationStep, TreasuryStep,
     RegistryStep, MilestoneStep

\* A run_id, once executed, stays executed and keeps the result it was given:
\* no later call pays it again.
THEOREM ExecutedRunsAreFinal == Spec => RunsFinal
<1>1. ResultsInv /\ [Next]_vars => ResultsInv'
  BY RunsStep
<1>2. ResultsInv /\ [Next]_vars =>
        [\A id \in OrgId : \A run \in executedRun[id] :
           run \in executedRun'[id] /\ payrollResult'[id][run] = payrollResult[id][run]]_vars
  BY RunsStep
<1>3. QED BY <1>1, <1>2, ResultsInvInit, PTL DEF Spec, RunsFinal

-----------------------------------------------------------------------------
(***************************************************************************)
(* The ledger of a batch.                                                  *)
(***************************************************************************)
LEMMA MovedTyped ==
    ASSUME NEW bal \in [Accounts -> Nat], NEW from \in Accounts, NEW to \in Accounts,
           NEW amount \in Nat, bal[from] >= amount
    PROVE  Moved(bal, from, to, amount) \in [Accounts -> Nat]
BY DEF Moved

\* The loop of run_payroll is the ledger before the batch, then one item after
\* another.
LEMMA LedgerUnrolls ==
    ASSUME NEW id, NEW org, NEW authorizer, NEW batch \in Seq(Nat)
    PROVE  LET ledger == LedgerAfter(id, org, authorizer, batch)
           IN  /\ ledger[0] = balance
               /\ \A i \in 1 .. Len(batch) :
                      ledger[i] = AfterItem(ledger[i-1], id, org, batch[i],
                          PayEmployee(ledger[i-1], id, org, authorizer, batch[i]))
<1> DEFINE next(bal, i) == AfterItem(bal, id, org, batch[i],
                                     PayEmployee(bal, id, org, authorizer, batch[i]))
           Loop(g, n) == g = [i \in 0 .. n |-> IF i = 0 THEN balance ELSE next(g[i-1], i)]
           Bad == {n \in Nat : ~ \E g : Loop(g, n)}
<1>1. \A n \in Nat : \E g : Loop(g, n)
  <2>1. SUFFICES ASSUME Bad # {} PROVE FALSE
    BY <2>1
  <2>2. PICK n \in Bad : \A k \in Bad : n <= k
    <3>1. Bad \in SUBSET Nat
      OBVIOUS
    <3> HIDE DEF Bad
    <3>2. QED BY <2>1, <3>1, LeastNumber
  <2> HIDE DEF next
  <2>3. CASE n = 0
    <3>1. Loop([i \in 0 .. 0 |-> balance], 0)
      OBVIOUS
    <3>2. QED BY <2>3, <3>1
  <2>4. CASE n # 0
    <3>1. n - 1 \in Nat /\ n - 1 \notin Bad
      <4>1. n \in Nat
        OBVIOUS
      <4> HIDE DEF Bad
      <4>2. n - 1 \in Nat /\ n - 1 < n
        BY <2>4, <4>1
      <4>3. QED BY <2>2, <4>1, <4>2
    <3>2. PICK g : Loop(g, n - 1)
      BY <3>1
    <3> DEFINE h == [i \in 0 .. n |-> IF i = n THEN next(g[n-1], n) ELSE g[i]]
    <3>3. \A i \in 0 .. n : h[i] = IF i = 0 THEN balance ELSE next(h[i-1], i)
      BY <2>4, <3>1, <3>2
    <3>4. h = [i \in 0 .. n |-> IF i = 0 THEN balance ELSE next(h[i-1], i)]
      BY <3>3
    <3>5. Loop(h, n)
      <4> HIDE DEF h
      <4>1. QED BY <3>4
    <3>6. QED BY <3>5
  <2>5. QED BY <2>3, <2>4
<1> DEFINE ledger == CHOOSE g : Loop(g, Len(batch))
<1>2. Loop(ledger, Len(batch))
  <2>1. \E g : Loop(g, Len(batch))
    BY <1>1
  <2> HIDE DEF Loop
  <2>2. QED BY <2>1
<1>3. LedgerAfter(id, org, authorizer, batch) = ledger
  BY DEF LedgerAfter
<1>4. ledger[0] = balance /\ \A i \in 1 .. Len(batch) : ledger[i] = next(ledger[i-1], i)
  <2> HIDE DEF next, ledger
  <2>1. \A i \in 0 .. Len(batch) : ledger[i] = IF i = 0 THEN balance ELSE next(ledger[i-1], i)
    BY <1>2
  <2>2. Len(batch) \in Nat
    OBVIOUS
  <2> HIDE DEF Loop
  <2>3. QED BY <2>1, <2>2
<1> HIDE DEF ledger
<1>5. QED BY <1>3, <1>4

\* An item is paid for a known employee only, out of a balance that covers it.
LEMMA PaidItem ==
    ASSUME RegistryTypeOK, NEW id \in OrgId, NEW bal, NEW org, NEW authorizer, NEW e,
           PayEmployee(bal, id, org, authorizer, e) = "paid"
    PROVE  /\ e \in DOMAIN employees[id]
           /\ employees[id][e].wallet \in Accounts
           /\ employees[id][e].salary \in Nat
           /\ bal[TreasuryOf[org]] >= employees[id][e].salary
<1>1. /\ e \in DOMAIN employees[id]
      /\ CanTransferOut(bal, org, PayrollEngine, authorizer,
                         employees[id][e].wallet, employees[id][e].salary)
  BY DEF PayEmployee, ActiveEmployeeIds
<1>2. employees[id][e] \in Employee
  BY <1>1 DEF RegistryTypeOK
<1>3. QED BY <1>1, <1>2 DEF CanTransferOut, CanMove, Employee

\* The balances stay natural throughout a batch.
LEMMA LedgerTyped ==
    ASSUME RegistryTypeOK, balance \in [Accounts -> Nat],
           NEW id \in OrgId, NEW org \in Orgs, NEW authorizer, NEW batch \in Seq(Nat)
    PROVE  \A i \in 0 .. Len(batch) :
               LedgerAfter(id, org, authorizer, batch)[i] \in [Accounts -> Nat]
<1> DEFINE ledger == LedgerAfter(id, org, authorizer, batch)
           outcome(i) == PayEmployee(ledger[i-1], id, org, authorizer, batch[i])
           Bad == {i \in 0 .. Len(batch) : ledger[i] \notin [Accounts -> Nat]}
<1>1. /\ ledger[0] = balance
      /\ \A i \in 1 .. Len(batch) :
             ledger[i] = AfterItem(ledger[i-1], id, org, batch[i], outcome(i))
  BY LedgerUnrolls
<1> HIDE DEF ledger
<1>2. SUFFICES ASSUME Bad # {} PROVE FALSE
  BY <1>2 DEF ledger
<1>3. PICK n \in Bad : \A k \in Bad : n <= k
  <2>1. Bad \in SUBSET Nat
    OBVIOUS
  <2> HIDE DEF Bad
  <2>2. QED BY <1>2, <2>1, LeastNumber
<1>4. n \in 1 .. Len(batch) /\ ledger[n] \notin [Accounts -> Nat]
  BY <1>1
<1>5. ledger[n-1] \in [Accounts -> Nat]
  <2>1. n - 1 \in 0 .. Len(batch) /\ n - 1 < n
    BY <1>4
  <2>2. n - 1 \notin Bad
    <3> HIDE DEF Bad
    <3>1. QED BY <1>3, <1>4, <2>1
  <2>3. QED BY <2>1, <2>2
<1>6. ledger[n] = AfterItem(ledger[n-1], id, org, batch[n], outcome(n))
  BY <1>1, <1>4
<1>7. CASE outcome(n) # "paid"
  BY <1>4, <1>5, <1>6, <1>7 DEF AfterItem
<1>8. CASE outcome(n) = "paid"
  <2> DEFINE e == employees[id][batch[n]]
  <2>1. /\ e.wallet \in Accounts /\ e.salary \in Nat
        /\ ledger[n-1][TreasuryOf[org]] >= e.salary
    BY <1>8, PaidItem
  <2>2. ledger[n] = Moved(ledger[n-1], TreasuryOf[org], e.wallet, e.salary)
    BY <1>6, <1>8 DEF AfterItem
  <2>3. TreasuryOf[org] \in Accounts
    BY AccountsAssumption
  <2> HIDE DEF e, Bad
  <2>4. Moved(ledger[n-1], TreasuryOf[org], e.wallet, e.salary) \in [Accounts -> Nat]
    BY <1>5, <2>1, <2>3, MovedTyped
  <2>5. QED BY <1>4, <2>2, <2>4
<1>9. QED BY <1>7, <1>8

\* The result has one entry per item, in the order of the batch.
LEMMA ResultItems ==
    ASSUME NEW id, NEW org, NEW authorizer, NEW batch \in Seq(Nat)
    PROVE  LET ledger == LedgerAfter(id, org, authorizer, batch)
               result == BatchResult(id, org, authorizer, batch)
           IN  /\ DOMAIN result = 1 .. Len(batch)
               /\ \A i \in 1 .. Len(batch) :
                      /\ result[i].employee = batch[i]
                      /\ result[i].outcome = PayEmployee(ledger[i-1], id, org, authorizer, batch[i])
                      /\ result[i].amount = IF result[i].outcome = "paid"
                                            THEN employees[id][batch[i]].salary ELSE 0
<1> DEFINE ledger == LedgerAfter(id, org, authorizer, batch)
           outcome(i) == PayEmployee(ledger[i-1], id, org, authorizer, batch[i])
<1>1. BatchResult(id, org, authorizer, batch) =
          [i \in DOMAIN batch |->
            [employee |-> batch[i], outcome |-> outcome(i),
             amount |-> IF outcome(i) = "paid" THEN employees[id][batch[i]].salary ELSE 0]]
  BY DEF BatchResult
<1>2. DOMAIN batch = 1 .. Len(batch)
  OBVIOUS
<1> HIDE DEF outcome
<1>3. QED BY <1>1, <1>2 DEF outcome

\* The result of a batch, typed.
LEMMA ResultTyped ==
    ASSUME RegistryTypeOK, NEW id \in OrgId, NEW org, NEW authorizer, NEW batch \in Seq(Nat)
    PROVE  BatchResult(id, org, authorizer, batch) \in Seq(ItemResult)
<1> DEFINE ledger == LedgerAfter(id, org, authorizer, batch)
           outcome(i) == PayEmployee(ledger[i-1], id, org, authorizer, batch[i])
           item(i) == [employee |-> batch[i], outcome |-> outcome(i),
                       amount |-> IF outcome(i) = "paid" THEN employees[id][batch[i]].salary ELSE 0]
<1>1. BatchResult(id, org, authorizer, batch) = [i \in 1 .. Len(batch) |-> item(i)]
  BY DEF BatchResult
<1>2. ASSUME NEW i \in 1 .. Len(batch) PROVE item(i) \in ItemResult
  <2>1. batch[i] \in Nat
    OBVIOUS
  <2>2. outcome(i) \in ItemOutcome
    BY DEF PayEmployee, ItemOutcome
  <2>3. outcome(i) = "paid" => employees[id][batch[i]].salary \in Nat
    BY PaidItem
  <2> HIDE DEF outcome
  <2>4. QED BY <2>1, <2>2, <2>3 DEF ItemResult
<1> HIDE DEF item
<1>3. Len(batch) \in Nat
  OBVIOUS
<1>4. QED BY <1>1, <1>2, <1>3

\* What a result says was paid for each item.
PaidAmounts(result) == [i \in DOMAIN result |-> result[i].amount]

\* What a result says account a was paid.
Gains(id, result, a) ==
    [i \in DOMAIN result |->
        IF result[i].outcome = "paid" /\ employees[id][result[i].employee].wallet = a
        THEN result[i].amount ELSE 0]

\* What an account gains from a batch is a natural number.
LEMMA GainsTyped ==
    ASSUME RegistryTypeOK, NEW id \in OrgId, NEW org, NEW authorizer, NEW batch \in Seq(Nat), NEW a
    PROVE  LET result == BatchResult(id, org, authorizer, batch)
           IN  \A i \in 1 .. Len(batch) :
                   PaidAmounts(result)[i] \in Nat /\ Gains(id, result, a)[i] \in Nat
<1> DEFINE ledger == LedgerAfter(id, org, authorizer, batch)
           result == BatchResult(id, org, authorizer, batch)
<1> SUFFICES ASSUME NEW i \in 1 .. Len(batch)
             PROVE  PaidAmounts(result)[i] \in Nat /\ Gains(id, result, a)[i] \in Nat
  OBVIOUS
<1>1. /\ DOMAIN result = 1 .. Len(batch)
      /\ result[i].outcome = PayEmployee(ledger[i-1], id, org, authorizer, batch[i])
      /\ result[i].amount = IF result[i].outcome = "paid"
                            THEN employees[id][batch[i]].salary ELSE 0
  BY ResultItems
<1>2. result[i].outcome = "paid" => employees[id][batch[i]].salary \in Nat
  BY <1>1, PaidItem
<1> HIDE DEF ledger, result
<1>3. QED BY <1>1, <1>2 DEF PaidAmounts, Gains

\* After any number of items each account has what it had, less what the
\* treasury paid, and what it was paid itself.
LEMMA LedgerMoney ==
    ASSUME RegistryTypeOK, balance \in [Accounts -> Nat],
           NEW id \in OrgId, NEW org \in Orgs, NEW authorizer, NEW batch \in Seq(Nat),
           NEW a \in Accounts
    PROVE  LET ledger == LedgerAfter(id, org, authorizer, batch)
               result == BatchResult(id, org, authorizer, batch)
           IN  \A n \in 0 .. Len(batch) :
                   ledger[n][a] = balance[a]
                       - (IF a = TreasuryOf[org]
                          THEN SumFunctionOnSet(PaidAmounts(result), 1 .. n) ELSE 0)
                       + SumFunctionOnSet(Gains(id, result, a), 1 .. n)
<1> DEFINE ledger == LedgerAfter(id, org, authorizer, batch)
           result == BatchResult(id, org, authorizer, batch)
           paid == PaidAmounts(result)
           gains == Gains(id, result, a)
           spent(n) == IF a = TreasuryOf[org] THEN SumFunctionOnSet(paid, 1 .. n) ELSE 0
           got(n) == SumFunctionOnSet(gains, 1 .. n)
           Right(n) == ledger[n][a] = balance[a] - spent(n) + got(n)
           Bad == {n \in 0 .. Len(batch) : ~Right(n)}
<1>1. /\ ledger[0] = balance
      /\ \A n \in 1 .. Len(batch) : ledger[n] = AfterItem(ledger[n-1], id, org, batch[n],
               PayEmployee(ledger[n-1], id, org, authorizer, batch[n]))
  BY LedgerUnrolls
<1>2. \A n \in 0 .. Len(batch) : ledger[n] \in [Accounts -> Nat]
  BY LedgerTyped
<1>3. /\ DOMAIN result = 1 .. Len(batch)
      /\ \A n \in 1 .. Len(batch) :
             /\ result[n].employee = batch[n]
             /\ result[n].outcome = PayEmployee(ledger[n-1], id, org, authorizer, batch[n])
             /\ result[n].amount = IF result[n].outcome = "paid"
                                   THEN employees[id][batch[n]].salary ELSE 0
  BY ResultItems
<1>4. \A n \in 1 .. Len(batch) : paid[n] \in Nat /\ gains[n] \in Nat
  BY GainsTyped
<1>5. Len(batch) \in Nat
  OBVIOUS
<1>6. \A n \in 1 .. Len(batch) :
          /\ paid[n] = result[n].amount
          /\ gains[n] = IF /\ result[n].outcome = "paid"
                           /\ employees[id][result[n].employee].wallet = a
                        THEN result[n].amount ELSE 0
  <2> HIDE DEF result
  <2>1. QED BY <1>3 DEF PaidAmounts, Gains
<1> HIDE DEF ledger, result, paid, gains
<1>7. ASSUME NEW n \in 1 .. Len(batch)
      PROVE  /\ spent(n) = spent(n-1) + (IF a = TreasuryOf[org] THEN paid[n] ELSE 0)
             /\ got(n) = got(n-1) + gains[n]
             /\ spent(n-1) \in Int /\ got(n-1) \in Int
  <2> DEFINE before == 1 .. n-1
  <2>1. 1 .. n = before \cup {n} /\ n \notin before /\ IsFiniteSet(before)
    <3>1. n \in Nat /\ n - 1 \in Int
      BY <1>5
    <3>2. IsFiniteSet(before)
      BY <3>1, FS_Interval
    <3>3. QED BY <3>1, <3>2
  <2>2. \A x \in before \cup {n} : paid[x] \in Int /\ gains[x] \in Int
    BY <1>4, <1>5
  <2> HIDE DEF before
  <2>3. /\ SumFunctionOnSet(paid, before \cup {n}) = SumFunctionOnSet(paid, before) + paid[n]
        /\ SumFunctionOnSet(gains, before \cup {n}) = SumFunctionOnSet(gains, before) + gains[n]
    BY <2>1, <2>2, SumAdd
  <2>4. SumFunctionOnSet(paid, before) \in Int /\ SumFunctionOnSet(gains, before) \in Int
    BY <2>1, <2>2, SumInt
  <2>5. /\ spent(n) = IF a = TreasuryOf[org] THEN SumFunctionOnSet(paid, before \cup {n}) ELSE 0
        /\ got(n) = SumFunctionOnSet(gains, before \cup {n})
    BY <2>1
  <2>6. /\ spent(n-1) = IF a = TreasuryOf[org] THEN SumFunctionOnSet(paid, before) ELSE 0
        /\ got(n-1) = SumFunctionOnSet(gains, before)
    BY DEF before
  <2> HIDE DEF spent, got
  <2>7. QED BY <2>3, <2>4, <2>5, <2>6
<1>8. Right(0)
  <2>1. 1 .. 0 = {}
    OBVIOUS
  <2>2. spent(0) = 0 /\ got(0) = 0
    BY <2>1, SumEmpty
  <2> HIDE DEF spent, got
  <2>3. QED BY <1>1, <2>2
<1>9. ASSUME NEW n \in 1 .. Len(batch), Right(n-1) PROVE Right(n)
  <2> HIDE DEF spent, got
  <2>1. n - 1 \in 0 .. Len(batch) /\ ledger[n-1] \in [Accounts -> Nat]
    BY <1>2, <1>5
  <2>2. ledger[n] = AfterItem(ledger[n-1], id, org, batch[n], result[n].outcome)
    BY <1>1, <1>3
  <2>3. CASE result[n].outcome # "paid"
    <3>1. ledger[n] = ledger[n-1] /\ paid[n] = 0 /\ gains[n] = 0
      BY <1>3, <1>6, <2>2, <2>3 DEF AfterItem
    <3>2. spent(n) = spent(n-1) /\ got(n) = got(n-1)
      BY <1>7, <3>1
    <3>3. QED BY <1>9, <3>1, <3>2
  <2>4. CASE result[n].outcome = "paid"
    <3> DEFINE wallet == employees[id][batch[n]].wallet
               salary == employees[id][batch[n]].salary
    <3>1. ledger[n] = Moved(ledger[n-1], TreasuryOf[org], wallet, salary) /\ salary \in Nat
      BY <1>3, <2>2, <2>4, PaidItem DEF AfterItem
    <3>2. paid[n] = salary /\ gains[n] = IF wallet = a THEN salary ELSE 0
      BY <1>3, <1>6, <2>4
    <3> HIDE DEF wallet, salary
    <3>3. ledger[n][a] = ledger[n-1][a] - (IF a = TreasuryOf[org] THEN salary ELSE 0)
                                        + (IF a = wallet THEN salary ELSE 0)
      BY <3>1 DEF Moved
    <3>4. ledger[n-1][a] \in Nat /\ balance[a] \in Nat
      BY <2>1
    <3>5. QED BY <1>7, <1>9, <3>1, <3>2, <3>3, <3>4
  <2>5. QED BY <2>3, <2>4
<1>10. \A n \in 0 .. Len(batch) : Right(n)
  <2> HIDE DEF Right
  <2>1. SUFFICES ASSUME Bad # {} PROVE FALSE
    BY <2>1
  <2>2. PICK n \in Bad : \A k \in Bad : n <= k
    <3>1. Bad \in SUBSET Nat
      BY <1>5
    <3> HIDE DEF Bad
    <3>2. QED BY <2>1, <3>1, LeastNumber
  <2>3. n \in 1 .. Len(batch) /\ ~Right(n)
    BY <1>8
  <2>4. n - 1 \in 0 .. Len(batch) /\ n - 1 < n
    BY <1>5, <2>3
  <2>5. n - 1 \notin Bad
    <3> HIDE DEF Bad
    <3>1. n \in Bad
      OBVIOUS
    <3>2. QED BY <1>5, <2>2, <2>3, <2>4
  <2>6. QED BY <1>9, <2>3, <2>4, <2>5
<1>11. QED BY <1>10 DEF ledger, result, paid, gains

-----------------------------------------------------------------------------
(***************************************************************************)
(* The types, call by call.                                                *)
(***************************************************************************)

\* Salaries are positive, and go to wallets somebody gave.
StaffInv ==
    \A id \in OrgId : \A e \in DOMAIN employees[id] :
        employees[id][e].wallet \in Payees /\ employees[id][e].salary > 0

\* The chain with its one organization as create_organization leaves it.
LEMMA OneOrganization ==
    ASSUME NEW o, Orgs = {o}, NEW owner \in Users, deployed = {o},
           registry = <<[organization |-> o, treasury |-> TreasuryOf[o], owner |-> owner]>>,
           orgCount = 1, initialized = Engine \cup {"payroll_factory"},
           cached = [e \in Engine |-> <<>>], wasmHash \in [WasmTarget -> Hashes],
           balance \in [Accounts -> Nat], booked \in [Orgs -> Int],
           spenders = [p \in Orgs |-> {PayrollEngine, MilestoneEngine}]
    PROVE  RegistryInv /\ FactoryTypeOK /\ TreasuryTypeOK /\ OrgId = {1}
<1> DEFINE record == [organization |-> o, treasury |-> TreasuryOf[o], owner |-> owner]
<1>1. registry = <<record>> /\ record \in OrgRecord
  BY AccountsAssumption DEF OrgRecord
<1>2. record.organization = o /\ record.treasury = TreasuryOf[o]
  OBVIOUS
<1> HIDE DEF record
<1>3. DOMAIN registry = {1} /\ registry[1] = record /\ 1 .. 1 = {1}
  BY <1>1
<1>4. Cardinality(Orgs) = 1 /\ OrgId = {1}
  <2>1. Cardinality({o}) = 1
    BY FS_Singleton
  <2>2. QED BY <1>3, <2>1 DEF OrgId
<1>5. \A e \in Engine : DOMAIN cached[e] = {} /\ cached[e] \in [{} -> OrgRecord]
  OBVIOUS
<1>6. RegistryInv
  BY <1>2, <1>3, <1>5 DEF RegistryInv
<1>7. FactoryTypeOK
  BY <1>1, <1>3, <1>4, <1>5 DEF FactoryTypeOK
<1>8. TreasuryTypeOK
  BY DEF TreasuryTypeOK
<1>9. QED BY <1>4, <1>6, <1>7, <1>8

\* What an engine resolves is an organization that is deployed.
LEMMA ResolvesDeployed ==
    ASSUME RegistryInv, NEW e \in Engine, NEW id, Resolvable(e, id)
    PROVE  /\ id \in DOMAIN registry /\ Resolve(e, id) = registry[id]
           /\ registry[id].organization \in Orgs /\ registry[id].organization \in deployed
           /\ registry[id].treasury = TreasuryOf[registry[id].organization]
BY ResolvesToRegistry DEF RegistryInv

\* Resolving an id leaves the factory typed.
LEMMA CachingTyped ==
    ASSUME RegistryInv, FactoryTypeOK, NEW e \in Engine, NEW id,
           Resolvable(e, id), CacheResolved(e, id),
           UNCHANGED <<initialized, orgCount, registry, wasmHash>>
    PROVE  FactoryTypeOK'
<1>1. id \in DOMAIN registry /\ Resolve(e, id) = registry[id]
  BY ResolvesToRegistry
<1>2. registry[id] \in OrgRecord /\ id \in OrgId
  BY <1>1 DEF FactoryTypeOK
<1>3. /\ DOMAIN cached' = Engine /\ cached'[e] = Put(cached[e], id, registry[id])
      /\ \A d \in Engine \ {e} : cached'[d] = cached[d]
  BY <1>1 DEF CacheResolved, FactoryTypeOK
<1>4. /\ DOMAIN cached[e] \subseteq OrgId
      /\ cached[e] \in [DOMAIN cached[e] -> OrgRecord]
  BY DEF FactoryTypeOK
<1>5. /\ DOMAIN cached'[e] \subseteq OrgId
      /\ cached'[e] \in [DOMAIN cached'[e] -> OrgRecord]
  <2> DEFINE copy == cached[e]
             record == registry[id]
  <2>1. /\ cached'[e] = Put(copy, id, record) /\ record \in OrgRecord /\ id \in OrgId
        /\ DOMAIN copy \subseteq OrgId /\ copy \in [DOMAIN copy -> OrgRecord]
    BY <1>2, <1>3, <1>4
  <2> HIDE DEF copy, record
  <2>2. QED BY <2>1 DEF Put
<1>6. QED BY <1>3, <1>5 DEF FactoryTypeOK

\* deposit leaves the balances natural.
LEMMA DepositTyped ==
    ASSUME TreasuryTypeOK, NEW o \in Orgs, NEW from \in Accounts, NEW amount \in Int,
           Deposit(o, from, amount)
    PROVE  TreasuryTypeOK'
<1>1. amount \in Nat /\ TreasuryOf[o] \in Accounts
  BY AccountsAssumption DEF Deposit
<1>2. balance' \in [Accounts -> Nat]
  BY <1>1, MovedTyped DEF Deposit, CanMove, TreasuryTypeOK
<1>3. QED BY <1>2 DEF Deposit, TreasuryTypeOK

\* withdraw leaves the balances natural: it checks the balance first.
LEMMA WithdrawTyped ==
    ASSUME TreasuryTypeOK, NEW o \in Orgs, NEW caller, NEW to \in Accounts, NEW amount \in Int,
           Withdraw(o, caller, to, amount)
    PROVE  TreasuryTypeOK'
<1>1. amount \in Nat /\ TreasuryOf[o] \in Accounts
  BY AccountsAssumption DEF Withdraw
<1>2. balance' \in [Accounts -> Nat]
  BY <1>1, MovedTyped DEF Withdraw, CanMove, TreasuryTypeOK
<1>3. QED BY <1>2 DEF Withdraw, TreasuryTypeOK

\* register, update and deactivate leave the records typed.
LEMMA RegistryCallTyped ==
    ASSUME RegistryInv, FactoryTypeOK, RegistryTypeOK, StaffInv,
           NEW id \in OrgId, NEW caller, RegistryCall(id, caller)
    PROVE  FactoryTypeOK' /\ RegistryTypeOK' /\ StaffInv'
<1>1. employees \in [OrgId -> Seq(Employee)]
  BY DEF RegistryTypeOK
<1>2. AssertHr(id, caller) /\ UNCHANGED <<initialized, orgCount, registry, wasmHash>>
  BY DEF RegistryCall, RegisterEmployee, UpdateEmployee, DeactivateEmployee
<1>3. FactoryTypeOK'
  BY <1>2, CachingTyped DEF AssertHr, Engine
<1> DEFINE Fits(list) ==
              /\ list \in Seq(Employee)
              /\ \A e \in DOMAIN list : list[e].wallet \in Payees /\ list[e].salary > 0
<1>4. ASSUME NEW staff, employees' = [employees EXCEPT ![id] = staff], Fits(staff)
      PROVE  RegistryTypeOK' /\ StaffInv'
  BY <1>1, <1>4 DEF RegistryTypeOK, StaffInv
<1> DEFINE staff == employees[id]
<1>5. Fits(staff)
  BY <1>1 DEF StaffInv
<1>6. ASSUME NEW wallet \in Payees, NEW salary \in Amounts,
             RegisterEmployee(id, caller, wallet, salary)
      PROVE  RegistryTypeOK' /\ StaffInv'
  <2> DEFINE new == [wallet |-> wallet, salary |-> salary, active |-> TRUE]
  <2>1. new \in Employee /\ new.wallet \in Payees /\ new.salary > 0
    BY <1>6, AccountsAssumption DEF RegisterEmployee, Employee
  <2>2. employees' = [employees EXCEPT ![id] = Append(staff, new)]
    BY <1>1, <1>6 DEF RegisterEmployee
  <2> HIDE DEF staff, new
  <2>3. Fits(Append(staff, new))
    BY <1>5, <2>1
  <2> HIDE DEF Fits
  <2>4. QED BY <1>4, <2>2, <2>3
<1>7. ASSUME NEW e \in DOMAIN staff, NEW row \in Employee, row.wallet \in Payees, row.salary > 0,
             employees' = [employees EXCEPT ![id] = [staff EXCEPT ![e] = row]]
      PROVE  RegistryTypeOK' /\ StaffInv'
  <2>1. Fits([staff EXCEPT ![e] = row])
    <3> HIDE DEF staff
    <3>1. QED BY <1>5, <1>7
  <2> HIDE DEF Fits, staff
  <2>2. QED BY <1>4, <1>7, <2>1
<1>8. ASSUME NEW e \in DOMAIN staff, NEW salary \in Amounts, UpdateEmployee(id, caller, e, salary)
      PROVE  RegistryTypeOK' /\ StaffInv'
  <2> DEFINE row == [staff[e] EXCEPT !.salary = salary]
  <2>1. employees' = [employees EXCEPT ![id] = [staff EXCEPT ![e] = row]]
    BY <1>1, <1>8 DEF UpdateEmployee
  <2>2. staff[e] \in Employee /\ staff[e].wallet \in Payees
    BY <1>5
  <2>3. row \in Employee /\ row.wallet \in Payees /\ row.salary > 0
    BY <1>8, <2>2, AccountsAssumption DEF UpdateEmployee, Employee
  <2> HIDE DEF row, staff
  <2>4. QED BY <1>7, <1>8, <2>1, <2>3
<1>9. ASSUME NEW e \in DOMAIN staff, DeactivateEmployee(id, caller, e)
      PROVE  RegistryTypeOK' /\ StaffInv'
  <2> DEFINE row == [staff[e] EXCEPT !.active = FALSE]
  <2>1. employees' = [employees EXCEPT ![id] = [staff EXCEPT ![e] = row]]
    BY <1>1, <1>9 DEF DeactivateEmployee
  <2>2. staff[e] \in Employee /\ staff[e].wallet \in Payees /\ staff[e].salary > 0
    BY <1>5
  <2>3. row \in Employee /\ row.wallet \in Payees /\ row.salary > 0
    BY <2>2 DEF Employee
  <2> HIDE DEF row, staff
  <2>4. QED BY <1>7, <1>9, <2>1, <2>3
<1>10. QED BY <1>3, <1>6, <1>8, <1>9 DEF RegistryCall

\* run_payroll leaves balances and results typed.
LEMMA RunPayrollTyped ==
    ASSUME RegistryInv, FactoryTypeOK, RegistryTypeOK, TreasuryTypeOK, PayrollTypeOK,
           NEW id \in OrgId, NEW authorizer, NEW run \in RunIds, NEW batch \in Seq(Nat),
           RunPayroll(authorizer, id, run, batch)
    PROVE  FactoryTypeOK' /\ RegistryTypeOK' /\ TreasuryTypeOK' /\ PayrollTypeOK'
<1> DEFINE org == Resolve("payroll_engine", id).organization
           result == BatchResult(id, org, authorizer, batch)
<1>1. Resolvable("payroll_engine", id) /\ org \in Orgs
  BY ResolvesDeployed DEF RunPayroll, CanRunPayroll, Engine
<1>2. /\ CacheResolved("payroll_engine", id) /\ MarkExecuted(id, run)
      /\ payrollResult' = [payrollResult EXCEPT ![id] = Put(@, run, result)]
      /\ balance' = LedgerAfter(id, org, authorizer, batch)[Len(batch)]
      /\ booked' = [booked EXCEPT ![org] = @ - PaidTotal(result)]
      /\ UNCHANGED <<spenders, employees, orgVars, initialized, orgCount, registry, wasmHash>>
  BY DEF RunPayroll
<1>3. FactoryTypeOK'
  BY <1>1, <1>2, CachingTyped DEF Engine
<1> HIDE DEF org
<1>4. balance' \in [Accounts -> Nat]
  <2>1. Len(batch) \in 0 .. Len(batch)
    OBVIOUS
  <2>2. QED BY <1>1, <1>2, <2>1, LedgerTyped DEF TreasuryTypeOK
<1>5. result \in Seq(ItemResult)
  BY ResultTyped
<1> HIDE DEF result
<1>6. PaidTotal(result) \in Int
  <2> DEFINE paid == [i \in DOMAIN result |-> result[i].amount]
  <2>1. DOMAIN paid = 1 .. Len(result) /\ \A i \in DOMAIN paid : paid[i] \in Int
    <3>1. \A i \in 1 .. Len(result) : result[i] \in ItemResult
      BY <1>5
    <3>2. \A i \in 1 .. Len(result) : result[i].amount \in Int
      BY <3>1 DEF ItemResult
    <3>3. DOMAIN result = 1 .. Len(result)
      BY <1>5
    <3>4. QED BY <3>2, <3>3
  <2>2. Len(result) \in Int
    BY <1>5
  <2>3. IsFiniteSet(DOMAIN paid)
    BY <2>1, <2>2, FS_Interval
  <2>4. PaidTotal(result) = SumFunctionOnSet(paid, DOMAIN paid)
    BY DEF PaidTotal, SumFunction
  <2> HIDE DEF paid
  <2>5. QED BY <2>1, <2>3, <2>4, SumInt
<1>7. TreasuryTypeOK'
  <2>1. booked' \in [Orgs -> Int]
    BY <1>1, <1>2, <1>6 DEF TreasuryTypeOK
  <2>2. QED BY <1>2, <1>4, <2>1 DEF TreasuryTypeOK
<1>8. PayrollTypeOK'
  <2>1. /\ executedRun' = [executedRun EXCEPT ![id] = @ \cup {run}]
        /\ executedRun \in [OrgId -> SUBSET RunIds] /\ DOMAIN payrollResult = OrgId
        /\ payrollResult[id] \in [executedRun[id] -> Seq(ItemResult)]
    BY <1>2 DEF MarkExecuted, PayrollTypeOK
  <2>2. /\ executedRun' \in [OrgId -> SUBSET RunIds]
        /\ executedRun'[id] = executedRun[id] \cup {run}
        /\ \A i \in OrgId \ {id} : executedRun'[i] = executedRun[i]
    BY <2>1
  <2>3. /\ DOMAIN payrollResult' = OrgId
        /\ payrollResult'[id] = Put(payrollResult[id], run, result)
        /\ \A i \in OrgId \ {id} : payrollResult'[i] = payrollResult[i]
    BY <1>2, <2>1
  <2>4. payrollResult'[id] \in [executedRun'[id] -> Seq(ItemResult)]
    <3> DEFINE results == payrollResult[id]
               executed == executedRun[id]
    <3>1. /\ results \in [executed -> Seq(ItemResult)]
          /\ payrollResult'[id] = Put(results, run, result)
          /\ executedRun'[id] = executed \cup {run}
      BY <2>1, <2>2, <2>3
    <3> HIDE DEF results, executed
    <3>2. QED BY <1>5, <3>1 DEF Put
  <2>5. QED BY <2>2, <2>3, <2>4 DEF PayrollTypeOK
<1>9. QED BY <1>2, <1>3, <1>7, <1>8 DEF RegistryTypeOK

-----------------------------------------------------------------------------
(***************************************************************************)
(* Milestones, and the escrow they account for.                            *)
(***************************************************************************)

\* What is true of milestones besides their type: they belong to registered
\* organizations, stay under the bound, go to contractors somebody named, and
\* what holds money holds some.
MilestonesInv ==
    \A id \in OrgId :
        /\ Len(milestones[id]) <= MaxMilestones[id]
        /\ milestones[id] # <<>> => id \in DOMAIN registry
        /\ \A m \in DOMAIN milestones[id] :
               /\ milestones[id][m].contractor \in Payees
               /\ milestones[id][m].status \notin {"Draft", "Cancelled"} =>
                      milestones[id][m].amount > 0

\* A transition changes one status and nothing else.
LEMMA StatusChange ==
    ASSUME MilestoneTypeOK, NEW id \in OrgId, NEW m \in DOMAIN milestones[id],
           NEW status \in MilestoneStatus, SetStatus(id, m, status)
    PROVE  /\ milestones' \in [OrgId -> Seq(MilestoneRecord)]
           /\ \A i \in OrgId : /\ Len(milestones'[i]) = Len(milestones[i])
                               /\ DOMAIN milestones'[i] = DOMAIN milestones[i]
           /\ \A i \in OrgId \ {id} : milestones'[i] = milestones[i]
           /\ \A k \in DOMAIN milestones[id] \ {m} : milestones'[id][k] = milestones[id][k]
           /\ milestones'[id][m] = [milestones[id][m] EXCEPT !.status = status]
           /\ milestones[id][m] \in MilestoneRecord
<1> DEFINE list == milestones[id]
           record == [list[m] EXCEPT !.status = status]
<1>1. milestones' = [milestones EXCEPT ![id] = [list EXCEPT ![m] = record]]
  BY DEF SetStatus
<1>2. milestones \in [OrgId -> Seq(MilestoneRecord)] /\ list \in Seq(MilestoneRecord)
  BY DEF MilestoneTypeOK
<1>3. list[m] \in MilestoneRecord
  BY <1>2
<1>4. record \in MilestoneRecord
  BY <1>3 DEF MilestoneRecord
<1>5. list = milestones[id] /\ m \in DOMAIN list /\ record = [list[m] EXCEPT !.status = status]
  OBVIOUS
<1> HIDE DEF list, record
<1>6. /\ [list EXCEPT ![m] = record] \in Seq(MilestoneRecord)
      /\ Len([list EXCEPT ![m] = record]) = Len(list)
      /\ DOMAIN [list EXCEPT ![m] = record] = DOMAIN list
  BY <1>2, <1>4, <1>5
<1>7. /\ milestones'[id] = [list EXCEPT ![m] = record]
      /\ \A i \in OrgId \ {id} : milestones'[i] = milestones[i]
      /\ milestones' \in [OrgId -> Seq(MilestoneRecord)]
  BY <1>1, <1>2, <1>6
<1>8. QED BY <1>3, <1>5, <1>6, <1>7

LEMMA HeldTyped == \A record \in MilestoneRecord : Held(record) \in Int
BY DEF Held, MilestoneRecord

\* The sum of what one organization's milestones hold follows the one record
\* that changes.
LEMMA OutstandingAfterStatus ==
    ASSUME MilestoneTypeOK, NEW id \in OrgId, NEW m \in DOMAIN milestones[id],
           NEW status \in MilestoneStatus, SetStatus(id, m, status)
    PROVE  /\ Outstanding(id)' =
                  Outstanding(id) - Held(milestones[id][m]) + Held(milestones'[id][m])
           /\ \A i \in OrgId \ {id} : Outstanding(i)' = Outstanding(i)
<1> DEFINE f == [k \in DOMAIN milestones[id] |-> Held(milestones[id][k])]
           g == [k \in DOMAIN milestones'[id] |-> Held(milestones'[id][k])]
           S == DOMAIN milestones[id]
<1>1. /\ milestones' \in [OrgId -> Seq(MilestoneRecord)]
      /\ milestones \in [OrgId -> Seq(MilestoneRecord)]
      /\ DOMAIN milestones'[id] = S
      /\ \A i \in OrgId \ {id} : milestones'[i] = milestones[i]
      /\ \A k \in S \ {m} : milestones'[id][k] = milestones[id][k]
  BY StatusChange DEF MilestoneTypeOK
<1>2. S = 1 .. Len(milestones[id]) /\ Len(milestones[id]) \in Int
  BY <1>1
<1>3. IsFiniteSet(S)
  BY <1>2, FS_Interval
<1>4. \A k \in S : f[k] \in Int /\ g[k] \in Int
  <2>1. \A k \in S : milestones[id][k] \in MilestoneRecord /\ milestones'[id][k] \in MilestoneRecord
    BY <1>1
  <2>2. QED BY <1>1, <2>1, HeldTyped
<1>5. \A k \in S \ {m} : f[k] = g[k]
  BY <1>1
<1>6. /\ DOMAIN f = S /\ DOMAIN g = S
      /\ f[m] = Held(milestones[id][m]) /\ g[m] = Held(milestones'[id][m])
  BY <1>1
<1>7. Outstanding(id) = SumFunctionOnSet(f, S) /\ Outstanding(id)' = SumFunctionOnSet(g, S)
  BY <1>6 DEF Outstanding, SumFunction
<1>8. \A i \in OrgId \ {id} : Outstanding(i)' = Outstanding(i)
  BY <1>1 DEF Outstanding
<1>9. m \in S
  OBVIOUS
<1> HIDE DEF f, g, S
<1>10. SumFunctionOnSet(g, S) = SumFunctionOnSet(f, S) - f[m] + g[m]
  BY <1>3, <1>4, <1>5, <1>9, SumChange
<1>11. QED BY <1>6, <1>7, <1>8, <1>10

\* A new milestone is one more record, a Draft, that holds nothing.
LEMMA MilestoneAdded ==
    ASSUME MilestoneTypeOK, NEW id \in OrgId, NEW contractor \in Accounts, NEW amount \in Int,
           milestones' = [milestones EXCEPT ![id] = Append(@,
               [contractor |-> contractor, amount |-> amount, status |-> "Draft"])]
    PROVE  LET new == Len(milestones[id]) + 1
           IN  /\ milestones' \in [OrgId -> Seq(MilestoneRecord)]
               /\ \A i \in OrgId \ {id} : milestones'[i] = milestones[i]
               /\ Len(milestones'[id]) = new
               /\ DOMAIN milestones[id] = 1 .. new - 1 /\ DOMAIN milestones'[id] = 1 .. new
               /\ new \notin DOMAIN milestones[id]
               /\ DOMAIN milestones'[id] = DOMAIN milestones[id] \cup {new}
               /\ \A k \in DOMAIN milestones[id] : milestones'[id][k] = milestones[id][k]
               /\ milestones'[id][new] =
                      [contractor |-> contractor, amount |-> amount, status |-> "Draft"]
<1> DEFINE list == milestones[id]
           record == [contractor |-> contractor, amount |-> amount, status |-> "Draft"]
<1>1. milestones \in [OrgId -> Seq(MilestoneRecord)] /\ list \in Seq(MilestoneRecord)
  BY DEF MilestoneTypeOK
<1>2. record \in MilestoneRecord
  BY DEF MilestoneRecord, MilestoneStatus
<1>3. /\ milestones'[id] = Append(list, record) /\ DOMAIN milestones' = OrgId
      /\ \A i \in OrgId \ {id} : milestones'[i] = milestones[i]
  BY <1>1
<1>4. /\ list = milestones[id]
      /\ record = [contractor |-> contractor, amount |-> amount, status |-> "Draft"]
  OBVIOUS
<1> HIDE DEF list, record
<1>5. /\ Append(list, record) \in Seq(MilestoneRecord)
      /\ Len(Append(list, record)) = Len(list) + 1
      /\ DOMAIN list = 1 .. Len(list) /\ DOMAIN Append(list, record) = 1 .. Len(list) + 1
      /\ \A k \in 1 .. Len(list) : Append(list, record)[k] = list[k]
      /\ Append(list, record)[Len(list) + 1] = record
      /\ Len(list) \in Nat
  BY <1>1, <1>2
<1>6. milestones' \in [OrgId -> Seq(MilestoneRecord)]
  BY <1>1, <1>3, <1>5
<1>7. /\ 1 .. Len(list) + 1 = (1 .. Len(list)) \cup {Len(list) + 1}
      /\ Len(list) + 1 \notin 1 .. Len(list) /\ Len(list) + 1 - 1 = Len(list)
  BY <1>5
<1>8. QED BY <1>3, <1>4, <1>5, <1>6, <1>7

\* A draft holds nothing: creating one adds nothing to the escrow.
LEMMA OutstandingAfterCreate ==
    ASSUME MilestoneTypeOK, NEW id \in OrgId, NEW contractor \in Accounts, NEW amount \in Int,
           milestones' = [milestones EXCEPT ![id] = Append(@,
               [contractor |-> contractor, amount |-> amount, status |-> "Draft"])]
    PROVE  \A i \in OrgId : Outstanding(i)' = Outstanding(i)
<1> DEFINE new == Len(milestones[id]) + 1
           S == DOMAIN milestones[id]
           f == [k \in DOMAIN milestones[id] |-> Held(milestones[id][k])]
           g == [k \in DOMAIN milestones'[id] |-> Held(milestones'[id][k])]
<1>1. /\ milestones' \in [OrgId -> Seq(MilestoneRecord)]
      /\ milestones \in [OrgId -> Seq(MilestoneRecord)]
      /\ \A i \in OrgId \ {id} : milestones'[i] = milestones[i]
      /\ S = 1 .. new - 1 /\ new \notin S /\ DOMAIN milestones'[id] = S \cup {new}
      /\ \A k \in S : milestones'[id][k] = milestones[id][k]
      /\ milestones'[id][new] = [contractor |-> contractor, amount |-> amount, status |-> "Draft"]
  BY MilestoneAdded DEF MilestoneTypeOK
<1>2. new \in Int
  BY <1>1
<1>3. IsFiniteSet(S)
  BY <1>1, <1>2, FS_Interval
<1>4. \A k \in S \cup {new} : g[k] \in Int
  <2>1. \A k \in S \cup {new} : milestones'[id][k] \in MilestoneRecord
    BY <1>1
  <2>2. QED BY <1>1, <2>1, HeldTyped
<1>5. g[new] = 0
  BY <1>1 DEF Held
<1>6. \A k \in S : f[k] = g[k]
  BY <1>1
<1>7. /\ Outstanding(id) = SumFunctionOnSet(f, S)
      /\ Outstanding(id)' = SumFunctionOnSet(g, S \cup {new})
  BY <1>1 DEF Outstanding, SumFunction
<1>8. \A i \in OrgId \ {id} : Outstanding(i)' = Outstanding(i)
  BY <1>1 DEF Outstanding
<1>9. new \notin S
  BY <1>1
<1> HIDE DEF f, g, S, new
<1>10. SumFunctionOnSet(g, S \cup {new}) = SumFunctionOnSet(g, S) + g[new]
  BY <1>3, <1>4, <1>9, SumAdd
<1>11. SumFunctionOnSet(f, S) = SumFunctionOnSet(g, S)
  BY <1>3, <1>6, SumSame
<1>12. SumFunctionOnSet(g, S) \in Int
  BY <1>3, <1>4, SumInt
<1>13. Outstanding(id)' = Outstanding(id)
  BY <1>5, <1>7, <1>10, <1>11, <1>12
<1>14. QED BY <1>8, <1>13

-----------------------------------------------------------------------------
(***************************************************************************)
(* The entry points of milestone_engine, with the organization resolved.   *)
(***************************************************************************)
MoneyUntouched == UNCHANGED <<escrow, refunded, balance, booked>>

\* What each entry point does to milestone m of id, when o is the
\* organization id stands for.
Drafted(id, contractor, amount) ==
    /\ Len(milestones[id]) < MaxMilestones[id]
    /\ milestones' = [milestones EXCEPT ![id] =
           Append(@, [contractor |-> contractor, amount |-> amount, status |-> "Draft"])]
    /\ MoneyUntouched

Funded(id, m, o) ==
    /\ milestones[id][m].status = "Draft" /\ SetStatus(id, m, "Funded")
    /\ milestones[id][m].amount > 0
    /\ CanMove(balance, TreasuryOf[o], MilestoneEngine, milestones[id][m].amount)
    /\ balance' = Moved(balance, TreasuryOf[o], MilestoneEngine, milestones[id][m].amount)
    /\ booked' = [booked EXCEPT ![o] = @ - milestones[id][m].amount]
    /\ escrow' = [escrow EXCEPT ![id] = @ + milestones[id][m].amount]
    /\ refunded' = refunded

Approved(id, m) ==
    milestones[id][m].status = "Funded" /\ SetStatus(id, m, "Approved") /\ MoneyUntouched

Released(id, m) ==
    /\ milestones[id][m].status = "Approved" /\ SetStatus(id, m, "Released")
    /\ CanMove(balance, MilestoneEngine, milestones[id][m].contractor, milestones[id][m].amount)
    /\ balance' = Moved(balance, MilestoneEngine, milestones[id][m].contractor,
                        milestones[id][m].amount)
    /\ escrow' = [escrow EXCEPT ![id] = @ - milestones[id][m].amount]
    /\ UNCHANGED <<refunded, booked>>

Voided(id, m) ==
    milestones[id][m].status = "Draft" /\ SetStatus(id, m, "Cancelled") /\ MoneyUntouched

Refunded(id, m, o) ==
    /\ milestones[id][m].status = "Funded" /\ SetStatus(id, m, "Cancelled")
    /\ CanMove(balance, MilestoneEngine, TreasuryOf[o], milestones[id][m].amount)
    /\ balance' = Moved(balance, MilestoneEngine, TreasuryOf[o], milestones[id][m].amount)
    /\ escrow' = [escrow EXCEPT ![id] = @ - milestones[id][m].amount]
    /\ refunded' = [refunded EXCEPT ![id] = @ + milestones[id][m].amount]
    /\ booked' = booked

\* Every call of milestone_engine is one of the six, for the organization the
\* factory registered.
LEMMA MilestoneCallCases ==
    ASSUME RegistryInv, MilestoneTypeOK, NEW id \in OrgId, NEW caller, MilestoneCall(id, caller)
    PROVE  LET o == registry[id].organization
           IN  /\ id \in DOMAIN registry /\ o \in Orgs /\ o \in deployed
               /\ Resolvable("milestone_engine", id) /\ CacheResolved("milestone_engine", id)
               /\ UNCHANGED <<spenders, orgVars, initialized, orgCount, registry, wasmHash>>
               /\ \/ \E contractor \in Payees, amount \in Amounts :
                         Drafted(id, contractor, amount)
                  \/ \E m \in DOMAIN milestones[id] :
                         \/ Funded(id, m, o) \/ Approved(id, m) \/ Released(id, m)
                         \/ Voided(id, m) \/ Refunded(id, m, o)
<1> DEFINE o == registry[id].organization
<1>1. AssertFinance(id, caller)
  BY DEF MilestoneCall, CreateMilestone, FundMilestone, ApproveMilestone,
         ReleaseMilestone, CancelMilestone, CancelDraft, CancelFunded
<1>2. /\ Resolvable("milestone_engine", id) /\ CacheResolved("milestone_engine", id)
      /\ UNCHANGED <<spenders, orgVars, initialized, orgCount, registry, wasmHash>>
  BY <1>1 DEF AssertFinance, MilestoneCall
<1>3. /\ id \in DOMAIN registry /\ OrganizationOf(id) = o /\ o \in Orgs /\ o \in deployed
      /\ Resolve("milestone_engine", id).treasury = TreasuryOf[o]
  BY <1>2, ResolvesDeployed DEF OrganizationOf, Engine
<1>4. ASSUME NEW contractor \in Payees, NEW amount \in Amounts,
             CreateMilestone(id, caller, contractor, amount)
      PROVE  Drafted(id, contractor, amount)
  BY <1>4 DEF CreateMilestone, Drafted, MoneyUntouched
<1> HIDE DEF o
<1>5. ASSUME NEW m \in DOMAIN milestones[id], FundMilestone(id, caller, m)
      PROVE  Funded(id, m, o)
  BY <1>3, <1>5 DEF FundMilestone, InStatus, CanTransferOut, AdjustEscrow, Funded
<1>6. ASSUME NEW m \in DOMAIN milestones[id], ApproveMilestone(id, caller, m)
      PROVE  Approved(id, m)
  BY <1>6 DEF ApproveMilestone, InStatus, Approved, MoneyUntouched
<1>7. ASSUME NEW m \in DOMAIN milestones[id], ReleaseMilestone(id, caller, m)
      PROVE  Released(id, m)
  <2>1. milestones[id][m] \in MilestoneRecord
    BY DEF MilestoneTypeOK
  <2>2. milestones[id][m].amount \in Int /\ escrow[id] \in Int
    BY <2>1 DEF MilestoneTypeOK, MilestoneRecord
  <2>3. escrow[id] + (-milestones[id][m].amount) = escrow[id] - milestones[id][m].amount
    BY <2>2
  <2>4. QED BY <1>7, <2>3 DEF ReleaseMilestone, InStatus, AdjustEscrow, Released
<1>8. ASSUME NEW m \in DOMAIN milestones[id], CancelDraft(id, caller, m)
      PROVE  Voided(id, m)
  BY <1>8 DEF CancelDraft, InStatus, Voided, MoneyUntouched
<1>9. ASSUME NEW m \in DOMAIN milestones[id], CancelFunded(id, caller, m)
      PROVE  Refunded(id, m, o)
  <2>1. milestones[id][m] \in MilestoneRecord
    BY DEF MilestoneTypeOK
  <2>2. milestones[id][m].amount \in Int /\ escrow[id] \in Int
    BY <2>1 DEF MilestoneTypeOK, MilestoneRecord
  <2>3. escrow[id] + (-milestones[id][m].amount) = escrow[id] - milestones[id][m].amount
    BY <2>2
  <2>4. QED BY <1>3, <1>9, <2>3 DEF CancelFunded, InStatus, AdjustEscrow, Refunded
<1>10. \/ \E contractor \in Payees, amount \in Amounts : Drafted(id, contractor, amount)
       \/ \E m \in DOMAIN milestones[id] :
              \/ Funded(id, m, o) \/ Approved(id, m) \/ Released(id, m)
              \/ Voided(id, m) \/ Refunded(id, m, o)
  BY <1>4, <1>5, <1>6, <1>7, <1>8, <1>9 DEF MilestoneCall, CancelMilestone
<1>11. QED BY <1>2, <1>3, <1>10 DEF o

\* The ids handed out are finitely many.
LEMMA OrgIdFinite == IsFiniteSet(OrgId) /\ OrgId \subseteq Nat /\ Cardinality(Orgs) \in Nat
<1>1. Cardinality(Orgs) \in Nat
  BY FactoryAssumption, FS_CardinalityType
<1>2. QED BY <1>1, FS_Interval DEF OrgId

\* A change of one escrow counter changes the total by the same amount.
LEMMA EscrowTotal ==
    ASSUME escrow \in [OrgId -> Int], NEW id \in OrgId, NEW delta \in Int,
           escrow' = [escrow EXCEPT ![id] = @ + delta]
    PROVE  /\ SumFunction(escrow)' = SumFunction(escrow) + delta
           /\ SumFunction(escrow) \in Int
<1>1. escrow' \in [OrgId -> Int] /\ escrow'[id] = escrow[id] + delta
      /\ \A i \in OrgId \ {id} : escrow'[i] = escrow[i]
  OBVIOUS
<1>2. SumFunctionOnSet(escrow', OrgId) = SumFunctionOnSet(escrow, OrgId) - escrow[id] + escrow'[id]
  <2> DEFINE after == escrow'
  <2>1. IsFiniteSet(OrgId)
    BY OrgIdFinite
  <2>2. \A i \in OrgId : escrow[i] \in Int /\ after[i] \in Int
    BY <1>1
  <2>3. \A i \in OrgId \ {id} : escrow[i] = after[i]
    BY <1>1
  <2> HIDE DEF after
  <2>4. SumFunctionOnSet(after, OrgId) = SumFunctionOnSet(escrow, OrgId) - escrow[id] + after[id]
    BY <2>1, <2>2, <2>3, SumChange
  <2>5. QED BY <2>4 DEF after
<1>3. SumFunctionOnSet(escrow, OrgId) \in Int
  BY OrgIdFinite, SumInt
<1>4. QED BY <1>1, <1>2, <1>3 DEF SumFunction

\* What is said of every milestone survives a change of status: only a draft or
\* a cancelled one may have no amount.
LEMMA StatusKeepsMilestones ==
    ASSUME MilestoneTypeOK, MilestonesInv, UNCHANGED registry,
           NEW id \in OrgId, NEW m \in DOMAIN milestones[id],
           NEW status \in MilestoneStatus, SetStatus(id, m, status),
           status \notin {"Draft", "Cancelled"} => milestones[id][m].amount > 0
    PROVE  MilestonesInv'
<1>1. /\ milestones' \in [OrgId -> Seq(MilestoneRecord)]
      /\ \A i \in OrgId : /\ Len(milestones'[i]) = Len(milestones[i])
                          /\ DOMAIN milestones'[i] = DOMAIN milestones[i]
      /\ \A i \in OrgId \ {id} : milestones'[i] = milestones[i]
      /\ \A k \in DOMAIN milestones[id] \ {m} : milestones'[id][k] = milestones[id][k]
      /\ milestones'[id][m] = [milestones[id][m] EXCEPT !.status = status]
      /\ milestones[id][m] \in MilestoneRecord
  BY StatusChange
<1>2. /\ milestones'[id][m].status = status
      /\ milestones'[id][m].amount = milestones[id][m].amount
      /\ milestones'[id][m].contractor = milestones[id][m].contractor
  BY <1>1 DEF MilestoneRecord
<1>3. ASSUME NEW i \in OrgId, milestones'[i] # <<>> PROVE milestones[i] # <<>>
  <2>1. milestones[i] = <<>> => Len(milestones'[i]) = 0 /\ milestones'[i] \in Seq(MilestoneRecord)
    BY <1>1
  <2>2. QED BY <1>3, <2>1
<1>4. ASSUME NEW i \in OrgId, NEW k \in DOMAIN milestones'[i]
      PROVE  /\ milestones'[i][k].contractor \in Payees
             /\ milestones'[i][k].status \notin {"Draft", "Cancelled"} =>
                    milestones'[i][k].amount > 0
  <2>1. CASE i = id /\ k = m
    BY <1>2, <2>1 DEF MilestonesInv
  <2>2. CASE ~(i = id /\ k = m)
    BY <1>1, <2>2 DEF MilestonesInv
  <2>3. QED BY <2>1, <2>2
<1>5. QED BY <1>1, <1>3, <1>4 DEF MilestonesInv

\* ... and a new draft.
LEMMA DraftKeepsMilestones ==
    ASSUME MilestoneTypeOK, MilestonesInv, UNCHANGED registry,
           NEW id \in OrgId, id \in DOMAIN registry,
           NEW contractor \in Payees, NEW amount \in Int, Drafted(id, contractor, amount)
    PROVE  MilestonesInv'
<1> DEFINE new == Len(milestones[id]) + 1
<1>1. /\ \A i \in OrgId \ {id} : milestones'[i] = milestones[i]
      /\ Len(milestones'[id]) = new
      /\ DOMAIN milestones'[id] = DOMAIN milestones[id] \cup {new}
      /\ \A k \in DOMAIN milestones[id] : milestones'[id][k] = milestones[id][k]
      /\ milestones'[id][new].status = "Draft"
      /\ milestones'[id][new].contractor = contractor
  <2> USE AccountsAssumption
  <2>1. milestones' = [milestones EXCEPT ![id] = Append(@,
               [contractor |-> contractor, amount |-> amount, status |-> "Draft"])]
    BY DEF Drafted
  <2> HIDE DEF Drafted
  <2>2. milestones'[id][new] =
            [contractor |-> contractor, amount |-> amount, status |-> "Draft"]
    BY <2>1, MilestoneAdded
  <2>3. /\ milestones'[id][new].status = "Draft"
        /\ milestones'[id][new].contractor = contractor
    BY <2>2
  <2>4. /\ \A i \in OrgId \ {id} : milestones'[i] = milestones[i]
        /\ Len(milestones'[id]) = new
        /\ DOMAIN milestones'[id] = DOMAIN milestones[id] \cup {new}
        /\ \A k \in DOMAIN milestones[id] : milestones'[id][k] = milestones[id][k]
    BY <2>1, MilestoneAdded
  <2>5. QED BY <2>3, <2>4
<1>2. new <= MaxMilestones[id]
  <2>1. milestones[id] \in Seq(MilestoneRecord)
    BY DEF MilestoneTypeOK
  <2>2. Len(milestones[id]) \in Nat /\ MaxMilestones[id] \in Nat
    BY <2>1, MilestoneAssumption
  <2>3. QED BY <2>2 DEF Drafted
<1> HIDE DEF new
<1>3. ASSUME NEW i \in OrgId, NEW k \in DOMAIN milestones'[i]
      PROVE  /\ milestones'[i][k].contractor \in Payees
             /\ milestones'[i][k].status \notin {"Draft", "Cancelled"} =>
                    milestones'[i][k].amount > 0
  BY <1>1 DEF MilestonesInv
<1>4. QED BY <1>1, <1>2, <1>3 DEF MilestonesInv

\* milestone_engine keeps the types, and what it knows of its milestones.
LEMMA MilestoneCallTyped ==
    ASSUME RegistryInv, FactoryTypeOK, TreasuryTypeOK, MilestoneTypeOK, MilestonesInv,
           NEW id \in OrgId, NEW caller, MilestoneCall(id, caller)
    PROVE  FactoryTypeOK' /\ TreasuryTypeOK' /\ MilestoneTypeOK' /\ MilestonesInv'
<1> DEFINE o == registry[id].organization
<1>1. /\ id \in DOMAIN registry /\ o \in Orgs
      /\ Resolvable("milestone_engine", id) /\ CacheResolved("milestone_engine", id)
      /\ UNCHANGED <<spenders, orgVars, initialized, orgCount, registry, wasmHash>>
      /\ \/ \E contractor \in Payees, amount \in Amounts : Drafted(id, contractor, amount)
         \/ \E m \in DOMAIN milestones[id] :
                \/ Funded(id, m, o) \/ Approved(id, m) \/ Released(id, m)
                \/ Voided(id, m) \/ Refunded(id, m, o)
  BY MilestoneCallCases
<1>2. FactoryTypeOK'
  BY <1>1, CachingTyped DEF Engine
<1> HIDE DEF o
<1>3. o \in Orgs /\ TreasuryOf[o] \in Accounts /\ MilestoneEngine \in Accounts
  BY <1>1, AccountsAssumption
<1>4. /\ balance \in [Accounts -> Nat] /\ booked \in [Orgs -> Int]
      /\ escrow \in [OrgId -> Int] /\ refunded \in [OrgId -> Int]
  BY DEF TreasuryTypeOK, MilestoneTypeOK
<1>5. ASSUME milestones' \in [OrgId -> Seq(MilestoneRecord)], balance' \in [Accounts -> Nat],
             booked' \in [Orgs -> Int], escrow' \in [OrgId -> Int], refunded' \in [OrgId -> Int]
      PROVE  TreasuryTypeOK' /\ MilestoneTypeOK'
  BY <1>1, <1>5 DEF TreasuryTypeOK, MilestoneTypeOK
<1>6. ASSUME NEW contractor \in Payees, NEW amount \in Amounts, Drafted(id, contractor, amount)
      PROVE  TreasuryTypeOK' /\ MilestoneTypeOK' /\ MilestonesInv'
  <2>1. contractor \in Accounts /\ amount \in Int
    BY AccountsAssumption
  <2>2. milestones' \in [OrgId -> Seq(MilestoneRecord)]
    BY <1>6, <2>1, MilestoneAdded DEF Drafted
  <2>3. UNCHANGED <<escrow, refunded, balance, booked>>
    BY <1>6 DEF Drafted, MoneyUntouched
  <2>4. MilestonesInv'
    BY <1>1, <1>6, <2>1, DraftKeepsMilestones
  <2>5. QED BY <1>4, <1>5, <2>2, <2>3, <2>4
<1>7. ASSUME NEW m \in DOMAIN milestones[id],
             \/ Funded(id, m, o) \/ Approved(id, m) \/ Released(id, m)
             \/ Voided(id, m) \/ Refunded(id, m, o)
      PROVE  TreasuryTypeOK' /\ MilestoneTypeOK' /\ MilestonesInv'
  <2>1. milestones[id][m] \in MilestoneRecord
    BY DEF MilestoneTypeOK
  <2>2. milestones[id][m].amount \in Int /\ milestones[id][m].contractor \in Accounts
    BY <2>1 DEF MilestoneRecord
  <2>3. milestones[id][m].status \in {"Funded", "Approved"} => milestones[id][m].amount > 0
    BY DEF MilestonesInv
  <2>4. ASSUME NEW status \in MilestoneStatus, SetStatus(id, m, status),
               status \notin {"Draft", "Cancelled"} => milestones[id][m].amount > 0
        PROVE  milestones' \in [OrgId -> Seq(MilestoneRecord)] /\ MilestonesInv'
    BY <1>1, <2>4, StatusChange, StatusKeepsMilestones
  <2>5. CASE Funded(id, m, o)
    <3>1. milestones' \in [OrgId -> Seq(MilestoneRecord)] /\ MilestonesInv'
      BY <2>4, <2>5 DEF Funded, MilestoneStatus
    <3>2. balance' \in [Accounts -> Nat]
      BY <1>3, <1>4, <2>2, <2>5, MovedTyped DEF Funded, CanMove
    <3>3. /\ booked' \in [Orgs -> Int] /\ escrow' \in [OrgId -> Int]
          /\ refunded' \in [OrgId -> Int]
      BY <1>3, <1>4, <2>2, <2>5 DEF Funded
    <3>4. QED BY <1>5, <3>1, <3>2, <3>3
  <2>6. CASE Approved(id, m)
    <3>1. milestones' \in [OrgId -> Seq(MilestoneRecord)] /\ MilestonesInv'
      BY <2>3, <2>4, <2>6 DEF Approved, MilestoneStatus
    <3>2. QED BY <1>4, <1>5, <2>6, <3>1 DEF Approved, MoneyUntouched
  <2>7. CASE Released(id, m)
    <3>1. milestones' \in [OrgId -> Seq(MilestoneRecord)] /\ MilestonesInv'
      BY <2>3, <2>4, <2>7 DEF Released, MilestoneStatus
    <3>2. balance' \in [Accounts -> Nat]
      BY <1>3, <1>4, <2>2, <2>3, <2>7, MovedTyped DEF Released, CanMove
    <3>3. /\ booked' \in [Orgs -> Int] /\ escrow' \in [OrgId -> Int]
          /\ refunded' \in [OrgId -> Int]
      BY <1>4, <2>2, <2>7 DEF Released
    <3>4. QED BY <1>5, <3>1, <3>2, <3>3
  <2>8. CASE Voided(id, m)
    <3>1. milestones' \in [OrgId -> Seq(MilestoneRecord)] /\ MilestonesInv'
      BY <2>4, <2>8 DEF Voided, MilestoneStatus
    <3>2. QED BY <1>4, <1>5, <2>8, <3>1 DEF Voided, MoneyUntouched
  <2>9. CASE Refunded(id, m, o)
    <3>1. milestones' \in [OrgId -> Seq(MilestoneRecord)] /\ MilestonesInv'
      BY <2>4, <2>9 DEF Refunded, MilestoneStatus
    <3>2. balance' \in [Accounts -> Nat]
      BY <1>3, <1>4, <2>2, <2>3, <2>9, MovedTyped DEF Refunded, CanMove
    <3>3. /\ booked' \in [Orgs -> Int] /\ escrow' \in [OrgId -> Int]
          /\ refunded' \in [OrgId -> Int]
      BY <1>4, <2>2, <2>9 DEF Refunded
    <3>4. QED BY <1>5, <3>1, <3>2, <3>3
  <2>10. QED BY <1>7, <2>5, <2>6, <2>7, <2>8, <2>9
<1>8. QED BY <1>1, <1>2, <1>6, <1>7

\* What a milestone holds and what its organization is accounted for change
\* together, and the engine's balance with them.
LEMMA MilestoneCallKeepsEscrow ==
    ASSUME RegistryInv, TreasuryTypeOK, MilestoneTypeOK, MilestonesInv,
           EscrowMatchesMilestones, EscrowSolvent,
           NEW id \in OrgId, NEW caller, MilestoneCall(id, caller)
    PROVE  EscrowMatchesMilestones' /\ EscrowSolvent'
<1> DEFINE o == registry[id].organization
<1>1. /\ o \in Orgs
      /\ \/ \E contractor \in Payees, amount \in Amounts : Drafted(id, contractor, amount)
         \/ \E m \in DOMAIN milestones[id] :
                \/ Funded(id, m, o) \/ Approved(id, m) \/ Released(id, m)
                \/ Voided(id, m) \/ Refunded(id, m, o)
  BY MilestoneCallCases
<1> HIDE DEF o
<1>2. /\ TreasuryOf[o] \in Accounts /\ MilestoneEngine \in Accounts
      /\ TreasuryOf[o] # MilestoneEngine
  BY <1>1, AccountsAssumption DEF Treasuries
<1>3. balance[MilestoneEngine] \in Nat /\ escrow \in [OrgId -> Int]
  BY <1>2 DEF TreasuryTypeOK, MilestoneTypeOK
<1>4. SumFunction(escrow) \in Int
  BY <1>3, OrgIdFinite, SumInt DEF SumFunction
<1>5. ASSUME NEW contractor \in Payees, NEW amount \in Amounts, Drafted(id, contractor, amount)
      PROVE  EscrowMatchesMilestones' /\ EscrowSolvent'
  <2>1. contractor \in Accounts /\ amount \in Int
    BY AccountsAssumption
  <2>2. /\ milestones' = [milestones EXCEPT ![id] = Append(@,
               [contractor |-> contractor, amount |-> amount, status |-> "Draft"])]
        /\ escrow' = escrow /\ balance' = balance
    BY <1>5 DEF Drafted, MoneyUntouched
  <2>3. \A i \in OrgId : Outstanding(i)' = Outstanding(i)
    BY <2>1, <2>2, OutstandingAfterCreate
  <2>4. QED BY <2>2, <2>3 DEF EscrowMatchesMilestones, EscrowSolvent
<1>6. ASSUME NEW m \in DOMAIN milestones[id], NEW status \in MilestoneStatus,
             NEW delta \in Int, NEW got \in Int, SetStatus(id, m, status),
             Held(milestones'[id][m]) = Held(milestones[id][m]) + delta,
             escrow' = [escrow EXCEPT ![id] = @ + delta],
             balance'[MilestoneEngine] = balance[MilestoneEngine] + got, got >= delta
      PROVE  EscrowMatchesMilestones' /\ EscrowSolvent'
  <2>1. /\ Outstanding(id)' =
               Outstanding(id) - Held(milestones[id][m]) + Held(milestones'[id][m])
        /\ \A i \in OrgId \ {id} : Outstanding(i)' = Outstanding(i)
    BY <1>6, OutstandingAfterStatus
  <2>2. Held(milestones[id][m]) \in Int
    BY HeldTyped DEF MilestoneTypeOK
  <2>3. \A i \in OrgId : escrow[i] \in Int /\ escrow[i] = Outstanding(i)
    BY <1>3 DEF EscrowMatchesMilestones
  <2>4. escrow'[id] = Outstanding(id)'
    BY <1>6, <2>1, <2>2, <2>3, <1>3
  <2>5. \A i \in OrgId \ {id} : escrow'[i] = Outstanding(i)'
    BY <1>6, <2>1, <2>3, <1>3
  <2>6. SumFunction(escrow)' = SumFunction(escrow) + delta
    BY <1>3, <1>6, EscrowTotal
  <2>7. balance'[MilestoneEngine] >= SumFunction(escrow)'
    BY <1>3, <1>4, <1>6, <2>6 DEF EscrowSolvent
  <2>8. QED BY <2>4, <2>5, <2>7 DEF EscrowMatchesMilestones, EscrowSolvent
<1>7. ASSUME NEW m \in DOMAIN milestones[id],
             \/ Funded(id, m, o) \/ Approved(id, m) \/ Released(id, m)
             \/ Voided(id, m) \/ Refunded(id, m, o)
      PROVE  EscrowMatchesMilestones' /\ EscrowSolvent'
  <2> DEFINE record == milestones[id][m]
             new == milestones'[id][m]
             amount == record.amount
  <2>1. record \in MilestoneRecord /\ amount \in Int
    <3>1. record \in MilestoneRecord
      BY DEF MilestoneTypeOK
    <3>2. QED BY <3>1 DEF MilestoneRecord
  <2>2. ASSUME NEW status \in MilestoneStatus, SetStatus(id, m, status)
        PROVE  new.status = status /\ new.amount = amount
    <3>1. new = [record EXCEPT !.status = status]
      BY <2>2, StatusChange
    <3>2. QED BY <2>1, <3>1 DEF MilestoneRecord
  <2>3. record = milestones[id][m] /\ new = milestones'[id][m] /\ amount = record.amount
    OBVIOUS
  <2> HIDE DEF record, new, amount
  <2>4. CASE Funded(id, m, o)
    <3>1. /\ SetStatus(id, m, "Funded") /\ "Funded" \in MilestoneStatus
          /\ record.status = "Draft" /\ amount > 0
          /\ balance' = Moved(balance, TreasuryOf[o], MilestoneEngine, amount)
          /\ escrow' = [escrow EXCEPT ![id] = @ + amount]
      BY <2>3, <2>4 DEF Funded, MilestoneStatus
    <3>2. Held(record) = 0 /\ Held(new) = amount
      BY <2>2, <2>3, <3>1 DEF Held
    <3>3. balance'[MilestoneEngine] = balance[MilestoneEngine] + amount
      BY <1>2, <1>3, <2>1, <3>1 DEF Moved
    <3>4. Held(new) = Held(record) + amount /\ amount >= amount
      BY <2>1, <3>2
    <3>5. QED BY <1>6, <2>1, <2>3, <3>1, <3>3, <3>4
  <2>5. CASE Approved(id, m)
    <3>1. /\ SetStatus(id, m, "Approved") /\ "Approved" \in MilestoneStatus
          /\ record.status = "Funded"
          /\ balance' = balance /\ escrow' = escrow
      BY <2>3, <2>5 DEF Approved, MilestoneStatus, MoneyUntouched
    <3>2. Held(new) = Held(record) + 0
      BY <2>1, <2>2, <2>3, <3>1 DEF Held
    <3>3. /\ balance'[MilestoneEngine] = balance[MilestoneEngine] + 0
          /\ escrow' = [escrow EXCEPT ![id] = @ + 0]
          /\ 0 \in Int /\ 0 >= 0
      BY <1>3, <3>1
    <3>4. QED BY <1>6, <2>3, <3>1, <3>2, <3>3
  <2>6. CASE Released(id, m)
    <3>1. /\ SetStatus(id, m, "Released") /\ "Released" \in MilestoneStatus
          /\ record.status = "Approved"
          /\ balance' = Moved(balance, MilestoneEngine, record.contractor, amount)
          /\ escrow' = [escrow EXCEPT ![id] = @ - amount]
      BY <2>3, <2>6 DEF Released, MilestoneStatus
    <3>2. amount > 0
      BY <2>3, <3>1 DEF MilestonesInv
    <3>3. Held(record) = amount /\ Held(new) = 0
      BY <2>2, <2>3, <3>1 DEF Held
    <3> DEFINE got == (IF record.contractor = MilestoneEngine THEN amount ELSE 0) - amount
    <3>4. balance'[MilestoneEngine] = balance[MilestoneEngine] + got
      BY <1>2, <1>3, <2>1, <3>1 DEF Moved
    <3>5. escrow' = [escrow EXCEPT ![id] = @ + (-amount)]
      BY <1>3, <2>1, <3>1
    <3>6. got \in Int /\ got >= -amount /\ -amount \in Int
      BY <2>1, <3>2
    <3>7. Held(new) = Held(record) + (-amount)
      BY <2>1, <3>3
    <3> HIDE DEF got
    <3>8. QED BY <1>6, <2>3, <3>1, <3>4, <3>5, <3>6, <3>7
  <2>7. CASE Voided(id, m)
    <3>1. /\ SetStatus(id, m, "Cancelled") /\ "Cancelled" \in MilestoneStatus
          /\ record.status = "Draft"
          /\ balance' = balance /\ escrow' = escrow
      BY <2>3, <2>7 DEF Voided, MilestoneStatus, MoneyUntouched
    <3>2. Held(new) = Held(record) + 0
      BY <2>1, <2>2, <2>3, <3>1 DEF Held
    <3>3. /\ balance'[MilestoneEngine] = balance[MilestoneEngine] + 0
          /\ escrow' = [escrow EXCEPT ![id] = @ + 0]
          /\ 0 \in Int /\ 0 >= 0
      BY <1>3, <3>1
    <3>4. QED BY <1>6, <2>3, <3>1, <3>2, <3>3
  <2>8. CASE Refunded(id, m, o)
    <3>1. /\ SetStatus(id, m, "Cancelled") /\ "Cancelled" \in MilestoneStatus
          /\ record.status = "Funded"
          /\ balance' = Moved(balance, MilestoneEngine, TreasuryOf[o], amount)
          /\ escrow' = [escrow EXCEPT ![id] = @ - amount]
      BY <2>3, <2>8 DEF Refunded, MilestoneStatus
    <3>2. Held(record) = amount /\ Held(new) = 0
      BY <2>2, <2>3, <3>1 DEF Held
    <3>3. balance'[MilestoneEngine] = balance[MilestoneEngine] + (-amount)
      BY <1>2, <1>3, <2>1, <3>1 DEF Moved
    <3>4. escrow' = [escrow EXCEPT ![id] = @ + (-amount)]
      BY <1>3, <2>1, <3>1
    <3>5. Held(new) = Held(record) + (-amount) /\ -amount \in Int /\ -amount >= -amount
      BY <2>1, <3>2
    <3>6. QED BY <1>6, <2>3, <3>1, <3>3, <3>4, <3>5
  <2>9. QED BY <1>7, <2>4, <2>5, <2>6, <2>7, <2>8
<1>8. QED BY <1>1, <1>5, <1>7

-----------------------------------------------------------------------------
(***************************************************************************)
(* The factory.                                                            *)
(***************************************************************************)

\* OrgCount counts the organizations deployed, so an id never outgrows OrgId;
\* the treasury of a deployed organization lets both engines spend.
DeploymentInv ==
    /\ orgCount = Cardinality(deployed)
    /\ \A o \in deployed : spenders[o] = {PayrollEngine, MilestoneEngine}

\* create_organization leaves the registry typed: ids never outnumber addresses.
LEMMA CreateTyped ==
    ASSUME OrganizationInv, RegistryInv, FactoryTypeOK, TreasuryTypeOK, DeploymentInv,
           NEW owner \in Users, NEW o \in Orgs, CreateOrganization(owner, o)
    PROVE  /\ OrganizationInv' /\ FactoryTypeOK' /\ TreasuryTypeOK' /\ DeploymentInv'
           /\ balance' = balance /\ booked' = booked
           /\ deployed' = deployed \cup {o}
           /\ DOMAIN registry \subseteq DOMAIN registry'
           /\ \A id \in DOMAIN registry : registry'[id] = registry[id]
           /\ \A id \in DOMAIN registry' \ DOMAIN registry : registry'[id].organization = o
<1> DEFINE new == orgCount + 1
           record == [organization |-> o, treasury |-> TreasuryOf[o], owner |-> owner]
<1>1. /\ orgCount' = new /\ registry' = Put(registry, new, record)
      /\ UNCHANGED <<initialized, wasmHash, cached, balance, booked>>
      /\ spenders' = [spenders EXCEPT ![o] = {PayrollEngine, MilestoneEngine}]
      /\ o \notin deployed /\ deployed' = deployed \cup {o}
  BY DEF CreateOrganization, NextOrgId, Construct, ConstructTreasury
<1>2. OrganizationInv'
  BY ConstructKeepsInv, FactoryAssumption DEF CreateOrganization
<1>3. record \in OrgRecord /\ record.organization = o
  BY AccountsAssumption DEF OrgRecord
<1> HIDE DEF record
<1>4. deployed \subseteq Orgs /\ IsFiniteSet(Orgs) /\ IsFiniteSet(deployed)
  BY FactoryAssumption, FS_Subset DEF OrganizationInv, OrganizationTypeOK
<1>5. /\ Cardinality(deployed') = Cardinality(deployed) + 1
      /\ deployed' \subseteq Orgs
  BY <1>1, <1>4, FS_AddElement
<1>6. Cardinality(deployed') <= Cardinality(Orgs)
  BY <1>4, <1>5, FS_Subset
<1>7. orgCount \in Nat /\ orgCount' = Cardinality(deployed') /\ Cardinality(Orgs) \in Nat
  BY <1>1, <1>5, OrgIdFinite DEF DeploymentInv, RegistryInv
<1>8. orgCount' \in 0 .. Cardinality(Orgs) /\ new \in OrgId
  BY <1>1, <1>6, <1>7 DEF OrgId
<1>9. new \notin DOMAIN registry
  BY <1>7 DEF RegistryInv
<1> HIDE DEF new
<1>10. /\ DOMAIN registry' = DOMAIN registry \cup {new} /\ registry'[new] = record
       /\ \A id \in DOMAIN registry : registry'[id] = registry[id]
       /\ registry' = [id \in DOMAIN registry \cup {new} |-> registry'[id]]
  BY <1>1, <1>9 DEF Put
<1>11. FactoryTypeOK'
  <2>1. DOMAIN registry' \subseteq OrgId
    BY <1>8, <1>10 DEF FactoryTypeOK
  <2>2. \A id \in DOMAIN registry' : registry'[id] \in OrgRecord
    BY <1>3, <1>10 DEF FactoryTypeOK
  <2>3. registry' \in [DOMAIN registry' -> OrgRecord]
    BY <1>10, <2>2
  <2>4. QED BY <1>1, <1>8, <2>1, <2>3 DEF FactoryTypeOK
<1>12. TreasuryTypeOK'
  BY <1>1 DEF TreasuryTypeOK
<1>13. DeploymentInv'
  <2>1. \A p \in deployed' : spenders'[p] = {PayrollEngine, MilestoneEngine}
    BY <1>1, <1>4 DEF DeploymentInv, TreasuryTypeOK
  <2>2. QED BY <1>7, <2>1 DEF DeploymentInv
<1>14. QED BY <1>1, <1>2, <1>3, <1>10, <1>11, <1>12, <1>13

-----------------------------------------------------------------------------
(***************************************************************************)
(* What a payroll run does to the ledger.                                  *)
(***************************************************************************)
LEMMA PayrollMoney ==
    ASSUME RegistryInv, RegistryTypeOK, TreasuryTypeOK,
           NEW id \in OrgId, NEW authorizer, NEW run, NEW batch \in Seq(Nat),
           RunPayroll(authorizer, id, run, batch), NEW a \in Accounts
    PROVE  LET org == registry[id].organization
               result == BatchResult(id, org, authorizer, batch)
           IN  /\ id \in DOMAIN registry /\ org \in Orgs /\ org \in deployed
               /\ DOMAIN payrollResult = OrgId => payrollResult'[id][run] = result
               /\ booked' = [booked EXCEPT ![org] = @ - PaidTotal(result)]
               /\ PaidTotal(result) \in Nat /\ SumFunction(Gains(id, result, a)) \in Nat
               /\ balance'[a] = balance[a] - (IF a = TreasuryOf[org] THEN PaidTotal(result) ELSE 0)
                                           + SumFunction(Gains(id, result, a))
<1> DEFINE org == registry[id].organization
           result == BatchResult(id, org, authorizer, batch)
           paid == PaidAmounts(result)
           gains == Gains(id, result, a)
<1>1. Resolvable("payroll_engine", id)
  BY DEF RunPayroll, CanRunPayroll
<1>2. /\ id \in DOMAIN registry /\ org \in Orgs /\ org \in deployed
      /\ Resolve("payroll_engine", id).organization = org
  BY <1>1, ResolvesDeployed DEF Engine
<1>3. /\ payrollResult' = [payrollResult EXCEPT ![id] = Put(@, run, result)]
      /\ balance' = LedgerAfter(id, org, authorizer, batch)[Len(batch)]
      /\ booked' = [booked EXCEPT ![org] = @ - PaidTotal(result)]
  BY <1>2 DEF RunPayroll
<1>4. DOMAIN payrollResult = OrgId => payrollResult'[id][run] = result
  <2> HIDE DEF result
  <2>1. QED BY <1>3 DEF Put
<1>5. DOMAIN result = 1 .. Len(batch)
  BY ResultItems
<1>6. \A i \in 1 .. Len(batch) : paid[i] \in Nat /\ gains[i] \in Nat
  BY <1>2, GainsTyped
<1>7. DOMAIN paid = 1 .. Len(batch) /\ DOMAIN gains = 1 .. Len(batch)
  BY <1>5 DEF PaidAmounts, Gains
<1>8. /\ PaidTotal(result) = SumFunctionOnSet(paid, 1 .. Len(batch))
      /\ SumFunction(gains) = SumFunctionOnSet(gains, 1 .. Len(batch))
  BY <1>7 DEF PaidTotal, SumFunction, PaidAmounts
<1>9. Len(batch) \in 0 .. Len(batch) /\ IsFiniteSet(1 .. Len(batch))
  BY FS_Interval
<1>10. balance \in [Accounts -> Nat]
  BY DEF TreasuryTypeOK
<1>11. balance'[a] = balance[a]
           - (IF a = TreasuryOf[org] THEN SumFunctionOnSet(paid, 1 .. Len(batch)) ELSE 0)
           + SumFunctionOnSet(gains, 1 .. Len(batch))
  BY <1>2, <1>3, <1>9, <1>10, LedgerMoney
<1> HIDE DEF org, result, paid, gains
<1>12. PaidTotal(result) \in Nat /\ SumFunction(gains) \in Nat
  BY <1>6, <1>8, <1>9, SumNat
<1>13. QED BY <1>2, <1>3, <1>4, <1>8, <1>11, <1>12 DEF org, result, gains

-----------------------------------------------------------------------------
(***************************************************************************)
(* The invariant of the chain.  The escrow equations need the types, the   *)
(* types need the registry to be current and sized by the organizations    *)
(* deployed, and that needs an organization to be deployed once.           *)
(***************************************************************************)
ChainInv ==
    /\ OrganizationInv /\ RegistryInv /\ TypeOK /\ DeploymentInv
    /\ StaffInv /\ MilestonesInv
    /\ EscrowMatchesMilestones /\ EscrowSolvent

\* Nothing is deployed and nothing is in escrow.
LEMMA ChainInvInit == Init => ChainInv
<1> SUFFICES ASSUME Init PROVE ChainInv
  OBVIOUS
<1>1. OrganizationInv /\ RegistryInv
  BY InvInit, RegistryInvInit DEF Init
<1>2. OrganizationTypeOK
  BY <1>1 DEF OrganizationInv
<1>3. TreasuryTypeOK
  BY AccountsAssumption DEF Init, TreasuryInit, TreasuryTypeOK
<1>4. FactoryTypeOK
  <2>1. 0 \in 0 .. Cardinality(Orgs)
    BY OrgIdFinite
  <2>2. DOMAIN registry = {} /\ \A e \in Engine : cached[e] = <<>> /\ DOMAIN cached = Engine
    BY DEF Init, FactoryInit
  <2>3. registry \in [DOMAIN registry -> OrgRecord]
    BY <2>2 DEF Init, FactoryInit
  <2>4. \A e \in Engine : DOMAIN cached[e] \subseteq OrgId
                          /\ cached[e] \in [DOMAIN cached[e] -> OrgRecord]
    <3>1. DOMAIN <<>> = {} /\ <<>> \in [{} -> OrgRecord]
      OBVIOUS
    <3>2. QED BY <2>2, <3>1
  <2>5. DOMAIN cached = Engine
    BY DEF Init, FactoryInit
  <2>6. QED BY <2>1, <2>2, <2>3, <2>4, <2>5 DEF Init, FactoryInit, FactoryTypeOK
<1>5. RegistryTypeOK /\ StaffInv
  BY DEF Init, RegistryInit, RegistryTypeOK, StaffInv
<1>6. PayrollTypeOK
  BY DEF Init, PayrollInit, PayrollTypeOK
<1>7. MilestoneTypeOK
  BY DEF Init, MilestoneInit, MilestoneTypeOK
<1>8. MilestonesInv
  <2>1. \A id \in OrgId : milestones[id] = <<>> /\ DOMAIN milestones[id] = {}
    BY DEF Init, MilestoneInit
  <2>2. \A id \in OrgId : Len(milestones[id]) = 0 /\ MaxMilestones[id] \in Nat
    BY <2>1, MilestoneAssumption
  <2>3. QED BY <2>1, <2>2 DEF MilestonesInv
<1>9. DeploymentInv
  BY FS_EmptySet DEF Init, OrganizationInit, FactoryInit, DeploymentInv
<1>10. EscrowMatchesMilestones
  <2>1. ASSUME NEW id \in OrgId PROVE Outstanding(id) = 0
    <3> DEFINE held == [m \in DOMAIN milestones[id] |-> Held(milestones[id][m])]
    <3>1. DOMAIN milestones[id] = {}
      BY DEF Init, MilestoneInit
    <3>2. Outstanding(id) = SumFunctionOnSet(held, {})
      BY <3>1 DEF Outstanding, SumFunction
    <3>3. QED BY <3>2, SumEmpty
  <2>2. QED BY <2>1 DEF Init, MilestoneInit, EscrowMatchesMilestones
<1>11. EscrowSolvent
  <2>1. \A id \in OrgId : escrow[id] = 0
    BY DEF Init, MilestoneInit
  <2>2. DOMAIN escrow = OrgId
    BY DEF Init, MilestoneInit
  <2>3. SumFunction(escrow) = 0
    BY <2>1, <2>2, OrgIdFinite, SumZero DEF SumFunction
  <2>4. balance[MilestoneEngine] \in Nat
    BY <1>3, AccountsAssumption DEF TreasuryTypeOK
  <2>5. QED BY <2>3, <2>4 DEF EscrowSolvent
<1>12. QED
  BY <1>1, <1>2, <1>3, <1>4, <1>5, <1>6, <1>7, <1>8, <1>9, <1>10, <1>11 DEF ChainInv, TypeOK

\* Escrow is not disturbed by a call that takes nothing from the engine.
LEMMA EscrowUntouched ==
    ASSUME EscrowMatchesMilestones, EscrowSolvent, UNCHANGED milestoneVars,
           TreasuryTypeOK, TreasuryTypeOK', escrow \in [OrgId -> Int],
           balance'[MilestoneEngine] >= balance[MilestoneEngine]
    PROVE  EscrowMatchesMilestones' /\ EscrowSolvent'
<1>1. EscrowMatchesMilestones'
  BY DEF EscrowMatchesMilestones, Outstanding, milestoneVars
<1>2. SumFunction(escrow)' = SumFunction(escrow) /\ SumFunction(escrow) \in Int
  BY OrgIdFinite, SumInt DEF SumFunction, milestoneVars
<1>3. balance[MilestoneEngine] \in Nat /\ balance'[MilestoneEngine] \in Nat
  BY AccountsAssumption DEF TreasuryTypeOK
<1>4. QED BY <1>1, <1>2, <1>3 DEF EscrowSolvent

LEMMA FactoryKeepsChain == ChainInv /\ FactoryStep => ChainInv'
<1> SUFFICES ASSUME ChainInv, FactoryCall, UNCHANGED <<employees, payrollVars, milestoneVars>>
             PROVE  ChainInv'
  BY DEF FactoryStep
<1>1. RegistryInv'
  BY FactoryKeepsInv DEF ChainInv, FactoryStep
<1>2. RegistryTypeOK' /\ StaffInv' /\ PayrollTypeOK' /\ MilestoneTypeOK'
  BY DEF ChainInv, TypeOK, RegistryTypeOK, StaffInv, PayrollTypeOK, MilestoneTypeOK,
         payrollVars, milestoneVars
<1>3. ASSUME OrganizationInv', FactoryTypeOK', TreasuryTypeOK', DeploymentInv',
             balance' = balance, DOMAIN registry \subseteq DOMAIN registry'
      PROVE  ChainInv'
  <2>1. OrganizationTypeOK'
    BY <1>3 DEF OrganizationInv
  <2>2. MilestonesInv'
    BY <1>3 DEF ChainInv, MilestonesInv, milestoneVars
  <2>3. balance'[MilestoneEngine] >= balance[MilestoneEngine]
    BY <1>3, AccountsAssumption DEF TreasuryTypeOK
  <2>4. EscrowMatchesMilestones' /\ EscrowSolvent'
    BY <1>3, <2>3, EscrowUntouched DEF ChainInv, TypeOK, MilestoneTypeOK
  <2>5. QED BY <1>1, <1>2, <1>3, <2>1, <2>2, <2>4 DEF ChainInv, TypeOK
<1>4. ASSUME UNCHANGED <<orgCount, registry, cached, orgVars, treasuryVars>>, FactoryTypeOK'
      PROVE  ChainInv'
  <2>1. OrganizationInv'
    BY <1>4, RolesUntouchedKeepsInv
       DEF ChainInv, OrganizationInv, OrganizationTypeOK, orgVars
  <2>2. TreasuryTypeOK' /\ DeploymentInv'
    BY <1>4 DEF ChainInv, TypeOK, TreasuryTypeOK, DeploymentInv, orgVars, treasuryVars
  <2>3. QED BY <1>3, <1>4, <2>1, <2>2 DEF treasuryVars
<1>5. ASSUME NEW hashes \in [WasmTarget -> Hashes], InitializeFactory(hashes) PROVE ChainInv'
  <2>1. FactoryTypeOK'
    BY <1>5 DEF InitializeFactory, ChainInv, TypeOK, FactoryTypeOK
  <2>2. QED BY <1>4, <1>5, <2>1 DEF InitializeFactory
<1>6. ASSUME NEW e \in Engine, InitializeEngine(e) PROVE ChainInv'
  <2>1. FactoryTypeOK'
    BY <1>6 DEF InitializeEngine, ChainInv, TypeOK, FactoryTypeOK
  <2>2. QED BY <1>4, <1>6, <2>1 DEF InitializeEngine
<1>7. ASSUME NEW target \in WasmTarget, NEW h \in Hashes, UpdateWasmHash(target, h)
      PROVE  ChainInv'
  <2>1. FactoryTypeOK'
    BY <1>7 DEF UpdateWasmHash, ChainInv, TypeOK, FactoryTypeOK
  <2>2. QED BY <1>4, <1>7, <2>1 DEF UpdateWasmHash
<1>8. ASSUME NEW owner \in Users, NEW o \in Orgs, CreateOrganization(owner, o) PROVE ChainInv'
  BY <1>3, <1>8, CreateTyped DEF ChainInv, TypeOK
<1>9. QED BY <1>5, <1>6, <1>7, <1>8 DEF FactoryCall

LEMMA OrganizationKeepsChain == ChainInv /\ OrganizationStep => ChainInv'
<1> SUFFICES ASSUME ChainInv, OrganizationStep PROVE ChainInv'
  OBVIOUS
<1>1. RegistryInv'
  BY OrganizationKeepsInv DEF ChainInv
<1>2. PICK o \in deployed, caller \in Users : MemberCall(o, caller)
  BY DEF OrganizationStep
<1>3. deployed' = deployed
  BY <1>2 DEF MemberCall, GrantRole, RevokeRole, SetEngine, UpdateMetadataHash
<1>4. o \in Orgs
  BY DEF ChainInv, TypeOK, OrganizationTypeOK
<1>5. OrganizationInv'
  BY <1>2, <1>4, MemberCallKeepsInv DEF ChainInv
<1>6. UNCHANGED <<treasuryVars, factoryVars, employees, payrollVars, milestoneVars>>
  BY DEF OrganizationStep
<1>7. FactoryTypeOK' /\ TreasuryTypeOK' /\ RegistryTypeOK' /\ PayrollTypeOK' /\ MilestoneTypeOK'
  BY <1>6 DEF ChainInv, TypeOK, FactoryTypeOK, TreasuryTypeOK, RegistryTypeOK, PayrollTypeOK,
              MilestoneTypeOK, factoryVars, treasuryVars, payrollVars, milestoneVars
<1>8. StaffInv' /\ MilestonesInv' /\ DeploymentInv'
  BY <1>3, <1>6 DEF ChainInv, StaffInv, MilestonesInv, DeploymentInv, factoryVars, treasuryVars,
                    milestoneVars
<1>9. EscrowMatchesMilestones' /\ EscrowSolvent'
  BY <1>6 DEF ChainInv, EscrowMatchesMilestones, EscrowSolvent, Outstanding, treasuryVars,
              milestoneVars
<1>10. QED BY <1>1, <1>5, <1>7, <1>8, <1>9 DEF ChainInv, TypeOK, OrganizationInv

\* Users own neither a treasury nor the engine: what a treasury's own entry
\* points move is never escrow.
LEMMA TreasuryKeepsChain == ChainInv /\ TreasuryStep => ChainInv'
<1> SUFFICES ASSUME ChainInv, TreasuryStep PROVE ChainInv'
  OBVIOUS
<1>1. RegistryInv'
  BY TreasuryKeepsInv DEF ChainInv
<1>2. PICK o \in deployed, caller \in Users : TreasuryCall(o, caller)
  BY DEF TreasuryStep
<1>3. UNCHANGED <<orgVars, factoryVars, employees, payrollVars, milestoneVars>>
  BY DEF TreasuryStep
<1>4. /\ o \in Orgs /\ caller \in Accounts /\ caller # MilestoneEngine
      /\ TreasuryOf[o] # MilestoneEngine /\ TreasuryOf[o] \in Accounts
      /\ MilestoneEngine \in Accounts
  BY AccountsAssumption DEF ChainInv, TypeOK, OrganizationTypeOK, Treasuries
<1>5. OrganizationInv'
  BY <1>3, RolesUntouchedKeepsInv DEF ChainInv, OrganizationInv, OrganizationTypeOK, orgVars
<1>6. FactoryTypeOK' /\ RegistryTypeOK' /\ PayrollTypeOK' /\ MilestoneTypeOK'
  BY <1>3 DEF ChainInv, TypeOK, FactoryTypeOK, RegistryTypeOK, PayrollTypeOK,
              MilestoneTypeOK, factoryVars, payrollVars, milestoneVars
<1>7. ASSUME spenders' = spenders, TreasuryTypeOK',
             balance'[MilestoneEngine] >= balance[MilestoneEngine]
      PROVE  ChainInv'
  <2>1. StaffInv' /\ MilestonesInv' /\ DeploymentInv'
    BY <1>3, <1>7 DEF ChainInv, StaffInv, MilestonesInv, DeploymentInv, factoryVars, orgVars,
                      milestoneVars
  <2>2. EscrowMatchesMilestones' /\ EscrowSolvent'
    BY <1>3, <1>7, EscrowUntouched DEF ChainInv, TypeOK, MilestoneTypeOK
  <2>3. QED BY <1>1, <1>5, <1>6, <1>7, <2>1, <2>2 DEF ChainInv, TypeOK, OrganizationInv
<1>8. balance[MilestoneEngine] \in Nat /\ balance \in [Accounts -> Nat] /\ TreasuryTypeOK
  BY <1>4 DEF ChainInv, TypeOK, TreasuryTypeOK
<1>9. ASSUME NEW amount \in Amounts, Deposit(o, caller, amount) PROVE ChainInv'
  <2>1. amount \in Int /\ amount > 0
    BY <1>9, AccountsAssumption DEF Deposit
  <2>2. TreasuryTypeOK' /\ spenders' = spenders
    BY <1>4, <1>8, <1>9, <2>1, DepositTyped DEF Deposit
  <2>3. balance'[MilestoneEngine] = balance[MilestoneEngine]
    BY <1>4, <1>8, <1>9, <2>1 DEF Deposit, Moved
  <2>4. QED BY <1>7, <1>8, <2>2, <2>3
<1>10. ASSUME NEW to \in Payees \cup {caller}, NEW amount \in Amounts,
              Withdraw(o, caller, to, amount)
       PROVE  ChainInv'
  <2>1. amount \in Int /\ amount > 0 /\ to \in Accounts
    BY <1>4, <1>10, AccountsAssumption DEF Withdraw
  <2>2. TreasuryTypeOK' /\ spenders' = spenders
    BY <1>4, <1>8, <1>10, <2>1, WithdrawTyped DEF Withdraw
  <2>3. balance'[MilestoneEngine] =
            balance[MilestoneEngine] + (IF MilestoneEngine = to THEN amount ELSE 0)
    BY <1>4, <1>8, <1>10, <2>1 DEF Withdraw, Moved
  <2>4. QED BY <1>7, <1>8, <2>1, <2>2, <2>3
<1>11. QED BY <1>2, <1>9, <1>10 DEF TreasuryCall

LEMMA StaffKeepsChain == ChainInv /\ RegistryStep => ChainInv'
<1> SUFFICES ASSUME ChainInv, NEW id \in OrgId, NEW caller \in Users, RegistryCall(id, caller),
                    UNCHANGED <<payrollVars, milestoneVars>>, RegistryInv'
             PROVE  ChainInv'
  BY EmployeesKeepInv DEF ChainInv, RegistryStep
<1>1. FactoryTypeOK' /\ RegistryTypeOK' /\ StaffInv'
  BY RegistryCallTyped DEF ChainInv, TypeOK
<1>2. UNCHANGED <<orgVars, treasuryVars, initialized, orgCount, registry, wasmHash>>
  BY DEF RegistryCall
<1>3. OrganizationInv'
  BY <1>2, RolesUntouchedKeepsInv DEF ChainInv, OrganizationInv, OrganizationTypeOK, orgVars
<1>4. TreasuryTypeOK' /\ PayrollTypeOK' /\ MilestoneTypeOK'
  BY <1>2 DEF ChainInv, TypeOK, TreasuryTypeOK, PayrollTypeOK,
              MilestoneTypeOK, treasuryVars, payrollVars, milestoneVars
<1>5. MilestonesInv' /\ DeploymentInv'
  BY <1>2 DEF ChainInv, MilestonesInv, DeploymentInv, treasuryVars, orgVars, milestoneVars
<1>6. EscrowMatchesMilestones' /\ EscrowSolvent'
  BY <1>2 DEF ChainInv, EscrowMatchesMilestones, EscrowSolvent, Outstanding, treasuryVars,
              milestoneVars
<1>7. QED BY <1>1, <1>3, <1>4, <1>5, <1>6 DEF ChainInv, TypeOK, OrganizationInv

LEMMA PayrollKeepsChain == ChainInv /\ PayrollStep => ChainInv'
<1> SUFFICES ASSUME ChainInv, NEW id \in OrgId, NEW caller \in Users,
                    PayrollCall(id, caller), UNCHANGED milestoneVars, RegistryInv'
             PROVE  ChainInv'
  BY PayrollKeepsInv DEF ChainInv, PayrollStep
<1>1. PICK run \in RunIds, batch \in Batches : RunPayroll(caller, id, run, batch)
  BY DEF PayrollCall
<1>2. batch \in Seq(Nat)
  BY PayrollAssumption
<1>3. FactoryTypeOK' /\ RegistryTypeOK' /\ TreasuryTypeOK' /\ PayrollTypeOK'
  BY <1>1, <1>2, RunPayrollTyped DEF ChainInv, TypeOK
<1>4. UNCHANGED <<spenders, employees, orgVars, initialized, orgCount, registry, wasmHash>>
  BY <1>1 DEF RunPayroll
<1>5. OrganizationInv'
  BY <1>4, RolesUntouchedKeepsInv DEF ChainInv, OrganizationInv, OrganizationTypeOK, orgVars
<1>6. StaffInv' /\ MilestonesInv' /\ DeploymentInv' /\ MilestoneTypeOK'
  BY <1>4 DEF ChainInv, TypeOK, StaffInv, MilestonesInv, DeploymentInv, MilestoneTypeOK, orgVars,
              milestoneVars
<1>7. balance'[MilestoneEngine] >= balance[MilestoneEngine]
  <2> DEFINE org == registry[id].organization
             result == BatchResult(id, org, caller, batch)
             got == SumFunction(Gains(id, result, MilestoneEngine))
  <2>1. MilestoneEngine \in Accounts
    BY AccountsAssumption
  <2>2. /\ org \in Orgs /\ got \in Nat
        /\ balance'[MilestoneEngine] = balance[MilestoneEngine]
              - (IF MilestoneEngine = TreasuryOf[org] THEN PaidTotal(result) ELSE 0) + got
    BY <1>1, <1>2, <2>1, PayrollMoney DEF ChainInv, TypeOK
  <2> HIDE DEF org, result, got
  <2>3. MilestoneEngine # TreasuryOf[org]
    BY <2>2, AccountsAssumption DEF Treasuries
  <2>4. balance[MilestoneEngine] \in Nat
    BY <2>1 DEF ChainInv, TypeOK, TreasuryTypeOK
  <2>5. QED BY <2>2, <2>3, <2>4
<1>8. EscrowMatchesMilestones' /\ EscrowSolvent'
  BY <1>3, <1>7, EscrowUntouched DEF ChainInv, TypeOK, MilestoneTypeOK
<1>9. QED BY <1>3, <1>5, <1>6, <1>8 DEF ChainInv, TypeOK, OrganizationInv

LEMMA MilestonesKeepChain == ChainInv /\ MilestoneStep => ChainInv'
<1> SUFFICES ASSUME ChainInv, NEW id \in OrgId, NEW caller \in Users,
                    MilestoneCall(id, caller), UNCHANGED <<employees, payrollVars>>, RegistryInv'
             PROVE  ChainInv'
  BY MilestonesKeepInv DEF ChainInv, MilestoneStep
<1>1. FactoryTypeOK' /\ TreasuryTypeOK' /\ MilestoneTypeOK' /\ MilestonesInv'
  BY MilestoneCallTyped DEF ChainInv, TypeOK
<1>2. EscrowMatchesMilestones' /\ EscrowSolvent'
  BY MilestoneCallKeepsEscrow DEF ChainInv, TypeOK
<1>3. UNCHANGED <<spenders, orgVars, initialized, orgCount, registry, wasmHash>>
  BY DEF MilestoneCall
<1>4. OrganizationInv'
  BY <1>3, RolesUntouchedKeepsInv DEF ChainInv, OrganizationInv, OrganizationTypeOK, orgVars
<1>5. RegistryTypeOK' /\ StaffInv' /\ DeploymentInv' /\ PayrollTypeOK'
  BY <1>3 DEF ChainInv, TypeOK, RegistryTypeOK, StaffInv, DeploymentInv, PayrollTypeOK, orgVars,
              payrollVars
<1>6. QED BY <1>1, <1>2, <1>4, <1>5 DEF ChainInv, TypeOK, OrganizationInv

\* A step of nobody changes nothing.
LEMMA ChainUntouched == ChainInv /\ UNCHANGED vars => ChainInv'
<1> SUFFICES ASSUME ChainInv, UNCHANGED vars PROVE ChainInv'
  OBVIOUS
<1>1. OrganizationInv'
  BY RolesUntouchedKeepsInv
     DEF vars, ChainInv, OrganizationInv, OrganizationTypeOK, orgVars
<1>2. RegistryInv'
  BY RegistryUntouched DEF ChainInv, vars, orgVars, factoryVars
<1>3. FactoryTypeOK' /\ TreasuryTypeOK' /\ RegistryTypeOK' /\ PayrollTypeOK' /\ MilestoneTypeOK'
  BY DEF vars, ChainInv, TypeOK, FactoryTypeOK, TreasuryTypeOK, RegistryTypeOK, PayrollTypeOK,
         MilestoneTypeOK, factoryVars, treasuryVars, payrollVars, milestoneVars
<1>4. StaffInv' /\ MilestonesInv' /\ DeploymentInv'
  BY DEF vars, ChainInv, StaffInv, MilestonesInv, DeploymentInv, factoryVars, treasuryVars,
         milestoneVars, orgVars
<1>5. EscrowMatchesMilestones' /\ EscrowSolvent'
  BY DEF vars, ChainInv, EscrowMatchesMilestones, EscrowSolvent, Outstanding, treasuryVars,
         milestoneVars
<1>6. QED BY <1>1, <1>2, <1>3, <1>4, <1>5 DEF ChainInv, TypeOK, OrganizationInv

LEMMA ChainInvStep == ChainInv /\ [Next]_vars => ChainInv'
BY FactoryKeepsChain, OrganizationKeepsChain, TreasuryKeepsChain, StaffKeepsChain,
   PayrollKeepsChain, MilestonesKeepChain, ChainUntouched DEF Next

\* Types, registry and escrow of the six contracts are right in every reachable
\* state: the invariant the services build on.
THEOREM ChainInvariant == Spec => []ChainInv
<1>1. QED BY ChainInvInit, ChainInvStep, PTL DEF Spec

\* The types of all six contracts: among them that no balance goes negative,
\* and that the ids handed out never outnumber the organizations.
THEOREM ContractsTypeCorrect == Spec => []TypeOK
<1>1. ChainInv => TypeOK
  BY DEF ChainInv
<1>2. QED BY <1>1, ChainInvariant, PTL

\* The EscrowBalance counter kept by hand in fund, release and cancel equals,
\* for every organization, what its milestones hold.
THEOREM EscrowAccounted == Spec => []EscrowMatchesMilestones
<1>1. ChainInv => EscrowMatchesMilestones
  BY DEF ChainInv
<1>2. QED BY <1>1, ChainInvariant, PTL

\* The one balance of milestone_engine always covers the escrow of all
\* organizations together.
THEOREM EscrowAlwaysCovered == Spec => []EscrowSolvent
<1>1. ChainInv => EscrowSolvent
  BY DEF ChainInv
<1>2. QED BY <1>1, ChainInvariant, PTL

\* A deployed organization has an Owner on the shared chain too.
THEOREM ChainNeverOwnerless == Spec => []NeverOwnerless
<1>1. ChainInv => NeverOwnerless
  <2> SUFFICES ASSUME ChainInv, NEW o \in deployed PROVE Owners(o) # {}
    BY DEF NeverOwnerless
  <2>1. Cardinality(Owners(o)) >= 1
    BY DEF ChainInv, OrganizationInv, OwnerCountExact
  <2>2. QED BY <2>1, FS_EmptySet
<1>2. QED BY <1>1, ChainInvariant, PTL

-----------------------------------------------------------------------------
(***************************************************************************)
(* The ledger an observer rebuilds from the events.                        *)
(***************************************************************************)

\* Nobody is paid at the address of a treasury.  The contracts do not refuse
\* it: a withdrawal, a salary or a release to a treasury books an outflow for
\* money that stays, or an inflow no event reports.
PayeesOutside == Payees \cap Treasuries = {}

MoneyInv ==
    /\ BalanceFromEvents
    /\ \A o \in Orgs \ deployed :
           balance[TreasuryOf[o]] = Endowment[TreasuryOf[o]] /\ booked[o] = 0
    /\ \A id \in OrgId \ DOMAIN registry : refunded[id] = 0

\* Everything a treasury gains or loses is booked, or refunded to the id its
\* organization is registered under.
LEMMA BookedKeepsMoney ==
    ASSUME ChainInv, MoneyInv, UNCHANGED <<deployed, registry>>, TreasuryTypeOK', MilestoneTypeOK',
           \A o \in Orgs \ deployed :
               balance'[TreasuryOf[o]] = balance[TreasuryOf[o]] /\ booked'[o] = booked[o],
           \A id \in OrgId \ DOMAIN registry : refunded'[id] = refunded[id],
           \A id \in DOMAIN registry :
               LET o == registry[id].organization
               IN  balance'[TreasuryOf[o]] - balance[TreasuryOf[o]] =
                       (booked'[o] - booked[o]) + (refunded'[id] - refunded[id])
    PROVE  MoneyInv'
<1>1. ASSUME NEW id \in DOMAIN registry
      PROVE  LET o == registry[id].organization
             IN  balance'[TreasuryOf[o]] = Endowment[TreasuryOf[o]] + booked'[o] + refunded'[id]
  <2> DEFINE o == registry[id].organization
  <2>1. o \in Orgs /\ id \in OrgId /\ TreasuryOf[o] \in Accounts
    BY AccountsAssumption DEF ChainInv, RegistryInv, TypeOK, FactoryTypeOK
  <2>2. balance'[TreasuryOf[o]] - balance[TreasuryOf[o]] =
            (booked'[o] - booked[o]) + (refunded'[id] - refunded[id])
    OBVIOUS
  <2>3. balance[TreasuryOf[o]] = Endowment[TreasuryOf[o]] + booked[o] + refunded[id]
    BY DEF MoneyInv, BalanceFromEvents
  <2> HIDE DEF o
  <2>4. /\ balance[TreasuryOf[o]] \in Int /\ balance'[TreasuryOf[o]] \in Int
        /\ booked[o] \in Int /\ booked'[o] \in Int
        /\ Endowment[TreasuryOf[o]] \in Int
        /\ refunded[id] \in Int /\ refunded'[id] \in Int
    BY <2>1, AccountsAssumption DEF ChainInv, TypeOK, TreasuryTypeOK, MilestoneTypeOK
  <2>5. balance'[TreasuryOf[o]] = Endowment[TreasuryOf[o]] + booked'[o] + refunded'[id]
    <3>1. \A e, b, c, r, s \in Int : \A x, y \in Int :
              x = e + b + r /\ y - x = (c - b) + (s - r) => y = e + c + s
      OBVIOUS
    <3> DEFINE x == balance[TreasuryOf[o]]
               y == balance'[TreasuryOf[o]]
               e == Endowment[TreasuryOf[o]]
               b == booked[o]
               c == booked'[o]
               r == refunded[id]
               s == refunded'[id]
    <3>2. /\ x = e + b + r /\ y - x = (c - b) + (s - r)
          /\ e \in Int /\ b \in Int /\ c \in Int /\ r \in Int /\ s \in Int
          /\ x \in Int /\ y \in Int
      BY <2>2, <2>3, <2>4
    <3>3. SUFFICES y = e + c + s
      OBVIOUS
    <3> HIDE DEF x, y, e, b, c, r, s
    <3>4. QED BY <3>1, <3>2
  <2>6. QED BY <2>5 DEF o
<1>2. BalanceFromEvents'
  BY <1>1 DEF BalanceFromEvents
<1>3. QED BY <1>2 DEF MoneyInv

\* A new organization starts with what its treasury was endowed with.
LEMMA FactoryKeepsMoney == ChainInv /\ MoneyInv /\ FactoryStep => MoneyInv'
<1> SUFFICES ASSUME ChainInv, MoneyInv, FactoryCall, milestoneVars' = milestoneVars
             PROVE  MoneyInv'
  BY DEF FactoryStep
<1>1. CASE \E owner \in Users, o \in Orgs : CreateOrganization(owner, o)
  <2>1. PICK owner \in Users, o \in Orgs : CreateOrganization(owner, o)
    BY <1>1
  <2>2. /\ balance' = balance /\ booked' = booked /\ deployed' = deployed \cup {o}
        /\ DOMAIN registry \subseteq DOMAIN registry'
        /\ \A id \in DOMAIN registry : registry'[id] = registry[id]
        /\ \A id \in DOMAIN registry' \ DOMAIN registry : registry'[id].organization = o
        /\ FactoryTypeOK'
    BY <2>1, CreateTyped DEF ChainInv, TypeOK
  <2>3. o \notin deployed
    BY <2>1 DEF CreateOrganization, Construct
  <2>4. refunded' = refunded
    BY DEF milestoneVars
  <2>5. ASSUME NEW id \in DOMAIN registry' \ DOMAIN registry
        PROVE  /\ refunded[id] = 0 /\ booked[o] = 0
               /\ balance[TreasuryOf[o]] = Endowment[TreasuryOf[o]]
               /\ Endowment[TreasuryOf[o]] \in Int
    <3>1. id \in OrgId
      BY <2>2 DEF FactoryTypeOK
    <3>2. QED BY <2>3, <3>1, AccountsAssumption DEF MoneyInv
  <2>6. BalanceFromEvents'
    <3> SUFFICES ASSUME NEW id \in DOMAIN registry'
                 PROVE  LET p == registry'[id].organization
                        IN  balance'[TreasuryOf[p]] =
                                Endowment[TreasuryOf[p]] + booked'[p] + refunded'[id]
      BY DEF BalanceFromEvents
    <3>1. CASE id \in DOMAIN registry
      BY <2>2, <2>4, <3>1 DEF MoneyInv, BalanceFromEvents
    <3>2. CASE id \notin DOMAIN registry
      <4>1. registry'[id].organization = o
        BY <2>2, <3>2
      <4>2. balance[TreasuryOf[o]] = Endowment[TreasuryOf[o]] + booked[o] + refunded[id]
        BY <2>5, <3>2
      <4>3. QED BY <2>2, <2>4, <4>1, <4>2
    <3>3. QED BY <3>1, <3>2
  <2>7. QED BY <2>2, <2>4, <2>6 DEF MoneyInv
<1>2. CASE UNCHANGED <<registry, orgVars, treasuryVars>>
  BY <1>2 DEF MoneyInv, BalanceFromEvents, orgVars, treasuryVars, milestoneVars
<1>3. QED
  BY <1>1, <1>2 DEF FactoryCall, InitializeFactory, InitializeEngine, UpdateWasmHash

\* An organization that is registered is the only one with its treasury.
LEMMA RegisteredTreasury ==
    ASSUME ChainInv, NEW id \in DOMAIN registry
    PROVE  /\ id \in OrgId /\ registry[id].organization \in Orgs
           /\ registry[id].organization \in deployed
           /\ TreasuryOf[registry[id].organization] \in Accounts
           /\ TreasuryOf[registry[id].organization] \in Treasuries
           /\ \A o \in Orgs \ {registry[id].organization} :
                  TreasuryOf[o] # TreasuryOf[registry[id].organization]
           /\ \A j \in DOMAIN registry \ {id} :
                  registry[j].organization # registry[id].organization
BY AccountsAssumption DEF ChainInv, RegistryInv, TypeOK, FactoryTypeOK, Treasuries

\* deposit and withdraw book what they move.
LEMMA TreasuryKeepsMoney == PayeesOutside /\ ChainInv /\ MoneyInv /\ TreasuryStep => MoneyInv'
<1> SUFFICES ASSUME PayeesOutside, ChainInv, MoneyInv, TreasuryStep PROVE MoneyInv'
  OBVIOUS
<1>1. PICK o \in deployed, caller \in Users : TreasuryCall(o, caller)
  BY DEF TreasuryStep
<1>2. UNCHANGED <<orgVars, factoryVars, milestoneVars>> /\ ChainInv'
  BY TreasuryKeepsChain DEF TreasuryStep
<1>3. o \in Orgs /\ caller \in Accounts \ Treasuries /\ TreasuryOf[o] \in Accounts
  BY AccountsAssumption DEF ChainInv, TypeOK, OrganizationTypeOK
<1>4. balance \in [Accounts -> Nat] /\ booked \in [Orgs -> Int] /\ refunded \in [OrgId -> Int]
  BY DEF ChainInv, TypeOK, TreasuryTypeOK, MilestoneTypeOK
<1>5. ASSUME NEW delta \in Int,
             booked' = [booked EXCEPT ![o] = @ + delta],
             balance'[TreasuryOf[o]] = balance[TreasuryOf[o]] + delta,
             \A p \in Orgs \ {o} : balance'[TreasuryOf[p]] = balance[TreasuryOf[p]]
      PROVE  MoneyInv'
  <2>1. UNCHANGED <<deployed, registry>> /\ TreasuryTypeOK' /\ MilestoneTypeOK'
        /\ refunded' = refunded
    BY <1>2 DEF orgVars, factoryVars, milestoneVars, ChainInv, TypeOK
  <2>2. \A p \in Orgs \ deployed :
            balance'[TreasuryOf[p]] = balance[TreasuryOf[p]] /\ booked'[p] = booked[p]
    BY <1>4, <1>5
  <2>3. ASSUME NEW id \in DOMAIN registry
        PROVE  LET p == registry[id].organization
               IN  balance'[TreasuryOf[p]] - balance[TreasuryOf[p]] =
                       (booked'[p] - booked[p]) + (refunded'[id] - refunded[id])
    <3> DEFINE p == registry[id].organization
    <3>1. p \in Orgs /\ TreasuryOf[p] \in Accounts /\ id \in OrgId
      BY RegisteredTreasury
    <3> HIDE DEF p
    <3>2. /\ balance[TreasuryOf[p]] \in Int /\ booked[p] \in Int
          /\ refunded'[id] - refunded[id] = 0
      BY <1>4, <2>1, <3>1
    <3>3. CASE p = o
      <4>1. /\ balance'[TreasuryOf[p]] = balance[TreasuryOf[p]] + delta
            /\ booked'[p] = booked[p] + delta
        BY <1>4, <1>5, <3>1, <3>3
      <4>2. QED BY <3>2, <4>1 DEF p
    <3>4. CASE p # o
      <4>1. balance'[TreasuryOf[p]] = balance[TreasuryOf[p]] /\ booked'[p] = booked[p]
        BY <1>4, <1>5, <3>1, <3>4
      <4>2. QED BY <3>2, <4>1 DEF p
    <3>5. QED BY <3>3, <3>4
  <2>4. QED BY <2>1, <2>2, <2>3, BookedKeepsMoney
<1>6. \A p \in Orgs : TreasuryOf[p] \in Accounts /\ (p # o => TreasuryOf[p] # TreasuryOf[o])
  BY <1>3, AccountsAssumption
<1>7. ASSUME NEW amount \in Amounts, Deposit(o, caller, amount) PROVE MoneyInv'
  <2>1. amount \in Int
    BY AccountsAssumption
  <2>2. \A p \in Orgs : TreasuryOf[p] # caller
    BY <1>3 DEF Treasuries
  <2>3. /\ balance'[TreasuryOf[o]] = balance[TreasuryOf[o]] + amount
        /\ \A p \in Orgs \ {o} : balance'[TreasuryOf[p]] = balance[TreasuryOf[p]]
        /\ booked' = [booked EXCEPT ![o] = @ + amount]
    BY <1>3, <1>4, <1>6, <1>7, <2>1, <2>2 DEF Deposit, Moved
  <2>4. QED BY <1>5, <2>1, <2>3
<1>8. ASSUME NEW to \in Payees \cup {caller}, NEW amount \in Amounts,
             Withdraw(o, caller, to, amount)
      PROVE  MoneyInv'
  <2>1. amount \in Int /\ -amount \in Int
    BY AccountsAssumption
  <2>2. \A p \in Orgs : TreasuryOf[p] # to
    BY <1>3 DEF Treasuries, PayeesOutside
  <2>3. /\ balance'[TreasuryOf[o]] = balance[TreasuryOf[o]] - amount
        /\ \A p \in Orgs \ {o} : balance'[TreasuryOf[p]] = balance[TreasuryOf[p]]
        /\ booked' = [booked EXCEPT ![o] = @ - amount]
    BY <1>3, <1>4, <1>6, <1>8, <2>1, <2>2 DEF Withdraw, Moved
  <2>4. balance[TreasuryOf[o]] \in Int /\ booked[o] \in Int
    BY <1>3, <1>4
  <2>5. /\ balance'[TreasuryOf[o]] = balance[TreasuryOf[o]] + (-amount)
        /\ booked' = [booked EXCEPT ![o] = @ + (-amount)]
    BY <2>1, <2>3, <2>4
  <2>6. QED BY <1>5, <2>1, <2>3, <2>5
<1>9. QED BY <1>1, <1>7, <1>8 DEF TreasuryCall

\* A batch pays no treasury, so what the paying one loses is what it booked.
LEMMA PayrollKeepsMoney == PayeesOutside /\ ChainInv /\ MoneyInv /\ PayrollStep => MoneyInv'
<1> SUFFICES ASSUME PayeesOutside, ChainInv, MoneyInv, PayrollStep,
                    NEW id \in OrgId, NEW caller \in Users,
                    NEW run \in RunIds, NEW batch \in Batches, RunPayroll(caller, id, run, batch)
             PROVE  MoneyInv'
  BY DEF PayrollStep, PayrollCall
<1> DEFINE org == registry[id].organization
           result == BatchResult(id, org, caller, batch)
<1>1. batch \in Seq(Nat) /\ MilestoneEngine \in Accounts
  BY PayrollAssumption, AccountsAssumption
<1>2. /\ id \in DOMAIN registry /\ org \in Orgs
      /\ booked' = [booked EXCEPT ![org] = @ - PaidTotal(result)]
      /\ PaidTotal(result) \in Nat
  BY <1>1, PayrollMoney DEF ChainInv, TypeOK
<1>3. ASSUME NEW p \in Orgs
      PROVE  balance'[TreasuryOf[p]] =
                 balance[TreasuryOf[p]] - (IF p = org THEN PaidTotal(result) ELSE 0)
  <2> DEFINE gains == Gains(id, result, TreasuryOf[p])
  <2>1. TreasuryOf[p] \in Accounts \cap Treasuries
    BY AccountsAssumption DEF Treasuries
  <2>2. balance'[TreasuryOf[p]] = balance[TreasuryOf[p]]
            - (IF TreasuryOf[p] = TreasuryOf[org] THEN PaidTotal(result) ELSE 0)
            + SumFunction(gains)
    BY <1>1, <2>1, PayrollMoney DEF ChainInv, TypeOK
  <2>3. DOMAIN gains = 1 .. Len(batch)
    BY <1>1, ResultItems DEF Gains
  <2>4. ASSUME NEW i \in 1 .. Len(batch) PROVE gains[i] = 0
    <3> DEFINE ledger == LedgerAfter(id, org, caller, batch)
    <3>1. /\ DOMAIN result = 1 .. Len(batch) /\ result[i].employee = batch[i]
          /\ result[i].outcome = PayEmployee(ledger[i-1], id, org, caller, batch[i])
      BY <1>1, ResultItems
    <3>2. result[i].outcome = "paid" => batch[i] \in DOMAIN employees[id]
      BY <3>1, PaidItem DEF ChainInv, TypeOK
    <3>3. result[i].outcome = "paid" => employees[id][batch[i]].wallet # TreasuryOf[p]
      BY <2>1, <3>2 DEF ChainInv, StaffInv, PayeesOutside
    <3> HIDE DEF result, ledger
    <3>4. QED BY <3>1, <3>3 DEF Gains
  <2>5. SumFunction(gains) = 0
    <3>1. IsFiniteSet(1 .. Len(batch))
      BY <1>1, FS_Interval
    <3> HIDE DEF gains
    <3>2. QED BY <2>3, <2>4, <3>1, SumZero DEF SumFunction
  <2>6. balance[TreasuryOf[p]] \in Nat
    BY <2>1 DEF ChainInv, TypeOK, TreasuryTypeOK
  <2>7. TreasuryOf[p] = TreasuryOf[org] <=> p = org
    BY <1>2, AccountsAssumption
  <2> HIDE DEF gains, result, org
  <2>8. QED BY <1>2, <2>2, <2>5, <2>6, <2>7
<1>4. ChainInv' /\ refunded' = refunded /\ UNCHANGED <<deployed, registry>>
  BY PayrollKeepsChain DEF PayrollStep, RunPayroll, orgVars, milestoneVars
<1> HIDE DEF org, result
<1>5. booked \in [Orgs -> Int] /\ booked'[org] = booked[org] - PaidTotal(result)
      /\ \A p \in Orgs \ {org} : booked'[p] = booked[p]
  BY <1>2 DEF ChainInv, TypeOK, TreasuryTypeOK
<1>6. \A p \in Orgs \ deployed :
          balance'[TreasuryOf[p]] = balance[TreasuryOf[p]] /\ booked'[p] = booked[p]
  <2>1. org \in deployed
    BY <1>2, RegisteredTreasury DEF org
  <2>2. \A p \in Orgs : balance[TreasuryOf[p]] \in Nat
    BY AccountsAssumption DEF ChainInv, TypeOK, TreasuryTypeOK
  <2>3. QED BY <1>3, <1>5, <2>1, <2>2
<1>7. ASSUME NEW j \in DOMAIN registry
      PROVE  LET p == registry[j].organization
             IN  balance'[TreasuryOf[p]] - balance[TreasuryOf[p]] =
                     (booked'[p] - booked[p]) + (refunded'[j] - refunded[j])
  <2> DEFINE p == registry[j].organization
  <2>1. p \in Orgs /\ j \in OrgId /\ TreasuryOf[p] \in Accounts
    BY RegisteredTreasury
  <2> HIDE DEF p
  <2>2. balance[TreasuryOf[p]] \in Int /\ booked[p] \in Int /\ refunded'[j] - refunded[j] = 0
    BY <1>4, <1>5, <2>1 DEF ChainInv, TypeOK, TreasuryTypeOK, MilestoneTypeOK
  <2>3. CASE p = org
    BY <1>2, <1>3, <1>5, <2>1, <2>2, <2>3 DEF p
  <2>4. CASE p # org
    BY <1>3, <1>5, <2>1, <2>2, <2>4 DEF p
  <2>5. QED BY <2>3, <2>4
<1>8. QED BY <1>4, <1>6, <1>7, BookedKeepsMoney DEF ChainInv, TypeOK

\* fund books what it takes, and refunded counts what cancel gives back.
LEMMA MilestonesKeepMoney == PayeesOutside /\ ChainInv /\ MoneyInv /\ MilestoneStep => MoneyInv'
<1> SUFFICES ASSUME PayeesOutside, ChainInv, MoneyInv, MilestoneStep,
                    NEW id \in OrgId, NEW caller \in Users, MilestoneCall(id, caller)
             PROVE  MoneyInv'
  BY DEF MilestoneStep
<1> DEFINE o == registry[id].organization
<1>1. /\ id \in DOMAIN registry
      /\ UNCHANGED <<orgVars, registry>>
      /\ \/ \E contractor \in Payees, amount \in Amounts : Drafted(id, contractor, amount)
         \/ \E m \in DOMAIN milestones[id] :
                \/ Funded(id, m, o) \/ Approved(id, m) \/ Released(id, m)
                \/ Voided(id, m) \/ Refunded(id, m, o)
  BY MilestoneCallCases DEF ChainInv, TypeOK
<1>2. ChainInv' /\ UNCHANGED <<deployed, registry>>
  BY <1>1, MilestonesKeepChain DEF orgVars
<1>3. /\ o \in Orgs /\ o \in deployed
      /\ \A p \in Orgs : /\ TreasuryOf[p] \in Accounts /\ TreasuryOf[p] # MilestoneEngine
                         /\ p # o => TreasuryOf[p] # TreasuryOf[o]
      /\ \A j \in DOMAIN registry \ {id} : registry[j].organization # o
  BY <1>1, RegisteredTreasury, AccountsAssumption DEF Treasuries
<1>4. /\ balance \in [Accounts -> Nat] /\ booked \in [Orgs -> Int]
      /\ refunded \in [OrgId -> Int]
  BY DEF ChainInv, TypeOK, TreasuryTypeOK, MilestoneTypeOK
<1>5. o = registry[id].organization
  OBVIOUS
<1> HIDE DEF o
<1>6. ASSUME NEW flow \in Int, NEW back \in Int,
             booked' = [booked EXCEPT ![o] = @ + flow],
             refunded' = [refunded EXCEPT ![id] = @ + back],
             \A p \in Orgs : balance'[TreasuryOf[p]] =
                 balance[TreasuryOf[p]] + (IF p = o THEN flow + back ELSE 0)
      PROVE  MoneyInv'
  <2>1. \A p \in Orgs \ deployed :
            balance'[TreasuryOf[p]] = balance[TreasuryOf[p]] /\ booked'[p] = booked[p]
    BY <1>3, <1>4, <1>6
  <2>2. \A j \in OrgId \ DOMAIN registry : refunded'[j] = refunded[j]
    BY <1>1, <1>4, <1>6
  <2>3. ASSUME NEW j \in DOMAIN registry
        PROVE  LET p == registry[j].organization
               IN  balance'[TreasuryOf[p]] - balance[TreasuryOf[p]] =
                       (booked'[p] - booked[p]) + (refunded'[j] - refunded[j])
    <3> DEFINE p == registry[j].organization
    <3>1. p \in Orgs /\ j \in OrgId /\ TreasuryOf[p] \in Accounts /\ (j = id <=> p = o)
      BY <1>3, <1>5, RegisteredTreasury
    <3> HIDE DEF p
    <3>2. balance[TreasuryOf[p]] \in Int /\ booked[p] \in Int /\ refunded[j] \in Int
      BY <1>4, <3>1
    <3>3. CASE p = o
      <4>1. booked'[p] = booked[p] + flow /\ refunded'[j] = refunded[j] + back
            /\ balance'[TreasuryOf[p]] = balance[TreasuryOf[p]] + (flow + back)
        BY <1>4, <1>6, <3>1, <3>3
      <4>2. QED BY <3>2, <4>1 DEF p
    <3>4. CASE p # o
      <4>1. booked'[p] = booked[p] /\ refunded'[j] = refunded[j]
            /\ balance'[TreasuryOf[p]] = balance[TreasuryOf[p]]
        BY <1>4, <1>6, <3>1, <3>2, <3>4
      <4>2. QED BY <3>2, <4>1 DEF p
    <3>5. QED BY <3>3, <3>4
  <2>4. QED BY <1>2, <2>1, <2>2, <2>3, BookedKeepsMoney DEF ChainInv, TypeOK
<1>7. CASE UNCHANGED <<refunded, balance, booked>>
  BY <1>2, <1>7 DEF MoneyInv, BalanceFromEvents
<1>8. ASSUME NEW m \in DOMAIN milestones[id],
             Funded(id, m, o) \/ Released(id, m) \/ Refunded(id, m, o)
      PROVE  MoneyInv'
  <2> DEFINE record == milestones[id][m]
             amount == record.amount
  <2>1. record \in MilestoneRecord /\ record.contractor \in Payees
    BY DEF ChainInv, TypeOK, MilestoneTypeOK, MilestonesInv
  <2>2. amount \in Int /\ \A p \in Orgs : TreasuryOf[p] # record.contractor
    BY <2>1 DEF MilestoneRecord, PayeesOutside, Treasuries
  <2>3. record = milestones[id][m] /\ amount = record.amount
    OBVIOUS
  <2> HIDE DEF record, amount
  <2>4. \A p \in Orgs : balance[TreasuryOf[p]] \in Int
    BY <1>3, <1>4
  <2>5. booked[o] \in Int /\ refunded[id] \in Int
    BY <1>3, <1>4
  <2>6. CASE Funded(id, m, o)
    <3>1. /\ balance' = Moved(balance, TreasuryOf[o], MilestoneEngine, amount)
          /\ booked' = [booked EXCEPT ![o] = @ - amount] /\ refunded' = refunded
      BY <2>3, <2>6 DEF Funded
    <3>2. \A p \in Orgs : balance'[TreasuryOf[p]] =
              balance[TreasuryOf[p]] + (IF p = o THEN -amount + 0 ELSE 0)
      BY <1>3, <2>2, <2>4, <3>1 DEF Moved
    <3>3. /\ booked' = [booked EXCEPT ![o] = @ + (-amount)]
          /\ refunded' = [refunded EXCEPT ![id] = @ + 0]
          /\ -amount \in Int /\ 0 \in Int
      <4>1. booked[o] - amount = booked[o] + (-amount) /\ -amount \in Int
        BY <2>2, <2>5
      <4>2. refunded' = [refunded EXCEPT ![id] = @ + 0]
        BY <1>4, <2>5, <3>1
      <4>3. booked' = [booked EXCEPT ![o] = @ + (-amount)]
        BY <3>1, <4>1, Zenon
      <4>4. QED BY <4>1, <4>2, <4>3
    <3>4. QED BY <1>6, <3>2, <3>3
  <2>7. CASE Released(id, m)
    <3>1. /\ balance' = Moved(balance, MilestoneEngine, record.contractor, amount)
          /\ booked' = booked /\ refunded' = refunded
      BY <2>3, <2>7 DEF Released
    <3>2. \A p \in Orgs : balance'[TreasuryOf[p]] =
              balance[TreasuryOf[p]] + (IF p = o THEN 0 + 0 ELSE 0)
      BY <1>3, <2>2, <2>4, <3>1 DEF Moved
    <3>3. /\ booked' = [booked EXCEPT ![o] = @ + 0]
          /\ refunded' = [refunded EXCEPT ![id] = @ + 0] /\ 0 \in Int
      BY <1>4, <2>5, <3>1
    <3>4. QED BY <1>6, <3>2, <3>3
  <2>8. CASE Refunded(id, m, o)
    <3>1. /\ balance' = Moved(balance, MilestoneEngine, TreasuryOf[o], amount)
          /\ booked' = booked
          /\ refunded' = [refunded EXCEPT ![id] = @ + amount]
      BY <2>3, <2>8 DEF Refunded
    <3>2. \A p \in Orgs : balance'[TreasuryOf[p]] =
              balance[TreasuryOf[p]] + (IF p = o THEN 0 + amount ELSE 0)
      BY <1>3, <2>2, <2>4, <3>1 DEF Moved
    <3>3. booked' = [booked EXCEPT ![o] = @ + 0] /\ 0 \in Int
      BY <1>4, <2>5, <3>1
    <3>4. QED BY <1>6, <2>2, <3>1, <3>2, <3>3
  <2>9. QED BY <1>8, <2>6, <2>7, <2>8
<1>9. QED BY <1>1, <1>7, <1>8 DEF Drafted, Approved, Voided, MoneyUntouched

\* Every transaction books or reports what it moves.
LEMMA MoneyInvStep == PayeesOutside /\ ChainInv /\ MoneyInv /\ [Next]_vars => MoneyInv'
<1> SUFFICES ASSUME PayeesOutside, ChainInv, MoneyInv, [Next]_vars PROVE MoneyInv'
  OBVIOUS
<1>1. CASE UNCHANGED <<balance, booked, refunded, registry, deployed>>
  BY <1>1 DEF MoneyInv, BalanceFromEvents
<1>2. CASE OrganizationStep
  <2>1. deployed' = deployed
    BY <1>2 DEF OrganizationStep, MemberCall, GrantRole, RevokeRole, SetEngine, UpdateMetadataHash
  <2>2. QED BY <1>1, <1>2, <2>1 DEF OrganizationStep, treasuryVars, milestoneVars, factoryVars
<1>3. CASE RegistryStep
  BY <1>1, <1>3 DEF RegistryStep, RegistryCall, orgVars, treasuryVars, milestoneVars
<1>4. CASE UNCHANGED vars
  BY <1>1, <1>4 DEF vars, orgVars, treasuryVars, milestoneVars, factoryVars
<1>5. QED
  BY <1>2, <1>3, <1>4, FactoryKeepsMoney, TreasuryKeepsMoney, PayrollKeepsMoney,
     MilestonesKeepMoney DEF Next

\* As long as nobody is paid at a treasury, the balance of every registered
\* organization is what its events say plus what cancel_milestone sent back,
\* whatever the organizations, their batches and their milestones.
THEOREM LedgerFromEvents == PayeesOutside => (Spec => []BalanceFromEvents)
<1> SUFFICES ASSUME PayeesOutside PROVE Spec => []BalanceFromEvents
  OBVIOUS
<1>1. Init => MoneyInv
  <2> SUFFICES ASSUME Init PROVE MoneyInv
    OBVIOUS
  <2>1. /\ DOMAIN registry = {} /\ balance = Endowment
        /\ \A o \in Orgs : booked[o] = 0
        /\ \A id \in OrgId : refunded[id] = 0
    BY DEF Init, FactoryInit, TreasuryInit, MilestoneInit
  <2>2. QED BY <2>1 DEF MoneyInv, BalanceFromEvents
<1>2. ChainInv /\ MoneyInv /\ [Next]_vars => MoneyInv'
  BY MoneyInvStep
<1>3. MoneyInv => BalanceFromEvents
  BY DEF MoneyInv
<1>4. QED BY <1>1, <1>2, <1>3, ChainInvariant, PTL DEF Spec

-----------------------------------------------------------------------------
(***************************************************************************)
(* The step that executes a run.                                           *)
(***************************************************************************)
LEMMA NewRun ==
    ASSUME ChainInv, [Next]_vars, NEW id \in OrgId, NEW run \in executedRun'[id] \ executedRun[id]
    PROVE  \E caller \in Users, batch \in Seq(Nat) : RunPayroll(caller, id, run, batch)
<1>1. executedRun' # executedRun
  OBVIOUS
<1>2. PayrollStep
  BY <1>1 DEF Next, vars, payrollVars, FactoryStep, OrganizationStep, TreasuryStep,
              RegistryStep, MilestoneStep
<1>3. PICK org \in OrgId, caller \in Users, new \in RunIds, batch \in Batches :
          RunPayroll(caller, org, new, batch)
  BY <1>2 DEF PayrollStep, PayrollCall
<1>4. executedRun' = [executedRun EXCEPT ![org] = @ \cup {new}]
  BY <1>3 DEF RunPayroll, MarkExecuted
<1>5. id = org /\ run = new
  BY <1>4 DEF ChainInv, TypeOK, PayrollTypeOK
<1>6. QED BY <1>3, <1>5, PayrollAssumption

\* In the step that executes a run, and as long as nobody is paid at a
\* treasury, the treasury loses exactly what the result reports as paid and
\* every other account gains exactly what was reported for it: no partial
\* payment, no payment that goes unreported, for any batch with any repeats.
THEOREM PayrollReportsTruly == PayeesOutside => (Spec => PayrollPaysAsReported)
<1> SUFFICES ASSUME PayeesOutside PROVE Spec => PayrollPaysAsReported
  OBVIOUS
<1> DEFINE result(id, run) == payrollResult'[id][run]
           paidTo(id, run, a) == PaidTotal([i \in DOMAIN result(id, run) |->
                    IF /\ result(id, run)[i].outcome = "paid"
                       /\ employees[id][result(id, run)[i].employee].wallet = a
                    THEN result(id, run)[i] ELSE [result(id, run)[i] EXCEPT !.amount = 0]])
           Fair(id, run) ==
               LET from == TreasuryOf[registry[id].organization]
               IN  /\ balance'[from] = balance[from] - PaidTotal(result(id, run))
                   /\ \A a \in Accounts \ {from} : balance'[a] = balance[a] + paidTo(id, run, a)
<1>1. ASSUME ChainInv, [Next]_vars,
             NEW id \in OrgId, NEW run \in executedRun'[id] \ executedRun[id]
      PROVE  Fair(id, run)
  <2>1. PICK caller \in Users, batch \in Seq(Nat) : RunPayroll(caller, id, run, batch)
    BY <1>1, NewRun
  <2> DEFINE org == registry[id].organization
             from == TreasuryOf[org]
             res == BatchResult(id, org, caller, batch)
             gains(a) == Gains(id, res, a)
  <2>2. ASSUME NEW a \in Accounts
        PROVE  /\ org \in Orgs /\ payrollResult'[id][run] = res
               /\ PaidTotal(res) \in Nat /\ SumFunction(gains(a)) \in Nat
               /\ balance'[a] = balance[a] - (IF a = from THEN PaidTotal(res) ELSE 0)
                                           + SumFunction(gains(a))
    BY <1>1, <2>1, PayrollMoney DEF ChainInv, TypeOK, PayrollTypeOK
  <2>3. from \in Accounts /\ from \in Treasuries
    BY <2>2, AccountsAssumption DEF Treasuries
  <2>4. DOMAIN res = 1 .. Len(batch)
    BY ResultItems
  <2>5. res \in Seq(ItemResult)
    BY <1>1, ResultTyped DEF ChainInv, TypeOK
  <2>6. SumFunction(gains(from)) = 0
    <3>1. ASSUME NEW i \in 1 .. Len(batch) PROVE gains(from)[i] = 0
      <4> DEFINE ledger == LedgerAfter(id, org, caller, batch)
      <4>1. /\ res[i].employee = batch[i]
            /\ res[i].outcome = PayEmployee(ledger[i-1], id, org, caller, batch[i])
        BY ResultItems
      <4>2. res[i].outcome = "paid" => batch[i] \in DOMAIN employees[id]
        BY <1>1, <4>1, PaidItem DEF ChainInv, TypeOK
      <4>3. res[i].outcome = "paid" => employees[id][batch[i]].wallet # from
        BY <1>1, <2>3, <4>2 DEF ChainInv, StaffInv, PayeesOutside
      <4> HIDE DEF res, ledger
      <4>4. QED BY <2>4, <4>1, <4>3 DEF Gains
    <3>2. IsFiniteSet(1 .. Len(batch))
      BY FS_Interval
    <3>3. DOMAIN gains(from) = 1 .. Len(batch)
      <4> HIDE DEF res
      <4>1. QED BY <2>4 DEF Gains
    <3>4. QED BY <3>1, <3>2, <3>3, SumZero DEF SumFunction
  <2>7. ASSUME NEW a \in Accounts PROVE paidTo(id, run, a) = SumFunction(gains(a))
    <3> DEFINE kept == [i \in DOMAIN res |->
                    IF res[i].outcome = "paid" /\ employees[id][res[i].employee].wallet = a
                    THEN res[i] ELSE [res[i] EXCEPT !.amount = 0]]
    <3>1. \A i \in DOMAIN res : res[i] \in ItemResult
      BY <2>5
    <3>2. paidTo(id, run, a) = PaidTotal(kept)
      BY <2>2
    <3> HIDE DEF res
    <3>3. [i \in DOMAIN kept |-> kept[i].amount] = gains(a)
      <4>1. DOMAIN kept = DOMAIN res
        OBVIOUS
      <4>2. ASSUME NEW i \in DOMAIN res
            PROVE  kept[i].amount =
                       IF res[i].outcome = "paid" /\ employees[id][res[i].employee].wallet = a
                       THEN res[i].amount ELSE 0
        <5>1. res[i] \in ItemResult
          BY <3>1
        <5>2. QED BY <5>1 DEF ItemResult
      <4> HIDE DEF kept
      <4>3. QED BY <4>1, <4>2 DEF Gains
    <3> HIDE DEF kept, paidTo
    <3>4. QED BY <3>2, <3>3 DEF PaidTotal
  <2>8. \A a \in Accounts : balance[a] \in Nat
    BY <1>1 DEF ChainInv, TypeOK, TreasuryTypeOK
  <2> HIDE DEF res, gains, paidTo
  <2>9. balance'[from] = balance[from] - PaidTotal(result(id, run))
    BY <2>2, <2>3, <2>6, <2>8
  <2>10. \A a \in Accounts \ {from} : balance'[a] = balance[a] + paidTo(id, run, a)
    BY <2>2, <2>7, <2>8
  <2>11. QED BY <2>9, <2>10
<1>2. ChainInv /\ [Next]_vars =>
        [\A id \in OrgId : \A run \in executedRun'[id] \ executedRun[id] : Fair(id, run)]_vars
  BY <1>1
<1>3. QED BY <1>2, ChainInvariant, PTL DEF Spec, PayrollPaysAsReported

\* An item that cannot be paid takes nothing from the others: when the
\* treasury holds the salaries of every active employee listed, counted as
\* often as they are listed, each of them with a trustline is paid.
THEOREM BatchItemsAreIndependent == Spec => BatchItemsIndependent
<1> DEFINE result(id, run) == payrollResult'[id][run]
           listed(id, run) == [i \in DOMAIN result(id, run) |->
                    IF result(id, run)[i].employee \in ActiveEmployeeIds(id)
                    THEN employees[id][result(id, run)[i].employee].salary ELSE 0]
           Each(id, run) ==
               SumFunction(listed(id, run)) <= balance[TreasuryOf[registry[id].organization]]
               => \A i \in DOMAIN result(id, run) :
                      /\ result(id, run)[i].employee \in ActiveEmployeeIds(id)
                      /\ employees[id][result(id, run)[i].employee].wallet \notin NoTrustline
                      => result(id, run)[i].outcome = "paid"
<1>1. ASSUME ChainInv, [Next]_vars,
             NEW id \in OrgId, NEW run \in executedRun'[id] \ executedRun[id]
      PROVE  Each(id, run)
  <2>1. PICK caller \in Users, batch \in Seq(Nat) : RunPayroll(caller, id, run, batch)
    BY <1>1, NewRun
  <2> DEFINE org == registry[id].organization
             from == TreasuryOf[org]
             ledger == LedgerAfter(id, org, caller, batch)
             res == BatchResult(id, org, caller, batch)
             paid == PaidAmounts(res)
             gains == Gains(id, res, from)
             owed == [i \in DOMAIN res |->
                         IF res[i].employee \in ActiveEmployeeIds(id)
                         THEN employees[id][res[i].employee].salary ELSE 0]
  <2>2. org \in Orgs /\ org \in deployed /\ payrollResult'[id][run] = res
    BY <1>1, <2>1, PayrollMoney, AccountsAssumption DEF ChainInv, TypeOK, PayrollTypeOK
  <2>3. from \in Accounts
    BY <2>2, AccountsAssumption
  <2>4. /\ DOMAIN res = 1 .. Len(batch)
        /\ \A j \in 1 .. Len(batch) :
               /\ res[j].employee = batch[j]
               /\ res[j].outcome = PayEmployee(ledger[j-1], id, org, caller, batch[j])
               /\ res[j].amount = IF res[j].outcome = "paid"
                                  THEN employees[id][batch[j]].salary ELSE 0
    BY ResultItems
  <2>5. \A j \in 1 .. Len(batch) : paid[j] \in Nat /\ gains[j] \in Nat
    BY <1>1, <2>2, GainsTyped DEF ChainInv, TypeOK
  <2>6. \A e \in ActiveEmployeeIds(id) :
            e \in DOMAIN employees[id] /\ employees[id][e].salary \in Nat
            /\ employees[id][e].salary > 0
    <3>1. \A e \in DOMAIN employees[id] : employees[id][e] \in Employee
      BY <1>1 DEF ChainInv, TypeOK, RegistryTypeOK
    <3>2. \A e \in DOMAIN employees[id] :
              employees[id][e].salary \in Int /\ employees[id][e].salary > 0
      BY <1>1, <3>1 DEF ChainInv, StaffInv, Employee
    <3>3. QED BY <3>2 DEF ActiveEmployeeIds
  <2>7. \A k \in 0 .. Len(batch) :
            ledger[k][from] = balance[from] - SumFunctionOnSet(paid, 1 .. k)
                                            + SumFunctionOnSet(gains, 1 .. k)
    <3>1. balance \in [Accounts -> Nat] /\ RegistryTypeOK
      BY <1>1 DEF ChainInv, TypeOK, TreasuryTypeOK
    <3>2. QED BY <2>2, <2>3, <3>1, LedgerMoney
  <2>8. \A j \in 1 .. Len(batch) : owed[j] \in Nat /\ paid[j] <= owed[j]
    <3> SUFFICES ASSUME NEW j \in 1 .. Len(batch) PROVE owed[j] \in Nat /\ paid[j] <= owed[j]
      OBVIOUS
    <3>1. res[j].outcome = "paid" => batch[j] \in ActiveEmployeeIds(id)
      <4>1. res[j].outcome = PayEmployee(ledger[j-1], id, org, caller, batch[j])
        BY <2>4
      <4>2. QED BY <4>1 DEF PayEmployee
    <3> HIDE DEF res, ledger
    <3>2. owed[j] = IF batch[j] \in ActiveEmployeeIds(id)
                    THEN employees[id][batch[j]].salary ELSE 0
      BY <2>4
    <3>3. paid[j] = IF res[j].outcome = "paid" THEN employees[id][batch[j]].salary ELSE 0
      BY <2>4 DEF PaidAmounts
    <3> HIDE DEF owed, paid
    <3>4. QED BY <2>6, <3>1, <3>2, <3>3
  <2>9. DOMAIN owed = 1 .. Len(batch)
    BY <2>4
  <2> SUFFICES ASSUME SumFunction(owed) <= balance[from], NEW i \in DOMAIN res,
                      res[i].employee \in ActiveEmployeeIds(id),
                      employees[id][res[i].employee].wallet \notin NoTrustline
               PROVE  res[i].outcome = "paid"
    BY <2>2
  <2>10. i \in 1 .. Len(batch) /\ batch[i] \in ActiveEmployeeIds(id)
         /\ owed[i] = employees[id][batch[i]].salary
    BY <2>4
  <2>11. /\ RequireRole(org, caller, "Finance")
         /\ PayrollEngine \in spenders[org]
    <3>1. Resolve("payroll_engine", id).organization = org
      BY <1>1, <2>1, ResolvesDeployed DEF ChainInv, RunPayroll, CanRunPayroll, Engine
    <3>2. RequireRole(org, caller, "Finance")
      BY <2>1, <3>1 DEF RunPayroll, CanRunPayroll
    <3>3. QED BY <1>1, <2>2, <3>2 DEF ChainInv, DeploymentInv
  <2>12. balance[from] \in Nat
    BY <1>1, <2>3 DEF ChainInv, TypeOK, TreasuryTypeOK
  <2>13. SumFunction(owed) = SumFunctionOnSet(owed, 1 .. Len(batch))
    BY <2>9 DEF SumFunction
  <2>14. SumFunctionOnSet(owed, 1 .. Len(batch)) <= balance[from]
    BY <2>13
  <2>15. IsFiniteSet(1 .. Len(batch))
    <3>1. \A n \in Nat : IsFiniteSet(1 .. n)
      BY FS_Interval
    <3>2. Len(batch) \in Nat
      OBVIOUS
    <3>3. QED BY <3>1, <3>2, Zenon
  <2> HIDE DEF org, from, owed, paid, gains, ledger, res
  <2>16. ledger[i-1][from] >= owed[i]
    <3> DEFINE before == 1 .. i-1
    <3>1. /\ i \in Nat /\ i - 1 \in 0 .. Len(batch) /\ IsFiniteSet(before)
          /\ 1 .. i = before \cup {i} /\ i \notin before
          /\ before \cup {i} \subseteq 1 .. Len(batch)
      <4>1. i \in Nat /\ i - 1 \in 0 .. Len(batch) /\ i - 1 \in Int
        BY <2>10
      <4>2. i - 1 \in Nat
        BY <4>1
      <4>3. \A n \in Nat : IsFiniteSet(1 .. n)
        BY FS_Interval
      <4>4. IsFiniteSet(before)
        BY <4>2, <4>3, Zenon
      <4>5. QED BY <2>10, <4>1, <4>4
    <3>2. IsFiniteSet(1 .. Len(batch)) /\ before \cup {i} \in SUBSET (1 .. Len(batch))
      <4> HIDE DEF before
      <4>1. QED BY <2>15, <3>1
    <3>3. \A x \in before \cup {i} : owed[x] \in Int /\ paid[x] \in Nat /\ gains[x] \in Nat
                                     /\ paid[x] <= owed[x]
      BY <2>5, <2>8, <3>1
    <3>4. ledger[i-1][from] = balance[from] - SumFunctionOnSet(paid, before)
                                            + SumFunctionOnSet(gains, before)
      BY <2>7, <3>1
    <3> HIDE DEF before
    <3>5. SumFunctionOnSet(owed, before \cup {i}) = SumFunctionOnSet(owed, before) + owed[i]
      BY <3>1, <3>3, SumAdd
    <3>6. SumFunctionOnSet(owed, before \cup {i}) <= SumFunctionOnSet(owed, 1 .. Len(batch))
      BY <2>8, <3>2, SumSubset
    <3>7. SumFunctionOnSet(paid, before) <= SumFunctionOnSet(owed, before)
      BY <3>1, <3>3, SumLess
    <3>8. /\ SumFunctionOnSet(paid, before) \in Nat /\ SumFunctionOnSet(gains, before) \in Nat
      BY <3>1, <3>3, SumNat
    <3>9. SumFunctionOnSet(owed, before) \in Int /\ owed[i] \in Int
          /\ SumFunctionOnSet(owed, 1 .. Len(batch)) \in Int
      <4>1. \A x \in 1 .. Len(batch) : owed[x] \in Int
        BY <2>8
      <4>2. QED BY <3>1, <3>2, <3>3, <4>1, SumInt
    <3>10. QED BY <2>12, <2>14, <3>4, <3>5, <3>6, <3>7, <3>8, <3>9
  <2>17. CanTransferOut(ledger[i-1], org, PayrollEngine, caller,
                        employees[id][batch[i]].wallet, employees[id][batch[i]].salary)
    <3>1. /\ employees[id][batch[i]].salary > 0
          /\ employees[id][batch[i]].wallet \notin NoTrustline
      BY <2>4, <2>6, <2>10
    <3>2. QED BY <2>2, <2>10, <2>11, <2>16, <3>1 DEF CanTransferOut, CanMove, from
  <2>18. QED
    <3>1. batch[i] \in DOMAIN employees[id]
      BY <2>6, <2>10
    <3>2. PayEmployee(ledger[i-1], id, org, caller, batch[i]) = "paid"
      BY <2>10, <2>17, <3>1 DEF PayEmployee
    <3>3. QED BY <2>4, <2>10, <3>2
<1>2. ChainInv /\ [Next]_vars =>
        [\A id \in OrgId : \A run \in executedRun'[id] \ executedRun[id] : Each(id, run)]_vars
  BY <1>1
<1>3. QED BY <1>2, ChainInvariant, PTL DEF Spec, BatchItemsIndependent

-----------------------------------------------------------------------------
(***************************************************************************)
(* The pooled escrow implements one vault per milestone.                   *)
(***************************************************************************)
StatusFate(status) ==
    CASE status = "Draft" -> "open"   [] status = "Funded"    -> "held"
      [] status = "Approved" -> "approved" [] status = "Released"  -> "paid"
      [] status = "Cancelled" -> "closed"

\* A milestone is its organization and its number.
LEMMA MilestoneIdPairs ==
    /\ \A n \in MilestoneId : n[1] \in OrgId /\ n[2] \in 1 .. MaxMilestones[n[1]]
                              /\ n = <<n[1], n[2]>>
    /\ \A id \in OrgId : \A m : m \in 1 .. MaxMilestones[id] => <<id, m>> \in MilestoneId
BY DEF MilestoneId

\* A milestone that exists is one of those the vaults are kept for.
LEMMA ExistingMilestone ==
    ASSUME ChainInv, NEW id \in OrgId, NEW m \in DOMAIN milestones[id]
    PROVE  /\ <<id, m>> \in MilestoneId /\ Exists(<<id, m>>)
           /\ id \in DOMAIN registry /\ registry[id].organization \in Orgs
           /\ milestones[id][m] \in MilestoneRecord
           /\ Vaulted[<<id, m>>] = Held(milestones[id][m])
           /\ Fates[<<id, m>>] = StatusFate(milestones[id][m].status)
           /\ Terms[<<id, m>>].payee = milestones[id][m].contractor
           /\ Terms[<<id, m>>].amount = milestones[id][m].amount
           /\ Terms[<<id, m>>].home = TreasuryOf[registry[id].organization]
<1>1. milestones[id] \in Seq(MilestoneRecord) /\ milestones[id] # <<>>
  BY DEF ChainInv, TypeOK, MilestoneTypeOK
<1>2. m \in 1 .. Len(milestones[id]) /\ Len(milestones[id]) <= MaxMilestones[id]
  BY <1>1 DEF ChainInv, MilestonesInv
<1>3. m \in 1 .. MaxMilestones[id]
  BY <1>1, <1>2, MilestoneAssumption
<1>4. <<id, m>> \in MilestoneId
  BY <1>3, MilestoneIdPairs
<1>5. Exists(<<id, m>>) /\ RecordOf(<<id, m>>) = milestones[id][m]
  BY DEF Exists, RecordOf
<1>6. id \in DOMAIN registry /\ registry[id].organization \in Orgs
  BY <1>1 DEF ChainInv, MilestonesInv, RegistryInv
<1>7. Vaulted[<<id, m>>] = Held(milestones[id][m])
  BY <1>4, <1>5 DEF Vaulted, HeldFor
<1>8. Fates[<<id, m>>] = StatusFate(milestones[id][m].status)
  BY <1>4, <1>5 DEF Fates, FateOf, StatusFate
<1>9. Terms[<<id, m>>] = [payee |-> milestones[id][m].contractor,
                          amount |-> milestones[id][m].amount,
                          home |-> TreasuryOf[registry[id].organization]]
  BY <1>4, <1>5 DEF Terms, TermsOf
<1>10. milestones[id][m] \in MilestoneRecord
  BY <1>1
<1>11. QED BY <1>4, <1>5, <1>6, <1>7, <1>8, <1>9, <1>10

\* A transition settles the fate of one milestone, and nobody's terms.
LEMMA StatusOnVaults ==
    ASSUME ChainInv, NEW id \in OrgId, NEW m \in DOMAIN milestones[id], UNCHANGED registry,
           NEW status \in MilestoneStatus, SetStatus(id, m, status)
    PROVE  LET v == <<id, m>>
               new == [milestones[id][m] EXCEPT !.status = status]
           IN  /\ Fates' = [Fates EXCEPT ![v] = StatusFate(status)]
               /\ Vaulted' = [Vaulted EXCEPT ![v] = Held(new)]
               /\ Terms' = Terms
<1> DEFINE v == <<id, m>>
           new == [milestones[id][m] EXCEPT !.status = status]
<1>1. /\ \A i \in OrgId : DOMAIN milestones'[i] = DOMAIN milestones[i]
      /\ \A i \in OrgId \ {id} : milestones'[i] = milestones[i]
      /\ \A k \in DOMAIN milestones[id] \ {m} : milestones'[id][k] = milestones[id][k]
      /\ milestones'[id][m] = new
      /\ milestones[id][m] \in MilestoneRecord
  BY StatusChange DEF ChainInv, TypeOK
<1>2. v \in MilestoneId /\ Exists(v)
  BY ExistingMilestone
<1>3. new.status = status /\ new.amount = milestones[id][m].amount
      /\ new.contractor = milestones[id][m].contractor
  BY <1>1 DEF MilestoneRecord
<1> HIDE DEF new
<1>4. \A n \in MilestoneId : Exists(n)' = Exists(n)
  BY <1>1, MilestoneIdPairs DEF Exists
<1>5. ASSUME NEW n \in MilestoneId \ {v}, Exists(n)
      PROVE  milestones'[n[1]][n[2]] = milestones[n[1]][n[2]]
  <2>1. n[1] \in OrgId /\ n[2] \in DOMAIN milestones[n[1]] /\ n = <<n[1], n[2]>>
    BY <1>5, MilestoneIdPairs DEF Exists
  <2>2. CASE n[1] # id
    BY <1>1, <2>1, <2>2
  <2>3. CASE n[1] = id
    <3>1. n[2] # m
      BY <2>1, <2>3
    <3>2. QED BY <1>1, <2>1, <2>3, <3>1
  <2>4. QED BY <2>2, <2>3
<1>6. ASSUME NEW n \in MilestoneId \ {v}
      PROVE  FateOf(n)' = FateOf(n) /\ HeldFor(n)' = HeldFor(n) /\ TermsOf(n)' = TermsOf(n)
  <2>1. CASE Exists(n)
    <3>1. Exists(n)' /\ milestones'[n[1]][n[2]] = milestones[n[1]][n[2]]
      BY <1>4, <1>5, <2>1
    <3>2. FateOf(n)' = FateOf(n)
      BY <2>1, <3>1 DEF FateOf, RecordOf
    <3>3. HeldFor(n)' = HeldFor(n)
      BY <2>1, <3>1 DEF HeldFor, RecordOf, Held
    <3>4. TermsOf(n)' = TermsOf(n)
      BY <2>1, <3>1 DEF TermsOf, RecordOf
    <3>5. QED BY <3>2, <3>3, <3>4
  <2>2. CASE ~Exists(n)
    BY <1>4, <2>2 DEF FateOf, HeldFor, TermsOf
  <2>3. QED BY <2>1, <2>2
<1>7. Exists(v)' /\ RecordOf(v)' = new /\ RecordOf(v) = milestones[id][m]
  BY <1>1, <1>2, <1>4 DEF RecordOf
<1>8. FateOf(v)' = StatusFate(status)
  BY <1>3, <1>7 DEF FateOf, StatusFate
<1>9. HeldFor(v)' = Held(new)
  BY <1>7 DEF HeldFor
<1>10. TermsOf(v)' = TermsOf(v)
  <2>1. v[1] = id
    OBVIOUS
  <2> HIDE DEF v
  <2>2. QED BY <1>2, <1>3, <1>7, <2>1 DEF TermsOf
<1> HIDE DEF v
<1>11. Fates' = [Fates EXCEPT ![v] = StatusFate(status)]
  BY <1>2, <1>6, <1>8 DEF Fates
<1>12. Vaulted' = [Vaulted EXCEPT ![v] = Held(new)]
  BY <1>2, <1>6, <1>9 DEF Vaulted
<1>13. Terms' = Terms
  BY <1>6, <1>10 DEF Terms
<1>14. QED BY <1>11, <1>12, <1>13 DEF v, new

\* A new milestone opens a vault that holds nothing.
LEMMA DraftOnVaults ==
    ASSUME ChainInv, NEW id \in OrgId, id \in DOMAIN registry, UNCHANGED registry,
           NEW contractor \in Payees, NEW amount \in Amounts, Drafted(id, contractor, amount)
    PROVE  \E v \in MilestoneId :
               /\ Fates[v] = "none" /\ Fates' = [Fates EXCEPT ![v] = "open"]
               /\ \A n \in MilestoneId \ {v} : Terms'[n] = Terms[n]
               /\ Vaulted' = Vaulted
<1>0. PICK k : k = Len(milestones[id]) + 1
  OBVIOUS
<1> DEFINE v == <<id, k>>
           new == [contractor |-> contractor, amount |-> amount, status |-> "Draft"]
<1>1. contractor \in Accounts /\ amount \in Int
  BY AccountsAssumption
<1>2. milestones' = [milestones EXCEPT ![id] = Append(@,
          [contractor |-> contractor, amount |-> amount, status |-> "Draft"])]
  BY DEF Drafted
<1>3. /\ \A i \in OrgId \ {id} : milestones'[i] = milestones[i]
      /\ k \notin DOMAIN milestones[id]
      /\ DOMAIN milestones'[id] = DOMAIN milestones[id] \cup {k}
      /\ \A j \in DOMAIN milestones[id] : milestones'[id][j] = milestones[id][j]
      /\ milestones'[id][k] = new
  BY <1>0, <1>1, <1>2, MilestoneAdded DEF ChainInv, TypeOK
<1>4. v \in MilestoneId
  <2>1. milestones[id] \in Seq(MilestoneRecord)
    BY DEF ChainInv, TypeOK, MilestoneTypeOK
  <2>2. Len(milestones[id]) \in Nat /\ MaxMilestones[id] \in Nat
    BY <2>1, MilestoneAssumption
  <2>3. k \in 1 .. MaxMilestones[id]
    BY <1>0, <2>2 DEF Drafted
  <2>4. QED BY <2>3, MilestoneIdPairs
<1>5. new.status = "Draft"
  OBVIOUS
<1>6. v[1] = id /\ v[2] = k
  OBVIOUS
<1>7. \A n \in MilestoneId \ {v} : n[1] \in OrgId /\ (n[1] = id => n[2] # k)
  BY MilestoneIdPairs
<1> HIDE DEF v, new
<1>8. ~Exists(v) /\ Exists(v)' /\ RecordOf(v)' = new
  BY <1>3, <1>6 DEF Exists, RecordOf
<1>9. ASSUME NEW n \in MilestoneId \ {v}
      PROVE  /\ Exists(n)' = Exists(n)
             /\ Exists(n) => RecordOf(n)' = RecordOf(n)
  BY <1>3, <1>7 DEF Exists, RecordOf
<1>10. ASSUME NEW n \in MilestoneId \ {v}
       PROVE  FateOf(n)' = FateOf(n) /\ HeldFor(n)' = HeldFor(n) /\ TermsOf(n)' = TermsOf(n)
  <2>1. CASE Exists(n)
    <3>1. Exists(n)' /\ RecordOf(n)' = RecordOf(n)
      BY <1>9, <2>1
    <3>2. QED BY <2>1, <3>1 DEF FateOf, HeldFor, TermsOf, Held
  <2>2. CASE ~Exists(n)
    BY <1>9, <2>2 DEF FateOf, HeldFor, TermsOf
  <2>3. QED BY <2>1, <2>2
<1>11. FateOf(v) = "none" /\ FateOf(v)' = "open"
  BY <1>5, <1>8 DEF FateOf
<1>12. HeldFor(v)' = HeldFor(v)
  BY <1>5, <1>8 DEF HeldFor, Held
<1>13. Fates[v] = "none" /\ Fates' = [Fates EXCEPT ![v] = "open"]
  BY <1>4, <1>10, <1>11 DEF Fates
<1>14. Vaulted' = Vaulted
  BY <1>10, <1>12 DEF Vaulted
<1>15. \A n \in MilestoneId \ {v} : Terms'[n] = Terms[n]
  BY <1>10 DEF Terms
<1>16. QED BY <1>4, <1>13, <1>14, <1>15

\* The total of the escrow counters is an integer.
LEMMA EscrowSumTyped ==
    ASSUME ChainInv
    PROVE  SumFunction(escrow) \in Int /\ escrow \in [OrgId -> Int]
BY OrgIdFinite, SumInt DEF ChainInv, TypeOK, MilestoneTypeOK, SumFunction

\* Solvency is what makes the engine's purse a purse.
LEMMA PurseTyped == ChainInv => Purse \in [Accounts -> Nat]
<1> SUFFICES ASSUME ChainInv, NEW a \in Accounts
             PROVE  balance[a] - (IF a = MilestoneEngine THEN SumFunction(escrow) ELSE 0) \in Nat
  BY DEF Purse
<1>1. balance[a] \in Nat /\ SumFunction(escrow) \in Int
  BY EscrowSumTyped DEF ChainInv, TypeOK, TreasuryTypeOK
<1>2. balance[MilestoneEngine] >= SumFunction(escrow)
  BY DEF ChainInv, EscrowSolvent
<1>3. QED BY <1>1, <1>2

\* Money that moves into escrow leaves one purse, and money that moves out of
\* it enters one: the engine's own does not change.
LEMMA PurseAfter ==
    ASSUME ChainInv, NEW a \in Accounts, NEW amount \in Int,
           SumFunction(escrow)' = SumFunction(escrow) + amount,
           \A b \in Accounts :
               balance'[b] = balance[b] - (IF b = a THEN amount ELSE 0)
                                        + (IF b = MilestoneEngine THEN amount ELSE 0)
    PROVE  Purse' = [b \in Accounts |-> Purse[b] - (IF b = a THEN amount ELSE 0)]
<1>1. PICK total \in Int : total = SumFunction(escrow)
  BY EscrowSumTyped
<1>2. /\ Purse = [b \in Accounts |-> balance[b] - (IF b = MilestoneEngine THEN total ELSE 0)]
      /\ Purse' = [b \in Accounts |->
                       balance'[b] - (IF b = MilestoneEngine THEN total + amount ELSE 0)]
  BY <1>1 DEF Purse
<1>3. \A b \in Accounts : balance[b] \in Int
  BY DEF ChainInv, TypeOK, TreasuryTypeOK
<1>4. \A b \in Accounts : balance'[b] - (IF b = MilestoneEngine THEN total + amount ELSE 0)
                              = Purse[b] - (IF b = a THEN amount ELSE 0)
  BY <1>1, <1>2, <1>3
<1>5. QED BY <1>2, <1>4

\* Money put in escrow leaves the purses for a vault.
LEMMA PurseLocks ==
    ASSUME ChainInv, NEW id \in OrgId, NEW a \in Accounts, NEW amount \in Int,
           balance' = Moved(balance, a, MilestoneEngine, amount),
           escrow' = [escrow EXCEPT ![id] = @ + amount]
    PROVE  Purse' = [Purse EXCEPT ![a] = @ + (-amount)]
<1>1. SumFunction(escrow)' = SumFunction(escrow) + amount
  BY EscrowSumTyped, EscrowTotal
<1>2. \A b \in Accounts :
          balance'[b] = balance[b] - (IF b = a THEN amount ELSE 0)
                                   + (IF b = MilestoneEngine THEN amount ELSE 0)
  BY DEF Moved
<1>3. Purse' = [b \in Accounts |-> Purse[b] - (IF b = a THEN amount ELSE 0)]
  BY <1>1, <1>2, PurseAfter
<1>4. Purse \in [Accounts -> Nat]
  BY PurseTyped
<1>5. Purse' = [b \in Accounts |-> IF b = a THEN Purse[b] + (-amount) ELSE Purse[b]]
  BY <1>3, <1>4
<1>6. QED BY <1>4, <1>5

\* Money that leaves escrow leaves a vault for a purse.
LEMMA PurseUnlocks ==
    ASSUME ChainInv, NEW id \in OrgId, NEW a \in Accounts, NEW amount \in Int,
           balance' = Moved(balance, MilestoneEngine, a, amount),
           escrow' = [escrow EXCEPT ![id] = @ - amount]
    PROVE  Purse' = [Purse EXCEPT ![a] = @ + amount]
<1>1. PICK less \in Int : less = -amount
  OBVIOUS
<1>2. escrow' = [escrow EXCEPT ![id] = @ + less]
  BY <1>1, EscrowSumTyped
<1>3. SumFunction(escrow)' = SumFunction(escrow) + less
  BY <1>2, EscrowSumTyped, EscrowTotal
<1>4. \A b \in Accounts : balance[b] \in Int
  BY DEF ChainInv, TypeOK, TreasuryTypeOK
<1>5. \A b \in Accounts :
          balance'[b] = balance[b] - (IF b = a THEN less ELSE 0)
                                   + (IF b = MilestoneEngine THEN less ELSE 0)
  BY <1>1, <1>4 DEF Moved
<1>6. Purse' = [b \in Accounts |-> Purse[b] - (IF b = a THEN less ELSE 0)]
  BY <1>3, <1>5, PurseAfter
<1>7. Purse \in [Accounts -> Nat]
  BY PurseTyped
<1>8. Purse' = [b \in Accounts |-> IF b = a THEN Purse[b] + amount ELSE Purse[b]]
  BY <1>1, <1>6, <1>7
<1>9. QED BY <1>7, <1>8

\* Each entry point of the engine is one step of the vaults.
LEMMA MilestoneStepOnVaults == ChainInv /\ ChainInv' /\ MilestoneStep => Vaults!Next
<1> SUFFICES ASSUME ChainInv, ChainInv', NEW id \in OrgId, NEW caller \in Users,
                    MilestoneCall(id, caller)
             PROVE  Vaults!Next
  BY DEF MilestoneStep
<1> DEFINE o == registry[id].organization
<1>1. /\ id \in DOMAIN registry /\ o \in Orgs /\ UNCHANGED registry
      /\ \/ \E contractor \in Payees, amount \in Amounts : Drafted(id, contractor, amount)
         \/ \E m \in DOMAIN milestones[id] :
                \/ Funded(id, m, o) \/ Approved(id, m) \/ Released(id, m)
                \/ Voided(id, m) \/ Refunded(id, m, o)
  BY MilestoneCallCases DEF ChainInv, TypeOK
<1>2. /\ TreasuryOf[o] \in Accounts /\ TreasuryOf[o] # MilestoneEngine
      /\ MilestoneEngine \in Accounts
  BY <1>1, AccountsAssumption DEF Treasuries
<1>3. ASSUME balance' = balance, escrow' = escrow PROVE Purse' = Purse
  BY <1>3 DEF Purse
<1>4. ASSUME NEW contractor \in Payees, NEW amount \in Amounts, Drafted(id, contractor, amount)
      PROVE  Vaults!Next
  <2>1. PICK v \in MilestoneId :
            /\ Fates[v] = "none" /\ Fates' = [Fates EXCEPT ![v] = "open"]
            /\ \A n \in MilestoneId \ {v} : Terms'[n] = Terms[n]
            /\ Vaulted' = Vaulted
    BY <1>1, <1>4, DraftOnVaults
  <2>2. Purse' = Purse
    BY <1>3, <1>4 DEF Drafted, MoneyUntouched
  <2>3. Vaults!Agree(v)
    BY <2>1, <2>2 DEF Vaults!Agree, Vaults!Becomes
  <2>4. QED BY <2>3 DEF Vaults!Next
<1>5. ASSUME NEW m \in DOMAIN milestones[id],
             \/ Funded(id, m, o) \/ Approved(id, m) \/ Released(id, m)
             \/ Voided(id, m) \/ Refunded(id, m, o)
      PROVE  Vaults!Next
  <2> DEFINE record == milestones[id][m]
             amount == record.amount
             v == <<id, m>>
  <2>1. /\ v \in MilestoneId /\ record \in MilestoneRecord
        /\ Vaulted[v] = Held(record)
        /\ Fates[v] = StatusFate(record.status)
        /\ Terms[v].payee = record.contractor /\ Terms[v].amount = amount
        /\ Terms[v].home = TreasuryOf[o]
    BY ExistingMilestone, Zenon
  <2>2. amount \in Int /\ record.contractor \in Accounts /\ -amount \in Int /\ -(-amount) = amount
    BY <2>1 DEF MilestoneRecord
  <2>3. ASSUME NEW status \in MilestoneStatus, SetStatus(id, m, status)
        PROVE  /\ Fates' = [Fates EXCEPT ![v] = StatusFate(status)]
               /\ Vaulted' = [Vaulted EXCEPT ![v] =
                      IF status \in {"Funded", "Approved"} THEN amount ELSE 0]
               /\ Terms' = Terms
    <3> DEFINE new == [record EXCEPT !.status = status]
    <3>1. /\ Fates' = [Fates EXCEPT ![v] = StatusFate(status)]
          /\ Vaulted' = [Vaulted EXCEPT ![v] = Held(new)]
          /\ Terms' = Terms
      BY <1>1, <2>3, StatusOnVaults
    <3>2. new.status = status /\ new.amount = amount
      BY <2>1 DEF MilestoneRecord
    <3> HIDE DEF new, v, record, amount
    <3>3. Held(new) = IF status \in {"Funded", "Approved"} THEN amount ELSE 0
      BY <3>2 DEF Held
    <3>4. QED BY <3>1, <3>3
  <2>4. record = milestones[id][m] /\ amount = record.amount
    OBVIOUS
  <2>5. Vaulted = [Vaulted EXCEPT ![v] = Vaulted[v]]
    BY DEF Vaulted
  <2> HIDE DEF record, amount, v, o
  <2>6. CASE Funded(id, m, o)
    <3>1. /\ SetStatus(id, m, "Funded") /\ "Funded" \in MilestoneStatus
          /\ record.status = "Draft" /\ amount > 0 /\ balance[TreasuryOf[o]] >= amount
          /\ balance' = Moved(balance, TreasuryOf[o], MilestoneEngine, amount)
          /\ escrow' = [escrow EXCEPT ![id] = @ + amount]
      BY <2>4, <2>6 DEF Funded, MilestoneStatus, CanMove
    <3>2. Purse' = [Purse EXCEPT ![TreasuryOf[o]] = @ + (-amount)]
      BY <1>2, <2>2, <3>1, PurseLocks
    <3>3. Purse[TreasuryOf[o]] >= amount
      <4>1. Purse[TreasuryOf[o]] = balance[TreasuryOf[o]] - 0
        BY <1>2 DEF Purse
      <4>2. balance[TreasuryOf[o]] \in Int
        BY <1>2 DEF ChainInv, TypeOK, TreasuryTypeOK
      <4>3. QED BY <3>1, <4>1, <4>2
    <3>4. /\ Fates[v] = "open" /\ Fates' = [Fates EXCEPT ![v] = "held"]
          /\ Vaulted' = [Vaulted EXCEPT ![v] = amount] /\ Terms' = Terms
      BY <2>1, <2>3, <3>1 DEF StatusFate
    <3>5. Vaults!Lock(v)
      BY <2>1, <3>1, <3>2, <3>3, <3>4 DEF Vaults!Lock, Vaults!Becomes, Vaults!Paying
    <3>6. QED BY <2>1, <3>5 DEF Vaults!Next
  <2>7. CASE Approved(id, m)
    <3>1. /\ SetStatus(id, m, "Approved") /\ "Approved" \in MilestoneStatus
          /\ record.status = "Funded" /\ balance' = balance /\ escrow' = escrow
      BY <2>4, <2>7 DEF Approved, MilestoneStatus, MoneyUntouched
    <3>2. Vaulted[v] = amount
      BY <2>1, <2>4, <3>1 DEF Held
    <3>3. /\ Fates[v] = "held" /\ Fates' = [Fates EXCEPT ![v] = "approved"]
          /\ Vaulted' = Vaulted /\ Terms' = Terms /\ Purse' = Purse
      BY <1>3, <2>1, <2>3, <2>5, <3>1, <3>2 DEF StatusFate
    <3>4. Vaults!Approve(v)
      BY <3>3 DEF Vaults!Approve, Vaults!Becomes
    <3>5. QED BY <2>1, <3>4 DEF Vaults!Next
  <2>8. CASE Released(id, m)
    <3>1. /\ SetStatus(id, m, "Released") /\ "Released" \in MilestoneStatus
          /\ record.status = "Approved"
          /\ balance' = Moved(balance, MilestoneEngine, record.contractor, amount)
          /\ escrow' = [escrow EXCEPT ![id] = @ - amount]
      BY <2>4, <2>8 DEF Released, MilestoneStatus
    <3>2. Vaulted[v] = amount
      BY <2>1, <2>4, <3>1 DEF Held
    <3>3. Purse' = [Purse EXCEPT ![record.contractor] = @ + amount]
      <4>1. record.contractor \in Accounts /\ amount \in Int
        BY <2>2
      <4>2. balance' = Moved(balance, MilestoneEngine, record.contractor, amount)
        BY <3>1
      <4>3. escrow' = [escrow EXCEPT ![id] = @ - amount]
        BY <3>1
      <4>4. QED BY <4>1, <4>2, <4>3, PurseUnlocks
    <3>4. /\ Fates[v] = "approved" /\ Fates' = [Fates EXCEPT ![v] = "paid"]
          /\ Vaulted' = [Vaulted EXCEPT ![v] = 0] /\ Terms' = Terms
      BY <2>1, <2>3, <3>1 DEF StatusFate
    <3>5. Vaults!Pay(v)
      BY <2>1, <3>2, <3>3, <3>4 DEF Vaults!Pay, Vaults!Unlock, Vaults!Becomes, Vaults!Paying
    <3>6. QED BY <2>1, <3>5 DEF Vaults!Next
  <2>9. CASE Voided(id, m)
    <3>1. /\ SetStatus(id, m, "Cancelled") /\ "Cancelled" \in MilestoneStatus
          /\ record.status = "Draft" /\ balance' = balance /\ escrow' = escrow
      BY <2>4, <2>9 DEF Voided, MilestoneStatus, MoneyUntouched
    <3>2. Vaulted[v] = 0
      BY <2>1, <3>1 DEF Held
    <3>3. /\ Fates[v] = "open" /\ Fates' = [Fates EXCEPT ![v] = "closed"]
          /\ Vaulted' = Vaulted /\ Terms' = Terms /\ Purse' = Purse
      BY <1>3, <2>1, <2>3, <2>5, <3>1, <3>2 DEF StatusFate
    <3>4. Vaults!Void(v)
      BY <3>3 DEF Vaults!Void, Vaults!Becomes
    <3>5. QED BY <2>1, <3>4 DEF Vaults!Next
  <2>10. CASE Refunded(id, m, o)
    <3>1. /\ SetStatus(id, m, "Cancelled") /\ "Cancelled" \in MilestoneStatus
          /\ record.status = "Funded"
          /\ balance' = Moved(balance, MilestoneEngine, TreasuryOf[o], amount)
          /\ escrow' = [escrow EXCEPT ![id] = @ - amount]
      BY <2>4, <2>10 DEF Refunded, MilestoneStatus
    <3>2. Vaulted[v] = amount
      BY <2>1, <2>4, <3>1 DEF Held
    <3>3. Purse' = [Purse EXCEPT ![TreasuryOf[o]] = @ + amount]
      <4>1. TreasuryOf[o] \in Accounts /\ amount \in Int
        BY <1>2, <2>2
      <4>2. balance' = Moved(balance, MilestoneEngine, TreasuryOf[o], amount)
        BY <3>1
      <4>3. escrow' = [escrow EXCEPT ![id] = @ - amount]
        BY <3>1
      <4>4. QED BY <4>1, <4>2, <4>3, PurseUnlocks
    <3>4. /\ Fates[v] = "held" /\ Fates' = [Fates EXCEPT ![v] = "closed"]
          /\ Vaulted' = [Vaulted EXCEPT ![v] = 0] /\ Terms' = Terms
      BY <2>1, <2>3, <3>1 DEF StatusFate
    <3>5. Vaults!Return(v)
      BY <2>1, <3>2, <3>3, <3>4 DEF Vaults!Return, Vaults!Unlock, Vaults!Becomes, Vaults!Paying
    <3>6. QED BY <2>1, <3>5 DEF Vaults!Next
  <2>11. QED BY <1>5, <2>6, <2>7, <2>8, <2>9, <2>10
<1>6. QED BY <1>1, <1>4, <1>5

\* What a vault was agreed on does not change when an organization is created:
\* the milestones there are belong to organizations that exist already.
LEMMA RegistryGrowsUnderVaults ==
    ASSUME ChainInv, UNCHANGED milestoneVars,
           \A id \in DOMAIN registry : registry'[id] = registry[id]
    PROVE  UNCHANGED <<Vaulted, Fates, Terms>>
<1>1. milestones' = milestones
  BY DEF milestoneVars
<1>2. Vaulted' = Vaulted
  BY <1>1 DEF Vaulted, HeldFor, Exists, RecordOf, Held
<1>3. Fates' = Fates
  BY <1>1 DEF Fates, FateOf, Exists, RecordOf
<1>4. ASSUME NEW v \in MilestoneId PROVE TermsOf(v)' = TermsOf(v)
  <2>1. CASE Exists(v)
    <3>1. v[1] \in OrgId /\ milestones[v[1]] # <<>>
      <4>1. v[1] \in OrgId /\ v[2] \in DOMAIN milestones[v[1]]
        BY <2>1, MilestoneIdPairs DEF Exists
      <4>2. milestones[v[1]] = <<>> => DOMAIN milestones[v[1]] = {}
        OBVIOUS
      <4>3. QED BY <4>1, <4>2
    <3>2. registry'[v[1]] = registry[v[1]]
      BY <3>1 DEF ChainInv, MilestonesInv
    <3>3. QED BY <1>1, <2>1, <3>2 DEF TermsOf, RecordOf, Exists
  <2>2. CASE ~Exists(v)
    BY <1>1, <2>2 DEF TermsOf, Exists
  <2>3. QED BY <2>1, <2>2
<1>5. Terms' = Terms
  BY <1>4 DEF Terms
<1>6. QED BY <1>2, <1>3, <1>5

\* Every transaction is a step of the vaults, or none.
LEMMA StepOnVaults == ChainInv /\ ChainInv' /\ [Next]_vars => [Vaults!Next]_(Vaults!vars)
<1> SUFFICES ASSUME ChainInv, ChainInv', [Next]_vars PROVE Vaults!Next
  OBVIOUS
<1>1. CASE MilestoneStep
  BY <1>1, MilestoneStepOnVaults
<1>2. ASSUME UNCHANGED milestoneVars, \A id \in DOMAIN registry : registry'[id] = registry[id]
      PROVE  Vaults!Next
  <2>1. UNCHANGED <<Vaulted, Fates, Terms>>
    BY <1>2, RegistryGrowsUnderVaults
  <2>2. Purse' \in [Accounts -> Nat]
    <3>1. (ChainInv => Purse \in [Accounts -> Nat])'
      BY PurseTyped, PTL
    <3>2. QED BY <3>1
  <2>3. Vaults!MoveElsewhere
    BY <2>1, <2>2 DEF Vaults!MoveElsewhere
  <2>4. QED BY <2>3 DEF Vaults!Next
<1>3. CASE FactoryStep
  <2>1. UNCHANGED milestoneVars /\ FactoryCall
    BY <1>3 DEF FactoryStep
  <2>2. \A id \in DOMAIN registry : registry'[id] = registry[id]
    <3>1. CASE \E owner \in Users, o \in Orgs : CreateOrganization(owner, o)
      BY <3>1, CreateTyped DEF ChainInv, TypeOK
    <3>2. CASE registry' = registry
      BY <3>2
    <3>3. QED BY <2>1, <3>1, <3>2
              DEF FactoryCall, InitializeFactory, InitializeEngine, UpdateWasmHash
  <2>3. QED BY <1>2, <2>1, <2>2
<1>4. ASSUME UNCHANGED milestoneVars, registry' = registry PROVE Vaults!Next
  BY <1>2, <1>4
<1>5. CASE OrganizationStep
  BY <1>4, <1>5 DEF OrganizationStep, factoryVars
<1>6. CASE TreasuryStep
  BY <1>4, <1>6 DEF TreasuryStep, factoryVars
<1>7. CASE RegistryStep
  BY <1>4, <1>7 DEF RegistryStep, RegistryCall
<1>8. CASE PayrollStep
  BY <1>4, <1>8 DEF PayrollStep, PayrollCall, RunPayroll
<1>9. CASE UNCHANGED vars
  BY <1>4, <1>9 DEF vars, factoryVars
<1>10. QED BY <1>1, <1>3, <1>5, <1>6, <1>7, <1>8, <1>9 DEF Next

\* The vaults start empty.
LEMMA InitOnVaults == Init => Vaults!Init
<1> SUFFICES ASSUME Init PROVE Vaults!Init
  OBVIOUS
<1>1. Purse \in [Accounts -> Nat]
  BY ChainInvInit, PurseTyped
<1>2. \A v \in MilestoneId : ~Exists(v)
  BY MilestoneIdPairs DEF Init, MilestoneInit, Exists
<1>3. Vaulted = [v \in MilestoneId |-> 0] /\ Fates = [v \in MilestoneId |-> "none"]
  BY <1>2 DEF Vaulted, HeldFor, Fates, FateOf
<1>4. QED BY <1>1, <1>3 DEF Vaults!Init

\* milestone_engine implements EscrowVaults: although it pools the escrow of
\* every organization in one balance and tells them apart by counters, each
\* milestone's money goes whole and once to the contractor it was agreed with,
\* or back to the treasury it came from, whatever the other contracts do and
\* whoever the contractor is.
THEOREM EscrowIsVaults == Spec => ImplementsVaults
<1>1. QED
  BY InitOnVaults, StepOnVaults, ChainInvariant, PTL
     DEF Spec, ImplementsVaults, Vaults!Spec
=============================================================================
