----------------------------- MODULE Contracts -----------------------------
(***************************************************************************)
(* The six contracts on one chain.  Every step is one transaction: one     *)
(* entry point with all the contract calls it makes, applied whole or not  *)
(* at all.  Organizations share the two engines, the employee registry and *)
(* the factory; each has its own organization and treasury instance.       *)
(***************************************************************************)
EXTENDS PayrollEngine, MilestoneEngine

vars == <<orgVars, treasuryVars, factoryVars, employees, payrollVars, milestoneVars>>

TypeOK ==
    /\ OrganizationTypeOK /\ TreasuryTypeOK /\ FactoryTypeOK
    /\ RegistryTypeOK /\ PayrollTypeOK /\ MilestoneTypeOK

Init ==
    /\ OrganizationInit /\ TreasuryInit /\ FactoryInit
    /\ RegistryInit /\ PayrollInit /\ MilestoneInit

FactoryStep == FactoryCall /\ UNCHANGED <<employees, payrollVars, milestoneVars>>

OrganizationStep ==
    /\ \E o \in deployed, caller \in Users : MemberCall(o, caller)
    /\ UNCHANGED <<treasuryVars, factoryVars, employees, payrollVars, milestoneVars>>

TreasuryStep ==
    /\ \E o \in deployed, caller \in Users : TreasuryCall(o, caller)
    /\ UNCHANGED <<orgVars, factoryVars, employees, payrollVars, milestoneVars>>

RegistryStep ==
    /\ \E id \in OrgId, caller \in Users : RegistryCall(id, caller)
    /\ UNCHANGED <<payrollVars, milestoneVars>>

PayrollStep ==
    /\ \E id \in OrgId, caller \in Users : PayrollCall(id, caller)
    /\ UNCHANGED milestoneVars

MilestoneStep ==
    /\ \E id \in OrgId, caller \in Users : MilestoneCall(id, caller)
    /\ UNCHANGED <<employees, payrollVars>>

Next ==
    \/ FactoryStep \/ OrganizationStep \/ TreasuryStep
    \/ RegistryStep \/ PayrollStep \/ MilestoneStep

Spec == Init /\ [][Next]_vars

-----------------------------------------------------------------------------
(***************************************************************************)
(* The factory's registry and the copies of it.                            *)
(***************************************************************************)

\* An engine that resolved an org_id once keeps acting on the copy.  Every
\* copy is the factory's current entry, and no two ids lead to one treasury,
\* so an engine never charges an organization for another one's payroll.
CachesCurrent ==
    /\ \A e \in Engine : \A id \in DOMAIN cached[e] :
           id \in DOMAIN registry /\ cached[e][id] = registry[id]
    /\ \A o \in deployed : \E id \in DOMAIN registry : registry[id].organization = o
    /\ \A i, j \in DOMAIN registry : registry[i].treasury = registry[j].treasury => i = j

-----------------------------------------------------------------------------
(***************************************************************************)
(* Money.                                                                  *)
(***************************************************************************)
\* What the engine holds for a milestone, and for all those of organization id.
Held(record) == IF record.status \in {"Funded", "Approved"} THEN record.amount ELSE 0

Outstanding(id) == SumFunction([m \in DOMAIN milestones[id] |-> Held(milestones[id][m])])

\* The EscrowBalance counter an organization is accounted by equals the sum
\* of its milestones that still hold money.
EscrowMatchesMilestones == \A id \in OrgId : escrow[id] = Outstanding(id)

\* The engine's one token balance covers the escrow of all organizations
\* together, so no release or refund of one can fail for another's sake.
EscrowSolvent == balance[MilestoneEngine] >= SumFunction(escrow)

\* A treasury's balance is what its own events say plus the refunds that
\* cancel_milestone sends it past the treasury's entry points: the ledger an
\* observer rebuilds from events is complete only with both.
BalanceFromEvents ==
    \A id \in DOMAIN registry :
        LET o == registry[id].organization
        IN  balance[TreasuryOf[o]] = Endowment[TreasuryOf[o]] + booked[o] + refunded[id]

\* A run_id that was executed keeps its result for good: it is never paid
\* again, with the same batch or another.
RunsFinal ==
    [][\A id \in OrgId : \A run \in executedRun[id] :
           run \in executedRun'[id] /\ payrollResult'[id][run] = payrollResult[id][run]]_vars

\* In the step that executes a run, the treasury loses exactly what the result
\* reports as paid, and each wallet gains exactly what was reported for it.
PayrollPaysAsReported ==
    [][\A id \in OrgId : \A run \in executedRun'[id] \ executedRun[id] :
           LET result == payrollResult'[id][run]
               from   == TreasuryOf[registry[id].organization]
               paidTo(a) == PaidTotal([i \in DOMAIN result |->
                    IF /\ result[i].outcome = "paid"
                       /\ employees[id][result[i].employee].wallet = a
                    THEN result[i] ELSE [result[i] EXCEPT !.amount = 0]])
           IN  /\ balance'[from] = balance[from] - PaidTotal(result)
               /\ \A a \in Accounts \ {from} : balance'[a] = balance[a] + paidTo(a)]_vars

\* One bad item costs the others nothing: when the treasury can pay the whole
\* batch, every listed employee that is active and can receive is paid.
BatchItemsIndependent ==
    [][\A id \in OrgId : \A run \in executedRun'[id] \ executedRun[id] :
           LET result == payrollResult'[id][run]
               listed == [i \in DOMAIN result |->
                    IF result[i].employee \in ActiveEmployeeIds(id)
                    THEN employees[id][result[i].employee].salary ELSE 0]
           IN  SumFunction(listed) <= balance[TreasuryOf[registry[id].organization]]
               => \A i \in DOMAIN result :
                      /\ result[i].employee \in ActiveEmployeeIds(id)
                      /\ employees[id][result[i].employee].wallet \notin NoTrustline
                      => result[i].outcome = "paid"]_vars

-----------------------------------------------------------------------------
(***************************************************************************)
(* The pooled escrow implements one vault per milestone.                   *)
(***************************************************************************)
MilestoneId == UNION {{id} \X (1 .. MaxMilestones[id]) : id \in OrgId}

Exists(m) == m[2] \in DOMAIN milestones[m[1]]
RecordOf(m) == milestones[m[1]][m[2]]

FateOf(m) ==
    IF ~Exists(m) THEN "none"
    ELSE CASE RecordOf(m).status = "Draft"     -> "open"
           [] RecordOf(m).status = "Funded"    -> "held"
           [] RecordOf(m).status = "Approved"  -> "approved"
           [] RecordOf(m).status = "Released"  -> "paid"
           [] RecordOf(m).status = "Cancelled" -> "closed"

HeldFor(m) == IF Exists(m) THEN Held(RecordOf(m)) ELSE 0

TermsOf(m) ==
    IF ~Exists(m) THEN <<>>
    ELSE [payee |-> RecordOf(m).contractor, amount |-> RecordOf(m).amount,
          home |-> TreasuryOf[registry[m[1]].organization]]

\* The vaults are carved out of the engine's balance; the rest is its purse.
Purse == [a \in Accounts |->
              balance[a] - (IF a = MilestoneEngine THEN SumFunction(escrow) ELSE 0)]
Vaulted == [m \in MilestoneId |-> HeldFor(m)]
Fates == [m \in MilestoneId |-> FateOf(m)]
Terms == [m \in MilestoneId |-> TermsOf(m)]

Vaults == INSTANCE EscrowVaults WITH
    Milestones <- MilestoneId, purse <- Purse, vault <- Vaulted, fate <- Fates, terms <- Terms

\* milestone_engine implements EscrowVaults: although the engine pools all
\* escrow, each milestone's money goes whole and once to its contractor or
\* back to the treasury it came from, whatever the other calls do.
ImplementsVaults == Vaults!Spec
=============================================================================
