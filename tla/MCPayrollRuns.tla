--------------------------- MODULE MCPayrollRuns ---------------------------
(***************************************************************************)
(* One run of one organization on a small chain.                           *)
(***************************************************************************)
EXTENDS PayrollRuns, TLC

CONSTANTS o1, t1, u1, w1, pe, me, e1

MCAccounts == {t1, u1, w1, me}
MCTreasuryOf == [o \in Orgs |-> t1]
MCFactoryEngines == [s \in EngineSlot |-> e1]
MCWallet == [e \in 1 .. NumItems |-> w1]
MCAmount == [e \in 1 .. NumItems |-> 1]
\* What the run costs, which is enough to pay somebody twice on the way.
MCEndowment == [a \in Accounts |-> IF a = t1 THEN NumItems ELSE 0]

\* At most one other call interferes: a deactivation, or a withdrawal that
\* leaves the treasury short of the last item.
OneInterference ==
    Cardinality(Item \ ActiveEmployeeIds(TheOrg)) + balance[u1] <= 1

SlotSymmetry == Permutations(Slots)
=============================================================================
