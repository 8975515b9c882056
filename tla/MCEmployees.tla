---------------------------- MODULE MCEmployees ----------------------------
(***************************************************************************)
(* Two employees of one organization, registered one by one or in a file.  *)
(***************************************************************************)
EXTENDS EmployeesService, TLC

CONSTANTS o1, t1, u1, w1, w2, pe, me, e1

MCAccounts == {t1, me, w1, w2, u1}
MCTreasuryOf == [o \in Orgs |-> t1]
MCFactoryEngines == [s \in EngineSlot |-> e1]
MCEndowment == [a \in Accounts |-> 0]

\* Wallets and handlers are alike.
MCSymmetry == Permutations(Payees) \cup Permutations(Slots)
=============================================================================
