-------------------------- MODULE MCOrganizations --------------------------
(***************************************************************************)
(* Two users who may create two organizations, and each other's members.   *)
(***************************************************************************)
EXTENDS OrganizationsService, TLC

CONSTANTS o1, o2, t1, t2, u1, u2, pe, me, e1

MCAccounts == {t1, t2, u1, u2, me}
MCTreasuryOf == [o \in Orgs |-> IF o = o1 THEN t1 ELSE t2]
MCFactoryEngines == [s \in EngineSlot |-> e1]
MCEndowment == [a \in Accounts |-> 0]

\* Users, handlers and slugs are alike: nothing here depends on FactoryAdmin.
MCSymmetry == Permutations(Users) \cup Permutations(Slots) \cup Permutations(Slugs)
=============================================================================
