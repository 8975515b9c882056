---------------------------- MODULE MCMilestones ----------------------------
(***************************************************************************)
(* A few milestones of one organization on a small chain, with the indexer *)
(* watching the engine and the treasury.                                   *)
(***************************************************************************)
EXTENDS MilestonesService

CONSTANTS o1, t1, u1, w1, pe, me, e1

MCAccounts == {t1, u1, w1, me}
MCTreasuryOf == [o \in Orgs |-> t1]
MCFactoryEngines == [s \in EngineSlot |-> e1]
MCEndowment == [a \in Accounts |-> IF a = t1 THEN 1 ELSE 0]
MCMaxMilestones == [id \in OrgId |-> MaxIntents]
=============================================================================
