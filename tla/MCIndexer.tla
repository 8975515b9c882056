----------------------------- MODULE MCIndexer -----------------------------
(***************************************************************************)
(* One deposit, then silence, and an RPC that forgets.                     *)
(***************************************************************************)
EXTENDS TreasuryService

CONSTANTS o1, t1, u1, w1, pe, me, e1

MCAccounts == {t1, u1, w1, me}
MCTreasuryOf == [o \in Orgs |-> t1]
MCFactoryEngines == [s \in EngineSlot |-> e1]
MCEndowment == [a \in Accounts |-> IF a = u1 THEN 2 ELSE 0]
=============================================================================
