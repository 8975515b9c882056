---------------------------- MODULE MCContracts ----------------------------
(***************************************************************************)
(* Small chains: a user and a treasury or two, wallets with and without a  *)
(* trustline, a few stroops.                                               *)
(***************************************************************************)
EXTENDS Contracts, TLC

CONSTANTS o1, o2, t1, t2, u1, u2, w1, w2, pe, me, e1

OneOrg == {o1}
TwoOrgs == {o1, o2}
MCAccounts == {TreasuryOf[o] : o \in Orgs} \cup Users \cup Payees \cup {me}
MCTreasuryOf == [o \in Orgs |-> IF o = o1 THEN t1 ELSE t2]
\* Everything starts with the first user.
MCEndowment == [a \in Accounts |-> IF a = u1 THEN 2 ELSE 0]
MCFactoryEngines == [s \in EngineSlot |-> e1]

\* In order, out of order, repeated, unknown and empty.
MCBatches == {<<>>, <<2, 1>>, <<1, 1>>, <<3, 1>>}
NoBatches == {}

NoMilestones == [id \in OrgId |-> 0]
TwoThenOne == [id \in OrgId |-> IF id = 1 THEN 2 ELSE 1]

\* The deployment script initializes the singletons before anybody uses them.
DeployedFirst == orgCount > 0 => initialized = Engine \cup {"payroll_factory"}

\* The metadata hash, which nothing reads, is varied by MCOrganization instead.
MetadataUntouched == metadataHash = [o \in Orgs |-> Unset]
=============================================================================
