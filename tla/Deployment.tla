---------------------------- MODULE Deployment ----------------------------
(***************************************************************************)
(* The chain the backend services work with: the singletons initialized,   *)
(* one organization deployed as create_organization leaves it, its         *)
(* treasury funded.                                                        *)
(***************************************************************************)
EXTENDS PayrollFactory

CONSTANTS
    HomeOrg,        \* the organization the requests are about
    Founder         \* its Owner: the one role that may do it all

ASSUME DeploymentAssumption == Orgs = {HomeOrg} /\ Founder \in Users

TheOrg == 1         \* its org_id
Home == TreasuryOf[HomeOrg]

\* With `held` of its money in escrow; what is booked counts from here on.
DeployedInit(held) ==
    /\ deployed = {HomeOrg}
    /\ roleOf = [o \in Orgs |-> [u \in Users |-> IF u = Founder THEN "Owner" ELSE NoRole]]
    /\ ownerCount = [o \in Orgs |-> 1]
    /\ engineOf = [o \in Orgs |-> FactoryEngines]
    /\ metadataHash = [o \in Orgs |-> Unset]
    /\ balance = Moved(Endowment, Home, MilestoneEngine, held)
    /\ spenders = [o \in Orgs |-> {PayrollEngine, MilestoneEngine}]
    /\ booked = [o \in Orgs |-> Endowment[TreasuryOf[o]]]
    /\ initialized = Engine \cup {"payroll_factory"}
    /\ orgCount = 1
    /\ registry = <<[organization |-> HomeOrg, treasury |-> Home, owner |-> Founder]>>
    /\ wasmHash \in [WasmTarget -> Hashes]
    /\ cached = [e \in Engine |-> <<>>]
=============================================================================
