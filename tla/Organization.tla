---------------------------- MODULE Organization ----------------------------
(***************************************************************************)
(* The organization contract: who holds which role, and the counter that   *)
(* protects the last Owner.  Soroban storage cannot enumerate the members, *)
(* so OwnerCount is maintained by hand in grant_role and revoke_role; the  *)
(* question this module answers is whether that counter can drift.         *)
(*                                                                         *)
(* One record of state per deployed instance, so the same actions serve    *)
(* the composition with the other contracts.  A call that returns an error *)
(* reverts and leaves every contract as it was: it is a disabled action.   *)
(***************************************************************************)
EXTENDS Roles, Integers, FiniteSets

CONSTANTS
    Orgs,       \* addresses at which organization instances may be deployed
    Users,      \* addresses that sign transactions and may hold roles
    Engines,    \* addresses the engine pointers may take
    Hashes      \* values of the metadata hash

ASSUME UsersAssumption == IsFiniteSet(Users)

VARIABLES
    deployed,       \* instances whose constructor has run
    roleOf,         \* MemberRole(Address), NoRole where the key is absent
    ownerCount,     \* OwnerCount
    engineOf,       \* PayrollEngine, MilestoneEngine and EmployeeRegistry
    metadataHash    \* MetadataHash

orgVars == <<deployed, roleOf, ownerCount, engineOf, metadataHash>>

EngineSlot == {"payroll_engine", "milestone_engine", "employee_registry"}

\* A storage key nobody has written yet.
Unset == "Unset"

Owners(o) == {u \in Users : roleOf[o][u] = "Owner"}

\* require_role, as the other contracts call it.
RequireRole(o, member, minimum) ==
    /\ o \in deployed
    /\ RoleSuffices(roleOf[o][member], minimum)

OrganizationTypeOK ==
    /\ deployed \subseteq Orgs
    /\ roleOf \in [Orgs -> [Users -> Role \cup {NoRole}]]
    /\ ownerCount \in [Orgs -> Nat]
    /\ engineOf \in [Orgs -> [EngineSlot -> Engines \cup {Unset}]]
    /\ metadataHash \in [Orgs -> Hashes \cup {Unset}]

OrganizationInit ==
    /\ deployed = {}
    /\ roleOf = [o \in Orgs |-> [u \in Users |-> NoRole]]
    /\ ownerCount = [o \in Orgs |-> 0]
    /\ engineOf = [o \in Orgs |-> [s \in EngineSlot |-> Unset]]
    /\ metadataHash = [o \in Orgs |-> Unset]

-----------------------------------------------------------------------------
(***************************************************************************)
(* Entry points.                                                           *)
(***************************************************************************)

\* __constructor, run once by the factory's deploy_v2.
Construct(o, owner, engines) ==
    /\ o \notin deployed
    /\ deployed' = deployed \cup {o}
    /\ roleOf' = [roleOf EXCEPT ![o][owner] = "Owner"]
    /\ ownerCount' = [ownerCount EXCEPT ![o] = 1]
    /\ engineOf' = [engineOf EXCEPT ![o] = engines]
    /\ UNCHANGED metadataHash

\* The counter after `member` goes from role `was` to role `becomes`.  Two
\* ways to get it wrong come first: a demotion that is not counted, and one
\* counted whoever is demoted.
CountAfter_NoDemotion(count, was, becomes) ==
    IF becomes = "Owner" /\ was # "Owner" THEN count + 1 ELSE count

CountAfter_AnyDemotion(count, was, becomes) ==
    CASE becomes = "Owner" /\ was # "Owner" -> count + 1
      [] becomes # "Owner" -> count - 1
      [] OTHER -> count

CountAfter(count, was, becomes) ==
    CASE becomes = "Owner" /\ was # "Owner" -> count + 1
      [] was = "Owner" /\ becomes # "Owner" -> count - 1
      [] OTHER -> count

\* The last-owner rule shared by a demotion and a revocation; first the rule
\* with the demotion forgotten.
MayLose_OnlyRevocation(o, member, becomes) ==
    roleOf[o][member] = "Owner" /\ becomes = NoRole => ownerCount[o] > 1

MayLose(o, member, becomes) ==
    roleOf[o][member] = "Owner" /\ becomes # "Owner" => ownerCount[o] > 1

GrantRole(o, caller, member, role) ==
    /\ RequireRole(o, caller, "Admin")
    /\ role = "Owner" => roleOf[o][caller] = "Owner"
    /\ MayLose(o, member, role)
    /\ ownerCount' = [ownerCount EXCEPT ![o] = CountAfter(@, roleOf[o][member], role)]
    /\ roleOf' = [roleOf EXCEPT ![o][member] = role]
    /\ UNCHANGED <<deployed, engineOf, metadataHash>>

RevokeRole(o, caller, member) ==
    /\ RequireRole(o, caller, "Admin")
    /\ roleOf[o][member] # NoRole
    /\ MayLose(o, member, NoRole)
    /\ ownerCount' = [ownerCount EXCEPT ![o] = CountAfter(@, roleOf[o][member], NoRole)]
    /\ roleOf' = [roleOf EXCEPT ![o][member] = NoRole]
    /\ UNCHANGED <<deployed, engineOf, metadataHash>>

\* set_payroll_engine, set_milestone_engine, set_employee_registry.  Nothing
\* in the contracts ever reads these pointers back.
SetEngine(o, caller, slot, address) ==
    /\ o \in deployed
    /\ roleOf[o][caller] = "Owner"
    /\ engineOf' = [engineOf EXCEPT ![o][slot] = address]
    /\ UNCHANGED <<deployed, roleOf, ownerCount, metadataHash>>

UpdateMetadataHash(o, caller, hash) ==
    /\ RequireRole(o, caller, "Admin")
    /\ metadataHash' = [metadataHash EXCEPT ![o] = hash]
    /\ UNCHANGED <<deployed, roleOf, ownerCount, engineOf>>

-----------------------------------------------------------------------------
MemberCall(o, caller) ==
    \/ \E member \in Users, role \in Role : GrantRole(o, caller, member, role)
    \/ \E member \in Users : RevokeRole(o, caller, member)
    \/ \E slot \in EngineSlot, e \in Engines : SetEngine(o, caller, slot, e)
    \/ \E h \in Hashes : UpdateMetadataHash(o, caller, h)

OrganizationNext ==
    \E o \in Orgs, caller \in Users :
        \/ \E engines \in [EngineSlot -> Engines] : Construct(o, caller, engines)
        \/ MemberCall(o, caller)

OrganizationSpec == OrganizationInit /\ [][OrganizationNext]_orgVars

-----------------------------------------------------------------------------
(***************************************************************************)
(* Properties.                                                             *)
(***************************************************************************)

\* The hand-maintained OwnerCount equals the number of members that hold
\* Owner, whatever the order of grants, demotions (self-demotion included)
\* and revocations: the number grant_role and revoke_role compare with 1.
OwnerCountExact ==
    \A o \in deployed : ownerCount[o] = Cardinality(Owners(o))

\* No sequence of grants and revocations leaves a deployed organization
\* without an Owner (E_CANNOT_REVOKE_LAST_OWNER).
NeverOwnerless == \A o \in deployed : Owners(o) # {}
=============================================================================
