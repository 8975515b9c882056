--------------------------- MODULE PayrollFactory ---------------------------
(***************************************************************************)
(* The factory deploys an organization and its treasury in one call and    *)
(* keeps the registry the three engines resolve an org_id with.  Each      *)
(* engine copies the registry entry into a cache of its own on first use   *)
(* and never refreshes it, which is sound only as long as an entry, once   *)
(* written, never changes.                                                 *)
(***************************************************************************)
EXTENDS Treasury

CONSTANTS
    FactoryAdmin,       \* the admin given to initialize
    FactoryEngines      \* the engine addresses given to initialize

ASSUME FactoryAssumption ==
    /\ IsFiniteSet(Orgs)
    /\ FactoryEngines \in [EngineSlot -> Engines]
    /\ FactoryAdmin \in Users

VARIABLES
    initialized,    \* singletons whose initialize has run
    orgCount,       \* OrgCount
    registry,       \* OrgRegistry(org_id), for the ids written so far
    wasmHash,       \* OrgWasmHash and TreasuryWasmHash
    cached          \* each engine's own copy of the registry entries it resolved

factoryVars == <<initialized, orgCount, registry, wasmHash, cached>>

OrgId == 1 .. Cardinality(Orgs)
WasmTarget == {"organization", "treasury"}
\* The singletons that keep the factory's address and a cache of its records.
Engine == {"employee_registry", "payroll_engine", "milestone_engine"}
OrgRecord == [organization : Orgs, treasury : Accounts, owner : Users]

\* The storage map f with key k set to v.
Put(f, k, v) == [x \in DOMAIN f \cup {k} |-> IF x = k THEN v ELSE f[x]]

FactoryTypeOK ==
    /\ initialized \subseteq Engine \cup {"payroll_factory"}
    /\ orgCount \in 0 .. Cardinality(Orgs)
    /\ DOMAIN registry \subseteq OrgId
    /\ registry \in [DOMAIN registry -> OrgRecord]
    /\ wasmHash \in [WasmTarget -> Hashes \cup {Unset}]
    /\ DOMAIN cached = Engine
    /\ \A e \in Engine : /\ DOMAIN cached[e] \subseteq OrgId
                        /\ cached[e] \in [DOMAIN cached[e] -> OrgRecord]

FactoryInit ==
    /\ initialized = {}
    /\ orgCount = 0
    /\ registry = <<>>
    /\ wasmHash = [t \in WasmTarget |-> Unset]
    /\ cached = [e \in Engine |-> <<>>]

-----------------------------------------------------------------------------
(***************************************************************************)
(* Entry points.                                                           *)
(***************************************************************************)
InitializeFactory(hashes) ==
    /\ "payroll_factory" \notin initialized
    /\ initialized' = initialized \cup {"payroll_factory"}
    /\ wasmHash' = hashes
    /\ UNCHANGED <<orgCount, registry, cached, orgVars, treasuryVars>>

\* initialize of employee_registry, payroll_engine and milestone_engine.
InitializeEngine(e) ==
    /\ e \notin initialized
    /\ initialized' = initialized \cup {e}
    /\ UNCHANGED <<orgCount, registry, wasmHash, cached, orgVars, treasuryVars>>

\* A counter read but never written back: two organizations share an id.
NextOrgId_NotStored(count) == IF count = 0 THEN 1 ELSE count

\* The first organization gets id 0.
NextOrgId_FromZero(count) == count

NextOrgId(count) == count + 1

\* Both contracts and the registry entry, in one transaction.  The salt picks
\* the addresses o and TreasuryOf[o]; a salt used before fails to deploy.
CreateOrganization(owner, o) ==
    /\ "payroll_factory" \in initialized
    /\ LET id == NextOrgId(orgCount) IN
        /\ orgCount' = id
        /\ registry' = Put(registry, id,
               [organization |-> o, treasury |-> TreasuryOf[o], owner |-> owner])
    /\ ConstructTreasury(o)
    /\ Construct(o, owner, FactoryEngines)
    /\ UNCHANGED <<initialized, wasmHash, cached>>

UpdateWasmHash(target, hash) ==
    /\ "payroll_factory" \in initialized
    /\ wasmHash' = [wasmHash EXCEPT ![target] = hash]
    /\ UNCHANGED <<initialized, orgCount, registry, cached, orgVars, treasuryVars>>

\* resolve_org_record and resolve_organization_address: the cached copy when
\* there is one, else the factory's entry, which the call then caches.
Resolvable(e, id) == e \in initialized /\ id \in DOMAIN cached[e] \cup DOMAIN registry

Resolve(e, id) == IF id \in DOMAIN cached[e] THEN cached[e][id] ELSE registry[id]

CacheResolved(e, id) == cached' = [cached EXCEPT ![e] = Put(@, id, Resolve(e, id))]

-----------------------------------------------------------------------------
FactoryCall ==
    \/ \E hashes \in [WasmTarget -> Hashes] : InitializeFactory(hashes)
    \/ \E e \in Engine : InitializeEngine(e)
    \/ \E owner \in Users, o \in Orgs : CreateOrganization(owner, o)
    \/ \E target \in WasmTarget, h \in Hashes : UpdateWasmHash(target, h)
=============================================================================
