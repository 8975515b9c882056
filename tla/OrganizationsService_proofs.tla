-------------------- MODULE OrganizationsService_proofs --------------------
(***************************************************************************)
(* The rows the backend keeps of organizations and their members, against  *)
(* the chain, for any number of users, requests and intents.               *)
(*                                                                         *)
(* What a row says was true when the chain was asked, so the invariant     *)
(* has to carry the answer from the ledger to the row: through the intent, *)
(* the handler that waits for it and the handler that writes.  ServiceInv  *)
(* is what each of them knows.                                             *)
(***************************************************************************)
EXTENDS OrganizationsService, Contracts_proofs, Intents_proofs

\* What the contracts keep.
OnChainInv ==
    /\ OrganizationInv /\ RegistryInv /\ DeploymentInv
    /\ FactoryTypeOK /\ TreasuryTypeOK
    /\ \A o \in Orgs \ deployed, u \in Users : roleOf[o][u] = NoRole

OrganizationRow == [slug : Slugs, id : OrgId, organization : Orgs, treasury : Accounts]
MemberRow == [org : DOMAIN organizations, user : Users, role : Role \cup {NoRole}]

TablesInv ==
    /\ organizations \in Seq(OrganizationRow) /\ members \in Seq(MemberRow)
    /\ written \subseteq Succeeded

\* A call the service built: a founder founds as Owner, a change is one of a
\* member of an organization that has its row, and a revocation names the row
\* of the member it revokes.
SoundCall(call, signer) ==
    /\ call \in OrganizationOperation
    /\ call.op = "create" => call.user = signer /\ call.role = "Owner"
    /\ call.op # "create" =>
           /\ call.org \in DOMAIN organizations
           /\ call.at = organizations[call.org].organization
    /\ call.op = "grant" => call.role \in Role
    /\ call.op = "revoke" =>
           /\ call.role = NoRole
           /\ call.member \in DOMAIN members
           /\ members[call.member].org = call.org /\ members[call.member].user = call.user

\* A handler that builds holds a sound call, one that writes an intent seen to
\* have succeeded.
HandlerSound(p) ==
    /\ requests[p].pc \in {"idle", "build", "write"} \cup Submitting
    /\ requests[p].pc = "build" =>
           requests[p].signer \in Users /\ SoundCall(requests[p].call, requests[p].signer)
    /\ requests[p].pc = "write" =>
           requests[p].intent \in DOMAIN intents /\ Confirmed(requests[p].intent)

CallsSound ==
    /\ \A i \in DOMAIN intents : SoundCall(intents[i].call, intents[i].signer)
    /\ \A p \in Slots : HandlerSound(p)

\* The value of a creation is the id under which the registry has it; until it
\* has a row nobody but its founder is a member of it.
Recorded(id) == \E g \in DOMAIN organizations : organizations[g].id = id

FounderOnly(at, founder) ==
    roleOf[at] = [u \in Users |-> IF u = founder THEN "Owner" ELSE NoRole]

CreationsInv ==
    \A i \in Succeeded : intents[i].call.op = "create" =>
        /\ intents[i].value \in DOMAIN registry
        /\ registry[intents[i].value].organization = intents[i].call.at
        /\ ~Recorded(intents[i].value) => FounderOnly(intents[i].call.at, intents[i].signer)

\* Rows of different organizations, and of different members of one.
RowsDistinct ==
    /\ \A g, h \in DOMAIN organizations :
           \/ organizations[g].id = organizations[h].id
           \/ organizations[g].slug = organizations[h].slug
           => g = h
    /\ \A g \in DOMAIN organizations :
           /\ organizations[g].id \in DOMAIN registry
           /\ registry[organizations[g].id].organization = organizations[g].organization
    /\ \A j, k \in DOMAIN members :
           /\ members[j].role # NoRole /\ members[k].role # NoRole
           /\ members[j].org = members[k].org /\ members[j].user = members[k].user
           => j = k

\* Before the first change of a member the row says what the chain says; the
\* chain has what a change that is the only one gave, and so has the row once
\* it is written.
MemberTracked(g, user) ==
    LET onChain == roleOf[organizations[g].organization][user]
        changes == ChangesOf(g, user)
    IN  /\ changes = {} => MemberRole(g, user) = onChain
        /\ \A i \in changes : changes = {i} =>
               /\ onChain = intents[i].call.role
               /\ i \in written => MemberRole(g, user) = onChain

MembersTracked == \A g \in DOMAIN organizations, user \in Users : MemberTracked(g, user)

ServiceInv ==
    /\ OnChainInv /\ IntentsInv(OrganizationOperation, Users)
    /\ TablesInv /\ CallsSound /\ CreationsInv /\ RowsDistinct
    /\ RowsAreRegistered /\ RoleWasGranted /\ MembersTracked

-----------------------------------------------------------------------------
\* No organization, no row, no intent.
LEMMA ServiceInvInit == OrganizationsServiceInit => ServiceInv
<1> SUFFICES ASSUME OrganizationsServiceInit PROVE ServiceInv
  OBVIOUS
<1>1. /\ OrganizationInit /\ TreasuryInit /\ IntentsInit
      /\ initialized = Engine \cup {"payroll_factory"}
      /\ orgCount = 0 /\ registry = <<>> /\ wasmHash \in [WasmTarget -> Hashes]
      /\ cached = [e \in Engine |-> <<>>]
      /\ organizations = <<>> /\ members = <<>> /\ written = {}
  BY DEF OrganizationsServiceInit
<1>2. DOMAIN registry = {} /\ 1 .. 0 = {} /\ \A e \in Engine : DOMAIN cached[e] = {}
  BY <1>1
<1>3. OrganizationInv
  BY <1>1, InvInit
<1>4. deployed = {} /\ roleOf = [o \in Orgs |-> [u \in Users |-> NoRole]]
  BY <1>1 DEF OrganizationInit
<1>5. RegistryInv
  BY <1>1, <1>2, <1>4 DEF RegistryInv
<1>6. DeploymentInv
  BY <1>1, <1>4, FS_EmptySet DEF DeploymentInv
<1>7. FactoryTypeOK
  <2>1. registry \in [DOMAIN registry -> OrgRecord]
    BY <1>1
  <2>2. \A e \in Engine : cached[e] \in [DOMAIN cached[e] -> OrgRecord]
    BY <1>1
  <2>3. orgCount \in 0 .. Cardinality(Orgs)
    BY <1>1, OrgIdFinite
  <2>4. wasmHash \in [WasmTarget -> Hashes \cup {Unset}]
    BY <1>1
  <2>5. QED BY <1>1, <1>2, <2>1, <2>2, <2>3, <2>4 DEF FactoryTypeOK
<1>8. TreasuryTypeOK
  BY <1>1, AccountsAssumption DEF TreasuryInit, TreasuryTypeOK
<1>9. OnChainInv
  BY <1>3, <1>4, <1>5, <1>6, <1>7, <1>8 DEF OnChainInv
<1>10. IntentsInv(OrganizationOperation, Users)
  BY <1>1, IntentsInvInit
<1>11. DOMAIN organizations = {} /\ DOMAIN members = {} /\ DOMAIN intents = {}
       /\ Succeeded = {} /\ \A p \in Slots : requests[p].pc = "idle"
  BY <1>1 DEF IntentsInit, Idle, Succeeded
<1>12. TablesInv
  BY <1>1, <1>11 DEF TablesInv
<1>13. CallsSound
  BY <1>11 DEF CallsSound, HandlerSound
<1>14. QED BY <1>9, <1>10, <1>11, <1>12, <1>13 DEF ServiceInv, CreationsInv, RowsDistinct,
           RowsAreRegistered, RoleWasGranted, MembersTracked

-----------------------------------------------------------------------------
(***************************************************************************)
(* What carries over by itself.                                            *)
(***************************************************************************)
OutcomesKept ==
    /\ Succeeded' = Succeeded
    /\ \A i \in Succeeded : /\ intents'[i].call = intents[i].call
                            /\ intents'[i].signer = intents[i].signer
                            /\ intents'[i].value = intents[i].value

\* No row of a table moves or changes hands.
TablesGrow ==
    /\ DOMAIN organizations \subseteq DOMAIN organizations'
    /\ \A g \in DOMAIN organizations : organizations'[g] = organizations[g]
    /\ DOMAIN members \subseteq DOMAIN members'
    /\ \A k \in DOMAIN members : /\ members'[k].org = members[k].org
                                 /\ members'[k].user = members[k].user

\* What a row of each table is made of.
LEMMA RowsTyped ==
    ASSUME TablesInv
    PROVE  /\ \A g \in DOMAIN organizations :
                  /\ g \in Nat
                  /\ organizations[g].slug \in Slugs /\ organizations[g].id \in OrgId
                  /\ organizations[g].organization \in Orgs
           /\ \A k \in DOMAIN members :
                  /\ k \in Nat
                  /\ members[k] \in MemberRow /\ members[k].org \in DOMAIN organizations
                  /\ members[k].user \in Users /\ members[k].role \in Role \cup {NoRole}
<1>1. \A g \in DOMAIN organizations : g \in Nat /\ organizations[g] \in OrganizationRow
  BY DEF TablesInv
<1>2. \A k \in DOMAIN members : k \in Nat /\ members[k] \in MemberRow
  BY DEF TablesInv
<1>3. QED BY <1>1, <1>2 DEF OrganizationRow, MemberRow

\* Unless an intent is newly confirmed all outcomes are as they were.
LEMMA NoOutcomeKeepsOutcomes ==
    ASSUME IntentsKept, NoneConfirmed PROVE OutcomesKept
BY DEF IntentsKept, NoneConfirmed, OutcomesKept, Succeeded, Confirmed

\* A sound call stays sound while the tables only grow.
LEMMA SoundStays ==
    ASSUME TablesGrow, NEW call, NEW signer, SoundCall(call, signer)
    PROVE  SoundCall(call, signer)'
BY DEF TablesGrow, SoundCall

\* And so do all calls at once.
LEMMA CallsStaySound ==
    ASSUME CallsSound, TablesGrow, IntentsKept,
           \A i \in DOMAIN intents' \ DOMAIN intents :
               SoundCall(intents[i].call, intents[i].signer)',
           \A q \in Slots : requests'[q] = requests[q] \/ HandlerSound(q)'
    PROVE  CallsSound'
<1>1. ASSUME NEW i \in DOMAIN intents' PROVE SoundCall(intents[i].call, intents[i].signer)'
  <2>1. CASE i \in DOMAIN intents
    <3>1. SoundCall(intents[i].call, intents[i].signer)
      BY <2>1 DEF CallsSound
    <3>2. SoundCall(intents'[i].call, intents'[i].signer)
      BY <2>1, <3>1 DEF IntentsKept
    <3>3. QED BY <3>2, TablesGrow DEF SoundCall, TablesGrow
  <2>2. QED BY <2>1
<1>2. ASSUME NEW q \in Slots PROVE HandlerSound(q)'
  <2>1. CASE requests'[q] = requests[q]
    <3>1. HandlerSound(q)
      BY DEF CallsSound
    <3>2. requests[q].pc = "build" => SoundCall(requests[q].call, requests[q].signer)'
      <4>1. requests[q].pc = "build" => SoundCall(requests[q].call, requests[q].signer)
        BY <3>1 DEF HandlerSound
      <4>2. QED BY <2>1, <4>1 DEF SoundCall, TablesGrow
    <3>3. QED BY <2>1, <3>1, <3>2 DEF HandlerSound, IntentsKept
  <2>2. QED BY <1>2, <2>1
<1>3. QED BY <1>1, <1>2 DEF CallsSound

\* Where neither a table nor the chain nor an outcome changes, the rows are as
\* right as they were.
RowsInv ==
    /\ OnChainInv /\ TablesInv /\ CreationsInv /\ RowsDistinct
    /\ RowsAreRegistered /\ RoleWasGranted /\ MembersTracked

\* A step of the backend leaves the chain as it was.
LEMMA ChainUnchanged == OnChainInv /\ UNCHANGED chainVars => OnChainInv'
<1> SUFFICES ASSUME OnChainInv, UNCHANGED chainVars PROVE OnChainInv'
  OBVIOUS
<1>1. UNCHANGED <<deployed, roleOf, ownerCount, engineOf, metadataHash,
                  balance, spenders, booked, initialized, orgCount, registry, wasmHash, cached>>
  BY DEF chainVars, orgVars, treasuryVars, factoryVars
<1>2. OrganizationInv'
  BY <1>1 DEF OnChainInv, OrganizationInv, OrganizationTypeOK, OwnerCountExact, Owners
<1>3. RegistryInv' /\ DeploymentInv'
  BY <1>1 DEF OnChainInv, RegistryInv, DeploymentInv
<1>4. FactoryTypeOK' /\ TreasuryTypeOK'
  BY <1>1 DEF OnChainInv, FactoryTypeOK, TreasuryTypeOK
<1>5. QED BY <1>1, <1>2, <1>3, <1>4 DEF OnChainInv

\* What is said of rows stays true while rows and outcomes stay.
LEMMA RowsUnchanged ==
    ASSUME RowsInv, UNCHANGED <<chainVars, tables>>, OutcomesKept
    PROVE  RowsInv'
<1>1. UNCHANGED <<registry, roleOf, organizations, members, written>>
  BY DEF chainVars, orgVars, factoryVars, tables
<1>2. OnChainInv'
  BY ChainUnchanged DEF RowsInv
<1>3. TablesInv'
  BY <1>1 DEF RowsInv, TablesInv, MemberRow, OutcomesKept
<1>4. CreationsInv'
  BY <1>1 DEF RowsInv, CreationsInv, OutcomesKept, Recorded, FounderOnly
<1>5. RowsDistinct'
  BY <1>1 DEF RowsInv, RowsDistinct
<1>6. RowsAreRegistered'
  BY <1>1 DEF RowsInv, RowsAreRegistered, OutcomesKept
<1>7. MembersTracked'
  <2> SUFFICES ASSUME NEW g \in DOMAIN organizations, NEW user \in Users
               PROVE  MemberTracked(g, user)'
    BY <1>1 DEF MembersTracked
  <2>1. MemberTracked(g, user)
    BY DEF RowsInv, MembersTracked
  <2>2. ChangesOf(g, user)' = ChangesOf(g, user) /\ ChangesOf(g, user) \subseteq Succeeded
    BY DEF ChangesOf, OutcomesKept
  <2>3. MemberRole(g, user)' = MemberRole(g, user)
    BY <1>1 DEF MemberRole, Rows, MembersOf
  <2>4. QED BY <1>1, <2>1, <2>2, <2>3 DEF MemberTracked, OutcomesKept
<1>8. RoleWasGranted'
  BY <1>1 DEF RowsInv, RoleWasGranted, OutcomesKept, MembersOf
<1>9. QED BY <1>2, <1>3, <1>4, <1>5, <1>6, <1>7, <1>8 DEF RowsInv

-----------------------------------------------------------------------------
(***************************************************************************)
(* The calls.                                                              *)
(***************************************************************************)

\* create_organization makes its caller the one member of a new organization
\* under a new id.
LEMMA CreatePerformed ==
    ASSUME OnChainInv, NEW owner \in Users, NEW o \in Orgs, CreateOrganization(owner, o)
    PROVE  /\ OnChainInv'
           /\ \A id \in DOMAIN registry : id \in DOMAIN registry' /\ registry'[id] = registry[id]
           /\ o \notin deployed
           /\ orgCount' \in DOMAIN registry' \ DOMAIN registry
           /\ registry'[orgCount'].organization = o
           /\ \A p \in Orgs \ {o} : roleOf'[p] = roleOf[p]
           /\ FounderOnly(o, owner)'
<1>1. /\ OrganizationInv' /\ FactoryTypeOK' /\ TreasuryTypeOK' /\ DeploymentInv'
      /\ deployed' = deployed \cup {o}
      /\ DOMAIN registry \subseteq DOMAIN registry'
      /\ \A id \in DOMAIN registry : registry'[id] = registry[id]
      /\ \A id \in DOMAIN registry' \ DOMAIN registry : registry'[id].organization = o
  BY CreateTyped DEF OnChainInv
<1>2. RegistryInv'
  BY CreateKeepsInv DEF OnChainInv
<1>3. o \notin deployed /\ orgCount' = orgCount + 1
      /\ roleOf' = [roleOf EXCEPT ![o][owner] = "Owner"]
  BY DEF CreateOrganization, NextOrgId, Construct
<1>4. orgCount' \in DOMAIN registry' \ DOMAIN registry
  BY <1>2, <1>3 DEF OnChainInv, RegistryInv
<1>5. roleOf \in [Orgs -> [Users -> Role \cup {NoRole}]]
  BY DEF OnChainInv, OrganizationInv, OrganizationTypeOK
<1>6. /\ roleOf'[o] = [roleOf[o] EXCEPT ![owner] = "Owner"]
      /\ \A p \in Orgs \ {o} : roleOf'[p] = roleOf[p]
  BY <1>3, <1>5
<1>7. roleOf[o] \in [Users -> Role \cup {NoRole}] /\ \A u \in Users : roleOf[o][u] = NoRole
  BY <1>3, <1>5 DEF OnChainInv
<1>8. roleOf'[o] = [u \in Users |-> IF u = owner THEN "Owner" ELSE NoRole]
  BY <1>6, <1>7
<1>9. \A p \in Orgs \ deployed', u \in Users : roleOf'[p][u] = NoRole
  BY <1>1, <1>6 DEF OnChainInv
<1>10. OnChainInv'
  BY <1>1, <1>2, <1>9 DEF OnChainInv
<1>11. QED BY <1>1, <1>3, <1>4, <1>6, <1>8, <1>10 DEF FounderOnly

\* grant_role and revoke_role give one member of one organization one role.
LEMMA ChangePerformed ==
    ASSUME OnChainInv, NEW o \in Orgs, NEW caller \in Users, NEW user \in Users, NEW role,
           UNCHANGED <<treasuryVars, factoryVars>>,
           \/ role \in Role /\ GrantRole(o, caller, user, role)
           \/ role = NoRole /\ RevokeRole(o, caller, user)
    PROVE  /\ OnChainInv' /\ registry' = registry
           /\ o \in deployed
           /\ roleOf'[o][user] = role
           /\ \A p \in Orgs, u \in Users : p # o \/ u # user => roleOf'[p][u] = roleOf[p][u]
<1>1. MemberCall(o, caller)
  BY DEF MemberCall
<1>2. OrganizationInv'
  BY <1>1, MemberCallKeepsInv DEF OnChainInv
<1>3. /\ o \in deployed /\ UNCHANGED <<deployed, engineOf, metadataHash>>
      /\ roleOf' = [roleOf EXCEPT ![o][user] = role]
  BY DEF GrantRole, RevokeRole, RequireRole
<1>4. UNCHANGED <<initialized, orgCount, registry, wasmHash, cached, balance, spenders, booked>>
  BY DEF treasuryVars, factoryVars
<1>5. RegistryInv'
  BY <1>3, <1>4, RegistryUntouched DEF OnChainInv
<1>6. DeploymentInv' /\ FactoryTypeOK' /\ TreasuryTypeOK'
  BY <1>3, <1>4 DEF OnChainInv, DeploymentInv, FactoryTypeOK, TreasuryTypeOK
<1>7. roleOf \in [Orgs -> [Users -> Role \cup {NoRole}]]
  BY DEF OnChainInv, OrganizationInv, OrganizationTypeOK
<1>8. /\ roleOf'[o] = [roleOf[o] EXCEPT ![user] = role]
      /\ \A p \in Orgs \ {o} : roleOf'[p] = roleOf[p]
  BY <1>3, <1>7
<1>9. roleOf[o] \in [Users -> Role \cup {NoRole}]
  BY <1>7
<1>10. /\ roleOf'[o][user] = role
       /\ \A p \in Orgs, u \in Users : p # o \/ u # user => roleOf'[p][u] = roleOf[p][u]
  BY <1>8, <1>9
<1>11. \A p \in Orgs \ deployed', u \in Users : roleOf'[p][u] = NoRole
  BY <1>3, <1>10 DEF OnChainInv
<1>12. QED BY <1>2, <1>3, <1>4, <1>5, <1>6, <1>10, <1>11 DEF OnChainInv

-----------------------------------------------------------------------------
(***************************************************************************)
(* The handlers up to the outcome: no table changes.                       *)
(***************************************************************************)
LEMMA FoundingSound ==
    ASSUME NEW slug \in Slugs, NEW at \in Orgs, NEW user \in Users
    PROVE  SoundCall(Founding(slug, at, user), user)
BY DEF SoundCall, Founding, OrganizationOperation, Role, NoRole

\* An endpoint builds a change for an organization it has a row of.
LEMMA ChangeSound ==
    ASSUME TablesInv, NEW g \in DOMAIN organizations, NEW call \in Changes(g), NEW signer \in Users
    PROVE  SoundCall(call, signer)
<1>1. /\ organizations[g].slug \in Slugs /\ organizations[g].organization \in Orgs /\ g \in Nat
      /\ \A k \in MembersOf(g) : /\ k \in DOMAIN members /\ k \in Nat
                                  /\ members[k].org = g /\ members[k].user \in Users
  BY RowsTyped DEF MembersOf
<1>2. ASSUME NEW user \in Users, NEW role \in Role, NEW k \in Nat,
             call = Change("grant", g, user, role, k)
      PROVE  SoundCall(call, signer)
  BY <1>1, <1>2 DEF SoundCall, Change, OrganizationOperation
<1>3. ASSUME NEW k \in MembersOf(g), call = Change("revoke", g, members[k].user, NoRole, k)
      PROVE  SoundCall(call, signer)
  BY <1>1, <1>3 DEF SoundCall, Change, OrganizationOperation
<1>4. CASE call \in AddMember(g)
  <2>1. PICK user \in Users, role \in Granted : call = Change("grant", g, user, role, 0)
    BY <1>4 DEF AddMember
  <2>2. role \in Role /\ 0 \in Nat
    BY OrganizationsAssumption
  <2>3. QED BY <1>2, <2>1, <2>2
<1>5. CASE \E k \in MembersOf(g) : call \in UpdateMemberRole(g, k)
  <2>1. PICK k \in MembersOf(g), role \in Granted :
            call = Change("grant", g, members[k].user, role, k)
    BY <1>5 DEF UpdateMemberRole
  <2>2. role \in Role /\ k \in Nat /\ members[k].user \in Users
    BY <1>1, OrganizationsAssumption
  <2>3. QED BY <1>2, <2>1, <2>2
<1>6. CASE \E k \in MembersOf(g) : call \in RemoveMember(g, k)
  <2>1. PICK k \in MembersOf(g) : call = Change("revoke", g, members[k].user, NoRole, k)
    BY <1>6 DEF RemoveMember
  <2>2. QED BY <1>3, <2>1
<1>7. QED BY <1>4, <1>5, <1>6 DEF Changes

\* What these steps leave to show.
LEMMA NoTableStep ==
    ASSUME ServiceInv, IntentsInv(OrganizationOperation, Users)', IntentsKept, NoneConfirmed,
           UNCHANGED <<chainVars, tables>>,
           \A i \in DOMAIN intents' \ DOMAIN intents :
               SoundCall(intents[i].call, intents[i].signer)',
           \A q \in Slots : requests'[q] = requests[q] \/ HandlerSound(q)'
    PROVE  ServiceInv'
<1>1. OutcomesKept
  BY NoOutcomeKeepsOutcomes
<1>2. RowsInv
  BY DEF ServiceInv, RowsInv
<1>3. RowsInv'
  BY <1>1, <1>2, RowsUnchanged
<1>4. TablesGrow
  BY DEF tables, TablesGrow
<1>5. CallsSound'
  BY <1>4, CallsStaySound DEF ServiceInv
<1>6. QED BY <1>3, <1>5 DEF ServiceInv, RowsInv

\* A handler passes the guard and reads what it needs.
LEMMA ReadKeepsInv ==
    ASSUME ServiceInv, NEW p \in Slots, ReadForIntent(p) PROVE ServiceInv'
<1>1. /\ UNCHANGED <<intents, sequence, chainVars, tables>>
      /\ IntentsInv(OrganizationOperation, Users) /\ TablesInv
  BY DEF ReadForIntent, ServiceInv
<1>2. PICK user \in Users, call \in OrganizationOperation :
          /\ SoundCall(call, user)
          /\ Await(p, [pc |-> "build", signer |-> user, call |-> call])
  <2>1. PICK user \in Users :
            \/ \E slug \in Slugs :
                   /\ FreshAddresses # {}
                   /\ LET at == CHOOSE o \in FreshAddresses : TRUE
                      IN  Await(p, [pc |-> "build", signer |-> user,
                                    call |-> Founding(slug, at, user)])
            \/ \E g \in DOMAIN organizations : \E call \in Changes(g) :
                   Await(p, [pc |-> "build", signer |-> user, call |-> call])
    BY DEF ReadForIntent
  <2>2. CASE \E slug \in Slugs :
                 /\ FreshAddresses # {}
                 /\ LET at == CHOOSE o \in FreshAddresses : TRUE
                    IN  Await(p, [pc |-> "build", signer |-> user,
                                  call |-> Founding(slug, at, user)])
    <3>1. PICK slug \in Slugs, at \in FreshAddresses :
              Await(p, [pc |-> "build", signer |-> user, call |-> Founding(slug, at, user)])
      BY <2>2
    <3>2. at \in Orgs
      BY DEF FreshAddresses
    <3>3. QED BY <3>1, <3>2, FoundingSound DEF SoundCall
  <2>3. CASE \E g \in DOMAIN organizations : \E call \in Changes(g) :
                 Await(p, [pc |-> "build", signer |-> user, call |-> call])
    BY <1>1, <2>3, ChangeSound DEF SoundCall
  <2>4. QED BY <2>1, <2>2, <2>3
<1> DEFINE r == [pc |-> "build", signer |-> user, call |-> call]
<1>3. r.pc = "build" /\ r.signer = user /\ r.call = call
  OBVIOUS
<1> HIDE DEF r
<1>4. /\ IntentsInv(OrganizationOperation, Users)' /\ IntentsKept /\ NoneConfirmed
      /\ requests'[p] = r /\ \A q \in Slots \ {p} : requests'[q] = requests[q]
  BY <1>1, <1>2, <1>3, AwaitKeepsIntents DEF Submitting, r
<1>5. SoundCall(call, user)'
  BY <1>1, <1>2, SoundStays DEF TablesGrow, tables
<1>6. HandlerSound(p)'
  BY <1>3, <1>4, <1>5 DEF HandlerSound, SoundCall
<1>7. QED BY <1>1, <1>4, <1>6, NoTableStep

\* The intent is built and kept.
LEMMA BuildKeepsInv ==
    ASSUME ServiceInv, NEW p \in Slots, BuildIntent(p) PROVE ServiceInv'
<1>1. /\ UNCHANGED <<chainVars, tables>> /\ At(p, "build") /\ Answer(p)
      /\ IntentsInv(OrganizationOperation, Users)
      /\ \/ Create(requests[p].call, requests[p].signer)
         \/ UNCHANGED <<intents, sequence>>
  BY DEF BuildIntent, ServiceInv
<1>2. requests[p].signer \in Users /\ SoundCall(requests[p].call, requests[p].signer)
  BY <1>1 DEF ServiceInv, CallsSound, HandlerSound, At
<1>3. PICK call, signer : call = requests[p].call /\ signer = requests[p].signer
  BY <1>2
<1>4. call \in OrganizationOperation /\ signer \in Users /\ SoundCall(call, signer)'
  <2>1. TablesGrow /\ SoundCall(call, signer)
    BY <1>1, <1>2, <1>3 DEF TablesGrow, tables
  <2>2. QED BY <1>2, <1>3, <2>1, SoundStays DEF SoundCall
<1>5. /\ requests' = [requests EXCEPT ![p] = Idle] /\ DOMAIN requests = Slots
  BY <1>1 DEF Answer, Await, IntentsInv
<1>6. HandlerSound(p)' /\ \A q \in Slots \ {p} : requests'[q] = requests[q]
  BY <1>5 DEF HandlerSound, Idle
<1>7. CASE Create(call, signer)
  <2>1. IntentsInv(OrganizationOperation, Users)' /\ IntentsKept /\ NoneConfirmed
    BY <1>1, <1>4, <1>7, CreateKeepsIntents
  <2>2. /\ DOMAIN intents' = DOMAIN intents \cup {Len(intents) + 1}
        /\ intents'[Len(intents) + 1].call = call /\ intents'[Len(intents) + 1].signer = signer
    BY <1>1, <1>4, <1>7, CreateAppends
  <2>3. \A i \in DOMAIN intents' \ DOMAIN intents :
            SoundCall(intents[i].call, intents[i].signer)'
    BY <1>4, <2>2 DEF SoundCall
  <2>4. QED BY <1>1, <1>6, <2>1, <2>3, NoTableStep
<1>8. CASE UNCHANGED <<intents, sequence>>
  <2>1. Await(p, Idle) /\ Idle.pc \notin Submitting
    BY <1>1 DEF Answer, Idle, Submitting
  <2>2. IntentsInv(OrganizationOperation, Users)' /\ IntentsKept /\ NoneConfirmed
    BY <1>1, <1>8, <2>1, AwaitKeepsIntents
  <2>3. QED BY <1>1, <1>6, <1>8, <2>2, NoTableStep
<1>9. QED BY <1>1, <1>3, <1>7, <1>8

\* The submit endpoints send what was built.
LEMMA SubmitKeepsInv ==
    ASSUME ServiceInv, NEW p \in Slots, SubmitStep(p), UNCHANGED <<chainVars, tables>>
    PROVE  ServiceInv'
<1>1. IntentsInv(OrganizationOperation, Users)
  BY DEF ServiceInv
<1>2. /\ IntentsInv(OrganizationOperation, Users)' /\ IntentsKept /\ NoneConfirmed
      /\ DOMAIN intents' = DOMAIN intents
      /\ requests'[p].pc \in {"idle"} \cup Submitting
      /\ \A q \in Slots \ {p} : requests'[q] = requests[q]
  BY <1>1, SubmitKeepsIntents
<1>3. HandlerSound(p)'
  BY <1>2 DEF HandlerSound, Submitting
<1>4. QED BY <1>2, <1>3, NoTableStep

\* Polling ends with the outcome of the transaction, or without one.
LEMMA WaitKeepsInv ==
    ASSUME ServiceInv, NEW p \in Slots, WaitForOutcome(p) PROVE ServiceInv'
<1>1. /\ UNCHANGED <<intents, sequence, chainVars, tables>> /\ requests[p].pc = "wait"
      /\ IntentsInv(OrganizationOperation, Users)
  BY DEF WaitForOutcome, ServiceInv, At
<1>2. requests[p] \in SubmitState
  BY <1>1 DEF IntentsInv, Submitting
<1>3. PICK i \in DOMAIN intents :
          i = requests[p].intent /\ requests[p] = [pc |-> "wait", intent |-> i]
  BY <1>1, <1>2 DEF SubmitState
<1>4. \/ Await(p, Idle)
      \/ Confirmed(i) /\ Await(p, [pc |-> "write", intent |-> i])
  BY <1>3 DEF WaitForOutcome, Answer
<1>5. PICK r : /\ Await(p, r)
               /\ r = Idle \/ (Confirmed(i) /\ r = [pc |-> "write", intent |-> i])
  BY <1>4
<1>6. r.pc \notin Submitting
  BY <1>5 DEF Idle, Submitting
<1>7. /\ IntentsInv(OrganizationOperation, Users)' /\ IntentsKept /\ NoneConfirmed
      /\ requests'[p] = r /\ \A q \in Slots \ {p} : requests'[q] = requests[q]
  BY <1>1, <1>5, <1>6, AwaitKeepsIntents
<1>8. HandlerSound(p)'
  BY <1>1, <1>5, <1>7 DEF HandlerSound, Idle, Confirmed
<1>9. QED BY <1>1, <1>7, <1>8, NoTableStep

-----------------------------------------------------------------------------
(***************************************************************************)
(* The handlers that write.                                                *)
(***************************************************************************)
LEMMA WriterKnows ==
    ASSUME ServiceInv, NEW p \in Slots, At(p, "write")
    PROVE  LET i == requests[p].intent
           IN  /\ i \in Succeeded /\ i \in DOMAIN intents
               /\ SoundCall(intents[i].call, intents[i].signer) /\ intents[i].signer \in Users
<1> DEFINE i == requests[p].intent
<1>1. i \in DOMAIN intents /\ Confirmed(i)
  BY DEF ServiceInv, CallsSound, HandlerSound, At
<1>2. SoundCall(intents[i].call, intents[i].signer)
  BY <1>1 DEF ServiceInv, CallsSound
<1>3. intents[i] \in Intent(OrganizationOperation, Users)
  BY <1>1, IntentTyped DEF ServiceInv
<1>4. intents[i].signer \in Users
  BY <1>3 DEF Intent
<1>5. QED BY <1>1, <1>2, <1>4 DEF Succeeded, Confirmed

\* What the writes leave to show.
LEMMA TableStep ==
    ASSUME ServiceInv, NEW p \in Slots, Answer(p), UNCHANGED <<intents, sequence, chainVars>>,
           TablesGrow, TablesInv', CreationsInv', RowsDistinct',
           RowsAreRegistered', RoleWasGranted', MembersTracked'
    PROVE  ServiceInv'
<1>1. OnChainInv'
  BY ChainUnchanged DEF ServiceInv
<1>2. Await(p, Idle) /\ Idle.pc \notin Submitting /\ IntentsInv(OrganizationOperation, Users)
  BY DEF Answer, Idle, Submitting, ServiceInv
<1>3. /\ IntentsInv(OrganizationOperation, Users)' /\ IntentsKept
      /\ requests'[p] = Idle /\ \A q \in Slots \ {p} : requests'[q] = requests[q]
  BY <1>2, AwaitKeepsIntents
<1>4. HandlerSound(p)'
  BY <1>3 DEF HandlerSound, Idle
<1>5. CallsSound'
  BY <1>3, <1>4, CallsStaySound DEF ServiceInv
<1>6. QED BY <1>1, <1>3, <1>5 DEF ServiceInv

\* The row of a new organization and that of its founder.
LEMMA RowAppended ==
    ASSUME TablesInv, NEW row \in OrganizationRow, NEW user \in Users,
           organizations' = Append(organizations, row),
           members' = Append(members,
               [org |-> Len(organizations) + 1, user |-> user, role |-> "Owner"])
    PROVE  LET n == Len(organizations) + 1
               k == Len(members) + 1
           IN  /\ organizations' \in Seq(OrganizationRow)
               /\ members' \in Seq(MemberRow)' /\ TablesGrow
               /\ n \notin DOMAIN organizations /\ k \notin DOMAIN members
               /\ DOMAIN organizations' = DOMAIN organizations \cup {n} /\ organizations'[n] = row
               /\ DOMAIN members' = DOMAIN members \cup {k}
               /\ \A j \in DOMAIN members : members'[j] = members[j]
               /\ members'[k].org = n /\ members'[k].user = user /\ members'[k].role = "Owner"
<1> DEFINE n == Len(organizations) + 1
           k == Len(members) + 1
           first == [org |-> n, user |-> user, role |-> "Owner"]
<1>1. organizations \in Seq(OrganizationRow) /\ members \in Seq(MemberRow)
  BY DEF TablesInv
<1>2. /\ organizations' \in Seq(OrganizationRow) /\ n \notin DOMAIN organizations
      /\ DOMAIN organizations' = DOMAIN organizations \cup {n} /\ organizations'[n] = row
      /\ \A g \in DOMAIN organizations : organizations'[g] = organizations[g]
  BY <1>1
<1>3. MemberRow \subseteq MemberRow'
  BY <1>2 DEF MemberRow
<1>4. first \in MemberRow' /\ first.org = n /\ first.user = user /\ first.role = "Owner"
  BY <1>2 DEF MemberRow, Role
<1> HIDE DEF n, first
<1>5. PICK R : R = MemberRow'
  OBVIOUS
<1>6. members \in Seq(R) /\ first \in R /\ members' = Append(members, first)
  BY <1>1, <1>3, <1>4, <1>5 DEF first, n
<1>7. /\ members' \in Seq(R) /\ k \notin DOMAIN members
      /\ DOMAIN members' = DOMAIN members \cup {k} /\ members'[k] = first
      /\ \A j \in DOMAIN members : members'[j] = members[j]
  BY <1>6
<1>8. TablesGrow
  BY <1>2, <1>7 DEF TablesGrow
<1> HIDE DEF k
<1>9. QED BY <1>2, <1>4, <1>5, <1>7, <1>8 DEF n, k

\* Whoever else there is keeps the row and the role.
LEMMA SameMemberRole ==
    ASSUME NEW g, NEW user, Rows(g, user)' = Rows(g, user),
           \A k \in Rows(g, user) : members'[k].role = members[k].role
    PROVE  MemberRole(g, user)' = MemberRole(g, user)
<1>1. CASE Rows(g, user) = {}
  BY <1>1 DEF MemberRole
<1>2. CASE Rows(g, user) # {}
  <2>1. (CHOOSE k \in Rows(g, user) : TRUE) \in Rows(g, user)
    BY <1>2
  <2>2. QED BY <1>2, <2>1 DEF MemberRole
<1>3. QED BY <1>1, <1>2

\* The one row of a member gives the role of the member.
LEMMA OneRowRole ==
    ASSUME NEW g, NEW user, NEW k, Rows(g, user) = {k}
    PROVE  MemberRole(g, user) = members[k].role
BY DEF MemberRole

\* A confirmed creation becomes a row, unless the slug was taken meanwhile.
LEMMA WriteOrganizationKeepsInv ==
    ASSUME ServiceInv, NEW p \in Slots, WriteOrganization(p) PROVE ServiceInv'
<1>0. At(p, "write") /\ UNCHANGED <<intents, sequence, chainVars>> /\ Answer(p)
  BY DEF WriteOrganization
<1>1. PICK i \in Succeeded : i = requests[p].intent /\ SoundCall(intents[i].call, intents[i].signer)
                              /\ intents[i].signer \in Users /\ i \in DOMAIN intents
  BY <1>0, WriterKnows
<1>2. UNCHANGED <<registry, roleOf>> /\ Succeeded' = Succeeded
  BY <1>0 DEF chainVars, orgVars, factoryVars, Succeeded
<1>3. CASE UNCHANGED tables
  <2>1. RowsInv /\ OutcomesKept
    BY <1>0, <1>2 DEF ServiceInv, RowsInv, OutcomesKept
  <2>2. RowsInv'
    BY <1>0, <1>3, <2>1, RowsUnchanged
  <2>3. TablesGrow
    BY <1>3 DEF tables, TablesGrow
  <2>4. QED BY <1>0, <2>2, <2>3, TableStep DEF RowsInv
<1> DEFINE id == intents[i].value
           row == [slug |-> intents[i].call.slug, id |-> id,
                   organization |-> registry[id].organization, treasury |-> registry[id].treasury]
           n == Len(organizations) + 1
           k == Len(members) + 1
<1>4. CASE ~UNCHANGED tables
  <2>1. /\ intents[i].call.op = "create"
        /\ id \in DOMAIN registry /\ ~SlugExists(intents[i].call.slug)
        /\ \A g \in DOMAIN organizations : organizations[g].id # id
        /\ organizations' = Append(organizations, row)
        /\ members' = Append(members,
               [org |-> Len(organizations) + 1, user |-> intents[i].signer, role |-> "Owner"])
        /\ written' = written \cup {i}
    BY <1>1, <1>4 DEF WriteOrganization, ConfirmedOrgId
  <2>2. /\ registry[id].organization = intents[i].call.at
        /\ FounderOnly(intents[i].call.at, intents[i].signer)
        /\ intents[i].call.user = intents[i].signer /\ intents[i].call.role = "Owner"
        /\ intents[i].call.slug \in Slugs
    BY <1>1, <2>1 DEF ServiceInv, CreationsInv, Recorded, SoundCall, OrganizationOperation
  <2>3. registry[id] \in OrgRecord /\ id \in OrgId
    BY <2>1 DEF ServiceInv, OnChainInv, FactoryTypeOK
  <2>4. row \in OrganizationRow
    BY <2>2, <2>3 DEF OrganizationRow, OrgRecord
  <2>5. /\ row.id = id /\ row.slug = intents[i].call.slug
        /\ row.organization = registry[id].organization /\ row.treasury = registry[id].treasury
    OBVIOUS
  <2> HIDE DEF row
  <2>6. TablesInv
    BY DEF ServiceInv
  <2>7. /\ organizations' \in Seq(OrganizationRow) /\ members' \in Seq(MemberRow)' /\ TablesGrow
        /\ n \notin DOMAIN organizations /\ k \notin DOMAIN members
        /\ DOMAIN organizations' = DOMAIN organizations \cup {n} /\ organizations'[n] = row
        /\ DOMAIN members' = DOMAIN members \cup {k}
        /\ \A j \in DOMAIN members : members'[j] = members[j]
        /\ members'[k].org = n /\ members'[k].user = intents[i].signer
        /\ members'[k].role = "Owner"
    BY <1>1, <2>1, <2>4, <2>6, RowAppended
  <2>8. PICK new, key : new = n /\ key = k
    OBVIOUS
  <2> HIDE DEF n, k, id
  <2>9. \A g \in DOMAIN organizations : organizations'[g] = organizations[g]
    BY <2>7 DEF TablesGrow
  <2>10. \A j \in DOMAIN members : members[j].org \in DOMAIN organizations
    BY <2>6, RowsTyped
  <2>11. TablesInv'
    BY <1>1, <1>2, <2>1, <2>6, <2>7 DEF TablesInv, OrganizationRow
  <2>12. CreationsInv'
    <3>1. ASSUME NEW v, ~Recorded(v)' PROVE ~Recorded(v)
      BY <2>7, <2>9, <3>1 DEF Recorded
    <3>2. QED BY <1>0, <1>2, <3>1 DEF ServiceInv, CreationsInv, FounderOnly
  <2>13. RowsDistinct'
    <3>1. ASSUME NEW g \in DOMAIN organizations', NEW h \in DOMAIN organizations',
                 \/ organizations'[g].id = organizations'[h].id
                 \/ organizations'[g].slug = organizations'[h].slug
          PROVE  g = h
      <4>1. \A f \in DOMAIN organizations :
                organizations[f].id # row.id /\ organizations[f].slug # row.slug
        BY <2>1, <2>5 DEF SlugExists
      <4>2. QED BY <2>7, <2>9, <3>1, <4>1 DEF ServiceInv, RowsDistinct
    <3>2. ASSUME NEW g \in DOMAIN organizations'
          PROVE  /\ organizations'[g].id \in DOMAIN registry'
                 /\ registry'[organizations'[g].id].organization = organizations'[g].organization
      BY <1>2, <2>1, <2>5, <2>7, <2>9 DEF ServiceInv, RowsDistinct
    <3>3. ASSUME NEW j \in DOMAIN members', NEW l \in DOMAIN members',
                 members'[j].role # NoRole, members'[l].role # NoRole,
                 members'[j].org = members'[l].org, members'[j].user = members'[l].user
          PROVE  j = l
      BY <2>7, <2>10, <3>3 DEF ServiceInv, RowsDistinct
    <3>4. QED BY <3>1, <3>2, <3>3 DEF RowsDistinct
  <2>14. RowsAreRegistered'
    <3> SUFFICES ASSUME NEW g \in DOMAIN organizations'
                 PROVE  /\ organizations'[g].id \in DOMAIN registry'
                        /\ registry'[organizations'[g].id].treasury = organizations'[g].treasury
                        /\ \E j \in Succeeded' :
                               /\ intents'[j].call.slug = organizations'[g].slug
                               /\ intents'[j].call.at = organizations'[g].organization
                        /\ \A h \in DOMAIN organizations' \ {g} :
                               /\ organizations'[h].id # organizations'[g].id
                               /\ organizations'[h].slug # organizations'[g].slug
      BY DEF RowsAreRegistered
    <3>1. \A h \in DOMAIN organizations' \ {g} :
              /\ organizations'[h].id # organizations'[g].id
              /\ organizations'[h].slug # organizations'[g].slug
      BY <2>13 DEF RowsDistinct
    <3>2. CASE g \in DOMAIN organizations
      BY <1>0, <1>2, <2>9, <3>1, <3>2 DEF ServiceInv, RowsAreRegistered
    <3>3. CASE g = n
      <4>1. organizations'[g] = row /\ id \in DOMAIN registry'
        BY <1>2, <2>1, <2>7, <3>3
      <4>2. registry'[organizations'[g].id].treasury = organizations'[g].treasury
        BY <1>2, <2>5, <4>1
      <4>3. /\ i \in Succeeded' /\ intents'[i].call.slug = organizations'[g].slug
            /\ intents'[i].call.at = organizations'[g].organization
        BY <1>0, <1>2, <2>2, <2>5, <4>1
      <4>4. organizations'[g].id \in DOMAIN registry'
        BY <2>5, <4>1
      <4>5. QED BY <3>1, <4>2, <4>3, <4>4
    <3>4. QED BY <2>7, <3>2, <3>3
  <2>15. RoleWasGranted'
    <3> SUFFICES ASSUME NEW g \in DOMAIN organizations', NEW j \in DOMAIN members',
                        members'[j].org = g, members'[j].role # NoRole
                 PROVE  \E l \in Succeeded' :
                            /\ intents'[l].call.at = organizations'[g].organization
                            /\ intents'[l].call.user = members'[j].user
                            /\ intents'[l].call.role = members'[j].role
      BY DEF RoleWasGranted, MembersOf
    <3>1. CASE j \in DOMAIN members
      <4>1. members'[j] = members[j] /\ g \in DOMAIN organizations
        BY <2>7, <2>10, <3>1
      <4>2. j \in MembersOf(g)
        BY <3>1, <4>1 DEF MembersOf
      <4>3. QED BY <1>0, <1>2, <2>9, <4>1, <4>2 DEF ServiceInv, RoleWasGranted
    <3>2. CASE j = k
      BY <1>0, <1>1, <1>2, <2>2, <2>5, <2>7, <3>2
    <3>3. QED BY <2>7, <3>1, <3>2
  <2>16. MembersTracked'
    <3> SUFFICES ASSUME NEW g \in DOMAIN organizations', NEW user \in Users
                 PROVE  MemberTracked(g, user)'
      BY DEF MembersTracked
    <3>1. ChangesOf(g, user)' = ChangesOf(g, user)
      BY <1>0, <1>2 DEF ChangesOf
    <3>2. CASE g \in DOMAIN organizations
      <4>1. Rows(g, user)' = Rows(g, user)
        BY <2>7, <2>8, <3>2 DEF Rows, MembersOf
      <4>2. MemberRole(g, user)' = MemberRole(g, user)
        BY <2>7, <4>1, SameMemberRole DEF Rows, MembersOf
      <4>3. MemberTracked(g, user) /\ i \notin ChangesOf(g, user)
        BY <2>1, <3>2 DEF ServiceInv, MembersTracked, ChangesOf
      <4>4. QED BY <1>0, <1>2, <2>1, <2>9, <3>1, <3>2, <4>2, <4>3 DEF MemberTracked
    <3>3. CASE g = n
      <4>1. ChangesOf(g, user) = {}
        BY <2>7, <3>3 DEF ChangesOf, Succeeded, ServiceInv, CallsSound, SoundCall
      <4>2. roleOf'[organizations'[g].organization] =
                [u \in Users |-> IF u = intents[i].signer THEN "Owner" ELSE NoRole]
        BY <1>2, <2>2, <2>5, <2>7, <3>3 DEF FounderOnly
      <4>3. \A j \in DOMAIN members' : members'[j].org = n => j = k
        BY <2>7, <2>10
      <4>4. CASE user = intents[i].signer
        <5>1. Rows(g, user)' = {k}
          BY <2>7, <3>3, <4>3, <4>4 DEF Rows, MembersOf, NoRole
        <5>2. MemberRole(g, user)' = members'[k].role
          BY <5>1 DEF MemberRole
        <5>3. QED BY <2>7, <3>1, <4>1, <4>2, <4>4, <5>2 DEF MemberTracked
      <4>5. CASE user # intents[i].signer
        <5>1. Rows(g, user)' = {}
          BY <2>7, <3>3, <4>3, <4>5 DEF Rows, MembersOf
        <5>2. MemberRole(g, user)' = NoRole
          BY <5>1 DEF MemberRole
        <5>3. QED BY <3>1, <4>1, <4>2, <4>5, <5>2 DEF MemberTracked
      <4>6. QED BY <4>4, <4>5
    <3>4. QED BY <2>7, <3>2, <3>3
  <2>17. QED BY <1>0, <2>7, <2>11, <2>12, <2>13, <2>14, <2>15, <2>16, TableStep
<1>5. QED BY <1>3, <1>4

\* One member has one role in the table after the write, and nobody else's row
\* is another.
MemberWritten(g, user, role) ==
    LET is(k) == members'[k].org = g /\ members'[k].user = user
        has(k) == members'[k].role # NoRole
    IN  /\ members' \in Seq(MemberRow) /\ TablesGrow
        /\ \A k \in DOMAIN members' : \/ k \in DOMAIN members /\ members'[k] = members[k]
                                      \/ is(k) /\ members'[k].role = role
        /\ \A j, k \in DOMAIN members' : is(j) /\ has(j) /\ is(k) /\ has(k) => j = k
        /\ \A k \in DOMAIN members' : is(k) /\ has(k) => members'[k].role = role
        /\ role # NoRole => \E k \in DOMAIN members' : is(k) /\ members'[k].role = role

\* An upsert gives the member the role it writes.
LEMMA GrantWritten ==
    ASSUME TablesInv, RowsDistinct, UNCHANGED organizations,
           NEW g \in DOMAIN organizations, NEW user \in Users, NEW role \in Role,
           members' = UpsertMember(g, user, role)
    PROVE  MemberWritten(g, user, role)
<1>1. members \in Seq(MemberRow) /\ role # NoRole
  BY DEF TablesInv, Role, NoRole
<1>2. \A j, k \in Rows(g, user) : j = k
  BY DEF RowsDistinct, Rows, MembersOf
<1>3. Rows(g, user) = {k \in DOMAIN members : /\ members[k].org = g /\ members[k].user = user
                                              /\ members[k].role # NoRole}
  BY DEF Rows, MembersOf
<1>4. CASE Rows(g, user) # {}
  <2>1. members' = [k \in DOMAIN members |-> IF k \in Rows(g, user)
                       THEN [members[k] EXCEPT !.role = role] ELSE members[k]]
    BY <1>4 DEF UpsertMember
  <2>2. \A k \in DOMAIN members : members[k] \in MemberRow
    BY <1>1
  <2>3. DOMAIN members' = DOMAIN members
        /\ \A k \in DOMAIN members :
               /\ k \notin Rows(g, user) => members'[k] = members[k]
               /\ k \in Rows(g, user) => members'[k] = [members[k] EXCEPT !.role = role]
    BY <2>1
  <2>4. \A k \in DOMAIN members :
            /\ [members[k] EXCEPT !.role = role] \in MemberRow
            /\ [members[k] EXCEPT !.role = role].org = members[k].org
            /\ [members[k] EXCEPT !.role = role].user = members[k].user
            /\ [members[k] EXCEPT !.role = role].role = role
    BY <2>2 DEF MemberRow
  <2>5. members' \in Seq(MemberRow)
    <3>1. \A k \in DOMAIN members : members'[k] \in MemberRow
      BY <2>2, <2>3, <2>4
    <3>2. PICK n \in Nat : DOMAIN members = 1 .. n
      BY <1>1
    <3>3. members' \in [1 .. n -> MemberRow]
      BY <2>1, <3>1, <3>2
    <3>4. QED BY <3>3
  <2>6. TablesGrow
    BY <2>3, <2>4 DEF TablesGrow
  <2>7. PICK k \in DOMAIN members : k \in Rows(g, user)
    BY <1>3, <1>4
  <2>8. members'[k].org = g /\ members'[k].user = user /\ members'[k].role = role
    BY <1>3, <2>3, <2>4, <2>7
  <2>9. \A j \in DOMAIN members' :
            \/ members'[j] = members[j] /\ j \notin Rows(g, user)
            \/ j = k
    BY <1>2, <2>3, <2>7
  <2>10. \A j \in DOMAIN members' :
             members'[j].org = g /\ members'[j].user = user /\ members'[j].role # NoRole => j = k
    BY <1>3, <2>3, <2>9
  <2>11. QED BY <2>3, <2>5, <2>6, <2>7, <2>8, <2>9, <2>10 DEF MemberWritten
<1>5. CASE Rows(g, user) = {}
  <2> DEFINE first == [org |-> g, user |-> user, role |-> role]
             n == Len(members) + 1
  <2>1. members' = Append(members, first)
    BY <1>5 DEF UpsertMember
  <2>2. first \in MemberRow /\ first.org = g /\ first.user = user /\ first.role = role
    BY DEF MemberRow
  <2> HIDE DEF first
  <2>3. /\ members' \in Seq(MemberRow) /\ DOMAIN members' = DOMAIN members \cup {n}
        /\ n \notin DOMAIN members /\ members'[n] = first
        /\ \A k \in DOMAIN members : members'[k] = members[k]
    BY <1>1, <2>1, <2>2
  <2> HIDE DEF n
  <2>4. TablesGrow
    BY <2>3 DEF TablesGrow
  <2>5. \A k \in DOMAIN members' :
            members'[k].org = g /\ members'[k].user = user /\ members'[k].role # NoRole => k = n
    BY <1>3, <1>5, <2>3
  <2>6. QED BY <2>2, <2>3, <2>4, <2>5 DEF MemberWritten
<1>6. QED BY <1>4, <1>5

\* A deletion leaves the member without a role.
LEMMA RevokeWritten ==
    ASSUME TablesInv, RowsDistinct, UNCHANGED organizations,
           NEW g \in DOMAIN organizations, NEW user \in Users, NEW k \in DOMAIN members,
           members[k].org = g, members[k].user = user, members[k].role # NoRole,
           members' = [members EXCEPT ![k].role = NoRole]
    PROVE  MemberWritten(g, user, NoRole)
<1>1. members \in Seq(MemberRow) /\ members[k] \in MemberRow
  BY DEF TablesInv
<1> DEFINE gone == [members[k] EXCEPT !.role = NoRole]
<1>2. gone \in MemberRow /\ gone.org = g /\ gone.user = user /\ gone.role = NoRole
  BY <1>1 DEF MemberRow
<1>3. members' = [members EXCEPT ![k] = gone]
  OBVIOUS
<1> HIDE DEF gone
<1>4. /\ members' \in Seq(MemberRow) /\ DOMAIN members' = DOMAIN members /\ members'[k] = gone
      /\ \A j \in DOMAIN members \ {k} : members'[j] = members[j]
  BY <1>1, <1>2, <1>3
<1>5. TablesGrow
  BY <1>2, <1>4 DEF TablesGrow
<1>6. \A j \in DOMAIN members' :
          ~ (members'[j].org = g /\ members'[j].user = user /\ members'[j].role # NoRole)
  BY <1>2, <1>4 DEF RowsDistinct
<1>7. QED BY <1>2, <1>4, <1>5, <1>6 DEF MemberWritten

\* What the member row says after its write.
LEMMA WrittenRole ==
    ASSUME NEW g, NEW user, NEW role, MemberWritten(g, user, role)
    PROVE  MemberRole(g, user)' = role
<1>1. Rows(g, user)' = {k \in DOMAIN members' :
                           /\ members'[k].org = g /\ members'[k].user = user
                           /\ members'[k].role # NoRole}
  BY DEF Rows, MembersOf
<1>2. CASE Rows(g, user)' = {}
  <2>1. role = NoRole
    BY <1>1, <1>2 DEF MemberWritten
  <2>2. QED BY <1>2, <2>1 DEF MemberRole
<1>3. CASE Rows(g, user)' # {}
  <2>1. (CHOOSE k \in Rows(g, user)' : TRUE) \in Rows(g, user)'
    BY <1>3
  <2>2. \A k \in Rows(g, user)' : members'[k].role = role
    BY <1>1 DEF MemberWritten
  <2>3. QED BY <1>3, <2>1, <2>2 DEF MemberRole
<1>4. QED BY <1>2, <1>3

\* A write for one member leaves the others as they were.
LEMMA OthersUnwritten ==
    ASSUME NEW g, NEW user, NEW role, MemberWritten(g, user, role),
           NEW h, NEW other, h # g \/ other # user
    PROVE  MemberRole(h, other)' = MemberRole(h, other)
<1>1. \A k \in DOMAIN members : /\ k \in DOMAIN members'
                                /\ members'[k].org = members[k].org
                                /\ members'[k].user = members[k].user
  BY DEF MemberWritten, TablesGrow
<1>2. \A k \in DOMAIN members' :
          \/ k \in DOMAIN members /\ members'[k] = members[k]
          \/ members'[k].org = g /\ members'[k].user = user
  BY DEF MemberWritten
<1>3. Rows(h, other)' = {k \in DOMAIN members' :
                            /\ members'[k].org = h /\ members'[k].user = other
                            /\ members'[k].role # NoRole}
  BY DEF Rows, MembersOf
<1>4. Rows(h, other) = {k \in DOMAIN members :
                           /\ members[k].org = h /\ members[k].user = other
                           /\ members[k].role # NoRole}
  BY DEF Rows, MembersOf
<1>5. /\ Rows(h, other)' = Rows(h, other)
      /\ \A k \in Rows(h, other) : members'[k].role = members[k].role
  BY <1>1, <1>2, <1>3, <1>4
<1>6. QED BY <1>5, SameMemberRole

\* A confirmed change becomes a row.
LEMMA WriteMemberKeepsInv ==
    ASSUME ServiceInv, NEW p \in Slots, WriteMember(p) PROVE ServiceInv'
<1>0. At(p, "write") /\ UNCHANGED <<intents, sequence, chainVars, organizations>> /\ Answer(p)
  BY DEF WriteMember
<1>1. PICK i \in Succeeded : i = requests[p].intent /\ SoundCall(intents[i].call, intents[i].signer)
                              /\ i \in DOMAIN intents
  BY <1>0, WriterKnows
<1>2. UNCHANGED <<registry, roleOf>> /\ Succeeded' = Succeeded
  BY <1>0 DEF chainVars, orgVars, factoryVars, Succeeded
<1>3. PICK call, g, user, role :
          call = intents[i].call /\ g = call.org /\ user = call.user /\ role = call.role
  OBVIOUS
<1>4. /\ call.op \in {"grant", "revoke"} /\ user \in Users
      /\ g \in DOMAIN organizations /\ call.at = organizations[g].organization
      /\ call.op = "grant" => role \in Role
      /\ call.op = "revoke" => /\ role = NoRole /\ call.member \in DOMAIN members
                               /\ members[call.member].org = g /\ members[call.member].user = user
  BY <1>1, <1>3 DEF WriteMember, SoundCall, OrganizationOperation
<1>5. TablesInv /\ RowsDistinct /\ UNCHANGED organizations
  BY <1>0 DEF ServiceInv
<1>6. CASE call.op = "revoke" /\ members[call.member].role = NoRole
  <2>1. members' = [members EXCEPT ![call.member].role = NoRole] /\ written' = written
    BY <1>1, <1>3, <1>6 DEF WriteMember
  <2>2. members[call.member] \in MemberRow
    BY <1>4, <1>5, <1>6, RowsTyped
  <2>3. [members[call.member] EXCEPT !.role = NoRole] = members[call.member]
    BY <1>6, <2>2 DEF MemberRow
  <2>4. members \in Seq(MemberRow)
    BY <1>5 DEF TablesInv
  <2>5. UNCHANGED tables
    BY <1>5, <2>1, <2>3, <2>4 DEF tables
  <2>6. RowsInv /\ OutcomesKept /\ TablesGrow
    BY <1>0, <1>2, <2>5 DEF ServiceInv, RowsInv, OutcomesKept, tables, TablesGrow
  <2>7. RowsInv'
    BY <1>0, <2>5, <2>6, RowsUnchanged
  <2>8. QED BY <1>0, <2>6, <2>7, TableStep DEF RowsInv
<1>7. CASE ~ (call.op = "revoke" /\ members[call.member].role = NoRole)
  <2>1. written' = written \cup {i}
    BY <1>1, <1>3, <1>4, <1>7 DEF WriteMember
  <2>2. MemberWritten(g, user, role)
    <3>1. CASE call.op = "grant"
      <4>1. members' = UpsertMember(g, user, role)
        BY <1>1, <1>3, <3>1 DEF WriteMember
      <4>2. QED BY <1>4, <1>5, <3>1, <4>1, GrantWritten
    <3>2. CASE call.op = "revoke"
      <4>1. members' = [members EXCEPT ![call.member].role = NoRole]
        BY <1>1, <1>3, <3>2 DEF WriteMember
      <4>2. PICK k \in DOMAIN members : k = call.member
        BY <1>4, <3>2
      <4>3. MemberWritten(g, user, NoRole)
        BY <1>4, <1>5, <1>7, <3>2, <4>1, <4>2, RevokeWritten
      <4>4. QED BY <1>4, <3>2, <4>3
    <3>3. QED BY <1>4, <3>1, <3>2
  <2>3. /\ members' \in Seq(MemberRow) /\ TablesGrow
        /\ \A k \in DOMAIN members' :
               \/ k \in DOMAIN members /\ members'[k] = members[k]
               \/ members'[k].org = g /\ members'[k].user = user /\ members'[k].role = role
    BY <2>2 DEF MemberWritten
  <2>4. MemberRow' = MemberRow
    BY <1>5 DEF MemberRow
  <2>5. TablesInv'
    BY <1>1, <1>2, <1>5, <2>1, <2>3, <2>4 DEF TablesInv, OrganizationRow
  <2>6. CreationsInv' /\ RowsAreRegistered'
    BY <1>0, <1>2 DEF ServiceInv, CreationsInv, Recorded, FounderOnly, RowsAreRegistered
  <2>7. RowsDistinct'
    <3>1. ASSUME NEW j \in DOMAIN members', NEW k \in DOMAIN members',
                 members'[j].role # NoRole, members'[k].role # NoRole,
                 members'[j].org = members'[k].org, members'[j].user = members'[k].user
          PROVE  j = k
      <4>1. CASE members'[j].org = g /\ members'[j].user = user
        BY <2>2, <3>1, <4>1 DEF MemberWritten
      <4>2. CASE members'[j].org # g \/ members'[j].user # user
        <5>1. /\ j \in DOMAIN members /\ members'[j] = members[j]
              /\ k \in DOMAIN members /\ members'[k] = members[k]
          BY <2>3, <3>1, <4>2
        <5>2. QED BY <1>5, <3>1, <5>1 DEF RowsDistinct
      <4>3. QED BY <4>1, <4>2
    <3>2. QED BY <1>2, <1>5, <3>1 DEF RowsDistinct
  <2>8. RoleWasGranted'
    <3> SUFFICES ASSUME NEW h \in DOMAIN organizations, NEW k \in DOMAIN members',
                        members'[k].org = h, members'[k].role # NoRole
                 PROVE  \E l \in Succeeded :
                            /\ intents[l].call.at = organizations[h].organization
                            /\ intents[l].call.user = members'[k].user
                            /\ intents[l].call.role = members'[k].role
      BY <1>0, <1>2 DEF RoleWasGranted, MembersOf
    <3>1. CASE k \in DOMAIN members /\ members'[k] = members[k]
      <4>1. k \in MembersOf(h)
        BY <3>1 DEF MembersOf
      <4>2. QED BY <3>1, <4>1 DEF ServiceInv, RoleWasGranted
    <3>2. CASE members'[k].org = g /\ members'[k].user = user /\ members'[k].role = role
      BY <1>1, <1>3, <1>4, <3>2
    <3>3. QED BY <2>3, <3>1, <3>2
  <2>9. MembersTracked'
    <3> SUFFICES ASSUME NEW h \in DOMAIN organizations, NEW other \in Users
                 PROVE  MemberTracked(h, other)'
      BY <1>5 DEF MembersTracked
    <3>1. ChangesOf(h, other)' = ChangesOf(h, other)
      BY <1>0, <1>2 DEF ChangesOf
    <3>2. MemberTracked(h, other)
      BY DEF ServiceInv, MembersTracked
    <3>3. CASE h = g /\ other = user
      <4>1. i \in ChangesOf(h, other)
        BY <1>1, <1>3, <1>4, <3>3 DEF ChangesOf
      <4>2. MemberRole(h, other)' = role
        BY <2>2, <3>3, WrittenRole
      <4>3. \A j : ChangesOf(h, other) = {j} => j = i
        BY <4>1
      <4>4. QED BY <1>0, <1>2, <1>3, <3>1, <3>2, <4>1, <4>2, <4>3 DEF MemberTracked
    <3>4. CASE h # g \/ other # user
      <4>1. i \notin ChangesOf(h, other)
        BY <1>3, <3>4 DEF ChangesOf
      <4>2. MemberRole(h, other)' = MemberRole(h, other)
        BY <2>2, <3>4, OthersUnwritten
      <4>3. QED BY <1>0, <1>2, <2>1, <3>1, <3>2, <4>1, <4>2 DEF MemberTracked
    <3>5. QED BY <3>3, <3>4
  <2>10. QED BY <1>0, <2>3, <2>5, <2>6, <2>7, <2>8, <2>9, TableStep
<1>8. QED BY <1>6, <1>7

-----------------------------------------------------------------------------
(***************************************************************************)
(* A ledger takes a transaction.                                           *)
(***************************************************************************)

\* The outcome of one more call, and that of no other.
Outcome(i, value) ==
    /\ Succeeded' = Succeeded \cup {i} /\ i \notin Succeeded
    /\ intents'[i].value = value
    /\ \A j \in Succeeded \cup {i} : /\ j \in DOMAIN intents
                                     /\ intents'[j].call = intents[j].call
                                     /\ intents'[j].signer = intents[j].signer
    /\ \A j \in Succeeded : intents'[j].value = intents[j].value

\* Of all intents only the one applied has a new outcome.
LEMMA SettleOutcome ==
    ASSUME IntentsInv(OrganizationOperation, Users), NEW i \in DOMAIN intents, NEW value \in Nat,
           Settle(i, "SUCCESS", value)
    PROVE  Outcome(i, value)
<1>1. /\ IntentsKept /\ DOMAIN intents' = DOMAIN intents
      /\ ~Confirmed(i) /\ intents'[i].tx = "SUCCESS" /\ intents'[i].value = value
      /\ \A j \in DOMAIN intents \ {i} : intents'[j] = intents[j]
  BY SettleKeepsIntents
<1>2. Succeeded' = Succeeded \cup {i} /\ i \notin Succeeded
  BY <1>1 DEF Succeeded, Confirmed
<1>3. Succeeded \subseteq DOMAIN intents
  BY DEF Succeeded
<1>4. QED BY <1>1, <1>2, <1>3 DEF Outcome, IntentsKept

\* What a successful call leaves to show.
LEMMA OutcomeStep ==
    ASSUME ServiceInv, NEW i \in DOMAIN intents, NEW value \in Nat,
           Settle(i, "SUCCESS", value), UNCHANGED tables, OnChainInv',
           \A id \in DOMAIN registry : id \in DOMAIN registry' /\ registry'[id] = registry[id],
           CreationsInv', MembersTracked'
    PROVE  ServiceInv'
<1>1. Outcome(i, value)
  BY SettleOutcome DEF ServiceInv
<1>2. /\ IntentsInv(OrganizationOperation, Users)' /\ IntentsKept
      /\ DOMAIN intents' = DOMAIN intents /\ requests' = requests
  BY SettleKeepsIntents DEF ServiceInv
<1>3. UNCHANGED <<organizations, members, written>> /\ TablesGrow
  BY DEF tables, TablesGrow
<1>4. CallsSound'
  BY <1>2, <1>3, CallsStaySound DEF ServiceInv
<1>5. TablesInv'
  BY <1>1, <1>3 DEF ServiceInv, TablesInv, MemberRow, Outcome
<1>6. RowsDistinct'
  BY <1>3 DEF ServiceInv, RowsDistinct
<1>7. RowsAreRegistered'
  BY <1>1, <1>3 DEF ServiceInv, RowsAreRegistered, Outcome
<1>8. RoleWasGranted'
  BY <1>1, <1>3 DEF ServiceInv, RoleWasGranted, Outcome, MembersOf
<1>9. QED BY <1>2, <1>4, <1>5, <1>6, <1>7, <1>8 DEF ServiceInv

\* A creation that succeeds registers its own addresses.
LEMMA CreationApplied ==
    ASSUME ServiceInv, NEW i \in DOMAIN intents, intents[i].call.op = "create",
           CreateOrganization(intents[i].signer, intents[i].call.at),
           Settle(i, "SUCCESS", orgCount'), UNCHANGED tables
    PROVE  ServiceInv'
<1>1. PICK o \in Orgs, founder \in Users : o = intents[i].call.at /\ founder = intents[i].signer
  <2>1. intents[i] \in Intent(OrganizationOperation, Users)
    BY IntentTyped DEF ServiceInv
  <2>2. QED BY <2>1 DEF Intent, OrganizationOperation
<1>2. OnChainInv /\ CreateOrganization(founder, o)
  BY <1>1 DEF ServiceInv
<1>3. /\ OnChainInv'
      /\ \A id \in DOMAIN registry : id \in DOMAIN registry' /\ registry'[id] = registry[id]
      /\ o \notin deployed
      /\ orgCount' \in DOMAIN registry' \ DOMAIN registry
      /\ registry'[orgCount'].organization = o
      /\ \A p \in Orgs \ {o} : roleOf'[p] = roleOf[p]
      /\ FounderOnly(o, founder)'
  BY <1>2, CreatePerformed
<1>4. orgCount' \in Nat
  BY <1>3 DEF OnChainInv, RegistryInv
<1>5. PICK value \in Nat : value = orgCount'
  BY <1>4
<1>6. Outcome(i, value) /\ UNCHANGED <<organizations, members, written>>
  BY <1>5, SettleOutcome DEF ServiceInv, tables
<1>7. \A id \in DOMAIN registry : registry[id].organization \in Orgs \ {o}
  BY <1>2, <1>3 DEF OnChainInv, RegistryInv
<1>8. CreationsInv'
  <2> SUFFICES ASSUME NEW j \in Succeeded', intents'[j].call.op = "create"
               PROVE  /\ intents'[j].value \in DOMAIN registry'
                      /\ registry'[intents'[j].value].organization = intents'[j].call.at
                      /\ ~Recorded(intents[j].value)' =>
                            FounderOnly(intents[j].call.at, intents[j].signer)'
    BY DEF CreationsInv
  <2>1. CASE j = i
    <3>1. intents'[i].call.at = o /\ intents'[i].signer = founder /\ intents'[i].value = orgCount'
      BY <1>1, <1>5, <1>6 DEF Outcome
    <3>2. QED BY <1>3, <2>1, <3>1 DEF FounderOnly
  <2>2. CASE j \in Succeeded
    <3>1. /\ intents'[j].call = intents[j].call /\ intents'[j].signer = intents[j].signer
          /\ intents'[j].value = intents[j].value
      BY <1>6, <2>2 DEF Outcome
    <3>2. /\ intents[j].value \in DOMAIN registry
          /\ registry[intents[j].value].organization = intents[j].call.at
          /\ ~Recorded(intents[j].value) => FounderOnly(intents[j].call.at, intents[j].signer)
      BY <2>2, <3>1 DEF ServiceInv, CreationsInv
    <3>3. Recorded(intents[j].value)' <=> Recorded(intents[j].value)
      BY <1>6, <3>1 DEF Recorded
    <3>4. roleOf'[intents[j].call.at] = roleOf[intents[j].call.at]
      BY <1>3, <1>7, <3>2
    <3>5. QED BY <1>3, <3>1, <3>2, <3>3, <3>4 DEF FounderOnly
  <2>3. QED BY <1>6, <2>1, <2>2 DEF Outcome
<1>9. MembersTracked'
  <2> SUFFICES ASSUME NEW g \in DOMAIN organizations, NEW user \in Users
               PROVE  MemberTracked(g, user)'
    BY <1>6 DEF MembersTracked
  <2>1. MemberTracked(g, user)
    BY DEF ServiceInv, MembersTracked
  <2>2. ChangesOf(g, user)' = ChangesOf(g, user) /\ ChangesOf(g, user) \subseteq Succeeded
    BY <1>6 DEF ChangesOf, Outcome
  <2>3. roleOf'[organizations[g].organization] = roleOf[organizations[g].organization]
    BY <1>3, <1>7 DEF ServiceInv, RowsDistinct
  <2>4. MemberRole(g, user)' = MemberRole(g, user)
    BY <1>6 DEF MemberRole, Rows, MembersOf
  <2>5. QED BY <1>6, <2>1, <2>2, <2>3, <2>4 DEF MemberTracked, Outcome
<1>10. QED BY <1>3, <1>5, <1>8, <1>9, OutcomeStep

\* A change that succeeds gives the role it names.
LEMMA ChangeApplied ==
    ASSUME ServiceInv, NEW i \in DOMAIN intents, intents[i].call.op \in {"grant", "revoke"},
           PerformOrganization(intents[i].call, intents[i].signer),
           Settle(i, "SUCCESS", 0), UNCHANGED tables
    PROVE  ServiceInv'
<1>1. /\ intents[i] \in Intent(OrganizationOperation, Users)
      /\ SoundCall(intents[i].call, intents[i].signer)
  BY IntentTyped DEF ServiceInv, CallsSound
<1>2. PICK o \in Orgs, caller \in Users, user \in Users, role \in Role \cup {NoRole},
           g \in DOMAIN organizations :
          /\ o = intents[i].call.at /\ caller = intents[i].signer
          /\ user = intents[i].call.user /\ role = intents[i].call.role
          /\ g = intents[i].call.org /\ o = organizations[g].organization
  BY <1>1 DEF Intent, OrganizationOperation, SoundCall
<1>3. /\ UNCHANGED <<treasuryVars, factoryVars>>
      /\ \/ role \in Role /\ GrantRole(o, caller, user, role)
         \/ role = NoRole /\ RevokeRole(o, caller, user)
  BY <1>1, <1>2 DEF PerformOrganization, SoundCall
<1>4. /\ OnChainInv' /\ registry' = registry
      /\ o \in deployed
      /\ roleOf'[o][user] = role
      /\ \A p \in Orgs, u \in Users : p # o \/ u # user => roleOf'[p][u] = roleOf[p][u]
  BY <1>2, <1>3, ChangePerformed DEF ServiceInv
<1>5. Outcome(i, 0) /\ UNCHANGED <<organizations, members, written>>
  BY SettleOutcome DEF ServiceInv, tables
<1>6. RegistryInv /\ OrganizationTypeOK /\ OrganizationTypeOK'
  BY <1>4 DEF ServiceInv, OnChainInv, OrganizationInv
<1>7. CreationsInv'
  <2> SUFFICES ASSUME NEW j \in Succeeded', intents'[j].call.op = "create"
               PROVE  /\ intents'[j].value \in DOMAIN registry'
                      /\ registry'[intents'[j].value].organization = intents'[j].call.at
                      /\ ~Recorded(intents[j].value)' =>
                            FounderOnly(intents[j].call.at, intents[j].signer)'
    BY DEF CreationsInv
  <2>1. j \in Succeeded
    BY <1>5 DEF Outcome
  <2>2. /\ intents'[j].call = intents[j].call /\ intents'[j].signer = intents[j].signer
        /\ intents'[j].value = intents[j].value
    BY <1>5, <2>1 DEF Outcome
  <2>3. /\ intents[j].value \in DOMAIN registry
        /\ registry[intents[j].value].organization = intents[j].call.at
        /\ ~Recorded(intents[j].value) => FounderOnly(intents[j].call.at, intents[j].signer)
    BY <2>1, <2>2 DEF ServiceInv, CreationsInv
  <2>4. Recorded(intents[j].value)' <=> Recorded(intents[j].value)
    BY <1>5, <2>2 DEF Recorded
  <2>5. ASSUME ~Recorded(intents[j].value) PROVE FounderOnly(intents[j].call.at, intents[j].signer)'
    <3>1. intents[j].call.at # o
      <4>1. /\ organizations[g].id \in DOMAIN registry
            /\ registry[organizations[g].id].organization = o
        BY <1>2 DEF ServiceInv, RowsDistinct
      <4>2. organizations[g].id # intents[j].value
        BY <2>5 DEF Recorded
      <4>3. QED BY <1>6, <2>3, <4>1, <4>2 DEF RegistryInv
    <3>2. intents[j].call.at \in Orgs
      BY <1>6, <2>3 DEF RegistryInv
    <3>3. PICK p \in Orgs : p = intents[j].call.at
      BY <3>2
    <3>4. /\ roleOf[p] \in [Users -> Role \cup {NoRole}]
          /\ roleOf'[p] \in [Users -> Role \cup {NoRole}]
      BY <1>6 DEF OrganizationTypeOK
    <3>5. \A u \in Users : roleOf'[p][u] = roleOf[p][u]
      BY <1>4, <3>1, <3>3
    <3>6. roleOf'[p] = roleOf[p]
      BY <3>4, <3>5
    <3>7. QED BY <2>2, <2>3, <2>5, <3>3, <3>6 DEF FounderOnly
  <2>6. QED BY <1>4, <2>2, <2>3, <2>4, <2>5
<1>8. MembersTracked'
  <2> SUFFICES ASSUME NEW h \in DOMAIN organizations, NEW other \in Users
               PROVE  MemberTracked(h, other)'
    BY <1>5 DEF MembersTracked
  <2>1. MemberTracked(h, other)
    BY DEF ServiceInv, MembersTracked
  <2>2. MemberRole(h, other)' = MemberRole(h, other)
    BY <1>5 DEF MemberRole, Rows, MembersOf
  <2>3. ChangesOf(h, other) \subseteq Succeeded
    BY DEF ChangesOf
  <2>4. CASE h = g /\ other = user
    <3>1. ChangesOf(h, other)' = ChangesOf(h, other) \cup {i}
      BY <1>2, <1>5, <2>4 DEF ChangesOf, Outcome
    <3>2. i \notin written
      BY <1>5 DEF Outcome, ServiceInv, TablesInv
    <3>3. \A j : ChangesOf(h, other)' = {j} => j = i
      BY <3>1
    <3>4. roleOf'[organizations'[h].organization][other] = intents'[i].call.role
      BY <1>2, <1>4, <1>5, <2>4 DEF Outcome
    <3>5. QED BY <1>5, <3>1, <3>2, <3>3, <3>4 DEF MemberTracked
  <2>5. CASE h # g \/ other # user
    <3>1. ChangesOf(h, other)' = ChangesOf(h, other)
      BY <1>2, <1>5, <2>5 DEF ChangesOf, Outcome
    <3>2. organizations[h].organization \in Orgs /\ (h # g => organizations[h].organization # o)
      BY <1>2, <1>6 DEF ServiceInv, RowsDistinct, RegistryInv
    <3>3. LET own == organizations[h].organization IN roleOf'[own][other] = roleOf[own][other]
      BY <1>4, <2>5, <3>2
    <3>4. QED BY <1>5, <2>1, <2>2, <2>3, <3>1, <3>3 DEF MemberTracked, Outcome
  <2>6. QED BY <2>4, <2>5
<1>9. QED BY <1>4, <1>7, <1>8, OutcomeStep

\* The ledger takes a transaction.
LEMMA ApplyKeepsInv ==
    ASSUME ServiceInv, NEW i \in DOMAIN intents, ApplyCall(i) PROVE ServiceInv'
<1> DEFINE call == intents[i].call
<1>1. UNCHANGED tables /\ call.op \in {"create", "grant", "revoke"}
  <2>1. intents[i] \in Intent(OrganizationOperation, Users)
    BY IntentTyped DEF ServiceInv
  <2>2. QED BY <2>1 DEF Intent, OrganizationOperation, ApplyCall
<1>2. CASE OrganizationSimulates(call, intents[i].signer)
  <2>1. /\ PerformOrganization(call, intents[i].signer)
        /\ Settle(i, "SUCCESS", IF call.op = "create" THEN orgCount' ELSE 0)
    BY <1>2 DEF ApplyCall
  <2>2. CASE call.op = "create"
    <3>1. CreateOrganization(intents[i].signer, call.at)
      BY <2>1, <2>2 DEF PerformOrganization
    <3>2. QED BY <1>1, <2>1, <2>2, <3>1, CreationApplied
  <2>3. CASE call.op \in {"grant", "revoke"}
    <3>1. Settle(i, "SUCCESS", 0)
      BY <2>1, <2>3
    <3>2. QED BY <1>1, <2>1, <2>3, <3>1, ChangeApplied
  <2>4. QED BY <1>1, <2>2, <2>3
<1>3. CASE ~OrganizationSimulates(call, intents[i].signer)
  <2>1. Settle(i, "FAILED", 0) /\ UNCHANGED chainVars
    BY <1>3 DEF ApplyCall
  <2>2. /\ IntentsInv(OrganizationOperation, Users)' /\ IntentsKept
        /\ DOMAIN intents' = DOMAIN intents /\ requests' = requests
        /\ intents'[i].tx = "FAILED"
        /\ \A j \in DOMAIN intents \ {i} : intents'[j] = intents[j]
    BY <2>1, SettleKeepsIntents DEF ServiceInv
  <2>3. NoneConfirmed
    BY <2>2 DEF NoneConfirmed, Confirmed
  <2>4. QED BY <1>1, <2>1, <2>2, <2>3, NoTableStep
<1>4. QED BY <1>2, <1>3

-----------------------------------------------------------------------------
\* Every step of clients, handlers and ledger keeps the invariant.
LEMMA ServiceStep ==
    ServiceInv /\ [OrganizationsServiceNext]_organizationsServiceVars => ServiceInv'
<1> SUFFICES ASSUME ServiceInv, [OrganizationsServiceNext]_organizationsServiceVars
             PROVE  ServiceInv'
  OBVIOUS
<1>1. ASSUME NEW p \in Slots,
             ReadForIntent(p) \/ BuildIntent(p) \/ WaitForOutcome(p)
                 \/ WriteOrganization(p) \/ WriteMember(p)
      PROVE  ServiceInv'
  BY <1>1, ReadKeepsInv, BuildKeepsInv, WaitKeepsInv, WriteOrganizationKeepsInv,
     WriteMemberKeepsInv
<1>2. ASSUME NEW i \in DOMAIN intents, ApplyCall(i) PROVE ServiceInv'
  BY <1>2, ApplyKeepsInv
<1>3. ASSUME NEW p \in Slots, SubmitGuarded(p) \/ Send(p) \/ MarkConsumed(p) \/ Abort(p),
             UNCHANGED <<chainVars, tables>>
      PROVE  ServiceInv'
  <2>1. SubmitStep(p)
    BY <1>3 DEF SubmitGuarded, SubmitStep
  <2>2. QED BY <1>3, <2>1, SubmitKeepsInv
<1>4. CASE UNCHANGED organizationsServiceVars
  <2>1. UNCHANGED <<chainVars, tables, intents, requests, sequence>>
    BY <1>4 DEF organizationsServiceVars, intentVars, chainVars, tables
  <2>2. IntentsInv(OrganizationOperation, Users)' /\ IntentsKept /\ NoneConfirmed
    BY <2>1 DEF ServiceInv, IntentsInv, IntentsKept, NoneConfirmed, Confirmed, SubmitState
  <2>3. QED BY <2>1, <2>2, NoTableStep
<1>5. QED BY <1>1, <1>2, <1>3, <1>4 DEF OrganizationsServiceNext

\* What the backend knows of the chain stays true in every reachable state.
THEOREM ServiceInvariant == OrganizationsServiceSpec => []ServiceInv
<1>1. OrganizationsServiceInit => ServiceInv
  BY ServiceInvInit
<1>2. ServiceInv /\ [OrganizationsServiceNext]_organizationsServiceVars => ServiceInv'
  BY ServiceStep
<1>3. QED BY <1>1, <1>2, PTL DEF OrganizationsServiceSpec

\* Every table row, intent and contract field has the type its column or
\* struct declares.
THEOREM OrganizationsServiceTypeCorrect ==
    OrganizationsServiceSpec => []OrganizationsServiceTypeOK
<1>1. ServiceInv => OrganizationsServiceTypeOK
  <2> SUFFICES ASSUME ServiceInv PROVE OrganizationsServiceTypeOK
    OBVIOUS
  <2>1. OrganizationTypeOK /\ FactoryTypeOK
    BY DEF ServiceInv, OnChainInv, OrganizationInv
  <2>2. IntentsTypeOK(OrganizationOperation)
    BY IntentsTyped DEF ServiceInv
  <2>3. written \subseteq DOMAIN intents
    BY DEF ServiceInv, TablesInv, Succeeded
  <2>4. QED BY <2>1, <2>2, <2>3 DEF ServiceInv, TablesInv, OrganizationsServiceTypeOK,
            OrganizationRow, MemberRow
<1>2. QED BY <1>1, ServiceInvariant, PTL

\* writeOrganization records each organization once, under the addresses its
\* own creation deployed, whichever request wins a slug.
THEOREM RowsStayRegistered == OrganizationsServiceSpec => []RowsAreRegistered
<1>1. ServiceInv => RowsAreRegistered
  BY DEF ServiceInv
<1>2. QED BY <1>1, ServiceInvariant, PTL

\* No row of OrganizationMember gives a role the chain did not give.
THEOREM RolesStayGranted == OrganizationsServiceSpec => []RoleWasGranted
<1>1. ServiceInv => RoleWasGranted
  BY DEF ServiceInv
<1>2. QED BY <1>1, ServiceInvariant, PTL

\* A row of OrganizationMember differs from the chain only after a change that
\* was never written or one that another may have overtaken.
THEOREM RowsFollow == OrganizationsServiceSpec => []RowsFollowChain
<1>1. ServiceInv => RowsFollowChain
  <2> SUFFICES ASSUME ServiceInv, NEW g \in DOMAIN organizations, NEW user \in Users,
                      Cardinality(ChangesOf(g, user)) <= 1, ChangesOf(g, user) \subseteq written
               PROVE  MemberRole(g, user) = roleOf[organizations[g].organization][user]
    BY DEF RowsFollowChain
  <2>1. MemberTracked(g, user)
    BY DEF ServiceInv, MembersTracked
  <2>2. IsFiniteSet(ChangesOf(g, user))
    <3>1. PICK n \in Nat : DOMAIN intents = 1 .. n
      BY DEF ServiceInv, IntentsInv
    <3>2. \A m \in Nat : IsFiniteSet(1 .. m)
      BY FS_Interval
    <3>3. IsFiniteSet(DOMAIN intents)
      BY <3>1, <3>2
    <3>4. ChangesOf(g, user) \subseteq DOMAIN intents
      BY DEF ChangesOf, Succeeded
    <3>5. QED BY <3>3, <3>4, FS_Subset
  <2>3. ChangesOf(g, user) = {} \/ \E i \in ChangesOf(g, user) : ChangesOf(g, user) = {i}
    <3>1. Cardinality(ChangesOf(g, user)) \in Nat
      BY <2>2, FS_CardinalityType
    <3>2. CASE Cardinality(ChangesOf(g, user)) = 0
      BY <2>2, <3>2, FS_EmptySet
    <3>3. CASE Cardinality(ChangesOf(g, user)) = 1
      <4>1. \E i : ChangesOf(g, user) = {i}
        BY <2>2, <3>3, FS_Singleton
      <4>2. QED BY <4>1
    <3>4. QED BY <3>1, <3>2, <3>3
  <2>4. QED BY <2>1, <2>3 DEF MemberTracked
<1>2. QED BY <1>1, ServiceInvariant, PTL
=============================================================================
