------------------------ MODULE OrganizationsService ------------------------
(***************************************************************************)
(* Organizations and their members through the backend.  Here the chain    *)
(* comes first: a row of Organization or OrganizationMember is written     *)
(* only when the transaction that created the organization, granted the    *)
(* role or revoked it is seen to succeed.  The rows decide which requests  *)
(* the API lets through; the organization contract decides again.          *)
(***************************************************************************)
EXTENDS PayrollFactory, Intents

CONSTANTS
    Slugs,          \* what organizations are called
    Granted         \* bound: the roles members are given

ASSUME OrganizationsAssumption == Granted \subseteq Role

VARIABLES
    organizations,  \* the Organization table
    members,        \* the OrganizationMember table; a deleted row has NoRole
    written         \* history: intents whose outcome a handler wrote to a row

organizationsServiceVars ==
    <<orgVars, treasuryVars, factoryVars, intentVars, organizations, members, written>>
chainVars == <<orgVars, treasuryVars, factoryVars>>
tables == <<organizations, members, written>>

OrganizationOperation ==
    [op : {"create", "grant", "revoke"}, slug : Slugs, at : Orgs, org : Nat, user : Users,
     role : Role \cup {NoRole}, member : Nat]

OrganizationsServiceTypeOK ==
    /\ OrganizationTypeOK /\ FactoryTypeOK
    /\ IntentsTypeOK(OrganizationOperation)
    /\ organizations \in Seq([slug : Slugs, id : OrgId, organization : Orgs, treasury : Accounts])
    /\ members \in Seq([org : DOMAIN organizations, user : Users, role : Role \cup {NoRole}])
    /\ written \subseteq DOMAIN intents

\* The contracts deployed, and no organization yet.
OrganizationsServiceInit ==
    /\ OrganizationInit /\ TreasuryInit /\ IntentsInit
    /\ initialized = Engine \cup {"payroll_factory"}
    /\ orgCount = 0 /\ registry = <<>>
    /\ wasmHash \in [WasmTarget -> Hashes]
    /\ cached = [e \in Engine |-> <<>>]
    /\ organizations = <<>> /\ members = <<>> /\ written = {}

-----------------------------------------------------------------------------
(***************************************************************************)
(* The tables.  A member's id is the place of its row.                     *)
(***************************************************************************)
MembersOf(g) == {k \in DOMAIN members : members[k].org = g /\ members[k].role # NoRole}
Rows(g, user) == {k \in MembersOf(g) : members[k].user = user}

MemberRole(g, user) ==
    IF Rows(g, user) = {} THEN NoRole ELSE members[CHOOSE k \in Rows(g, user) : TRUE].role

OwnerRows(g) == {k \in MembersOf(g) : members[k].role = "Owner"}

\* OrgRoleGuard
MayAdminister(g, user) == RoleSuffices(MemberRole(g, user), "Admin")

SlugExists(slug) == \E g \in DOMAIN organizations : organizations[g].slug = slug

-----------------------------------------------------------------------------
(***************************************************************************)
(* The endpoints that build intents: what they read and refuse, then the   *)
(* simulation and the intent.                                              *)
(***************************************************************************)
Founding(slug, at, user) ==
    [op |-> "create", slug |-> slug, at |-> at, org |-> 0, user |-> user, role |-> "Owner",
     member |-> 0]

\* A salt of 32 random bytes leads to an address nobody has.
FreshAddresses == Orgs \ {intents[i].call.at : i \in DOMAIN intents}

Change(op, g, user, role, member) ==
    [op |-> op, slug |-> organizations[g].slug, at |-> organizations[g].organization, org |-> g,
     user |-> user, role |-> role, member |-> member]

\* The last OWNER row is neither demoted nor removed.
KeepsOwner(g, k, role) == members[k].role = "Owner" /\ role # "Owner" => Cardinality(OwnerRows(g)) > 1

\* buildAddMemberIntent, buildUpdateMemberRoleIntent, buildRemoveMemberIntent.
AddMember(g) ==
    {Change("grant", g, user, role, 0) : user \in {u \in Users : Rows(g, u) = {}}, role \in Granted}

UpdateMemberRole(g, k) ==
    {Change("grant", g, members[k].user, role, k) : role \in {r \in Granted : KeepsOwner(g, k, r)}}

RemoveMember(g, k) ==
    IF KeepsOwner(g, k, NoRole) THEN {Change("revoke", g, members[k].user, NoRole, k)} ELSE {}

Changes(g) ==
    AddMember(g) \cup UNION {UpdateMemberRole(g, k) \cup RemoveMember(g, k) : k \in MembersOf(g)}

ReadForIntent(p) ==
    /\ At(p, "idle")
    /\ Len(intents) < MaxIntents
    /\ \E user \in Users :
           \/ \E slug \in Slugs :
                  /\ ~SlugExists(slug)
                  /\ FreshAddresses # {}
                  /\ LET at == CHOOSE o \in FreshAddresses : TRUE
                     IN  Await(p, [pc |-> "build", signer |-> user, call |-> Founding(slug, at, user)])
           \/ \E g \in DOMAIN organizations : \E call \in Changes(g) :
                  /\ MayAdminister(g, user)
                  /\ Await(p, [pc |-> "build", signer |-> user, call |-> call])
    /\ UNCHANGED <<intents, sequence, chainVars, tables>>

\* The call as the contracts execute it.
PerformOrganization(call, signer) ==
    \/ call.op = "create" /\ CreateOrganization(signer, call.at)
    \/ /\ \/ call.op = "grant" /\ GrantRole(call.at, signer, call.user, call.role)
          \/ call.op = "revoke" /\ RevokeRole(call.at, signer, call.user)
       /\ UNCHANGED <<treasuryVars, factoryVars>>

OrganizationSimulates(call, signer) == ENABLED PerformOrganization(call, signer)

BuildIntent(p) ==
    /\ At(p, "build")
    /\ IF OrganizationSimulates(requests[p].call, requests[p].signer)
       THEN Create(requests[p].call, requests[p].signer)
       ELSE UNCHANGED <<intents, sequence>>
    /\ Answer(p)
    /\ UNCHANGED <<chainVars, tables>>

-----------------------------------------------------------------------------
(***************************************************************************)
(* The submit endpoints.                                                   *)
(***************************************************************************)
\* The guard stands before the endpoints of members, not before those that
\* create.  The wallet that signs is the client's own.
SubmitGuarded(p) ==
    /\ SubmitValidate(p)
    /\ LET i == requests'[p].intent IN
           \/ intents[i].call.op = "create"
           \/ MayAdminister(intents[i].call.org, intents[i].signer)

\* 502 unless the transaction was seen to succeed.
WaitForOutcome(p) ==
    /\ At(p, "wait")
    /\ IF Confirmed(requests[p].intent)
       THEN Await(p, [requests[p] EXCEPT !.pc = "write"])
       ELSE Answer(p)
    /\ UNCHANGED <<intents, sequence, chainVars, tables>>

\* The registry's count instead of the transaction's return value.
ConfirmedOrgId_Count(i) == orgCount

ConfirmedOrgId(i) == intents[i].value

\* getOrganizationRecord, which never changes, and createConfirmed: the row and
\* the OWNER row of its creator in one statement, which the unique slug and
\* the unique id may refuse.  The code takes for the creator the user who
\* submits, here the same as the signer.
WriteOrganization(p) ==
    LET i == requests[p].intent
        id == ConfirmedOrgId(i)
    IN
    /\ At(p, "write") /\ intents[i].call.op = "create"
    /\ IF \/ id \notin DOMAIN registry
          \/ SlugExists(intents[i].call.slug)
          \/ \E g \in DOMAIN organizations : organizations[g].id = id
       THEN UNCHANGED tables
       ELSE /\ organizations' = Append(organizations,
                   [slug |-> intents[i].call.slug, id |-> id,
                    organization |-> registry[id].organization, treasury |-> registry[id].treasury])
            /\ members' = Append(members,
                   [org |-> Len(organizations) + 1, user |-> intents[i].signer, role |-> "Owner"])
            /\ written' = written \cup {i}
    /\ Answer(p)
    /\ UNCHANGED <<intents, sequence, chainVars>>

\* upsertMember; first one that only updates.
UpsertMember_Update(g, user, role) ==
    [k \in DOMAIN members |-> IF k \in Rows(g, user) THEN [members[k] EXCEPT !.role = role]
                              ELSE members[k]]

UpsertMember(g, user, role) ==
    IF Rows(g, user) # {}
    THEN [k \in DOMAIN members |-> IF k \in Rows(g, user) THEN [members[k] EXCEPT !.role = role]
                                   ELSE members[k]]
    ELSE Append(members, [org |-> g, user |-> user, role |-> role])

\* upsertMember and deleteMember; the row to delete may be gone already.
WriteMember(p) ==
    LET i == requests[p].intent
        call == intents[i].call
    IN
    /\ At(p, "write") /\ call.op # "create"
    /\ IF call.op = "grant" THEN members' = UpsertMember(call.org, call.user, call.role)
       ELSE members' = [members EXCEPT ![call.member].role = NoRole]
    /\ written' = IF call.op = "grant" \/ members[call.member].role # NoRole
                  THEN written \cup {i} ELSE written
    /\ Answer(p)
    /\ UNCHANGED <<intents, sequence, chainVars, organizations>>

\* A ledger takes a transaction it was sent.
ApplyCall(i) ==
    LET call == intents[i].call IN
    /\ IF OrganizationSimulates(call, intents[i].signer)
       THEN /\ PerformOrganization(call, intents[i].signer)
            /\ Settle(i, "SUCCESS", IF call.op = "create" THEN orgCount' ELSE 0)
       ELSE Settle(i, "FAILED", 0) /\ UNCHANGED chainVars
    /\ UNCHANGED tables

-----------------------------------------------------------------------------
OrganizationsServiceNext ==
    \/ \E p \in Slots : \/ ReadForIntent(p) \/ BuildIntent(p) \/ WaitForOutcome(p)
                        \/ WriteOrganization(p) \/ WriteMember(p)
    \/ \E i \in DOMAIN intents : ApplyCall(i)
    \/ /\ \E p \in Slots : SubmitGuarded(p) \/ Send(p) \/ MarkConsumed(p) \/ Abort(p)
       /\ UNCHANGED <<chainVars, tables>>

OrganizationsServiceSpec ==
    OrganizationsServiceInit /\ [][OrganizationsServiceNext]_organizationsServiceVars

-----------------------------------------------------------------------------
(***************************************************************************)
(* Properties.                                                             *)
(***************************************************************************)
Succeeded == {i \in DOMAIN intents : intents[i].tx = "SUCCESS"}

\* Whichever of two creations wins the race for a slug, each Organization row
\* has the addresses the registry has under its id, those its own creation
\* deployed, and no two rows share an id or a slug.
RowsAreRegistered ==
    \A g \in DOMAIN organizations :
        /\ organizations[g].id \in DOMAIN registry
        /\ registry[organizations[g].id].treasury = organizations[g].treasury
        /\ \E i \in Succeeded : /\ intents[i].call.slug = organizations[g].slug
                                /\ intents[i].call.at = organizations[g].organization
        /\ \A h \in DOMAIN organizations \ {g} :
               organizations[h].id # organizations[g].id /\ organizations[h].slug # organizations[g].slug

\* A row never claims a role the chain did not give: it is the founder's, or a
\* grant of just that role to just that member succeeded.
RoleWasGranted ==
    \A g \in DOMAIN organizations : \A k \in MembersOf(g) :
        \E i \in Succeeded :
            /\ intents[i].call.at = organizations[g].organization
            /\ intents[i].call.user = members[k].user
            /\ intents[i].call.role = members[k].role

\* Where no two changes of a member can have overtaken each other and none was
\* left unwritten, the row says what the chain says: rows drift by a missed or
\* an overtaken write and in no other way.
ChangesOf(g, user) ==
    {i \in Succeeded : /\ intents[i].call.op # "create"
                       /\ intents[i].call.org = g /\ intents[i].call.user = user}

RowsFollowChain ==
    \A g \in DOMAIN organizations, user \in Users :
        Cardinality(ChangesOf(g, user)) <= 1 /\ ChangesOf(g, user) \subseteq written =>
            MemberRole(g, user) = roleOf[organizations[g].organization][user]
=============================================================================
