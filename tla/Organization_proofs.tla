------------------------ MODULE Organization_proofs ------------------------
(***************************************************************************)
(* The owner counter is exact and no organization loses its last Owner,    *)
(* for any finite set of users and any number of organizations.            *)
(*                                                                         *)
(* OwnerCountExact is not inductive by itself: a revocation keeps it only  *)
(* when the member map is typed, and the constructor's count of one is     *)
(* right only because an instance that is not deployed yet has no members. *)
(* OrganizationInv adds both, and the positive count that makes            *)
(* NeverOwnerless follow.                                                  *)
(***************************************************************************)
EXTENDS Organization, FiniteSetTheorems, TLAPS

OrganizationInv ==
    /\ OrganizationTypeOK
    /\ OwnerCountExact
    /\ \A o \in deployed : ownerCount[o] >= 1
    /\ \A o \in Orgs \ deployed : Owners(o) = {}

-----------------------------------------------------------------------------
(***************************************************************************)
(* The role order.                                                         *)
(***************************************************************************)

\* has_at_least is a partial order with Owner on top and Viewer at the
\* bottom: it never lets a role pass where a lower one would be refused.
THEOREM RolesOrdered ==
    /\ \A r \in Role : HasAtLeast(r, r) /\ HasAtLeast("Owner", r) /\ HasAtLeast(r, "Viewer")
    /\ \A r, s \in Role : HasAtLeast(r, s) /\ HasAtLeast(s, r) => r = s
    /\ \A r, s, t \in Role : HasAtLeast(r, s) /\ HasAtLeast(s, t) => HasAtLeast(r, t)
<1>1. \A r \in Role : HasAtLeast(r, r) /\ HasAtLeast("Owner", r) /\ HasAtLeast(r, "Viewer")
  BY DEF Role, HasAtLeast
<1>2. \A r, s \in Role : HasAtLeast(r, s) /\ HasAtLeast(s, r) => r = s
  BY DEF Role, HasAtLeast
<1>3. \A r, s, t \in Role : HasAtLeast(r, s) /\ HasAtLeast(s, t) => HasAtLeast(r, t)
  BY DEF Role, HasAtLeast
<1>4. QED BY <1>1, <1>2, <1>3

\* The two ways the contracts ask whether a role may move money agree:
\* can_move_funds, and has_at_least(Finance).  Hr and Finance exclude each
\* other.
THEOREM FundsNeedFinance ==
    /\ \A r \in Role : CanMoveFunds(r) <=> HasAtLeast(r, "Finance")
    /\ ~HasAtLeast("Hr", "Finance") /\ ~HasAtLeast("Finance", "Hr")
BY DEF Role, CanMoveFunds, HasAtLeast

-----------------------------------------------------------------------------
(***************************************************************************)
(* Counting the Owners of a member map.                                    *)
(***************************************************************************)
OwnersIn(members) == {u \in Users : members[u] = "Owner"}

\* However one member's role changes, CountAfter of the number of Owners is
\* the number of Owners after the change.
LEMMA CountAfterExact ==
    ASSUME NEW members \in [Users -> Role \cup {NoRole}],
           NEW m \in Users, NEW becomes \in Role \cup {NoRole}
    PROVE  Cardinality(OwnersIn([members EXCEPT ![m] = becomes])) =
               CountAfter(Cardinality(OwnersIn(members)), members[m], becomes)
<1> DEFINE before == OwnersIn(members)
           after  == OwnersIn([members EXCEPT ![m] = becomes])
<1>1. IsFiniteSet(before)
  BY UsersAssumption, FS_Subset DEF OwnersIn
<1>2. CASE becomes = "Owner" /\ members[m] # "Owner"
  <2>1. after = before \cup {m} /\ m \notin before
    BY <1>2 DEF OwnersIn
  <2>2. Cardinality(after) = Cardinality(before) + 1
    BY <1>1, <2>1, FS_AddElement
  <2>3. QED BY <1>2, <2>2 DEF CountAfter
<1>3. CASE members[m] = "Owner" /\ becomes # "Owner"
  <2>1. after = before \ {m} /\ m \in before
    BY <1>3 DEF OwnersIn
  <2>2. Cardinality(after) = Cardinality(before) - 1
    BY <1>1, <2>1, FS_RemoveElement
  <2>3. QED BY <1>3, <2>2 DEF CountAfter
<1>4. CASE (becomes = "Owner") <=> (members[m] = "Owner")
  <2>1. after = before
    BY <1>4 DEF OwnersIn
  <2>2. QED BY <1>4, <2>1 DEF CountAfter
<1>5. QED BY <1>2, <1>3, <1>4

\* The count a member map of one Owner and nobody else has.
LEMMA OneOwner ==
    ASSUME NEW members \in [Users -> Role \cup {NoRole}], NEW m \in Users,
           OwnersIn(members) = {}
    PROVE  Cardinality(OwnersIn([members EXCEPT ![m] = "Owner"])) = 1
<1>1. members[m] # "Owner"
  BY DEF OwnersIn
<1>2. Cardinality(OwnersIn(members)) = 0
  BY FS_EmptySet
<1>3. "Owner" \in Role \cup {NoRole}
  BY DEF Role
<1>4. Cardinality(OwnersIn([members EXCEPT ![m] = "Owner"])) = CountAfter(0, members[m], "Owner")
  BY <1>2, <1>3, CountAfterExact
<1>5. QED BY <1>1, <1>4 DEF CountAfter

-----------------------------------------------------------------------------
(***************************************************************************)
(* The invariant.                                                          *)
(***************************************************************************)

\* No instance is deployed and none has members.
LEMMA InvInit == OrganizationInit => OrganizationInv
<1> SUFFICES ASSUME OrganizationInit PROVE OrganizationInv
  OBVIOUS
<1>1. OrganizationTypeOK
  BY DEF OrganizationInit, OrganizationTypeOK
<1>2. \A o \in Orgs \ deployed : Owners(o) = {}
  BY DEF OrganizationInit, Owners, NoRole
<1>3. QED BY <1>1, <1>2 DEF OrganizationInit, OrganizationInv, OwnerCountExact

\* grant_role and revoke_role, and any other way to give member m of o the
\* role `becomes` under the last-owner rule.
LEMMA RoleChangeKeepsInv ==
    ASSUME OrganizationInv,
           NEW o \in deployed, NEW m \in Users, NEW becomes \in Role \cup {NoRole},
           MayLose(o, m, becomes),
           ownerCount' = [ownerCount EXCEPT ![o] = CountAfter(@, roleOf[o][m], becomes)],
           roleOf' = [roleOf EXCEPT ![o][m] = becomes],
           UNCHANGED <<deployed, engineOf, metadataHash>>
    PROVE  OrganizationInv'
<1>1. /\ o \in Orgs
      /\ roleOf \in [Orgs -> [Users -> Role \cup {NoRole}]]
      /\ ownerCount \in [Orgs -> Nat]
      /\ ownerCount[o] >= 1
  BY DEF OrganizationInv, OrganizationTypeOK
<1>2. /\ roleOf'[o] = [roleOf[o] EXCEPT ![m] = becomes]
      /\ ownerCount'[o] = CountAfter(ownerCount[o], roleOf[o][m], becomes)
      /\ \A p \in Orgs \ {o} : roleOf'[p] = roleOf[p] /\ ownerCount'[p] = ownerCount[p]
  BY <1>1
<1>3. ownerCount'[o] \in Nat /\ ownerCount'[o] >= 1
  BY <1>1, <1>2 DEF CountAfter, MayLose
<1>4. OrganizationTypeOK'
  <2>1. roleOf' \in [Orgs -> [Users -> Role \cup {NoRole}]]
    BY <1>1
  <2>2. ownerCount' \in [Orgs -> Nat]
    BY <1>1, <1>3
  <2>3. QED BY <2>1, <2>2 DEF OrganizationInv, OrganizationTypeOK
<1>5. ownerCount'[o] = Cardinality(Owners(o))'
  <2>1. ownerCount[o] = Cardinality(OwnersIn(roleOf[o]))
    BY DEF OrganizationInv, OwnerCountExact, Owners, OwnersIn
  <2>2. Owners(o)' = OwnersIn([roleOf[o] EXCEPT ![m] = becomes])
    BY <1>2 DEF Owners, OwnersIn
  <2>3. roleOf[o] \in [Users -> Role \cup {NoRole}]
    BY <1>1
  <2>4. QED BY <1>2, <2>1, <2>2, <2>3, CountAfterExact
<1>6. \A p \in Orgs \ {o} : Owners(p)' = Owners(p)
  BY <1>2 DEF Owners
<1>7. OwnerCountExact'
  <2> SUFFICES ASSUME NEW p \in deployed
               PROVE  ownerCount'[p] = Cardinality(Owners(p))'
    BY DEF OwnerCountExact
  <2>1. CASE p = o
    BY <1>5, <2>1
  <2>2. CASE p # o
    <3>1. p \in Orgs \ {o}
      BY <2>2 DEF OrganizationInv, OrganizationTypeOK
    <3>2. QED BY <1>2, <1>6, <3>1 DEF OrganizationInv, OwnerCountExact
  <2>3. QED BY <2>1, <2>2
<1>8. \A p \in deployed' : ownerCount'[p] >= 1
  BY <1>2, <1>3 DEF OrganizationInv, OrganizationTypeOK
<1>9. \A p \in Orgs \ deployed' : Owners(p)' = {}
  BY <1>6 DEF OrganizationInv
<1>10. QED BY <1>4, <1>7, <1>8, <1>9 DEF OrganizationInv

\* The constructor leaves one member, the Owner, and counts one.
LEMMA ConstructKeepsInv ==
    ASSUME OrganizationInv, NEW o \in Orgs, NEW owner \in Users,
           NEW engines \in [EngineSlot -> Engines],
           Construct(o, owner, engines)
    PROVE  OrganizationInv'
<1>1. /\ roleOf \in [Orgs -> [Users -> Role \cup {NoRole}]]
      /\ ownerCount \in [Orgs -> Nat]
      /\ o \notin deployed
      /\ deployed' = deployed \cup {o}
  BY DEF OrganizationInv, OrganizationTypeOK, Construct
<1>2. /\ roleOf'[o] = [roleOf[o] EXCEPT ![owner] = "Owner"]
      /\ ownerCount'[o] = 1
      /\ \A p \in Orgs \ {o} : roleOf'[p] = roleOf[p] /\ ownerCount'[p] = ownerCount[p]
  BY <1>1 DEF Construct
<1>3. OrganizationTypeOK'
  <2>1. roleOf' \in [Orgs -> [Users -> Role \cup {NoRole}]]
    BY <1>1 DEF Construct, Role
  <2>2. ownerCount' \in [Orgs -> Nat]
    BY <1>1 DEF Construct
  <2>3. engineOf' \in [Orgs -> [EngineSlot -> Engines \cup {Unset}]]
    <3>1. engines \in [EngineSlot -> Engines \cup {Unset}]
      OBVIOUS
    <3>2. QED BY <3>1 DEF OrganizationInv, OrganizationTypeOK, Construct
  <2>4. QED BY <1>1, <2>1, <2>2, <2>3 DEF OrganizationInv, OrganizationTypeOK, Construct
<1>4. ownerCount'[o] = Cardinality(Owners(o))'
  <2>1. OwnersIn(roleOf[o]) = {}
    BY <1>1 DEF OrganizationInv, Owners, OwnersIn
  <2>2. Owners(o)' = OwnersIn([roleOf[o] EXCEPT ![owner] = "Owner"])
    BY <1>2 DEF Owners, OwnersIn
  <2>3. roleOf[o] \in [Users -> Role \cup {NoRole}]
    BY <1>1
  <2>4. QED BY <1>2, <2>1, <2>2, <2>3, OneOwner
<1>5. \A p \in Orgs \ {o} : Owners(p)' = Owners(p)
  BY <1>2 DEF Owners
<1>6. OwnerCountExact'
  <2> SUFFICES ASSUME NEW p \in deployed'
               PROVE  ownerCount'[p] = Cardinality(Owners(p))'
    BY DEF OwnerCountExact
  <2>1. CASE p = o
    BY <1>4, <2>1
  <2>2. CASE p # o
    <3>1. p \in deployed /\ p \in Orgs \ {o}
      BY <1>1, <2>2 DEF OrganizationInv, OrganizationTypeOK
    <3>2. QED BY <1>2, <1>5, <3>1 DEF OrganizationInv, OwnerCountExact
  <2>3. QED BY <2>1, <2>2
<1>7. \A p \in deployed' : ownerCount'[p] >= 1
  BY <1>1, <1>2 DEF OrganizationInv, OrganizationTypeOK
<1>8. \A p \in Orgs \ deployed' : Owners(p)' = {}
  BY <1>1, <1>5 DEF OrganizationInv
<1>9. QED BY <1>3, <1>6, <1>7, <1>8 DEF OrganizationInv

\* The steps that leave roles and counters alone.
LEMMA RolesUntouchedKeepsInv ==
    ASSUME OrganizationInv, UNCHANGED <<deployed, roleOf, ownerCount>>,
           engineOf' \in [Orgs -> [EngineSlot -> Engines \cup {Unset}]],
           metadataHash' \in [Orgs -> Hashes \cup {Unset}]
    PROVE  OrganizationInv'
<1>1. OrganizationTypeOK'
  BY DEF OrganizationInv, OrganizationTypeOK
<1>2. \A o : Owners(o)' = Owners(o)
  BY DEF Owners
<1>3. QED BY <1>1, <1>2 DEF OrganizationInv, OwnerCountExact

\* A call on the members, whichever it is.
LEMMA MemberCallKeepsInv ==
    ASSUME OrganizationInv, NEW o \in Orgs, NEW caller \in Users, MemberCall(o, caller)
    PROVE  OrganizationInv'
<1>1. ASSUME NEW m \in Users, NEW role \in Role, GrantRole(o, caller, m, role)
      PROVE  OrganizationInv'
  <2>1. o \in deployed /\ role \in Role \cup {NoRole}
    BY <1>1 DEF GrantRole, RequireRole
  <2>2. QED BY <1>1, <2>1, RoleChangeKeepsInv DEF GrantRole
<1>2. ASSUME NEW m \in Users, RevokeRole(o, caller, m)
      PROVE  OrganizationInv'
  <2>1. o \in deployed /\ NoRole \in Role \cup {NoRole}
    BY <1>2 DEF RevokeRole, RequireRole
  <2>2. QED BY <1>2, <2>1, RoleChangeKeepsInv DEF RevokeRole
<1>3. ASSUME NEW slot \in EngineSlot, NEW e \in Engines, SetEngine(o, caller, slot, e)
      PROVE  OrganizationInv'
  <2>1. engineOf' \in [Orgs -> [EngineSlot -> Engines \cup {Unset}]]
    BY <1>3 DEF SetEngine, OrganizationInv, OrganizationTypeOK
  <2>2. metadataHash' \in [Orgs -> Hashes \cup {Unset}]
    BY <1>3 DEF SetEngine, OrganizationInv, OrganizationTypeOK
  <2>3. QED BY <1>3, <2>1, <2>2, RolesUntouchedKeepsInv DEF SetEngine
<1>4. ASSUME NEW h \in Hashes, UpdateMetadataHash(o, caller, h)
      PROVE  OrganizationInv'
  <2>1. metadataHash' \in [Orgs -> Hashes \cup {Unset}]
    BY <1>4 DEF UpdateMetadataHash, OrganizationInv, OrganizationTypeOK
  <2>2. engineOf' \in [Orgs -> [EngineSlot -> Engines \cup {Unset}]]
    BY <1>4 DEF UpdateMetadataHash, OrganizationInv, OrganizationTypeOK
  <2>3. QED BY <1>4, <2>1, <2>2, RolesUntouchedKeepsInv DEF UpdateMetadataHash
<1>5. QED BY <1>1, <1>2, <1>3, <1>4 DEF MemberCall

LEMMA InvStep == OrganizationInv /\ [OrganizationNext]_orgVars => OrganizationInv'
<1> SUFFICES ASSUME OrganizationInv, [OrganizationNext]_orgVars PROVE OrganizationInv'
  OBVIOUS
<1>1. CASE OrganizationNext
  <2>1. PICK o \in Orgs, caller \in Users :
            \/ \E engines \in [EngineSlot -> Engines] : Construct(o, caller, engines)
            \/ MemberCall(o, caller)
    BY <1>1 DEF OrganizationNext
  <2>2. QED BY <2>1, ConstructKeepsInv, MemberCallKeepsInv
<1>2. CASE UNCHANGED orgVars
  <2>1. /\ engineOf' \in [Orgs -> [EngineSlot -> Engines \cup {Unset}]]
        /\ metadataHash' \in [Orgs -> Hashes \cup {Unset}]
    BY <1>2 DEF orgVars, OrganizationInv, OrganizationTypeOK
  <2>2. QED BY <1>2, <2>1, RolesUntouchedKeepsInv DEF orgVars
<1>3. QED BY <1>1, <1>2

\* The counter is exact and positive for every instance deployed, in every
\* reachable state.
THEOREM OrganizationInvariant == OrganizationSpec => []OrganizationInv
<1>1. QED BY InvInit, InvStep, PTL DEF OrganizationSpec

-----------------------------------------------------------------------------
(***************************************************************************)
(* What the runs check on three users, for any number of them.             *)
(***************************************************************************)

\* Every call leaves the storage of every instance well typed; in particular
\* the owner counter, which the code decrements unchecked, never underflows.
THEOREM OrganizationTypeCorrect == OrganizationSpec => []OrganizationTypeOK
<1>1. OrganizationInv => OrganizationTypeOK
  BY DEF OrganizationInv
<1>2. QED BY <1>1, OrganizationInvariant, PTL

\* OwnerCount is the number of Owners, after any sequence of calls.
THEOREM OwnerCountIsExact == OrganizationSpec => []OwnerCountExact
<1>1. OrganizationInv => OwnerCountExact
  BY DEF OrganizationInv
<1>2. QED BY <1>1, OrganizationInvariant, PTL

\* A deployed organization always has an Owner.
THEOREM OrganizationNeverOwnerless == OrganizationSpec => []NeverOwnerless
<1>1. OrganizationInv => NeverOwnerless
  <2> SUFFICES ASSUME OrganizationInv, NEW o \in deployed PROVE Owners(o) # {}
    BY DEF NeverOwnerless
  <2>1. Cardinality(Owners(o)) >= 1
    BY DEF OrganizationInv, OwnerCountExact
  <2>2. QED BY <2>1, FS_EmptySet
<1>2. QED BY <1>1, OrganizationInvariant, PTL
=============================================================================
