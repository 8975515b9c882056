----------------------- MODULE EmployeesService_proofs -----------------------
(***************************************************************************)
(* The rows the backend keeps of employees, against the records on chain,  *)
(* for any number of employees, requests and intents.                      *)
(*                                                                         *)
(* A row is linked to a record long after the record was made, and it is   *)
(* retired before its record is.  So the invariant follows a registration  *)
(* from the row through its one intent to its one record, whether or not   *)
(* the row is linked yet, and a deactivation from the row to the call.     *)
(*                                                                         *)
(* A row named in the submission of another row's registration is linked   *)
(* to the other's record; what is known of links leaves it out.            *)
(***************************************************************************)
EXTENDS EmployeesService, Contracts_proofs, Intents_proofs

\* What the contracts keep.
OnChainInv == RegistryInv /\ FactoryTypeOK /\ RegistryTypeOK /\ StaffInv

StaffRow == [wallet : Payees, salary : Amounts, status : EmployeeStatus, id : Nat]

\* A call is about a row there is, and a deactivation about a row retired
\* before and the record it is linked to, unless it was misnamed.
SoundCall(call) ==
    /\ call \in RegistryOperation
    /\ call.row \in DOMAIN staff
    /\ call.op = "deactivate" =>
           /\ call.id # Null /\ staff[call.row].status = "INACTIVE"
           /\ call.row \notin misnamed => staff[call.row].id = call.id

\* What a handler knows where it stands; a link once read does not change, but
\* for a misnamed row.
HandlerSound(p) ==
    /\ requests[p].pc \in {"idle", "register", "insert", "edit", "build", "write"} \cup Submitting
    /\ requests[p].pc = "register" =>
           /\ requests[p].row \in DOMAIN staff /\ requests[p].salary \in Amounts
           /\ requests[p].todo \in Seq(Person)
    /\ requests[p].pc = "insert" => requests[p].todo \in Seq(Person) \ {<<>>}
    /\ requests[p].pc = "edit" =>
           /\ requests[p].op \in {"update", "deactivate"}
           /\ requests[p].row \in DOMAIN staff /\ requests[p].id \in Nat
           /\ requests[p].id # Null /\ requests[p].row \notin misnamed =>
                  staff[requests[p].row].id = requests[p].id
    /\ requests[p].pc = "build" =>
           SoundCall(requests[p].call) /\ requests[p].call.op # "register"
    /\ requests[p].pc = "write" =>
           /\ requests[p].intent \in DOMAIN intents /\ Confirmed(requests[p].intent)
           /\ intents[requests[p].intent].call.op = "register"

Registrations == {i \in DOMAIN intents : intents[i].call.op = "register"}
RowOf(i) == intents[i].call.row

\* A row is registered by one intent at most.
RegisteredOnce ==
    /\ \A i, j \in Registrations : RowOf(i) = RowOf(j) => i = j
    /\ \A p \in Slots : requests[p].pc = "register" =>
           /\ \A i \in Registrations : RowOf(i) # requests[p].row
           /\ \A q \in Slots : requests[q].pc = "register" /\ requests[q].row = requests[p].row
                                   => q = p

\* A registration that succeeded made a record of its own, with the wallet of
\* its row; while no row is misnamed, only a row linked to it and retired has
\* it inactive.
RegistrationsInv ==
    /\ \A i \in Registrations : Confirmed(i) =>
           /\ NewRecord(i) \in DOMAIN employees[TheOrg]
           /\ employees[TheOrg][NewRecord(i)].wallet = staff[RowOf(i)].wallet
           /\ \/ misnamed # {}
              \/ employees[TheOrg][NewRecord(i)].active
              \/ staff[RowOf(i)].id = NewRecord(i) /\ staff[RowOf(i)].status = "INACTIVE"
    /\ \A i, j \in Registrations :
           Confirmed(i) /\ Confirmed(j) /\ NewRecord(i) = NewRecord(j) => i = j

\* A linked row is linked to the record some registration made, to that of its
\* own unless it was misnamed.
LinksSound ==
    \A r \in DOMAIN staff : staff[r].id # Null =>
        \E i \in Registrations :
            /\ Confirmed(i) /\ NewRecord(i) = staff[r].id
            /\ r \notin misnamed => RowOf(i) = r

StaffServiceInv ==
    /\ OnChainInv /\ IntentsInv(RegistryOperation, {Founder})
    /\ staff \in Seq(StaffRow) /\ Len(staff) <= MaxStaff /\ misnamed \subseteq DOMAIN staff
    /\ \A i \in DOMAIN intents : SoundCall(intents[i].call)
    /\ \A p \in Slots : HandlerSound(p)
    /\ RegisteredOnce /\ RegistrationsInv /\ LinksSound

-----------------------------------------------------------------------------
\* No row, no intent, no record.
LEMMA StaffServiceInvInit == EmployeesServiceInit => StaffServiceInv
<1> SUFFICES ASSUME EmployeesServiceInit PROVE StaffServiceInv
  OBVIOUS
<1>1. DeployedInit(0) /\ RegistryInit /\ IntentsInit
      /\ staff = <<>> /\ misnamed = {}
  BY DEF EmployeesServiceInit
<1>2. RegistryInv /\ FactoryTypeOK
  <2>1. /\ deployed = {HomeOrg} /\ orgCount = 1 /\ initialized = Engine \cup {"payroll_factory"}
        /\ registry =
               <<[organization |-> HomeOrg, treasury |-> TreasuryOf[HomeOrg], owner |-> Founder]>>
        /\ cached = [e \in Engine |-> <<>>] /\ wasmHash \in [WasmTarget -> Hashes]
        /\ spenders = [o \in Orgs |-> {PayrollEngine, MilestoneEngine}]
        /\ booked = [o \in Orgs |-> Endowment[TreasuryOf[o]]]
        /\ balance = Moved(Endowment, Home, MilestoneEngine, 0)
    BY <1>1 DEF DeployedInit, Home
  <2>2. Orgs = {HomeOrg} /\ Founder \in Users
    BY DeploymentAssumption
  <2>3. Home \in Accounts /\ MilestoneEngine \in Accounts /\ Endowment \in [Accounts -> Nat]
        /\ TreasuryOf \in [Orgs -> Accounts]
    BY <2>2, AccountsAssumption DEF Home
  <2>4. balance \in [Accounts -> Nat] /\ booked \in [Orgs -> Int]
    BY <2>1, <2>3, MovedTyped
  <2>5. QED BY <2>1, <2>2, <2>4, OneOrganization
<1>3. RegistryTypeOK /\ StaffInv
  BY <1>1 DEF RegistryInit, RegistryTypeOK, StaffInv
<1>4. IntentsInv(RegistryOperation, {Founder}) /\ intents = <<>>
      /\ \A p \in Slots : requests[p] = Idle
  BY <1>1, IntentsInvInit DEF IntentsInit
<1>5. Registrations = {} /\ DOMAIN intents = {} /\ DOMAIN staff = {}
  BY <1>1, <1>4 DEF Registrations
<1>6. \A p \in Slots : HandlerSound(p)
  BY <1>4 DEF HandlerSound, Idle, Submitting
<1>7. RegisteredOnce /\ RegistrationsInv /\ LinksSound
  BY <1>4, <1>5 DEF RegisteredOnce, RegistrationsInv, LinksSound, Idle
<1>8. staff \in Seq(StaffRow) /\ Len(staff) <= MaxStaff
  BY <1>1, EmployeesServiceAssumption
<1>9. QED BY <1>1, <1>2, <1>3, <1>4, <1>5, <1>6, <1>7, <1>8 DEF StaffServiceInv, OnChainInv

\* The one organization has the one id.
LEMMA HomeId == TheOrg \in OrgId /\ OrgId = {TheOrg}
<1>1. Cardinality({HomeOrg}) = 1
  BY FS_Singleton
<1>2. 1 .. 1 = {1}
  OBVIOUS
<1>3. QED BY <1>1, <1>2, DeploymentAssumption DEF OrgId, TheOrg

\* A step of the backend leaves the chain as it was.
LEMMA OnChainUntouched == OnChainInv /\ UNCHANGED chainVars => OnChainInv'
<1> SUFFICES ASSUME OnChainInv, UNCHANGED chainVars PROVE OnChainInv'
  OBVIOUS
<1>1. UNCHANGED <<deployed, initialized, orgCount, registry, wasmHash, cached, employees>>
  BY DEF chainVars, orgVars, factoryVars
<1>2. RegistryInv' /\ FactoryTypeOK'
  BY <1>1 DEF OnChainInv, RegistryInv, FactoryTypeOK
<1>3. StaffInv' /\ RegistryTypeOK'
  BY <1>1 DEF OnChainInv, StaffInv, RegistryTypeOK
<1>4. QED BY <1>2, <1>3 DEF OnChainInv

-----------------------------------------------------------------------------
(***************************************************************************)
(* What no step takes back: a row there is, its wallet, its link unless it *)
(* is misnamed, and its retirement.                                        *)
(***************************************************************************)
RowsKept ==
    /\ DOMAIN staff \subseteq DOMAIN staff' /\ misnamed \subseteq misnamed'
    /\ \A r \in DOMAIN staff :
           /\ staff'[r].wallet = staff[r].wallet
           /\ staff[r].id # Null /\ r \notin misnamed' => staff'[r].id = staff[r].id
           /\ staff[r].status = "INACTIVE" => staff'[r].status = "INACTIVE"

\* A sound call stays sound while rows keep what a call says of them.
LEMMA SoundStays ==
    ASSUME NEW call, SoundCall(call), RowsKept PROVE SoundCall(call)'
BY DEF SoundCall, RowsKept

\* So does what a handler carries.
LEMMA HandlerStays ==
    ASSUME NEW q \in Slots, HandlerSound(q), requests'[q] = requests[q], RowsKept, IntentsKept
    PROVE  HandlerSound(q)'
<1>1. PICK r : r = requests[q] /\ r = requests'[q]
  OBVIOUS
<1>2. r.pc = "build" => SoundCall(r.call)'
  <2>1. r.pc = "build" => SoundCall(r.call)
    BY <1>1 DEF HandlerSound
  <2>2. QED BY <2>1, SoundStays
<1>3. r.pc = "build" => SoundCall(requests[q].call)'
  BY <1>1, <1>2 DEF SoundCall
<1>4. r.pc = "write" =>
          /\ r.intent \in DOMAIN intents' /\ Confirmed(r.intent)'
          /\ intents'[r.intent].call.op = "register"
  BY <1>1 DEF HandlerSound, IntentsKept
<1>5. r.pc = "edit" =>
          /\ r.op \in {"update", "deactivate"} /\ r.row \in DOMAIN staff' /\ r.id \in Nat
          /\ r.id # Null /\ r.row \notin misnamed' => staff'[r.row].id = r.id
  BY <1>1 DEF HandlerSound, RowsKept
<1>6. r.pc = "register" =>
          r.row \in DOMAIN staff' /\ r.salary \in Amounts /\ r.todo \in Seq(Person)
  BY <1>1 DEF HandlerSound, RowsKept
<1>7. r.pc = "insert" => r.todo \in Seq(Person) \ {<<>>}
  BY <1>1 DEF HandlerSound
<1>8. r.pc \in {"idle", "register", "insert", "edit", "build", "write"} \cup Submitting
  BY <1>1 DEF HandlerSound
<1>9. QED BY <1>1, <1>3, <1>4, <1>5, <1>6, <1>7, <1>8 DEF HandlerSound, SoundCall, Confirmed

\* Rows that are linked to nothing new are linked soundly still.
LEMMA LinksStay ==
    ASSUME LinksSound, IntentsKept, misnamed \subseteq misnamed',
           \A r \in DOMAIN staff' :
               staff'[r].id # Null => r \in DOMAIN staff /\ staff'[r].id = staff[r].id
    PROVE  LinksSound'
<1> SUFFICES ASSUME NEW r \in DOMAIN staff', staff'[r].id # Null
             PROVE  \E i \in Registrations' :
                        /\ Confirmed(i)' /\ NewRecord(i)' = staff'[r].id
                        /\ r \notin misnamed' => RowOf(i)' = r
  BY DEF LinksSound
<1>1. PICK i \in Registrations :
          /\ Confirmed(i) /\ NewRecord(i) = staff[r].id
          /\ r \notin misnamed => RowOf(i) = r
  BY DEF LinksSound
<1>2. i \in Registrations' /\ Confirmed(i)' /\ NewRecord(i)' = NewRecord(i) /\ RowOf(i)' = RowOf(i)
  BY <1>1 DEF IntentsKept, Registrations, NewRecord, RowOf
<1>3. QED BY <1>1, <1>2

\* What a handler leaves to show.
LEMMA StaffStep ==
    ASSUME StaffServiceInv, NEW p \in Slots, UNCHANGED chainVars,
           IntentsInv(RegistryOperation, {Founder})', IntentsKept, NoneConfirmed,
           staff' \in Seq(StaffRow), Len(staff') <= MaxStaff, RowsKept,
           misnamed' \subseteq DOMAIN staff',
           \A i \in DOMAIN intents' \ DOMAIN intents : SoundCall(intents[i].call)',
           HandlerSound(p)', \A q \in Slots \ {p} : requests'[q] = requests[q],
           RegisteredOnce', LinksSound'
    PROVE  StaffServiceInv'
<1>1. OnChainInv' /\ employees' = employees
  BY OnChainUntouched DEF StaffServiceInv, chainVars
<1>2. \A q \in Slots : HandlerSound(q)'
  BY HandlerStays DEF StaffServiceInv
<1>3. ASSUME NEW i \in DOMAIN intents PROVE SoundCall(intents[i].call)'
  <2>1. PICK call : call = intents[i].call /\ call = intents'[i].call
    BY DEF IntentsKept
  <2>2. SoundCall(call)'
    BY <2>1, SoundStays DEF StaffServiceInv
  <2>3. QED BY <2>1, <2>2 DEF SoundCall
<1>4. \A i \in DOMAIN intents' : SoundCall(intents[i].call)'
  BY <1>3
<1>5. \A i \in Registrations' : Confirmed(i)' =>
          /\ i \in Registrations /\ Confirmed(i) /\ RowOf(i) \in DOMAIN staff
          /\ RowOf(i)' = RowOf(i) /\ NewRecord(i)' = NewRecord(i)
  BY DEF Registrations, NoneConfirmed, IntentsKept, RowOf, NewRecord, StaffServiceInv, SoundCall
<1>6. \A i \in Registrations : Confirmed(i) => NewRecord(i) # Null
  <2>1. employees[TheOrg] \in Seq(Employee)
    BY HomeId DEF StaffServiceInv, OnChainInv, RegistryTypeOK
  <2>2. QED BY <2>1 DEF StaffServiceInv, RegistrationsInv, Null
<1>7. RegistrationsInv'
  BY <1>1, <1>5, <1>6 DEF StaffServiceInv, RegistrationsInv, RowsKept
<1>8. QED BY <1>1, <1>2, <1>4, <1>7 DEF StaffServiceInv

\* The same for one that builds no registration and has none to build.
LEMMA PlainStep ==
    ASSUME StaffServiceInv, NEW p \in Slots, UNCHANGED chainVars,
           IntentsInv(RegistryOperation, {Founder})', IntentsKept, NoneConfirmed,
           staff' \in Seq(StaffRow), Len(staff') <= MaxStaff, RowsKept,
           misnamed' \subseteq DOMAIN staff',
           \A i \in DOMAIN intents' \ DOMAIN intents :
               SoundCall(intents[i].call)' /\ i \notin Registrations',
           HandlerSound(p)', \A q \in Slots \ {p} : requests'[q] = requests[q],
           requests'[p].pc # "register",
           LinksSound'
    PROVE  StaffServiceInv'
<1>1. Registrations' = Registrations /\ \A i \in Registrations : RowOf(i)' = RowOf(i)
  BY DEF Registrations, IntentsKept, RowOf
<1>2. RegisteredOnce'
  BY <1>1 DEF StaffServiceInv, RegisteredOnce
<1>3. QED BY <1>2, StaffStep

\* And for one that leaves the intents and the rows alone and goes on as r.
LEMMA GoesOn ==
    ASSUME StaffServiceInv, NEW p \in Slots, NEW r, Await(p, r),
           UNCHANGED <<intents, sequence, chainVars, staff, misnamed>>,
           r.pc \in {"idle", "insert", "edit", "build", "write"},
           /\ r.pc = "insert" => r.todo \in Seq(Person) \ {<<>>}
           /\ r.pc = "edit" =>
                  /\ r.op \in {"update", "deactivate"} /\ r.row \in DOMAIN staff /\ r.id \in Nat
                  /\ r.id # Null /\ r.row \notin misnamed => staff[r.row].id = r.id
           /\ r.pc = "build" => SoundCall(r.call) /\ r.call.op # "register"
           /\ r.pc = "write" => /\ r.intent \in DOMAIN intents /\ Confirmed(r.intent)
                                /\ intents[r.intent].call.op = "register"
    PROVE  StaffServiceInv'
<1>1. /\ IntentsInv(RegistryOperation, {Founder})' /\ IntentsKept /\ NoneConfirmed
      /\ requests'[p] = r /\ \A q \in Slots \ {p} : requests'[q] = requests[q]
  BY AwaitKeepsIntents DEF StaffServiceInv, Submitting
<1>2. /\ RowsKept /\ LinksSound' /\ misnamed' \subseteq DOMAIN staff'
      /\ staff' \in Seq(StaffRow) /\ Len(staff') <= MaxStaff
  BY <1>1, LinksStay DEF RowsKept, StaffServiceInv
<1>3. r.pc = "build" => SoundCall(r.call)'
  BY <1>2, SoundStays
<1>4. HandlerSound(p)'
  BY <1>1, <1>3 DEF HandlerSound, SoundCall, Confirmed
<1>5. QED BY <1>1, <1>2, <1>4, PlainStep

-----------------------------------------------------------------------------
(***************************************************************************)
(* The endpoints.                                                          *)
(***************************************************************************)
\* A new row has no intent yet: every intent is about a row there was before.
LEMMA InsertKeeps ==
    ASSUME StaffServiceInv, NEW p \in Slots, requests[p].pc # "register",
           NEW people \in Seq(Person) \ {<<>>}, Insert(p, people)
    PROVE  StaffServiceInv'
<1>1. PICK row : row = [wallet |-> Head(people).wallet, salary |-> Head(people).salary,
                        status |-> "ACTIVE", id |-> Null]
  OBVIOUS
<1>2. PICK r : r = [pc |-> "register", row |-> Len(staff) + 1,
                    salary |-> Head(people).salary, todo |-> Tail(people)]
  OBVIOUS
<1>3. Head(people) \in Person /\ Tail(people) \in Seq(Person)
  OBVIOUS
<1>4. row \in StaffRow /\ row.id = Null
  BY <1>1, <1>3 DEF StaffRow, Person, EmployeeStatus, Null
<1>5. r.pc = "register" /\ r.row = Len(staff) + 1 /\ r.salary \in Amounts
      /\ r.todo \in Seq(Person)
  BY <1>2, <1>3 DEF Person
<1>6. /\ staff' = Append(staff, row) /\ Len(staff) < MaxStaff /\ Await(p, r)
      /\ UNCHANGED <<intents, sequence, chainVars, misnamed>>
  BY <1>1, <1>2 DEF Insert
<1>7. /\ staff \in Seq(StaffRow) /\ staff' \in Seq(StaffRow)
      /\ DOMAIN staff' = DOMAIN staff \cup {Len(staff) + 1} /\ Len(staff) + 1 \notin DOMAIN staff
      /\ staff'[Len(staff) + 1] = row
      /\ \A x \in DOMAIN staff : staff'[x] = staff[x]
  BY <1>4, <1>6 DEF StaffServiceInv
<1>8. Len(staff') <= MaxStaff
  BY <1>6, <1>7, EmployeesServiceAssumption
<1>9. RowsKept /\ misnamed' \subseteq DOMAIN staff'
  BY <1>6, <1>7 DEF RowsKept, StaffServiceInv
<1>10. /\ IntentsInv(RegistryOperation, {Founder})' /\ IntentsKept /\ NoneConfirmed
       /\ requests'[p] = r /\ \A q \in Slots \ {p} : requests'[q] = requests[q]
  BY <1>5, <1>6, AwaitKeepsIntents DEF StaffServiceInv, Submitting
<1>11. LinksSound'
  BY <1>4, <1>6, <1>7, <1>10, LinksStay DEF StaffServiceInv
<1>12. HandlerSound(p)'
  BY <1>5, <1>7, <1>10 DEF HandlerSound
<1>13. RegisteredOnce'
  <2>1. Registrations' = Registrations
        /\ \A i \in Registrations : RowOf(i)' = RowOf(i) /\ RowOf(i) \in DOMAIN staff
    BY <1>6 DEF Registrations, RowOf, StaffServiceInv, SoundCall
  <2>2. \A q \in Slots : requests[q].pc = "register" => requests[q].row \in DOMAIN staff
    BY DEF StaffServiceInv, HandlerSound
  <2>3. RegisteredOnce
    BY DEF StaffServiceInv
  <2>4. \A i, j \in Registrations' : RowOf(i)' = RowOf(j)' => i = j
    BY <2>1, <2>3 DEF RegisteredOnce
  <2>5. ASSUME NEW q \in Slots, requests'[q].pc = "register"
        PROVE  /\ \A i \in Registrations' : RowOf(i)' # requests'[q].row
               /\ \A s \in Slots : requests'[s].pc = "register" /\ s # q
                      => requests'[s].row # requests'[q].row
    <3>1. PICK n : n = Len(staff) + 1 /\ n \notin DOMAIN staff /\ requests'[p].row = n
      BY <1>5, <1>7, <1>10
    <3>2. CASE q = p
      BY <1>10, <2>1, <2>2, <3>1, <3>2
    <3>3. CASE q # p
      BY <1>10, <2>1, <2>2, <2>3, <2>5, <3>1, <3>3 DEF RegisteredOnce
    <3>4. QED BY <3>2, <3>3
  <2>6. QED BY <2>4, <2>5 DEF RegisteredOnce
<1>14. QED BY <1>6, <1>7, <1>8, <1>9, <1>10, <1>11, <1>12, <1>13, StaffStep

\* create and importCsv add rows, each of them still pending.
LEMMA CreateKeeps ==
    ASSUME StaffServiceInv, NEW p \in Slots, CreateEmployees(p) \/ NextEmployee(p)
    PROVE  StaffServiceInv'
<1>1. CASE CreateEmployees(p)
  <2>1. PICK people \in BoundedSeq(Person, MaxFile) \ {<<>>} : Insert(p, people)
    BY <1>1 DEF CreateEmployees
  <2>2. people \in Seq(Person)
    BY <2>1, EmployeesServiceAssumption DEF BoundedSeq, SeqOf
  <2>3. QED BY <1>1, <2>1, <2>2, InsertKeeps DEF CreateEmployees, At
<1>2. CASE NextEmployee(p)
  <2>1. requests[p].pc = "insert" /\ Insert(p, requests[p].todo)
    BY <1>2 DEF NextEmployee, At
  <2>2. requests[p].todo \in Seq(Person) \ {<<>>}
    BY <2>1 DEF StaffServiceInv, HandlerSound
  <2>3. QED BY <2>1, <2>2, InsertKeeps
<1>3. QED BY <1>1, <1>2

\* An intent built is a registration only of a row that had none.
LEMMA BuiltOrThrown ==
    ASSUME StaffServiceInv, NEW p \in Slots, NEW call, SoundCall(call), BuildOrThrow(call),
           NEW r, Await(p, r), UNCHANGED <<chainVars, staff, misnamed>>,
           r.pc \in {"idle", "insert"}, r.pc = "insert" => r.todo \in Seq(Person) \ {<<>>},
           call.op = "register" =>
               requests[p].pc = "register" /\ requests[p].row = call.row
    PROVE  StaffServiceInv'
<1>1. CASE UNCHANGED <<intents, sequence>>
  BY <1>1, GoesOn
<1>2. CASE Create(call, Founder)
  <2>1. IntentsInv(RegistryOperation, {Founder}) /\ Founder \in {Founder}
        /\ call \in RegistryOperation /\ r.pc \notin Submitting
    BY DEF StaffServiceInv, SoundCall, Submitting
  <2>2. /\ IntentsInv(RegistryOperation, {Founder})' /\ IntentsKept /\ NoneConfirmed
        /\ DOMAIN intents' = DOMAIN intents \cup {Len(intents) + 1}
        /\ \A i \in DOMAIN intents : intents'[i] = intents[i]
        /\ intents'[Len(intents) + 1].call = call
        /\ requests'[p] = r
        /\ \A q \in Slots \ {p} : requests'[q] = requests[q]
    <3>1. Create(call, Founder) /\ Await(p, r)
      BY <1>2
    <3>2. IntentsInv(RegistryOperation, {Founder})' /\ IntentsKept /\ NoneConfirmed
      BY <2>1, <3>1, CreateGoesOn
    <3>3. DOMAIN intents' = DOMAIN intents \cup {Len(intents) + 1}
      BY <2>1, <3>1, CreateGoesOn
    <3>4. /\ \A i \in DOMAIN intents : intents'[i] = intents[i]
          /\ intents'[Len(intents) + 1].call = call
      BY <2>1, <3>1, CreateGoesOn
    <3>5. requests'[p] = r /\ \A q \in Slots \ {p} : requests'[q] = requests[q]
      BY <2>1, <3>1, CreateGoesOn
    <3>6. QED BY <3>2, <3>3, <3>4, <3>5
  <2>3. /\ RowsKept /\ LinksSound' /\ misnamed' \subseteq DOMAIN staff'
        /\ staff' \in Seq(StaffRow) /\ Len(staff') <= MaxStaff
    BY <2>2, LinksStay DEF RowsKept, StaffServiceInv
  <2>4. HandlerSound(p)'
    BY <2>2 DEF HandlerSound
  <2>5. \A i \in DOMAIN intents' \ DOMAIN intents : SoundCall(intents[i].call)'
    <3>1. SoundCall(call)'
      BY <2>3, SoundStays
    <3>2. QED BY <2>2, <3>1 DEF SoundCall
  <2>6. CASE call.op # "register"
    <3>1. \A i \in DOMAIN intents' \ DOMAIN intents : i \notin Registrations'
      BY <2>2, <2>6 DEF Registrations
    <3>2. QED BY <2>2, <2>3, <2>4, <2>5, <3>1, PlainStep
  <2>7. CASE call.op = "register"
    <3>1. PICK new : new = Len(intents) + 1
      OBVIOUS
    <3>2. /\ Registrations' = Registrations \cup {new}
          /\ \A i \in Registrations : RowOf(i)' = RowOf(i) /\ RowOf(i) # call.row
          /\ RowOf(new)' = call.row
      <4>1. RegisteredOnce /\ new \notin DOMAIN intents
        BY <2>1, <3>1 DEF StaffServiceInv, IntentsInv
      <4>2. QED BY <2>2, <2>7, <3>1, <4>1 DEF Registrations, RowOf, RegisteredOnce
    <3>3. RegisteredOnce /\ requests[p].pc = "register" /\ requests[p].row = call.row
      BY <2>7 DEF StaffServiceInv
    <3>4. \A i, j \in Registrations' : RowOf(i)' = RowOf(j)' => i = j
      BY <3>2, <3>3 DEF RegisteredOnce
    <3>5. ASSUME NEW q \in Slots, requests'[q].pc = "register"
          PROVE  /\ q # p /\ requests'[q] = requests[q]
                 /\ \A i \in Registrations' : RowOf(i)' # requests'[q].row
      BY <2>2, <3>2, <3>3, <3>5 DEF RegisteredOnce
    <3>6. \A q, s \in Slots : requests'[q].pc = "register" /\ requests'[s].pc = "register" /\ s # q
              => requests'[s].row # requests'[q].row
      BY <3>3, <3>5 DEF RegisteredOnce
    <3>7. RegisteredOnce'
      BY <3>4, <3>5, <3>6 DEF RegisteredOnce
    <3>8. QED BY <2>2, <2>3, <2>4, <2>5, <3>7, StaffStep
  <2>8. QED BY <2>6, <2>7
<1>3. QED BY <1>1, <1>2 DEF BuildOrThrow

\* The intent is built for the row the handler read or wrote.
LEMMA BuildKeeps ==
    ASSUME StaffServiceInv, NEW p \in Slots, BuildRegister(p) \/ BuildChange(p)
    PROVE  StaffServiceInv'
<1>1. CASE BuildRegister(p)
  <2>1. PICK call : call = [op |-> "register", row |-> requests[p].row, id |-> Null,
                            salary |-> requests[p].salary]
    OBVIOUS
  <2>2. /\ requests[p].pc = "register" /\ BuildOrThrow(call)
        /\ UNCHANGED <<chainVars, staff, misnamed>>
        /\ \/ requests[p].todo # <<>> /\ Await(p, [pc |-> "insert", todo |-> requests[p].todo])
           \/ Answer(p)
    BY <1>1, <2>1 DEF BuildRegister, At
  <2>3. /\ requests[p].row \in DOMAIN staff /\ requests[p].salary \in Amounts
        /\ requests[p].todo \in Seq(Person)
    BY <2>2 DEF StaffServiceInv, HandlerSound
  <2>4. requests[p].row \in 1 .. MaxStaff
    BY <2>3, EmployeesServiceAssumption DEF StaffServiceInv
  <2>5. SoundCall(call) /\ call.op = "register" /\ call.row = requests[p].row
    BY <2>1, <2>3, <2>4 DEF SoundCall, RegistryOperation, Null
  <2>6. CASE requests[p].todo # <<>> /\ Await(p, [pc |-> "insert", todo |-> requests[p].todo])
    <3>1. PICK r : r = [pc |-> "insert", todo |-> requests[p].todo]
      OBVIOUS
    <3>2. r.pc = "insert" /\ r.todo \in Seq(Person) \ {<<>>} /\ Await(p, r)
      BY <2>3, <2>6, <3>1
    <3>3. QED BY <2>2, <2>5, <3>2, BuiltOrThrown
  <2>7. CASE Answer(p)
    <3>1. Await(p, Idle) /\ Idle.pc = "idle"
      BY <2>7 DEF Answer, Idle
    <3>2. QED BY <2>2, <2>5, <3>1, BuiltOrThrown
  <2>8. QED BY <2>2, <2>6, <2>7
<1>2. CASE BuildChange(p)
  <2>1. PICK call : call = requests[p].call
    OBVIOUS
  <2>2. /\ requests[p].pc = "build" /\ BuildOrThrow(call)
        /\ UNCHANGED <<chainVars, staff, misnamed>>
        /\ Await(p, Idle) /\ Idle.pc = "idle"
    BY <1>2, <2>1 DEF BuildChange, At, Answer, Idle
  <2>3. SoundCall(call) /\ call.op # "register"
    BY <2>1, <2>2 DEF StaffServiceInv, HandlerSound
  <2>4. QED BY <2>2, <2>3, BuiltOrThrown
<1>3. QED BY <1>1, <1>2

\* A handler of an edit or a deactivation reads its row.
LEMMA ReadKeeps ==
    ASSUME StaffServiceInv, NEW p \in Slots, ReadEmployee(p) PROVE StaffServiceInv'
<1>1. PICK r \in DOMAIN staff, op \in {"update", "deactivate"} :
          Await(p, [pc |-> "edit", op |-> op, row |-> r, id |-> staff[r].id])
  BY DEF ReadEmployee
<1>2. staff[r].id \in Nat
  <2>1. staff[r] \in StaffRow
    BY DEF StaffServiceInv
  <2>2. QED BY <2>1 DEF StaffRow
<1>3. UNCHANGED <<intents, sequence, chainVars, staff, misnamed>>
  BY DEF ReadEmployee
<1>4. PICK x : x = [pc |-> "edit", op |-> op, row |-> r, id |-> staff[r].id]
  OBVIOUS
<1>5. /\ x.pc = "edit" /\ x.op \in {"update", "deactivate"} /\ x.row \in DOMAIN staff
      /\ x.id \in Nat /\ (x.id # Null => staff[x.row].id = x.id) /\ Await(p, x)
  BY <1>1, <1>2, <1>4
<1>6. QED BY <1>3, <1>5, GoesOn

\* A deactivation is built only after its row is retired.
LEMMA WriteKeeps ==
    ASSUME StaffServiceInv, NEW p \in Slots, WriteEmployee(p) PROVE StaffServiceInv'
<1>1. requests[p].pc = "edit" /\ UNCHANGED <<intents, sequence, chainVars, misnamed>>
  BY DEF WriteEmployee, At
<1>2. PICK r \in DOMAIN staff, op \in {"update", "deactivate"}, id \in Nat :
          /\ r = requests[p].row /\ op = requests[p].op /\ id = requests[p].id
          /\ id # Null /\ r \notin misnamed => staff[r].id = id
  BY <1>1 DEF StaffServiceInv, HandlerSound
<1>3. PICK row \in StaffRow :
          /\ staff' = [staff EXCEPT ![r] = row]
          /\ row.wallet = staff[r].wallet /\ row.id = staff[r].id
          /\ staff[r].status = "INACTIVE" \/ op = "deactivate" => row.status = "INACTIVE"
  <2>1. staff[r] \in StaffRow
    BY DEF StaffServiceInv
  <2>2. CASE op = "update"
    <3>1. PICK salary \in Amounts : staff' = [staff EXCEPT ![r].salary = salary]
      BY <1>2, <2>2 DEF WriteEmployee
    <3>2. PICK row : row = [staff[r] EXCEPT !.salary = salary]
      OBVIOUS
    <3>3. row \in StaffRow /\ row.wallet = staff[r].wallet /\ row.id = staff[r].id
          /\ row.status = staff[r].status
      BY <2>1, <3>2 DEF StaffRow
    <3>4. staff' = [staff EXCEPT ![r] = row]
      BY <3>1, <3>2
    <3>5. QED BY <2>2, <3>3, <3>4
  <2>3. CASE op = "deactivate"
    <3>1. staff' = [staff EXCEPT ![r] = [staff[r] EXCEPT !.status = "INACTIVE"]]
      BY <1>2, <2>3 DEF WriteEmployee, Deactivated
    <3>2. PICK row : row = [staff[r] EXCEPT !.status = "INACTIVE"]
      OBVIOUS
    <3>3. row \in StaffRow /\ row.wallet = staff[r].wallet /\ row.id = staff[r].id
          /\ row.status = "INACTIVE"
      BY <2>1, <3>2 DEF StaffRow, EmployeeStatus
    <3>4. QED BY <3>1, <3>2, <3>3
  <2>4. QED BY <2>2, <2>3
<1>4. /\ staff' \in Seq(StaffRow) /\ DOMAIN staff' = DOMAIN staff /\ Len(staff') = Len(staff)
      /\ staff'[r] = row /\ \A x \in DOMAIN staff : x # r => staff'[x] = staff[x]
  BY <1>3 DEF StaffServiceInv
<1>5. RowsKept /\ misnamed' \subseteq DOMAIN staff'
  BY <1>1, <1>3, <1>4 DEF RowsKept, StaffServiceInv
<1>6. PICK next : /\ Await(p, next)
                  /\ \/ next = Idle
                     \/ /\ id # Null
                        /\ next = [pc |-> "build", call |-> [op |-> op, row |-> r, id |-> id,
                                                             salary |-> row.salary]]
  BY <1>2, <1>4 DEF WriteEmployee, Answer
<1>7. next.pc \in {"idle", "build"}
  BY <1>6 DEF Idle
<1>8. /\ IntentsInv(RegistryOperation, {Founder})' /\ IntentsKept /\ NoneConfirmed
      /\ requests'[p] = next /\ \A q \in Slots \ {p} : requests'[q] = requests[q]
  BY <1>1, <1>6, <1>7, AwaitKeepsIntents DEF StaffServiceInv, Submitting
<1>9. LinksSound'
  BY <1>1, <1>3, <1>4, <1>8, LinksStay DEF StaffServiceInv
<1>10. HandlerSound(p)'
  <2>1. CASE next = Idle
    BY <1>8, <2>1 DEF HandlerSound, Idle
  <2>2. CASE next # Idle
    <3>1. PICK call : /\ next = [pc |-> "build", call |-> call]
                      /\ call = [op |-> op, row |-> r, id |-> id, salary |-> row.salary]
                      /\ id # Null
      BY <1>6, <2>2
    <3>2. r \in 1 .. MaxStaff /\ row.salary \in Amounts
      BY EmployeesServiceAssumption DEF StaffServiceInv, StaffRow
    <3>3. SoundCall(call)'
      BY <1>1, <1>2, <1>3, <1>4, <3>1, <3>2 DEF SoundCall, RegistryOperation
    <3>4. QED BY <1>8, <3>1, <3>3 DEF HandlerSound, SoundCall
  <2>3. QED BY <2>1, <2>2
<1>11. Len(staff') <= MaxStaff
  BY <1>4 DEF StaffServiceInv
<1>12. QED BY <1>1, <1>4, <1>5, <1>7, <1>8, <1>9, <1>10, <1>11, PlainStep

\* The submit endpoints send what was built.
LEMMA SubmitKeeps ==
    ASSUME StaffServiceInv, NEW p \in Slots, SubmitStep(p), UNCHANGED <<chainVars, staff, misnamed>>
    PROVE  StaffServiceInv'
<1>1. /\ IntentsInv(RegistryOperation, {Founder})' /\ IntentsKept /\ NoneConfirmed
      /\ DOMAIN intents' = DOMAIN intents
      /\ requests'[p].pc \in {"idle"} \cup Submitting
      /\ \A q \in Slots \ {p} : requests'[q] = requests[q]
  BY SubmitKeepsIntents DEF StaffServiceInv
<1>2. /\ RowsKept /\ LinksSound' /\ misnamed' \subseteq DOMAIN staff'
      /\ staff' \in Seq(StaffRow) /\ Len(staff') <= MaxStaff
  BY <1>1, LinksStay DEF RowsKept, StaffServiceInv
<1>3. HandlerSound(p)' /\ requests'[p].pc # "register"
  BY <1>1 DEF HandlerSound, Submitting
<1>4. QED BY <1>1, <1>2, <1>3, PlainStep

\* Polling ends with the outcome of the transaction, or without one.
LEMMA WaitKeeps ==
    ASSUME StaffServiceInv, NEW p \in Slots, WaitForEmployee(p) PROVE StaffServiceInv'
<1>1. requests[p].pc = "wait" /\ UNCHANGED <<intents, sequence, chainVars, staff, misnamed>>
  BY DEF WaitForEmployee, At
<1>2. requests[p] \in SubmitState
  BY <1>1 DEF StaffServiceInv, IntentsInv, Submitting
<1>3. CASE Answer(p)
  <2>1. Await(p, Idle) /\ Idle.pc = "idle"
    BY <1>3 DEF Answer, Idle
  <2>2. QED BY <1>1, <2>1, GoesOn
<1>4. CASE /\ intents[requests[p].intent].call.op = "register" /\ Confirmed(requests[p].intent)
           /\ Await(p, [requests[p] EXCEPT !.pc = "write"])
  <2>1. PICK r : r = [requests[p] EXCEPT !.pc = "write"]
    OBVIOUS
  <2>2. r.pc = "write" /\ r.intent = requests[p].intent /\ r.intent \in DOMAIN intents
    BY <1>2, <2>1 DEF SubmitState
  <2>3. Await(p, r)
    BY <1>4, <2>1
  <2>4. QED BY <1>1, <1>4, <2>2, <2>3, GoesOn
<1>5. QED BY <1>3, <1>4 DEF WaitForEmployee

\* A row linked a second time is linked to the same record, as it has but one
\* registration, unless the submission was another row's.
LEMMA LinkKeeps ==
    ASSUME StaffServiceInv, NEW p \in Slots, LinkEmployee(p) PROVE StaffServiceInv'
<1>1. /\ requests[p].pc = "write" /\ Await(p, Idle) /\ Idle.pc = "idle"
      /\ UNCHANGED <<intents, sequence, chainVars>>
  BY DEF LinkEmployee, At, Answer, Idle
<1>2. PICK i \in Registrations : i = requests[p].intent /\ Confirmed(i)
  BY <1>1 DEF StaffServiceInv, HandlerSound, Registrations
<1>3. PICK record \in Nat : record = NewRecord(i)
  <2>1. intents[i] \in Intent(RegistryOperation, {Founder})
    BY <1>2, IntentTyped DEF StaffServiceInv, Registrations
  <2>2. QED BY <2>1 DEF Intent, NewRecord
<1>4. PICK r \in DOMAIN staff :
          \/ UNCHANGED <<staff, misnamed>>
          \/ /\ staff' = [staff EXCEPT ![r].id = record]
             /\ misnamed' = IF r = RowOf(i) THEN misnamed ELSE misnamed \cup {r}
  BY <1>2, <1>3 DEF LinkEmployee, RowOf
<1>5. CASE UNCHANGED <<staff, misnamed>>
  BY <1>1, <1>5, GoesOn
<1>6. CASE /\ staff' = [staff EXCEPT ![r].id = record]
           /\ misnamed' = IF r = RowOf(i) THEN misnamed ELSE misnamed \cup {r}
  <2>1. r \notin misnamed' => r = RowOf(i)
    BY <1>6
  <2>2. staff[r].id # Null /\ r \notin misnamed' => staff[r].id = record
    <3>1. ASSUME staff[r].id # Null, r \notin misnamed' PROVE staff[r].id = record
      <4>1. PICK j \in Registrations : NewRecord(j) = staff[r].id /\ RowOf(j) = r
        BY <1>6, <3>1 DEF StaffServiceInv, LinksSound
      <4>2. j = i
        BY <2>1, <3>1, <4>1 DEF StaffServiceInv, RegisteredOnce
      <4>3. QED BY <1>3, <4>1, <4>2
    <3>2. QED BY <3>1
  <2>3. PICK row : row = [staff[r] EXCEPT !.id = record]
    OBVIOUS
  <2>4. /\ row \in StaffRow /\ row.wallet = staff[r].wallet /\ row.id = record
        /\ row.status = staff[r].status
    <3>1. staff[r] \in StaffRow
      BY DEF StaffServiceInv
    <3>2. QED BY <2>3, <3>1 DEF StaffRow
  <2>5. staff' = [staff EXCEPT ![r] = row]
    BY <1>6, <2>3
  <2>6. /\ staff' \in Seq(StaffRow) /\ DOMAIN staff' = DOMAIN staff /\ Len(staff') = Len(staff)
        /\ staff'[r] = row /\ \A x \in DOMAIN staff : x # r => staff'[x] = staff[x]
    BY <2>4, <2>5 DEF StaffServiceInv
  <2>7. misnamed \subseteq misnamed' /\ misnamed' \subseteq DOMAIN staff'
    BY <1>6, <2>6 DEF StaffServiceInv
  <2>8. RowsKept /\ Len(staff') <= MaxStaff
    BY <2>2, <2>4, <2>6, <2>7 DEF RowsKept, StaffServiceInv
  <2>9. /\ IntentsInv(RegistryOperation, {Founder})' /\ IntentsKept /\ NoneConfirmed
        /\ requests'[p] = Idle /\ \A q \in Slots \ {p} : requests'[q] = requests[q]
    BY <1>1, AwaitKeepsIntents DEF StaffServiceInv, Submitting
  <2>10. LinksSound'
    <3>1. ASSUME NEW x \in DOMAIN staff, staff'[x].id # Null
          PROVE  \E j \in Registrations :
                     /\ Confirmed(j) /\ NewRecord(j) = staff'[x].id
                     /\ x \notin misnamed' => RowOf(j) = x
      <4>1. CASE x = r
        BY <1>2, <1>3, <2>1, <2>4, <2>6, <4>1
      <4>2. CASE x # r
        BY <2>6, <2>7, <3>1, <4>2 DEF StaffServiceInv, LinksSound
      <4>3. QED BY <4>1, <4>2
    <3>2. /\ Registrations' = Registrations
          /\ \A j \in Registrations : /\ Confirmed(j)' <=> Confirmed(j)
                                      /\ NewRecord(j)' = NewRecord(j) /\ RowOf(j)' = RowOf(j)
      BY <1>1 DEF Registrations, Confirmed, NewRecord, RowOf
    <3>3. QED BY <2>6, <3>1, <3>2 DEF LinksSound
  <2>11. HandlerSound(p)' /\ requests'[p].pc # "register"
    BY <1>1, <2>9 DEF HandlerSound
  <2>12. QED BY <1>1, <2>6, <2>7, <2>8, <2>9, <2>10, <2>11, PlainStep
<1>7. QED BY <1>4, <1>5, <1>6

-----------------------------------------------------------------------------
(***************************************************************************)
(* The ledger.                                                             *)
(***************************************************************************)
LEMMA PerformKeepsChain ==
    ASSUME StaffServiceInv, NEW call, SoundCall(call), PerformRegistry(call)
    PROVE  OnChainInv'
<1>1. call.salary \in Amounts /\ staff[call.row].wallet \in Payees
  <2>1. staff[call.row] \in StaffRow
    BY DEF StaffServiceInv, SoundCall
  <2>2. QED BY <2>1 DEF SoundCall, RegistryOperation, StaffRow
<1>2. RegistryCall(TheOrg, Founder)
  BY <1>1 DEF PerformRegistry, RegistryCall, UpdateEmployee, DeactivateEmployee
<1>3. FactoryTypeOK' /\ RegistryTypeOK' /\ StaffInv'
  BY <1>2, HomeId, RegistryCallTyped DEF StaffServiceInv, OnChainInv
<1>4. Resolvable("employee_registry", TheOrg) /\ CacheResolved("employee_registry", TheOrg)
      /\ UNCHANGED <<orgCount, registry, deployed>>
  BY DEF PerformRegistry, RegisterEmployee, UpdateEmployee, DeactivateEmployee, AssertHr, orgVars
<1>5. RegistryInv'
  BY <1>4, CachingKeepsInv DEF StaffServiceInv, OnChainInv, Engine
<1>6. QED BY <1>3, <1>5 DEF OnChainInv

\* What a step of the ledger leaves to show.
LEMMA LedgerStep ==
    ASSUME StaffServiceInv, UNCHANGED <<staff, misnamed, requests>>,
           DOMAIN intents' = DOMAIN intents,
           IntentsInv(RegistryOperation, {Founder})', IntentsKept,
           OnChainInv', RegistrationsInv'
    PROVE  StaffServiceInv'
<1>1. RowsKept
  BY DEF RowsKept
<1>2. \A q \in Slots : HandlerSound(q)'
  BY <1>1, HandlerStays DEF StaffServiceInv
<1>3. ASSUME NEW i \in DOMAIN intents PROVE SoundCall(intents[i].call)'
  <2>1. PICK call : call = intents[i].call /\ call = intents'[i].call
    BY DEF IntentsKept
  <2>2. SoundCall(call)'
    BY <1>1, <2>1, SoundStays DEF StaffServiceInv
  <2>3. QED BY <2>1, <2>2 DEF SoundCall
<1>4. LinksSound'
  BY LinksStay DEF StaffServiceInv
<1>5. RegisteredOnce'
  <2>1. Registrations' = Registrations /\ \A i \in Registrations : RowOf(i)' = RowOf(i)
    BY DEF Registrations, RowOf, IntentsKept
  <2>2. QED BY <2>1 DEF StaffServiceInv, RegisteredOnce
<1>6. QED BY <1>2, <1>3, <1>4, <1>5 DEF StaffServiceInv

\* A record made is new, one changed keeps its wallet, and one retired is that
\* of a row retired before.
LEMMA PerformedCall ==
    ASSUME StaffServiceInv, NEW i \in DOMAIN intents, PerformRegistry(intents[i].call),
           UNCHANGED <<staff, misnamed>>,
           Settle(i, "SUCCESS", IF intents[i].call.op = "register"
                                THEN Len(employees[TheOrg]) + 1 ELSE intents[i].call.id)
    PROVE  StaffServiceInv'
<1>1. PICK call : call = intents[i].call /\ SoundCall(call) /\ PerformRegistry(call)
  BY DEF StaffServiceInv
<1>2. OnChainInv'
  BY <1>1, PerformKeepsChain
<1>3. PICK list \in Seq(Employee) : list = employees[TheOrg]
  BY HomeId DEF StaffServiceInv, OnChainInv, RegistryTypeOK
<1>4. DOMAIN employees = OrgId /\ TheOrg \in OrgId
  BY HomeId DEF StaffServiceInv, OnChainInv, RegistryTypeOK
<1>5. PICK value \in Nat :
          /\ value = IF call.op = "register" THEN Len(list) + 1 ELSE call.id
          /\ Settle(i, "SUCCESS", value)
  BY <1>1, <1>3 DEF SoundCall, RegistryOperation
<1>6. /\ IntentsInv(RegistryOperation, {Founder})' /\ IntentsKept
      /\ DOMAIN intents' = DOMAIN intents /\ requests' = requests
      /\ ~Confirmed(i) /\ intents'[i].tx = "SUCCESS" /\ intents'[i].value = value
      /\ \A j \in DOMAIN intents \ {i} : intents'[j] = intents[j]
  BY <1>5, SettleKeepsIntents DEF StaffServiceInv
<1>7. /\ Registrations' = Registrations
      /\ \A j \in Registrations : RowOf(j)' = RowOf(j)
      /\ \A j \in Registrations \ {i} :
             NewRecord(j)' = NewRecord(j) /\ (Confirmed(j)' <=> Confirmed(j))
  BY <1>6 DEF Registrations, RowOf, NewRecord, Confirmed, IntentsKept
<1>8. RegistrationsInv /\ LinksSound
  BY DEF StaffServiceInv
<1>9. CASE call.op = "register"
  <2>1. PICK record : /\ employees' = [employees EXCEPT ![TheOrg] = Append(@, record)]
                      /\ record.wallet = staff[call.row].wallet /\ record.active = TRUE
    BY <1>1, <1>9 DEF PerformRegistry, RegisterEmployee
  <2>2. employees'[TheOrg] = Append(list, record)
    BY <1>3, <1>4, <2>1
  <2>3. /\ DOMAIN employees'[TheOrg] = DOMAIN list \cup {value} /\ value \notin DOMAIN list
        /\ employees'[TheOrg][value] = record
        /\ \A e \in DOMAIN list : employees'[TheOrg][e] = list[e]
    BY <1>5, <1>9, <2>2
  <2>4. NewRecord(i)' = value /\ RowOf(i) = call.row /\ i \in Registrations
    BY <1>1, <1>6, <1>9 DEF NewRecord, RowOf, Registrations
  <2>5. \A j \in Registrations \ {i} : Confirmed(j) => NewRecord(j) \in DOMAIN list
    BY <1>3, <1>8 DEF RegistrationsInv
  <2>6. ASSUME NEW j \in Registrations, Confirmed(j)'
        PROVE  /\ NewRecord(j)' \in DOMAIN employees'[TheOrg]
               /\ employees'[TheOrg][NewRecord(j)'].wallet = staff[RowOf(j)].wallet
               /\ \/ misnamed # {}
                  \/ employees'[TheOrg][NewRecord(j)'].active
                  \/ staff[RowOf(j)].id = NewRecord(j)' /\ staff[RowOf(j)].status = "INACTIVE"
    <3>1. CASE j = i
      BY <2>1, <2>3, <2>4, <3>1
    <3>2. CASE j # i
      BY <1>3, <1>7, <1>8, <2>3, <2>5, <2>6, <3>2 DEF RegistrationsInv
    <3>3. QED BY <3>1, <3>2
  <2>7. \A j, k \in Registrations :
            Confirmed(j)' /\ Confirmed(k)' /\ NewRecord(j)' = NewRecord(k)' => j = k
    BY <1>7, <1>8, <2>3, <2>4, <2>5 DEF RegistrationsInv
  <2>8. RegistrationsInv'
    BY <1>7, <2>6, <2>7 DEF RegistrationsInv
  <2>9. QED BY <1>2, <1>6, <2>8, LedgerStep
<1>10. CASE call.op # "register"
  <2>1. i \notin Registrations
    BY <1>1, <1>10 DEF Registrations
  <2>2. PICK id \in DOMAIN list :
            /\ DOMAIN employees'[TheOrg] = DOMAIN list
            /\ \A e \in DOMAIN list : employees'[TheOrg][e].wallet = list[e].wallet
            /\ \A e \in DOMAIN list :
                   e # id \/ call.op # "deactivate" => employees'[TheOrg][e].active = list[e].active
            /\ id = call.id
    <3>1. call.id \in DOMAIN list
      BY <1>1, <1>3, <1>10 DEF PerformRegistry, UpdateEmployee, DeactivateEmployee
    <3>2. list[call.id] \in Employee
      BY <3>1
    <3>3. CASE call.op = "update"
      <4>1. employees' = [employees EXCEPT ![TheOrg] =
                  [list EXCEPT ![call.id] = [list[call.id] EXCEPT !.salary = call.salary]]]
        BY <1>1, <1>3, <1>4, <3>3 DEF PerformRegistry, UpdateEmployee
      <4>2. PICK row : row = [list[call.id] EXCEPT !.salary = call.salary]
        OBVIOUS
      <4>3. row.wallet = list[call.id].wallet /\ row.active = list[call.id].active
        BY <3>2, <4>2 DEF Employee
      <4>4. employees'[TheOrg] = [list EXCEPT ![call.id] = row]
        BY <1>4, <4>1, <4>2
      <4>5. QED BY <3>1, <4>3, <4>4
    <3>4. CASE call.op = "deactivate"
      <4>1. employees' = [employees EXCEPT ![TheOrg] =
                              [list EXCEPT ![call.id] = [list[call.id] EXCEPT !.active = FALSE]]]
        BY <1>1, <1>3, <1>4, <3>4 DEF PerformRegistry, DeactivateEmployee
      <4>2. PICK row : row = [list[call.id] EXCEPT !.active = FALSE]
        OBVIOUS
      <4>3. row.wallet = list[call.id].wallet
        BY <3>2, <4>2 DEF Employee
      <4>4. employees'[TheOrg] = [list EXCEPT ![call.id] = row]
        BY <1>4, <4>1, <4>2
      <4>5. QED BY <3>1, <3>4, <4>3, <4>4
    <3>5. QED BY <1>1, <1>10, <3>3, <3>4 DEF SoundCall, RegistryOperation
  <2>3. ASSUME NEW j \in Registrations, Confirmed(j), NewRecord(j) = id,
               call.op = "deactivate", misnamed = {}
        PROVE  staff[RowOf(j)].id = id /\ staff[RowOf(j)].status = "INACTIVE"
    <3>1. /\ call.row \in DOMAIN staff /\ staff[call.row].id = id /\ id # Null
          /\ staff[call.row].status = "INACTIVE"
      BY <1>1, <2>2, <2>3 DEF SoundCall
    <3>2. PICK k \in Registrations : Confirmed(k) /\ NewRecord(k) = id /\ RowOf(k) = call.row
      BY <1>8, <2>3, <3>1 DEF LinksSound
    <3>3. k = j
      BY <1>8, <2>3, <3>2 DEF RegistrationsInv
    <3>4. QED BY <3>1, <3>2, <3>3
  <2>4. ASSUME NEW j \in Registrations, Confirmed(j)
        PROVE  /\ NewRecord(j) \in DOMAIN employees'[TheOrg]
               /\ employees'[TheOrg][NewRecord(j)].wallet = staff[RowOf(j)].wallet
               /\ \/ misnamed # {}
                  \/ employees'[TheOrg][NewRecord(j)].active
                  \/ staff[RowOf(j)].id = NewRecord(j) /\ staff[RowOf(j)].status = "INACTIVE"
    <3>1. /\ NewRecord(j) \in DOMAIN list
          /\ list[NewRecord(j)].wallet = staff[RowOf(j)].wallet
          /\ \/ misnamed # {}
             \/ list[NewRecord(j)].active
             \/ staff[RowOf(j)].id = NewRecord(j) /\ staff[RowOf(j)].status = "INACTIVE"
      BY <1>3, <1>8, <2>4 DEF RegistrationsInv
    <3>2. QED BY <2>2, <2>3, <2>4, <3>1
  <2>5. \A j \in Registrations : NewRecord(j)' = NewRecord(j) /\ (Confirmed(j)' <=> Confirmed(j))
    BY <1>7, <2>1
  <2>6. RegistrationsInv'
    BY <1>7, <1>8, <2>4, <2>5 DEF RegistrationsInv
  <2>7. QED BY <1>2, <1>6, <2>6, LedgerStep
<1>11. QED BY <1>9, <1>10

\* The ledger takes a transaction.
LEMMA LedgerKeeps ==
    ASSUME StaffServiceInv, NEW i \in DOMAIN intents, ApplyCall(i) PROVE StaffServiceInv'
<1>1. CASE Settle(i, "FAILED", 0) /\ UNCHANGED <<chainVars, staff, misnamed>>
  <2>1. /\ IntentsInv(RegistryOperation, {Founder})' /\ IntentsKept
        /\ DOMAIN intents' = DOMAIN intents /\ requests' = requests
        /\ ~Confirmed(i) /\ intents'[i].tx = "FAILED"
        /\ \A j \in DOMAIN intents \ {i} : intents'[j] = intents[j]
    BY <1>1, SettleKeepsIntents DEF StaffServiceInv
  <2>2. OnChainInv' /\ employees' = employees
    BY <1>1, OnChainUntouched DEF StaffServiceInv, chainVars
  <2>3. /\ Registrations' = Registrations
        /\ \A j \in Registrations : Confirmed(j)' =>
               /\ Confirmed(j) /\ RowOf(j)' = RowOf(j) /\ NewRecord(j)' = NewRecord(j)
    BY <2>1 DEF Registrations, RowOf, NewRecord, Confirmed, IntentsKept
  <2>4. RegistrationsInv'
    BY <1>1, <2>2, <2>3 DEF StaffServiceInv, RegistrationsInv
  <2>5. QED BY <1>1, <2>1, <2>2, <2>4, LedgerStep
<1>2. CASE /\ PerformRegistry(intents[i].call)
           /\ Settle(i, "SUCCESS", IF intents[i].call.op = "register"
                                   THEN Len(employees[TheOrg]) + 1 ELSE intents[i].call.id)
           /\ UNCHANGED <<staff, misnamed>>
  BY <1>2, PerformedCall
<1>3. QED BY <1>1, <1>2 DEF ApplyCall

\* Every step of clients, handlers and ledger keeps the invariant.
LEMMA StaffServiceStep ==
    StaffServiceInv /\ [EmployeesServiceNext]_employeesServiceVars => StaffServiceInv'
<1> SUFFICES ASSUME StaffServiceInv, [EmployeesServiceNext]_employeesServiceVars
             PROVE  StaffServiceInv'
  OBVIOUS
<1>1. CASE UNCHANGED employeesServiceVars
  <2>1. UNCHANGED <<chainVars, staff, misnamed, intents, requests, sequence, employees>>
    BY <1>1 DEF employeesServiceVars, chainVars, intentVars
  <2>2. OnChainInv'
    BY <2>1, OnChainUntouched DEF StaffServiceInv
  <2>3. IntentsInv(RegistryOperation, {Founder})' /\ IntentsKept
    BY <2>1 DEF StaffServiceInv, IntentsInv, SubmitState, IntentsKept, Confirmed
  <2>4. RegistrationsInv'
    BY <2>1 DEF StaffServiceInv, RegistrationsInv, Registrations, RowOf, NewRecord, Confirmed
  <2>5. QED BY <2>1, <2>2, <2>3, <2>4, LedgerStep
<1>2. ASSUME NEW p \in Slots,
             \/ CreateEmployees(p) \/ NextEmployee(p) \/ BuildRegister(p)
             \/ ReadEmployee(p) \/ WriteEmployee(p) \/ BuildChange(p)
             \/ WaitForEmployee(p) \/ LinkEmployee(p)
      PROVE  StaffServiceInv'
  BY <1>2, CreateKeeps, BuildKeeps, ReadKeeps, WriteKeeps, WaitKeeps, LinkKeeps
<1>3. QED BY <1>1, <1>2, LedgerKeeps, SubmitKeeps DEF EmployeesServiceNext

\* What the invariant follows from row to record is true in every reachable
\* state.
THEOREM StaffServiceInvariant == EmployeesServiceSpec => []StaffServiceInv
<1>1. EmployeesServiceInit => StaffServiceInv
  BY StaffServiceInvInit
<1>2. StaffServiceInv /\ [EmployeesServiceNext]_employeesServiceVars => StaffServiceInv'
  BY StaffServiceStep
<1>3. QED BY <1>1, <1>2, PTL DEF EmployeesServiceSpec

\* Each linked row is linked to the record its own registration made, however
\* the registrations of a file overlap, unless it was the row named when another
\* row's registration was submitted; whatever other rows were named so.
THEOREM RowsHaveOwnRecord == EmployeesServiceSpec => []OwnRecord
<1>1. StaffServiceInv => OwnRecord
  <2> SUFFICES ASSUME StaffServiceInv, NEW r \in DOMAIN staff \ misnamed, staff[r].id # Null
               PROVE  \E i \in DOMAIN intents :
                          /\ intents[i].call.op = "register" /\ intents[i].call.row = r
                          /\ Confirmed(i) /\ intents[i].value = staff[r].id
    BY DEF OwnRecord
  <2>1. PICK i \in Registrations : Confirmed(i) /\ NewRecord(i) = staff[r].id /\ RowOf(i) = r
    BY DEF StaffServiceInv, LinksSound
  <2>2. QED BY <2>1 DEF Registrations, RowOf, NewRecord
<1>2. QED BY <1>1, StaffServiceInvariant, PTL

\* An ACTIVE linked row, which payroll offers, has a record with the row's
\* wallet unless it was misnamed itself, and while no row was, an active one: no
\* deactivation is built before its row is retired, and a late link makes no
\* retired row eligible.
THEOREM OfferedIsPayable == EmployeesServiceSpec => []EligibleIsPayable
<1>1. StaffServiceInv => EligibleIsPayable
  <2> SUFFICES ASSUME StaffServiceInv, NEW r \in DOMAIN staff \ misnamed,
                      staff[r].status = "ACTIVE", staff[r].id # Null
               PROVE  /\ staff[r].id \in DOMAIN employees[TheOrg]
                      /\ employees[TheOrg][staff[r].id].wallet = staff[r].wallet
                      /\ misnamed = {} => staff[r].id \in ActiveEmployeeIds(TheOrg)
    BY DEF EligibleIsPayable, Eligible
  <2>1. PICK i \in Registrations : Confirmed(i) /\ NewRecord(i) = staff[r].id /\ RowOf(i) = r
    BY DEF StaffServiceInv, LinksSound
  <2>2. RegistrationsInv
    BY DEF StaffServiceInv
  <2>3. QED BY <2>1, <2>2 DEF RegistrationsInv, ActiveEmployeeIds
<1>2. QED BY <1>1, StaffServiceInvariant, PTL

\* The table, the intents and the records have the types declared, and a row
\* is linked to no record there is not.
THEOREM EmployeesServiceTypeCorrect == EmployeesServiceSpec => []EmployeesServiceTypeOK
<1>1. StaffServiceInv => EmployeesServiceTypeOK
  <2> SUFFICES ASSUME StaffServiceInv PROVE EmployeesServiceTypeOK
    OBVIOUS
  <2>1. IntentsTypeOK(RegistryOperation)
    BY IntentsTyped DEF StaffServiceInv
  <2>2. PICK n \in Nat : n = Len(employees[TheOrg]) /\ DOMAIN employees[TheOrg] = 1 .. n
    <3>1. employees[TheOrg] \in Seq(Employee)
      BY HomeId DEF StaffServiceInv, OnChainInv, RegistryTypeOK
    <3>2. QED BY <3>1
  <2>3. ASSUME NEW r \in DOMAIN staff
        PROVE  /\ staff[r].wallet \in Payees /\ staff[r].salary \in Amounts
               /\ staff[r].status \in EmployeeStatus
               /\ staff[r].id \in Null .. Len(employees[TheOrg])
    <3>1. staff[r] \in StaffRow
      BY DEF StaffServiceInv
    <3>2. ASSUME staff[r].id # Null PROVE staff[r].id \in 1 .. n
      <4>1. PICK i \in Registrations : Confirmed(i) /\ NewRecord(i) = staff[r].id
        BY <3>2 DEF StaffServiceInv, LinksSound
      <4>2. QED BY <2>2, <4>1 DEF StaffServiceInv, RegistrationsInv
    <3>3. QED BY <2>2, <3>1, <3>2 DEF StaffRow, Null
  <2>4. QED BY <2>1, <2>3 DEF StaffServiceInv, OnChainInv, EmployeesServiceTypeOK
<1>2. QED BY <1>1, StaffServiceInvariant, PTL
=============================================================================
