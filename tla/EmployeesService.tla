-------------------------- MODULE EmployeesService --------------------------
(***************************************************************************)
(* Employees through the backend: a Postgres row per employee, written     *)
(* first, and a record in employee_registry, written when the intent that  *)
(* every creation, edit and deactivation builds has been signed and        *)
(* submitted.  Payroll offers the rows that are ACTIVE and linked to a     *)
(* record; what it pays, and whom, the record decides.                     *)
(***************************************************************************)
EXTENDS EmployeeRegistry, Deployment, Intents, SequencesExt

CONSTANTS
    MaxStaff,       \* bound: employees created
    MaxFile         \* bound: lines of an imported file

ASSUME EmployeesServiceAssumption == MaxStaff \in Nat /\ MaxFile \in Nat

VARIABLES
    staff,          \* the Employee table
    misnamed        \* rows a submission linked to another row's registration;
                    \* a history, which no program variable holds

employeesServiceVars ==
    <<orgVars, treasuryVars, factoryVars, employees, intentVars, staff, misnamed>>
chainVars == <<orgVars, treasuryVars, factoryVars, employees>>

Person == [wallet : Payees, salary : Amounts]
EmployeeStatus == {"ACTIVE", "INACTIVE"}
Null == 0           \* onChainEmployeeId of a registration still pending

RegistryOperation ==
    [op : {"register", "update", "deactivate"}, row : 1 .. MaxStaff, id : Nat, salary : Amounts]

EmployeesServiceTypeOK ==
    /\ RegistryTypeOK
    /\ IntentsTypeOK(RegistryOperation)
    /\ misnamed \subseteq DOMAIN staff
    /\ \A r \in DOMAIN staff :
           /\ staff[r].wallet \in Payees /\ staff[r].salary \in Amounts
           /\ staff[r].status \in EmployeeStatus
           /\ staff[r].id \in Null .. Len(employees[TheOrg])

EmployeesServiceInit ==
    /\ DeployedInit(0)
    /\ RegistryInit
    /\ IntentsInit
    /\ staff = <<>> /\ misnamed = {}

-----------------------------------------------------------------------------
(***************************************************************************)
(* The call an intent makes, as employee_registry executes it.             *)
(***************************************************************************)
PerformRegistry(call) ==
    /\ \/ /\ call.op = "register"
          /\ RegisterEmployee(TheOrg, Founder, staff[call.row].wallet, call.salary)
       \/ call.op = "update" /\ UpdateEmployee(TheOrg, Founder, call.id, call.salary)
       \/ call.op = "deactivate" /\ DeactivateEmployee(TheOrg, Founder, call.id)
    /\ UNCHANGED <<orgVars, treasuryVars, initialized, orgCount, registry, wasmHash>>

RegistrySimulates(call) == ENABLED PerformRegistry(call)

\* buildXdrOrThrow and the intent; a simulation that fails is a 502, which
\* leaves what the handler wrote before.
BuildOrThrow(call) ==
    IF RegistrySimulates(call) THEN Create(call, Founder) ELSE UNCHANGED <<intents, sequence>>

-----------------------------------------------------------------------------
(***************************************************************************)
(* The endpoints that write rows and build intents.                        *)
(***************************************************************************)
\* The row of the first of `people`, whose register intent comes next.
Insert(p, people) ==
    /\ Len(staff) < MaxStaff
    /\ staff' = Append(staff, [wallet |-> Head(people).wallet, salary |-> Head(people).salary,
                               status |-> "ACTIVE", id |-> Null])
    /\ Await(p, [pc |-> "register", row |-> Len(staff) + 1,
                 salary |-> Head(people).salary, todo |-> Tail(people)])
    /\ UNCHANGED <<intents, sequence, chainVars, misnamed>>

\* create, of one, and importCsv, of the lines of a file that passed its
\* checks.
CreateEmployees(p) ==
    /\ At(p, "idle")
    /\ Len(intents) < MaxIntents
    /\ \E people \in BoundedSeq(Person, MaxFile) \ {<<>>} : Insert(p, people)

NextEmployee(p) == At(p, "insert") /\ Insert(p, requests[p].todo)

\* The register intent of the row just written.  When it cannot be built the
\* rest of the file is dropped with it.
BuildRegister(p) ==
    LET call == [op |-> "register", row |-> requests[p].row, id |-> Null,
                 salary |-> requests[p].salary]
    IN
    /\ At(p, "register")
    /\ BuildOrThrow(call)
    /\ IF RegistrySimulates(call) /\ requests[p].todo # <<>>
       THEN Await(p, [pc |-> "insert", todo |-> requests[p].todo])
       ELSE Answer(p)
    /\ UNCHANGED <<chainVars, staff, misnamed>>

\* update and deactivate: the row as it stands decides, two awaits later,
\* whether there is a record to change.
ReadEmployee(p) ==
    /\ At(p, "idle")
    /\ Len(intents) < MaxIntents
    /\ \E r \in DOMAIN staff, op \in {"update", "deactivate"} :
           Await(p, [pc |-> "edit", op |-> op, row |-> r, id |-> staff[r].id])
    /\ UNCHANGED <<intents, sequence, chainVars, staff, misnamed>>

\* What a deactivation leaves in the row; first the row kept until the chain
\* has confirmed.
Deactivated_Later(row) == row

Deactivated(row) == [row EXCEPT !.status = "INACTIVE"]

\* An edit of the pay frequency alone keeps the salary it finds here.
WriteEmployee(p) ==
    LET r == requests[p].row IN
    /\ At(p, "edit")
    /\ \/ /\ requests[p].op = "update"
          /\ \E salary \in Amounts : staff' = [staff EXCEPT ![r].salary = salary]
       \/ /\ requests[p].op = "deactivate"
          /\ staff' = [staff EXCEPT ![r] = Deactivated(@)]
    /\ IF requests[p].id = Null THEN Answer(p)
       ELSE Await(p, [pc |-> "build",
                      call |-> [op |-> requests[p].op, row |-> r, id |-> requests[p].id,
                                salary |-> staff'[r].salary]])
    /\ UNCHANGED <<intents, sequence, chainVars, misnamed>>

BuildChange(p) ==
    /\ At(p, "build")
    /\ BuildOrThrow(requests[p].call)
    /\ Answer(p)
    /\ UNCHANGED <<chainVars, staff, misnamed>>

-----------------------------------------------------------------------------
(***************************************************************************)
(* The submit endpoints, after the intent is consumed, and the ledger.     *)
(***************************************************************************)
\* Only a registration has something to write when it is confirmed.
WaitForEmployee(p) ==
    LET i == requests[p].intent IN
    /\ At(p, "wait")
    /\ IF intents[i].call.op = "register" /\ Confirmed(i)
       THEN Await(p, [requests[p] EXCEPT !.pc = "write"])
       ELSE Answer(p)
    /\ UNCHANGED <<intents, sequence, chainVars, staff, misnamed>>

\* The record a confirmed registration made, its return value; first the
\* latest record there is, and the id the next one will get.
NewRecord_Latest(i) == Len(employees[TheOrg])
NewRecord_Next(i) == intents[i].value + 1

NewRecord(i) == intents[i].value

\* backfillOnChainEmployeeId.  An organization's rows have distinct ids: the
\* unique index refuses a second.  The row is the one the URL names, which
\* nothing compares with the one the intent was built for.  (A row added since
\* the request came is among them: a little more than a client could name.)
LinkEmployee(p) ==
    LET i == requests[p].intent
        Taken(r) == \E other \in DOMAIN staff \ {r} : staff[other].id = NewRecord(i)
        Link(r) == /\ staff' = [staff EXCEPT ![r].id = NewRecord(i)]
                   /\ misnamed' = IF r = intents[i].call.row THEN misnamed ELSE misnamed \cup {r}
    IN
    /\ At(p, "write")
    /\ \E r \in DOMAIN staff : IF Taken(r) THEN UNCHANGED <<staff, misnamed>> ELSE Link(r)
    /\ Answer(p)
    /\ UNCHANGED <<intents, sequence, chainVars>>

ApplyCall(i) ==
    LET call == intents[i].call
        id   == IF call.op = "register" THEN Len(employees[TheOrg]) + 1 ELSE call.id
    IN
    /\ IF RegistrySimulates(call)
       THEN PerformRegistry(call) /\ Settle(i, "SUCCESS", id)
       ELSE Settle(i, "FAILED", 0) /\ UNCHANGED chainVars
    /\ UNCHANGED <<staff, misnamed>>

-----------------------------------------------------------------------------
EmployeesServiceNext ==
    \/ \E p \in Slots : \/ CreateEmployees(p) \/ NextEmployee(p) \/ BuildRegister(p)
                        \/ ReadEmployee(p) \/ WriteEmployee(p) \/ BuildChange(p)
                        \/ WaitForEmployee(p) \/ LinkEmployee(p)
    \/ \E i \in DOMAIN intents : ApplyCall(i)
    \/ (\E p \in Slots : SubmitStep(p)) /\ UNCHANGED <<chainVars, staff, misnamed>>

EmployeesServiceSpec == EmployeesServiceInit /\ [][EmployeesServiceNext]_employeesServiceVars

-----------------------------------------------------------------------------
(***************************************************************************)
(* Properties.                                                             *)
(***************************************************************************)

\* Each linked row is linked to the record its own registration made, however
\* the registrations of a file overlap, so that nobody's salary goes by
\* another's record; but for the very rows that were named when another row's
\* registration was submitted, whatever other rows were.
OwnRecord ==
    \A r \in DOMAIN staff \ misnamed : staff[r].id # Null =>
        \E i \in DOMAIN intents :
            /\ intents[i].call.op = "register" /\ intents[i].call.row = r
            /\ Confirmed(i) /\ intents[i].value = staff[r].id

\* What payroll offers can be paid as it stands: an ACTIVE linked row has a
\* record with the row's own wallet, unless it was misnamed itself, and while
\* no row was, the record is active.  The row is retired before the record is,
\* so payroll never fails an item it should not have offered.  A misnamed row
\* may retire another's record.
Eligible(r) == staff[r].status = "ACTIVE" /\ staff[r].id # Null

EligibleIsPayable ==
    \A r \in DOMAIN staff \ misnamed : Eligible(r) =>
        /\ staff[r].id \in DOMAIN employees[TheOrg]
        /\ employees[TheOrg][staff[r].id].wallet = staff[r].wallet
        /\ misnamed = {} => staff[r].id \in ActiveEmployeeIds(TheOrg)
=============================================================================
