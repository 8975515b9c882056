----------------------- MODULE MilestonesService_proofs -----------------------
(***************************************************************************)
(* The rows the backend keeps of milestones, and the indexer's cursors and *)
(* books, against the chain, for any number of rows, requests, intents and *)
(* events.                                                                 *)
(*                                                                         *)
(* A row is written from a transaction or from an event, long after either *)
(* happened, and possibly again.  It does not run ahead because both stay  *)
(* true: a milestone that got somewhere has been there for good, and the   *)
(* link that leads to it was made by the row's own transaction.  A row     *)
(* named in the submission of another row's intent is APPROVED, RELEASED   *)
(* or CANCELLED for nothing, but it gets no link and is not FUNDED.        *)
(***************************************************************************)
EXTENDS MilestonesService, Contracts_proofs, Intents_proofs

\* What the contracts keep.
OnChainInv ==
    /\ RegistryInv /\ FactoryTypeOK /\ TreasuryTypeOK /\ MilestoneTypeOK /\ MilestonesInv

Calls == MilestoneOperation \cup TransferCall
RowRecord == [contractor : Payees, amount : Amounts, status : RowStatus, id : Nat]
Ahead == {"FUNDED", "APPROVED", "RELEASED"}

\* Milestone id is where `status` says, or has been there.
GotThere(id, status) ==
    /\ id \in DOMAIN milestones[TheOrg]
    /\ status \in Ahead => milestones[TheOrg][id].status \in Through(status)

Linked(r) == rows[r].id # Null

\* Intent i, if it is about a milestone, is about one made for its row, and
\* what it did was done.  A row that got ahead misnamed has none.
CallSound(i) ==
    LET call == intents[i].call IN
    call \in MilestoneOperation =>
        /\ call.row \in DOMAIN rows
        /\ call.op # "create" => call.id = Null \/ call.id \in CreatedFor(call.row)
        /\ Confirmed(i) => IF call.op = "create" THEN intents[i].value \in DOMAIN milestones[TheOrg]
                           ELSE GotThere(call.id, StatusAfter[call.op])

\* A row's link leads to a milestone made for the row.
RowSound(r) == Linked(r) => rows[r].id \in CreatedFor(r)

HandlerSound(p) ==
    LET request == requests[p] IN
    /\ request.pc \in {"idle", "build", "write"} \cup Submitting
    /\ request.pc = "build" =>
           /\ request.op \in Operation \cup {"discard"} /\ request.row \in DOMAIN rows
           /\ request.id \in Nat
           /\ request.op \notin {"create", "discard"} =>
                  request.id = Null \/ request.id \in CreatedFor(request.row)
    /\ request.pc = "write" =>
           /\ request.intent \in DOMAIN intents /\ Confirmed(request.intent)
           /\ intents[request.intent].call \in MilestoneOperation

RowsInv ==
    /\ IntentsInv(Calls, {Founder})
    /\ rows \in Seq(RowRecord) /\ Len(rows) <= MaxRows /\ misnamed \subseteq DOMAIN rows
    /\ \A i \in DOMAIN intents : CallSound(i)
    /\ \A r \in DOMAIN rows : RowSound(r)
    /\ \A p \in Slots : HandlerSound(p)
    /\ StatusWasReached

Topics ==
    {"milestone_created", "milestone_funded", "milestone_approved", "milestone_released",
     "milestone_cancelled", "deposited", "withdrawn", "transferred_out"}
Event == [contract : {Home, MilestoneEngine}, topic : Topics, id : Nat, amount : Int, ledger : Nat]
HomeEvents == {e \in DOMAIN events : events[e].contract = Home}

\* An event of the treasury is a transfer; one of the engine is true.
EventSound(e) ==
    /\ events[e].ledger \in 1 .. ledger
    /\ events[e].contract = Home <=> events[e].topic \in DOMAIN TypeOf
    /\ events[e].topic \in DOMAIN StatusByTopic =>
           GotThere(events[e].id, StatusByTopic[events[e].topic])

\* A poll under way holds what its page has left.
Polling == [contract : Watched, todo : SUBSET DOMAIN events, high : 0 .. ledger]
PollSound ==
    /\ poll \in Polling
    /\ \A e \in DOMAIN events :
           events[e].contract = poll.contract /\ events[e].ledger <= poll.high =>
               e \in handled \cup forgone \cup poll.todo

LogInv ==
    /\ ledger \in 0 .. MaxLedger /\ events \in Seq(Event)
    /\ \A e \in DOMAIN events : EventSound(e)
    /\ cursor \in [Watched -> NoCursor .. ledger]
    /\ poll = Asleep \/ PollSound
    /\ handled \subseteq DOMAIN events /\ forgone \subseteq DOMAIN events
    /\ CursorCovered

\* What an event did to the treasury.
NetOf == [e \in DOMAIN events |->
             IF events[e].topic = "deposited" THEN events[e].amount ELSE -events[e].amount]
Nets == [k \in DOMAIN transactions |-> Net(k)]
Recorded == {transactions[k].event : k \in DOMAIN transactions}

Transaction == [event : HomeEvents, type : {TypeOf[t] : t \in DOMAIN TypeOf}, amount : Int]

BooksInv ==
    /\ booked[HomeOrg] - Endowment[Home] = SumFunctionOnSet(NetOf, HomeEvents)
    /\ transactions \in Seq(Transaction)
    /\ \A k \in DOMAIN transactions :
           LET event == events[transactions[k].event]
           IN  transactions[k].type = TypeOf[event.topic] /\ transactions[k].amount = event.amount
    /\ handled \cap HomeEvents \subseteq Recorded
    /\ SumFunction(Nets) = SumFunctionOnSet(NetOf, Recorded)

MilestonesServiceInv == OnChainInv /\ RowsInv /\ LogInv /\ BooksInv

-----------------------------------------------------------------------------
\* The one organization has the one id.
LEMMA HomeId == TheOrg \in OrgId /\ OrgId = {TheOrg}
<1>1. Cardinality({HomeOrg}) = 1
  BY FS_Singleton
<1>2. 1 .. 1 = {1}
  OBVIOUS
<1>3. QED BY <1>1, <1>2, DeploymentAssumption DEF OrgId, TheOrg

\* The chain as it starts, with a milestone's money in escrow or without.
LEMMA DeployedOnChain ==
    ASSUME NEW held \in 0 .. Endowment[Home], DeployedInit(held)
    PROVE  /\ RegistryInv /\ FactoryTypeOK /\ TreasuryTypeOK
           /\ booked[HomeOrg] - Endowment[Home] = 0
           /\ DOMAIN registry = {TheOrg}
<1>1. /\ deployed = {HomeOrg} /\ orgCount = 1 /\ initialized = Engine \cup {"payroll_factory"}
      /\ registry =
             <<[organization |-> HomeOrg, treasury |-> TreasuryOf[HomeOrg], owner |-> Founder]>>
      /\ cached = [e \in Engine |-> <<>>] /\ wasmHash \in [WasmTarget -> Hashes]
      /\ spenders = [o \in Orgs |-> {PayrollEngine, MilestoneEngine}]
      /\ booked = [o \in Orgs |-> Endowment[TreasuryOf[o]]]
      /\ balance = Moved(Endowment, Home, MilestoneEngine, held)
  BY DEF DeployedInit, Home
<1>2. Orgs = {HomeOrg} /\ Founder \in Users
  BY DeploymentAssumption
<1>3. Home \in Accounts /\ MilestoneEngine \in Accounts /\ Endowment \in [Accounts -> Nat]
      /\ TreasuryOf \in [Orgs -> Accounts]
  BY <1>2, AccountsAssumption DEF Home
<1>4. Endowment[Home] \in Nat /\ held \in Nat /\ Endowment[Home] >= held
  BY <1>3
<1>5. balance \in [Accounts -> Nat] /\ booked \in [Orgs -> Int]
  <2>1. Moved(Endowment, Home, MilestoneEngine, held) \in [Accounts -> Nat]
    BY <1>3, <1>4, MovedTyped
  <2>2. QED BY <1>1, <1>3, <2>1
<1>6. RegistryInv /\ FactoryTypeOK /\ TreasuryTypeOK
  BY <1>1, <1>2, <1>5, OneOrganization
<1>7. booked[HomeOrg] = Endowment[Home]
  BY <1>1, <1>2 DEF Home
<1>8. DOMAIN registry = {TheOrg}
  BY <1>1 DEF TheOrg
<1>9. QED BY <1>4, <1>6, <1>7, <1>8

\* Nothing has been published or polled yet.
LEMMA LogStarts ==
    ASSUME IndexerInit, booked[HomeOrg] - Endowment[Home] = 0
    PROVE  LogInv /\ BooksInv
<1>1. /\ ledger = 0 /\ events = <<>> /\ poll = Asleep /\ transactions = <<>>
      /\ handled = {} /\ forgone = {}
      /\ cursor = [c \in Watched |-> IF c \in Followed THEN 0 ELSE NoCursor]
  BY DEF IndexerInit
<1>2. cursor \in [Watched -> NoCursor .. ledger]
  BY <1>1 DEF NoCursor
<1>3. LogInv
  BY <1>1, <1>2, IndexerAssumption DEF LogInv, CursorCovered
<1>4. HomeEvents = {} /\ Recorded = {} /\ DOMAIN Nets = {}
  BY <1>1 DEF HomeEvents, Recorded, Nets
<1>5. SumFunctionOnSet(NetOf, HomeEvents) = 0 /\ SumFunctionOnSet(NetOf, Recorded) = 0
      /\ SumFunction(Nets) = 0
  BY <1>4, SumEmpty DEF SumFunction
<1>6. BooksInv
  BY <1>1, <1>4, <1>5 DEF BooksInv
<1>7. QED BY <1>3, <1>6

\* Both initial states: no milestone, or a funded one already indexed.
LEMMA ServiceInvInit == MilestonesServiceInit => MilestonesServiceInv
<1>1. CASE TreasuryServiceInit /\ MilestoneInit /\ rows = <<>> /\ misnamed = {}
  <2>1. DeployedInit(0) /\ IntentsInit /\ IndexerInit
    BY <1>1 DEF TreasuryServiceInit
  <2>2. 0 \in 0 .. Endowment[Home]
    BY AccountsAssumption, DeploymentAssumption DEF Home
  <2>3. OnChainInv
    <3>1. MilestoneTypeOK /\ MilestonesInv
      BY <1>1, MilestoneAssumption DEF MilestoneInit, MilestoneTypeOK, MilestonesInv
    <3>2. QED BY <2>1, <2>2, <3>1, DeployedOnChain DEF OnChainInv
  <2>4. LogInv /\ BooksInv
    BY <2>1, <2>2, DeployedOnChain, LogStarts
  <2>5. IntentsInv(Calls, {Founder}) /\ intents = <<>> /\ \A p \in Slots : requests[p] = Idle
    BY <2>1, IntentsInvInit DEF IntentsInit
  <2>6. RowsInv
    BY <1>1, <2>5, MilestonesServiceAssumption
       DEF RowsInv, HandlerSound, Idle, StatusWasReached
  <2>7. QED BY <2>3, <2>4, <2>6 DEF MilestonesServiceInv
<1>2. ASSUME NEW contractor \in Payees, NEW amount \in Amounts, misnamed = {},
             FundedEarlier(contractor, amount)
      PROVE  MilestonesServiceInv
  <2>1. /\ amount \in 1 .. Endowment[Home] /\ MaxMilestones[TheOrg] > 0
        /\ DeployedInit(amount) /\ IndexerInit
        /\ milestones = [id \in OrgId |->
               <<[contractor |-> contractor, amount |-> amount, status |-> "Funded"]>>]
        /\ escrow = [id \in OrgId |-> amount] /\ refunded = [id \in OrgId |-> 0]
        /\ rows = <<[contractor |-> contractor, amount |-> amount,
                     status |-> "FUNDED", id |-> 1]>>
        /\ intents = <<[call |-> [op |-> "create", row |-> 1, id |-> Null], signer |-> Founder,
                        seq |-> 0, consumed |-> TRUE, tx |-> "SUCCESS", value |-> 1]>>
        /\ requests = [p \in Slots |-> Idle] /\ sequence = [s \in Signers |-> 1]
    BY <1>2 DEF FundedEarlier
  <2>2. /\ amount \in 0 .. Endowment[Home] /\ amount \in Int /\ amount > 0
        /\ contractor \in Accounts
    BY <2>1, AccountsAssumption, DeploymentAssumption DEF Home
  <2>3. /\ RegistryInv /\ FactoryTypeOK /\ TreasuryTypeOK /\ DOMAIN registry = {TheOrg}
        /\ LogInv /\ BooksInv
    BY <2>1, <2>2, DeployedOnChain, LogStarts
  <2>4. MilestoneTypeOK
    <3>1. [contractor |-> contractor, amount |-> amount, status |-> "Funded"] \in MilestoneRecord
      BY <2>2 DEF MilestoneRecord, MilestoneStatus
    <3>2. <<[contractor |-> contractor, amount |-> amount, status |-> "Funded"]>>
              \in Seq(MilestoneRecord)
      BY <3>1
    <3>3. QED BY <2>1, <2>2, <3>2 DEF MilestoneTypeOK
  <2>5. /\ DOMAIN milestones[TheOrg] = {1} /\ Len(milestones[TheOrg]) = 1
        /\ milestones[TheOrg][1] =
               [contractor |-> contractor, amount |-> amount, status |-> "Funded"]
    BY <2>1, HomeId
  <2>6. MaxMilestones[TheOrg] >= 1
    BY <2>1, HomeId, MilestoneAssumption
  <2>7. MilestonesInv
    <3>1. /\ Len(milestones[TheOrg]) <= MaxMilestones[TheOrg] /\ TheOrg \in DOMAIN registry
          /\ \A m \in DOMAIN milestones[TheOrg] :
                 /\ milestones[TheOrg][m].contractor \in Payees
                 /\ milestones[TheOrg][m].amount > 0
      <4>1. MaxMilestones[TheOrg] \in Nat
        BY HomeId, MilestoneAssumption
      <4>2. QED BY <2>2, <2>3, <2>5, <2>6, <4>1
    <3>2. QED BY <3>1, HomeId DEF MilestonesInv
  <2>8. DOMAIN intents = {1} /\ intents[1].call = [op |-> "create", row |-> 1, id |-> 0]
        /\ Confirmed(1) /\ intents[1].value = 1 /\ DOMAIN rows = {1} /\ Len(rows) = 1
        /\ rows[1] = [contractor |-> contractor, amount |-> amount,
                      status |-> "FUNDED", id |-> 1]
    BY <2>1 DEF Confirmed, Null
  <2>9. IntentsInv(Calls, {Founder})
    <3>1. [op |-> "create", row |-> 1, id |-> Null] \in Calls
      BY MilestonesServiceAssumption DEF Calls, MilestoneOperation, Operation, Null
    <3>2. intents \in Seq(Intent(Calls, {Founder}))
      <4>1. [call |-> [op |-> "create", row |-> 1, id |-> Null], signer |-> Founder, seq |-> 0,
             consumed |-> TRUE, tx |-> "SUCCESS", value |-> 1] \in Intent(Calls, {Founder})
        BY <3>1 DEF Intent, TxStatus
      <4>2. QED BY <2>1, <4>1
    <3>3. QED BY <2>1, <3>2 DEF IntentsInv, Idle, Submitting
  <2>10. 1 \in CreatedFor(1)
    BY <2>8 DEF CreatedFor
  <2>11. \A p \in Slots : HandlerSound(p)
    BY <2>1 DEF HandlerSound, Idle, Submitting
  <2>12. rows \in Seq(RowRecord) /\ Len(rows) <= MaxRows
    <3>1. [contractor |-> contractor, amount |-> amount, status |-> "FUNDED", id |-> 1]
              \in RowRecord
      BY DEF RowRecord, RowStatus
    <3>2. QED BY <2>1, <3>1, MilestonesServiceAssumption
  <2>13. CallSound(1) /\ RowSound(1)
    BY <2>5, <2>8, <2>10 DEF CallSound, RowSound, Linked, Null
  <2>14. StatusWasReached
    BY <2>5, <2>8, <2>10 DEF StatusWasReached, Through
  <2>15. QED
    BY <1>2, <2>3, <2>4, <2>7, <2>8, <2>9, <2>11, <2>12, <2>13, <2>14
       DEF MilestonesServiceInv, OnChainInv, RowsInv
<1>3. QED BY <1>1, <1>2 DEF MilestonesServiceInit

-----------------------------------------------------------------------------
(***************************************************************************)
(* What no step takes back: a milestone there is, and where it got; a row  *)
(* there is, and that it was misnamed.                                     *)
(***************************************************************************)
MilestonesGo ==
    /\ DOMAIN milestones[TheOrg] \subseteq DOMAIN milestones'[TheOrg]
    /\ \A id \in DOMAIN milestones[TheOrg], status \in Ahead :
           milestones[TheOrg][id].status \in Through(status) =>
               milestones'[TheOrg][id].status \in Through(status)

RowsKept == DOMAIN rows \subseteq DOMAIN rows' /\ misnamed \subseteq misnamed'

\* Milestones that do not change have not gone back.
LEMMA MilestonesStay == milestones' = milestones => MilestonesGo
BY DEF MilestonesGo

\* A milestone that got somewhere has been there for good.
LEMMA GotThereStays ==
    ASSUME MilestonesGo, NEW id, NEW status, GotThere(id, status) PROVE GotThere(id, status)'
BY DEF MilestonesGo, GotThere

\* A milestone once created for a row stays one created for it.
LEMMA CreatedStays ==
    ASSUME IntentsKept, NEW r PROVE CreatedFor(r) \subseteq CreatedFor(r)'
<1> SUFFICES ASSUME NEW id \in CreatedFor(r) PROVE id \in CreatedFor(r)'
  OBVIOUS
<1>1. PICK i \in DOMAIN intents :
          /\ intents[i].call \in [op : {"create"}, row : {r}, id : Nat]
          /\ Confirmed(i) /\ intents[i].value = id
  BY DEF CreatedFor
<1>2. i \in DOMAIN intents' /\ intents'[i].call = intents[i].call /\ Confirmed(i)'
      /\ intents'[i].value = id
  BY <1>1 DEF IntentsKept
<1>3. QED BY <1>1, <1>2 DEF CreatedFor

\* The milestone a create transaction made is there, and so is its row.
LEMMA CreatedThere ==
    ASSUME RowsInv, NEW r, NEW id \in CreatedFor(r)
    PROVE  r \in DOMAIN rows /\ id \in DOMAIN milestones[TheOrg]
<1>1. PICK i \in DOMAIN intents :
          /\ intents[i].call \in [op : {"create"}, row : {r}, id : Nat]
          /\ Confirmed(i) /\ intents[i].value = id
  BY DEF CreatedFor
<1>2. intents[i].call \in MilestoneOperation
  <2>1. intents[i] \in Intent(Calls, {Founder})
    BY IntentTyped DEF RowsInv
  <2>2. intents[i].call \in Calls
    BY <2>1 DEF Intent
  <2>3. QED BY <1>1, <2>2 DEF Calls, TransferCall
<1>3. CallSound(i)
  BY DEF RowsInv
<1>4. QED BY <1>1, <1>2, <1>3 DEF CallSound

\* A sound call stays sound while milestones only go on.
LEMMA CallStays ==
    ASSUME NEW i \in DOMAIN intents, CallSound(i), Confirmed(i)' => Confirmed(i),
           IntentsKept, MilestonesGo, RowsKept
    PROVE  CallSound(i)'
<1>1. PICK call : call = intents[i].call /\ call = intents'[i].call
  BY DEF IntentsKept
<1>2. PICK row : row = call.row
  OBVIOUS
<1>3. CreatedFor(row) \subseteq CreatedFor(row)'
  BY CreatedStays
<1>4. ASSUME GotThere(call.id, StatusAfter[call.op])
      PROVE  GotThere(call.id, StatusAfter[call.op])'
  <2>1. PICK id, status : id = call.id /\ status = StatusAfter[call.op]
    OBVIOUS
  <2>2. GotThere(id, status)'
    BY <1>4, <2>1, GotThereStays
  <2>3. QED BY <2>1, <2>2 DEF GotThere
<1>5. Confirmed(i)' => intents'[i].value = intents[i].value
  BY DEF IntentsKept
<1>6. QED
  BY <1>1, <1>2, <1>3, <1>4, <1>5 DEF CallSound, MilestonesGo, RowsKept

\* So does what a handler knows.
LEMMA HandlerStays ==
    ASSUME NEW q \in Slots, HandlerSound(q), requests'[q] = requests[q],
           IntentsKept, RowsKept
    PROVE  HandlerSound(q)'
<1>1. PICK r : r = requests[q] /\ r = requests'[q]
  OBVIOUS
<1>2. PICK row : row = r.row
  OBVIOUS
<1>3. CreatedFor(row) \subseteq CreatedFor(row)'
  BY CreatedStays
<1>4. r.pc = "write" =>
          /\ r.intent \in DOMAIN intents' /\ Confirmed(r.intent)'
          /\ intents'[r.intent].call \in MilestoneOperation
  BY <1>1 DEF HandlerSound, IntentsKept
<1>5. r.pc = "build" =>
          /\ r.op \in Operation \cup {"discard"} /\ r.row \in DOMAIN rows' /\ r.id \in Nat
          /\ r.op \notin {"create", "discard"} => r.id = Null \/ r.id \in CreatedFor(r.row)'
  BY <1>1, <1>2, <1>3 DEF HandlerSound, RowsKept
<1>6. r.pc \in {"idle", "build", "write"} \cup Submitting
  BY <1>1 DEF HandlerSound
<1>7. QED BY <1>1, <1>4, <1>5, <1>6 DEF HandlerSound

\* What a step that may have touched rows, intents and milestones has to show.
LEMMA RowsStep ==
    ASSUME RowsInv, IntentsInv(Calls, {Founder})', IntentsKept, MilestonesGo,
           rows' \in Seq(RowRecord), Len(rows') <= MaxRows, RowsKept,
           misnamed' \subseteq DOMAIN rows',
           \A i \in DOMAIN intents' : \/ i \in DOMAIN intents /\ (Confirmed(i)' => Confirmed(i))
                                      \/ CallSound(i)',
           \A q \in Slots : requests'[q] = requests[q] \/ HandlerSound(q)',
           \A r \in DOMAIN rows' :
               \/ r \in DOMAIN rows /\ rows'[r].id = rows[r].id
               \/ rows'[r].id # Null => rows'[r].id \in CreatedFor(r)',
           \A r \in DOMAIN rows' :
               \/ r \in DOMAIN rows /\ rows'[r].status = rows[r].status
               \/ r \in misnamed' /\ rows'[r].status # "FUNDED"
               \/ rows'[r].status \in Ahead =>
                      \E id \in CreatedFor(r)', status \in Ahead :
                          status = rows'[r].status /\ GotThere(id, status)'
    PROVE  RowsInv'
<1>1. ASSUME NEW i \in DOMAIN intents' PROVE CallSound(i)'
  BY <1>1, CallStays DEF RowsInv
<1>2. ASSUME NEW q \in Slots PROVE HandlerSound(q)'
  BY <1>2, HandlerStays DEF RowsInv
<1>3. ASSUME NEW r \in DOMAIN rows' PROVE RowSound(r)'
  <2>1. CreatedFor(r) \subseteq CreatedFor(r)'
    BY CreatedStays
  <2>2. r \in DOMAIN rows => RowSound(r)
    BY DEF RowsInv
  <2>3. QED BY <2>1, <2>2 DEF RowSound, Linked, RowsKept
<1>4. StatusWasReached'
  <2> SUFFICES ASSUME NEW r \in DOMAIN rows', rows'[r].status \in Ahead,
                      rows'[r].status # "FUNDED" => r \notin misnamed'
               PROVE  \E id \in CreatedFor(r)' :
                          milestones'[TheOrg][id].status \in Through(rows'[r].status)
    BY DEF StatusWasReached, Ahead
  <2>1. PICK status \in Ahead : status = rows'[r].status
    OBVIOUS
  <2>2. CASE r \in DOMAIN rows /\ rows'[r].status = rows[r].status
    <3>1. PICK id \in CreatedFor(r) : milestones[TheOrg][id].status \in Through(status)
      BY <2>1, <2>2 DEF RowsInv, RowsKept, StatusWasReached, Ahead
    <3>2. id \in DOMAIN milestones[TheOrg]
      BY CreatedThere
    <3>3. milestones'[TheOrg][id].status \in Through(status)
      BY <2>1, <3>1, <3>2 DEF MilestonesGo
    <3>4. QED BY <2>1, <3>3, CreatedStays
  <2>3. CASE \E id \in CreatedFor(r)' : GotThere(id, status)'
    BY <2>1, <2>3 DEF GotThere
  <2>4. QED BY <2>1, <2>2, <2>3
<1>5. QED BY <1>1, <1>2, <1>3, <1>4 DEF RowsInv

-----------------------------------------------------------------------------
(***************************************************************************)
(* The endpoints.                                                          *)
(***************************************************************************)
LEMMA RowsUntouched ==
    ASSUME RowsInv, IntentsInv(Calls, {Founder})', IntentsKept, MilestonesGo,
           UNCHANGED <<rows, misnamed>>,
           \A i \in DOMAIN intents' : \/ i \in DOMAIN intents /\ (Confirmed(i)' => Confirmed(i))
                                      \/ CallSound(i)',
           \A q \in Slots : requests'[q] = requests[q] \/ HandlerSound(q)'
    PROVE  RowsInv'
<1>1. rows' \in Seq(RowRecord) /\ Len(rows') <= MaxRows /\ misnamed' \subseteq DOMAIN rows'
  BY DEF RowsInv
<1>2. RowsKept
  BY DEF RowsKept
<1>3. QED BY <1>1, <1>2, RowsStep

\* A handler that only goes on.
LEMMA GoesOn ==
    ASSUME RowsInv, NEW p \in Slots, NEW r, Await(p, r),
           UNCHANGED <<intents, sequence, rows, misnamed, milestones>>,
           r.pc \in {"idle", "build", "write"},
           r.pc = "build" =>
               /\ r.op \in Operation \cup {"discard"} /\ r.row \in DOMAIN rows /\ r.id \in Nat
               /\ r.op \notin {"create", "discard"} => r.id = Null \/ r.id \in CreatedFor(r.row),
           r.pc = "write" => /\ r.intent \in DOMAIN intents /\ Confirmed(r.intent)
                             /\ intents[r.intent].call \in MilestoneOperation
    PROVE  RowsInv'
<1>1. IntentsInv(Calls, {Founder})
  BY DEF RowsInv
<1>2. /\ IntentsInv(Calls, {Founder})' /\ IntentsKept /\ NoneConfirmed
      /\ requests'[p] = r /\ \A q \in Slots \ {p} : requests'[q] = requests[q]
  BY <1>1, AwaitKeepsIntents DEF Submitting
<1>3. HandlerSound(p)'
  <2>1. PICK row : row = r.row
    OBVIOUS
  <2>2. CreatedFor(row)' = CreatedFor(row)
    BY DEF CreatedFor, Confirmed
  <2>3. QED BY <1>2, <2>1, <2>2 DEF HandlerSound, Confirmed
<1>4. MilestonesGo
  BY MilestonesStay
<1>5. QED BY <1>2, <1>3, <1>4, RowsUntouched DEF Confirmed

\* A handler that adds an intent, or none, and ends.
LEMMA Builds ==
    ASSUME RowsInv, NEW p \in Slots, NEW call \in Calls,
           Create(call, Founder), UNCHANGED requests \/ Answer(p),
           UNCHANGED <<rows, misnamed, milestones>>,
           call \in MilestoneOperation =>
               /\ call.row \in DOMAIN rows
               /\ call.op # "create" => call.id = Null \/ call.id \in CreatedFor(call.row)
    PROVE  RowsInv'
<1>1. IntentsInv(Calls, {Founder}) /\ Founder \in {Founder}
  BY DEF RowsInv
<1>2. IntentsInv(Calls, {Founder})' /\ IntentsKept /\ NoneConfirmed
  BY <1>1, CreateKeepsIntents
<1>3. /\ DOMAIN intents' = DOMAIN intents \cup {Len(intents) + 1}
      /\ \A i \in DOMAIN intents : intents'[i] = intents[i]
      /\ intents'[Len(intents) + 1].call = call /\ intents'[Len(intents) + 1].tx = "unsent"
  BY <1>1, CreateAppends
<1>4. ASSUME NEW new \in DOMAIN intents' \ DOMAIN intents PROVE CallSound(new)'
  <2>1. PICK row : row = call.row
    OBVIOUS
  <2>2. CreatedFor(row) \subseteq CreatedFor(row)'
    BY <1>2, CreatedStays
  <2>3. ~ Confirmed(new)'
    BY <1>3 DEF Confirmed
  <2>4. QED BY <1>3, <2>1, <2>2, <2>3 DEF CallSound
<1>5. HandlerSound(p)' \/ requests'[p] = requests[p]
  <2>1. CASE Answer(p)
    <3>1. requests'[p].pc = "idle"
      BY <1>1, <2>1 DEF Answer, Await, Idle, IntentsInv
    <3>2. QED BY <3>1 DEF HandlerSound
  <2>2. QED BY <2>1
<1>6. \A q \in Slots \ {p} : requests'[q] = requests[q]
  BY <1>1 DEF Answer, Await, IntentsInv
<1>7. MilestonesGo
  BY MilestonesStay
<1>8. QED BY <1>2, <1>3, <1>4, <1>5, <1>6, <1>7, RowsUntouched DEF Confirmed

\* A new row is a draft without a milestone.
LEMMA CreateRowKeeps == RowsInv /\ CreateRow => RowsInv'
<1> SUFFICES ASSUME RowsInv, CreateRow PROVE RowsInv'
  OBVIOUS
<1>1. PICK contractor \in Payees, amount \in Amounts :
          rows' = Append(rows, [contractor |-> contractor, amount |-> amount,
                                status |-> "DRAFT", id |-> Null])
  BY DEF CreateRow
<1>2. PICK row : row = [contractor |-> contractor, amount |-> amount,
                        status |-> "DRAFT", id |-> Null]
  OBVIOUS
<1>3. row \in RowRecord /\ row.id = Null /\ row.status = "DRAFT"
  BY <1>2 DEF RowRecord, RowStatus, Null
<1>4. rows \in Seq(RowRecord) /\ Len(rows) < MaxRows /\ MaxRows \in Nat
  BY MilestonesServiceAssumption DEF RowsInv, CreateRow
<1>5. /\ rows' \in Seq(RowRecord) /\ Len(rows') <= MaxRows
      /\ DOMAIN rows' = DOMAIN rows \cup {Len(rows) + 1} /\ rows'[Len(rows) + 1] = row
      /\ \A r \in DOMAIN rows : rows'[r] = rows[r]
  BY <1>1, <1>2, <1>3, <1>4
<1>6. UNCHANGED <<intents, requests, sequence, milestones, misnamed>>
  BY DEF CreateRow, intentVars, chainVars, milestoneVars
<1>7. IntentsInv(Calls, {Founder})'
  BY <1>6 DEF RowsInv, IntentsInv, SubmitState
<1>8. IntentsKept /\ MilestonesGo
  BY <1>6, MilestonesStay DEF IntentsKept, Confirmed
<1>9. \A i \in DOMAIN intents' : i \in DOMAIN intents /\ (Confirmed(i)' => Confirmed(i))
  BY <1>6 DEF Confirmed
<1>10. RowsKept /\ misnamed' \subseteq DOMAIN rows'
  BY <1>5, <1>6 DEF RowsInv, RowsKept
<1>11. QED BY <1>3, <1>5, <1>6, <1>7, <1>8, <1>9, <1>10, RowsStep DEF Ahead

\* A handler reads its row before it builds.
LEMMA ReadRowKeeps ==
    ASSUME RowsInv, NEW p \in Slots, ReadRow(p) PROVE RowsInv'
<1>1. PICK r \in DOMAIN rows : \E op \in Offered(rows[r]) :
          Await(p, [pc |-> "build", op |-> op, row |-> r, id |-> rows[r].id])
  BY DEF ReadRow
<1>2. PICK op \in Offered(rows[r]) :
          Await(p, [pc |-> "build", op |-> op, row |-> r, id |-> rows[r].id])
  BY <1>1
<1>3. rows[r] \in RowRecord /\ RowSound(r)
  BY DEF RowsInv
<1>4. rows[r].id \in Nat
  BY <1>3 DEF RowRecord
<1>5. op \in Operation \cup {"discard"}
  BY DEF Offered, FundStep, ApproveStep, ReleaseStep, CancelStep, Operation
<1>6. rows[r].id = Null \/ rows[r].id \in CreatedFor(r)
  BY <1>3 DEF RowSound, Linked
<1>7. PICK request : request = [pc |-> "build", op |-> op, row |-> r, id |-> rows[r].id]
  OBVIOUS
<1>8. Await(p, request) /\ request.pc = "build" /\ request.op = op /\ request.row = r
      /\ request.id = rows[r].id
  BY <1>2, <1>7
<1>9. UNCHANGED <<intents, sequence, rows, misnamed, milestones>>
  BY DEF ReadRow, chainVars, milestoneVars, tables
<1>10. QED BY <1>4, <1>5, <1>6, <1>8, <1>9, GoesOn

\* The intent names the milestone the row was linked to.
LEMMA BuildIntentKeeps ==
    ASSUME RowsInv, NEW p \in Slots, BuildIntent(p) PROVE RowsInv'
<1>1. PICK call : call = [op |-> requests[p].op, row |-> requests[p].row, id |-> requests[p].id]
  OBVIOUS
<1>2. /\ requests[p].pc = "build" /\ requests[p].op # "discard" /\ Answer(p)
      /\ Create(call, Founder) \/ UNCHANGED <<intents, sequence>>
      /\ UNCHANGED <<rows, misnamed, milestones>>
  BY <1>1 DEF BuildIntent, At, chainVars, milestoneVars, tables
<1>3. HandlerSound(p)
  BY DEF RowsInv
<1>4. /\ call.op \in Operation /\ call.row \in DOMAIN rows /\ call.id \in Nat
      /\ call.op # "create" => call.id = Null \/ call.id \in CreatedFor(call.row)
  BY <1>1, <1>2, <1>3 DEF HandlerSound
<1>5. call \in Calls
  <2>1. rows \in Seq(RowRecord) /\ Len(rows) <= MaxRows
    BY DEF RowsInv
  <2>2. call.row \in 1 .. MaxRows
    BY <1>4, <2>1, MilestonesServiceAssumption
  <2>3. QED BY <1>1, <1>4, <2>2 DEF Calls, MilestoneOperation
<1>6. CASE Create(call, Founder)
  BY <1>2, <1>4, <1>5, <1>6, Builds
<1>7. CASE UNCHANGED <<intents, sequence>>
  <2>1. Await(p, Idle) /\ Idle.pc = "idle"
    BY <1>2 DEF Answer, Idle
  <2>2. QED BY <1>2, <1>7, <2>1, GoesOn
<1>8. QED BY <1>2, <1>6, <1>7

\* Polling ends with the outcome of the transaction, or without one.
LEMMA WaitKeeps ==
    ASSUME RowsInv, NEW p \in Slots, WaitForCall(p) PROVE RowsInv'
<1>1. UNCHANGED <<intents, sequence, rows, misnamed, milestones>> /\ requests[p].pc = "wait"
  BY DEF WaitForCall, At, chainVars, milestoneVars, tables
<1>2. requests[p] \in SubmitState
  BY <1>1 DEF RowsInv, IntentsInv, Submitting
<1>3. PICK i \in DOMAIN intents : requests[p] = [pc |-> "wait", intent |-> i]
  BY <1>1, <1>2 DEF SubmitState
<1>4. intents[i].call \in MilestoneOperation
  BY <1>3 DEF WaitForCall
<1>5. CASE Confirmed(i) /\ Await(p, [requests[p] EXCEPT !.pc = "write"])
  <2>1. PICK r : r = [pc |-> "write", intent |-> i]
    OBVIOUS
  <2>2. Await(p, r) /\ r.pc = "write" /\ r.intent = i
    BY <1>3, <1>5, <2>1
  <2>3. QED BY <1>1, <1>4, <1>5, <2>2, GoesOn
<1>6. CASE Answer(p)
  <2>1. Await(p, Idle) /\ Idle.pc = "idle"
    BY <1>6 DEF Answer, Idle
  <2>2. QED BY <1>1, <2>1, GoesOn
<1>7. QED BY <1>3, <1>5, <1>6 DEF WaitForCall

\* A handler that writes one row and ends.
LEMMA Writes ==
    ASSUME RowsInv, NEW p \in Slots, NEW r \in DOMAIN rows, NEW row \in RowRecord,
           rows' = [rows EXCEPT ![r] = row], misnamed' \in {misnamed, misnamed \cup {r}},
           Answer(p), UNCHANGED <<intents, sequence, milestones>>,
           row.id = rows[r].id \/ row.id \in CreatedFor(r),
           \/ row.status = rows[r].status
           \/ r \in misnamed' /\ row.status # "FUNDED"
           \/ row.status \in Ahead => \E id \in CreatedFor(r) : GotThere(id, row.status)
    PROVE  RowsInv'
<1>1. IntentsInv(Calls, {Founder}) /\ rows \in Seq(RowRecord) /\ Len(rows) <= MaxRows
  BY DEF RowsInv
<1>2. Await(p, Idle) /\ Idle.pc = "idle"
  BY DEF Answer, Idle
<1>3. /\ IntentsInv(Calls, {Founder})' /\ IntentsKept /\ NoneConfirmed
      /\ requests'[p] = Idle /\ \A q \in Slots \ {p} : requests'[q] = requests[q]
  BY <1>1, <1>2, AwaitKeepsIntents DEF Submitting
<1>4. HandlerSound(p)'
  BY <1>2, <1>3 DEF HandlerSound
<1>5. /\ rows' \in Seq(RowRecord) /\ Len(rows') = Len(rows) /\ DOMAIN rows' = DOMAIN rows
      /\ rows'[r] = row /\ \A k \in DOMAIN rows \ {r} : rows'[k] = rows[k]
  BY <1>1
<1>6. RowsKept /\ misnamed' \subseteq DOMAIN rows'
  BY <1>5 DEF RowsInv, RowsKept
<1>7. MilestonesGo
  BY MilestonesStay
<1>8. CreatedFor(r)' = CreatedFor(r)
  BY DEF CreatedFor, Confirmed
<1>9. \A k \in DOMAIN rows' :
          \/ k \in DOMAIN rows /\ rows'[k].id = rows[k].id
          \/ rows'[k].id # Null => rows'[k].id \in CreatedFor(k)'
  BY <1>5, <1>8
<1>10. \/ rows'[r].status = rows[r].status
       \/ r \in misnamed' /\ rows'[r].status # "FUNDED"
       \/ rows'[r].status \in Ahead =>
              \E id \in CreatedFor(r)', status \in Ahead :
                  status = rows'[r].status /\ GotThere(id, status)'
  BY <1>5, <1>8 DEF GotThere
<1>11. \A i \in DOMAIN intents' : i \in DOMAIN intents /\ (Confirmed(i)' => Confirmed(i))
  BY DEF Confirmed
<1>12. QED
  BY <1>1, <1>3, <1>4, <1>5, <1>6, <1>7, <1>9, <1>10, <1>11, RowsStep

\* A draft that was never created is cancelled in its row alone.
LEMMA DiscardKeeps ==
    ASSUME RowsInv, NEW p \in Slots, Discard(p) PROVE RowsInv'
<1>1. HandlerSound(p)
  BY DEF RowsInv
<1>2. PICK r \in DOMAIN rows : r = requests[p].row
  BY <1>1 DEF HandlerSound, Discard, At
<1>3. rows[r] \in RowRecord
  BY DEF RowsInv
<1>4. PICK row : row = [rows[r] EXCEPT !.status = "CANCELLED"]
  OBVIOUS
<1>5. row \in RowRecord /\ row.id = rows[r].id /\ row.status = "CANCELLED"
  BY <1>3, <1>4 DEF RowRecord, RowStatus
<1>6. /\ rows' = [rows EXCEPT ![r] = row] /\ Answer(p)
      /\ UNCHANGED <<intents, sequence, milestones, misnamed>>
  BY <1>2, <1>4 DEF Discard, chainVars, milestoneVars
<1>7. QED BY <1>5, <1>6, Writes DEF Ahead

\* What the endpoint writes is what its own transaction did; only create and
\* fund make sure that it was this row's.
LEMMA WriteKeeps ==
    ASSUME RowsInv, MilestoneTypeOK, NEW p \in Slots, WriteRow(p) PROVE RowsInv'
<1>1. PICK i, call : i = requests[p].intent /\ call = intents[i].call
  OBVIOUS
<1>2. PICK r \in Named(call) :
          /\ rows' = IF call.op = "create" THEN [rows EXCEPT ![r].id = intents[i].value]
                     ELSE [rows EXCEPT ![r].status = StatusAfter[call.op]]
          /\ misnamed' = IF r = call.row THEN misnamed ELSE misnamed \cup {r}
  BY <1>1 DEF WriteRow
<1>3. requests[p].pc = "write" /\ Answer(p) /\ UNCHANGED <<intents, sequence, milestones>>
  BY DEF WriteRow, At, chainVars, milestoneVars
<1>4. i \in DOMAIN intents /\ Confirmed(i) /\ call \in MilestoneOperation
  BY <1>1, <1>3 DEF RowsInv, HandlerSound
<1>5. CallSound(i) /\ intents[i] \in Intent(Calls, {Founder})
  BY <1>4, IntentTyped DEF RowsInv
<1>6. /\ r \in DOMAIN rows
      /\ call.op \in {"create", "fund"} => r = call.row
      /\ misnamed' \in {misnamed, misnamed \cup {r}}
      /\ r # call.row => r \in misnamed'
  BY <1>1, <1>2, <1>4, <1>5 DEF CallSound, Named
<1>7. rows[r] \in RowRecord
  BY <1>6 DEF RowsInv
<1>8. CASE call.op = "create"
  <2>1. PICK row : row = [rows[r] EXCEPT !.id = intents[i].value]
    OBVIOUS
  <2>2. intents[i].value \in Nat /\ intents[i].value \in CreatedFor(r)
    BY <1>1, <1>4, <1>5, <1>6, <1>8 DEF Intent, CreatedFor, MilestoneOperation
  <2>3. row \in RowRecord /\ row.id = intents[i].value /\ row.status = rows[r].status
    BY <1>7, <2>1, <2>2 DEF RowRecord
  <2>4. rows' = [rows EXCEPT ![r] = row]
    BY <1>2, <1>8, <2>1
  <2>5. QED BY <1>3, <1>6, <2>2, <2>3, <2>4, Writes
<1>9. CASE call.op # "create"
  <2>1. PICK row : row = [rows[r] EXCEPT !.status = StatusAfter[call.op]]
    OBVIOUS
  <2>2. StatusAfter[call.op] \in RowStatus
    BY <1>4, <1>9 DEF StatusAfter, RowStatus, MilestoneOperation, Operation
  <2>3. row \in RowRecord /\ row.id = rows[r].id /\ row.status = StatusAfter[call.op]
    BY <1>7, <2>1, <2>2 DEF RowRecord
  <2>4. rows' = [rows EXCEPT ![r] = row]
    BY <1>2, <1>9, <2>1
  <2>5. CASE r = call.row
    <3>1. GotThere(call.id, StatusAfter[call.op])
      BY <1>1, <1>4, <1>5, <1>9 DEF CallSound
    <3>2. call.id \in CreatedFor(r)
      <4>1. milestones[TheOrg] \in Seq(MilestoneRecord)
        BY HomeId DEF MilestoneTypeOK
      <4>2. call.id # Null
        BY <3>1, <4>1 DEF GotThere, Null
      <4>3. QED BY <1>1, <1>4, <1>5, <1>9, <2>5, <4>2 DEF CallSound
    <3>3. QED BY <1>3, <1>6, <2>3, <2>4, <3>1, <3>2, Writes
  <2>6. CASE r # call.row
    <3>1. r \in misnamed' /\ row.status # "FUNDED"
      BY <1>4, <1>6, <1>9, <2>3, <2>6 DEF StatusAfter, MilestoneOperation, Operation
    <3>2. QED BY <1>3, <1>6, <2>3, <2>4, <3>1, Writes
  <2>7. QED BY <2>5, <2>6
<1>10. QED BY <1>8, <1>9

\* The submit endpoints send what was built.
LEMMA SubmitKeeps ==
    ASSUME RowsInv, NEW p \in Slots, SubmitStep(p), UNCHANGED <<rows, misnamed, milestones>>
    PROVE  RowsInv'
<1>1. IntentsInv(Calls, {Founder})
  BY DEF RowsInv
<1>2. /\ IntentsInv(Calls, {Founder})' /\ IntentsKept /\ NoneConfirmed
      /\ DOMAIN intents' = DOMAIN intents
      /\ requests'[p].pc \in {"idle"} \cup Submitting
      /\ \A q \in Slots \ {p} : requests'[q] = requests[q]
  BY <1>1, SubmitKeepsIntents
<1>3. HandlerSound(p)'
  BY <1>2 DEF HandlerSound, Submitting
<1>4. MilestonesGo
  BY MilestonesStay
<1>5. QED BY <1>2, <1>3, <1>4, RowsUntouched DEF NoneConfirmed

\* Building and answering a transfer touches no row.
LEMMA TransferRequestKeeps ==
    ASSUME RowsInv, NEW p \in Slots, BuildTransfer(p) \/ ReturnSubmitted(p),
           UNCHANGED <<milestoneVars, rows, misnamed>>
    PROVE  RowsInv'
<1>1. milestones' = milestones
  BY DEF milestoneVars
<1>2. CASE BuildTransfer(p)
  <2>1. PICK call \in TransferCall : Create(call, Founder)
    BY <1>2 DEF BuildTransfer
  <2>2. call \in Calls /\ call \notin MilestoneOperation
    BY DEF Calls, TransferCall, MilestoneOperation, Operation
  <2>3. QED BY <1>1, <1>2, <2>1, <2>2, Builds DEF BuildTransfer
<1>3. CASE ReturnSubmitted(p)
  <2>1. Await(p, Idle) /\ Idle.pc = "idle" /\ UNCHANGED <<intents, sequence>>
    BY <1>3 DEF ReturnSubmitted, Answer, Idle
  <2>2. QED BY <1>1, <2>1, GoesOn
<1>4. QED BY <1>2, <1>3

-----------------------------------------------------------------------------
(***************************************************************************)
(* The ledger.                                                             *)
(***************************************************************************)
LEMMA OnChainUntouched == OnChainInv /\ UNCHANGED chainVars => OnChainInv'
<1> SUFFICES ASSUME OnChainInv, UNCHANGED chainVars PROVE OnChainInv'
  OBVIOUS
<1>1. /\ UNCHANGED <<deployed, balance, spenders, booked, milestones, escrow, refunded>>
      /\ UNCHANGED <<initialized, orgCount, registry, wasmHash, cached>>
  BY DEF chainVars, orgVars, treasuryVars, factoryVars, milestoneVars
<1>2. RegistryInv' /\ FactoryTypeOK'
  BY <1>1, RegistryUntouched DEF OnChainInv, FactoryTypeOK
<1>3. TreasuryTypeOK' /\ MilestoneTypeOK' /\ MilestonesInv'
  BY <1>1 DEF OnChainInv, TreasuryTypeOK, MilestoneTypeOK, MilestonesInv
<1>4. QED BY <1>2, <1>3 DEF OnChainInv

\* A call moves its own milestone, and only forward.
LEMMA MilestoneMoves ==
    ASSUME MilestoneTypeOK, NEW m, NEW from, NEW to, InStatus(TheOrg, m, from),
           SetStatus(TheOrg, m, to),
           <<from, to>> \in {<<"Draft", "Funded">>, <<"Funded", "Approved">>,
                             <<"Approved", "Released">>, <<"Draft", "Cancelled">>,
                             <<"Funded", "Cancelled">>}
    PROVE  /\ MilestonesGo
           /\ m \in DOMAIN milestones[TheOrg] /\ m \in DOMAIN milestones'[TheOrg]
           /\ milestones'[TheOrg][m].status = to
<1>1. m \in DOMAIN milestones[TheOrg] /\ milestones[TheOrg][m].status = from
      /\ TheOrg \in OrgId /\ to \in MilestoneStatus
  BY HomeId DEF InStatus, MilestoneStatus
<1>2. /\ DOMAIN milestones'[TheOrg] = DOMAIN milestones[TheOrg]
      /\ \A k \in DOMAIN milestones[TheOrg] \ {m} : milestones'[TheOrg][k] = milestones[TheOrg][k]
      /\ milestones'[TheOrg][m] = [milestones[TheOrg][m] EXCEPT !.status = to]
      /\ milestones[TheOrg][m] \in MilestoneRecord
  BY <1>1, StatusChange
<1>3. milestones'[TheOrg][m].status = to
  BY <1>2 DEF MilestoneRecord
<1>4. ASSUME NEW status \in Ahead, from \in Through(status) PROVE to \in Through(status)
  BY <1>4 DEF Ahead, Through
<1>5. MilestonesGo
  BY <1>1, <1>2, <1>3, <1>4 DEF MilestonesGo
<1>6. QED BY <1>1, <1>2, <1>3, <1>5

\* What the engine executes is one of its calls.
LEMMA PerformIsCall ==
    ASSUME RowsInv, NEW call \in MilestoneOperation, call.row \in DOMAIN rows,
           PerformMilestone(call)
    PROVE  MilestoneCall(TheOrg, Founder) /\ AssertFinance(TheOrg, Founder)
<1>1. UNCHANGED <<spenders, orgVars, initialized, orgCount, registry, wasmHash>>
  BY DEF PerformMilestone, setting
<1>2. CASE CreateMilestone(TheOrg, Founder, rows[call.row].contractor, rows[call.row].amount)
  <2>1. rows[call.row] \in RowRecord
    BY DEF RowsInv
  <2>2. rows[call.row].contractor \in Payees /\ rows[call.row].amount \in Amounts
    BY <2>1 DEF RowRecord
  <2>3. QED BY <1>1, <1>2, <2>2 DEF MilestoneCall, CreateMilestone
<1>3. ASSUME NEW m, m = call.id,
             \/ FundMilestone(TheOrg, Founder, m) \/ ApproveMilestone(TheOrg, Founder, m)
             \/ ReleaseMilestone(TheOrg, Founder, m) \/ CancelMilestone(TheOrg, Founder, m)
      PROVE  MilestoneCall(TheOrg, Founder) /\ AssertFinance(TheOrg, Founder)
  <2>1. m \in DOMAIN milestones[TheOrg] /\ AssertFinance(TheOrg, Founder)
    BY <1>3 DEF FundMilestone, ApproveMilestone, ReleaseMilestone, CancelMilestone,
                CancelDraft, CancelFunded, InStatus
  <2>2. QED BY <1>1, <1>3, <2>1 DEF MilestoneCall
<1>4. QED BY <1>2, <1>3 DEF PerformMilestone

\* A milestone call leaves the chain typed and its registry current.
LEMMA PerformKeepsChain ==
    ASSUME OnChainInv, RowsInv, NEW call \in MilestoneOperation, call.row \in DOMAIN rows,
           PerformMilestone(call)
    PROVE  OnChainInv'
<1>1. MilestoneCall(TheOrg, Founder) /\ AssertFinance(TheOrg, Founder) /\ TheOrg \in OrgId
  BY PerformIsCall, HomeId
<1>2. FactoryTypeOK' /\ TreasuryTypeOK' /\ MilestoneTypeOK' /\ MilestonesInv'
  BY <1>1, MilestoneCallTyped DEF OnChainInv
<1>3. Resolvable("milestone_engine", TheOrg) /\ CacheResolved("milestone_engine", TheOrg)
      /\ UNCHANGED <<orgCount, registry, deployed>>
  BY <1>1 DEF AssertFinance, MilestoneCall, orgVars
<1>4. RegistryInv'
  BY <1>3, CachingKeepsInv DEF OnChainInv, Engine
<1>5. QED BY <1>2, <1>4 DEF OnChainInv

\* The milestone a call is about gets where the row will say, and no other
\* goes back.
LEMMA PerformMoves ==
    ASSUME OnChainInv, RowsInv, NEW call \in MilestoneOperation, call.row \in DOMAIN rows,
           PerformMilestone(call)
    PROVE  /\ MilestonesGo
           /\ call.op = "create" => Len(milestones[TheOrg]) + 1 \in DOMAIN milestones'[TheOrg]
           /\ call.op # "create" =>
                  /\ call.id \in DOMAIN milestones[TheOrg]
                  /\ call.id \in DOMAIN milestones'[TheOrg]
                  /\ StatusAfter[call.op] \in Ahead =>
                         milestones'[TheOrg][call.id].status \in Through(StatusAfter[call.op])
<1>1. MilestoneTypeOK
  BY DEF OnChainInv
<1>2. CASE call.op = "create"
  <2>1. PICK contractor, amount : /\ contractor = rows[call.row].contractor
                                  /\ amount = rows[call.row].amount
    OBVIOUS
  <2>2. rows[call.row] \in RowRecord
    BY DEF RowsInv
  <2>3. contractor \in Accounts /\ amount \in Int
    BY <2>1, <2>2, AccountsAssumption DEF RowRecord
  <2>4. milestones' = [milestones EXCEPT ![TheOrg] =
            Append(@, [contractor |-> contractor, amount |-> amount, status |-> "Draft"])]
    BY <1>2, <2>1 DEF PerformMilestone, CreateMilestone
  <2>5. /\ Len(milestones[TheOrg]) + 1 \in DOMAIN milestones'[TheOrg]
        /\ DOMAIN milestones[TheOrg] \subseteq DOMAIN milestones'[TheOrg]
        /\ \A k \in DOMAIN milestones[TheOrg] : milestones'[TheOrg][k] = milestones[TheOrg][k]
    <3>1. PICK new : new = Len(milestones[TheOrg]) + 1
      OBVIOUS
    <3>2. /\ DOMAIN milestones'[TheOrg] = DOMAIN milestones[TheOrg] \cup {new}
          /\ \A k \in DOMAIN milestones[TheOrg] : milestones'[TheOrg][k] = milestones[TheOrg][k]
      BY <1>1, <2>3, <2>4, <3>1, HomeId, MilestoneAdded
    <3>3. QED BY <3>1, <3>2
  <2>6. QED BY <1>2, <2>5 DEF MilestonesGo
<1>3. CASE call.op = "fund"
  <2>1. InStatus(TheOrg, call.id, "Draft") /\ SetStatus(TheOrg, call.id, "Funded")
    BY <1>3 DEF PerformMilestone, FundMilestone
  <2>2. QED BY <1>1, <1>3, <2>1, MilestoneMoves DEF StatusAfter, Through
<1>4. CASE call.op = "approve"
  <2>1. InStatus(TheOrg, call.id, "Funded") /\ SetStatus(TheOrg, call.id, "Approved")
    BY <1>4 DEF PerformMilestone, ApproveMilestone
  <2>2. QED BY <1>1, <1>4, <2>1, MilestoneMoves DEF StatusAfter, Through
<1>5. CASE call.op = "release"
  <2>1. InStatus(TheOrg, call.id, "Approved") /\ SetStatus(TheOrg, call.id, "Released")
    BY <1>5 DEF PerformMilestone, ReleaseMilestone
  <2>2. QED BY <1>1, <1>5, <2>1, MilestoneMoves DEF StatusAfter, Through
<1>6. CASE call.op = "cancel"
  <2>1. PICK from \in {"Draft", "Funded"} :
            InStatus(TheOrg, call.id, from) /\ SetStatus(TheOrg, call.id, "Cancelled")
    BY <1>6 DEF PerformMilestone, CancelMilestone, CancelDraft, CancelFunded
  <2>2. QED BY <1>1, <1>6, <2>1, MilestoneMoves DEF StatusAfter, Ahead
<1>7. QED BY <1>2, <1>3, <1>4, <1>5, <1>6 DEF MilestoneOperation, Operation

\* What the treasury's ledger of events has to account for.
LEMMA PerformBooks ==
    ASSUME OnChainInv, NEW call \in MilestoneOperation, PerformMilestone(call)
    PROVE  booked'[HomeOrg] = booked[HomeOrg]
               - (IF call.op = "fund" THEN milestones[TheOrg][call.id].amount ELSE 0)
<1>1. booked \in [Orgs -> Int] /\ HomeOrg \in Orgs
  BY DeploymentAssumption DEF OnChainInv, TreasuryTypeOK
<1>2. CASE call.op = "fund"
  <2>1. Resolvable("milestone_engine", TheOrg)
    BY <1>2 DEF PerformMilestone, FundMilestone, AssertFinance
  <2>2. OrganizationOf(TheOrg) = HomeOrg
    BY <2>1, ResolvesDeployed, DeploymentAssumption DEF OnChainInv, OrganizationOf, Engine
  <2>3. booked' = [booked EXCEPT ![HomeOrg] = @ - milestones[TheOrg][call.id].amount]
    BY <1>2, <2>2 DEF PerformMilestone, FundMilestone
  <2>4. QED BY <1>1, <1>2, <2>3
<1>3. CASE call.op # "fund"
  <2>1. booked' = booked
    BY <1>3 DEF PerformMilestone, CreateMilestone, ApproveMilestone, ReleaseMilestone,
                CancelMilestone, CancelDraft, CancelFunded
  <2>2. QED BY <1>1, <1>3, <2>1
<1>4. QED BY <1>2, <1>3

\* A ledger takes a call: the milestone, the intent and what the handlers and
\* rows rest on move together.
LEMMA TransactionKeeps ==
    ASSUME RowsInv, NEW i \in DOMAIN intents, NEW status \in {"SUCCESS", "FAILED"},
           NEW value \in Nat, Settle(i, status, value), UNCHANGED <<rows, misnamed>>,
           MilestonesGo,
           NEW call, call = intents[i].call,
           call \in MilestoneOperation /\ status = "SUCCESS" =>
               IF call.op = "create" THEN value \in DOMAIN milestones'[TheOrg]
               ELSE /\ call.id \in DOMAIN milestones'[TheOrg]
                    /\ StatusAfter[call.op] \in Ahead =>
                          milestones'[TheOrg][call.id].status \in Through(StatusAfter[call.op])
    PROVE  RowsInv'
<1>1. IntentsInv(Calls, {Founder}) /\ CallSound(i)
  BY DEF RowsInv
<1>2. /\ IntentsInv(Calls, {Founder})' /\ IntentsKept
      /\ DOMAIN intents' = DOMAIN intents /\ requests' = requests
      /\ intents'[i].tx = status /\ intents'[i].value = value
      /\ \A j \in DOMAIN intents \ {i} : intents'[j] = intents[j]
  BY <1>1, SettleKeepsIntents
<1>3. intents'[i].call = call
  BY <1>2 DEF IntentsKept
<1>4. CallSound(i)'
  <2>1. PICK row : row = call.row
    OBVIOUS
  <2>2. CreatedFor(row) \subseteq CreatedFor(row)'
    BY <1>2, CreatedStays
  <2>3. call \in MilestoneOperation =>
            /\ call.row \in DOMAIN rows'
            /\ call.op # "create" => call.id = Null \/ call.id \in CreatedFor(row)'
    BY <1>1, <2>1, <2>2 DEF CallSound
  <2>4. Confirmed(i)' => status = "SUCCESS"
    BY <1>2 DEF Confirmed
  <2>5. QED BY <1>2, <1>3, <2>1, <2>3, <2>4 DEF CallSound, GotThere
<1>5. \A j \in DOMAIN intents' : \/ j \in DOMAIN intents /\ (Confirmed(j)' => Confirmed(j))
                                 \/ CallSound(j)'
  BY <1>2, <1>4 DEF Confirmed
<1>6. QED BY <1>2, <1>5, RowsUntouched

\* The milestone a call returns: a new one, or the one it was about.
About(call) == IF call.op = "create" THEN Len(milestones[TheOrg]) + 1 ELSE call.id

\* A transaction of a milestone does what its operation says.
LEMMA ApplyCallCases ==
    ASSUME NEW i \in DOMAIN intents, ApplyCall(i), NEW call, call = intents[i].call
    PROVE  /\ call \in MilestoneOperation /\ UNCHANGED <<rows, misnamed, pollVars>>
           /\ \/ /\ PerformMilestone(call) /\ Settle(i, "SUCCESS", About(call))
                 /\ Publish(Published(call, About(call)))
              \/ Settle(i, "FAILED", 0) /\ UNCHANGED <<chainVars, publishVars>>
BY DEF ApplyCall, About, tables

\* The ledger takes a milestone call.
LEMMA ApplyCallKeeps ==
    ASSUME OnChainInv, RowsInv, NEW i \in DOMAIN intents, ApplyCall(i)
    PROVE  OnChainInv' /\ RowsInv' /\ MilestonesGo
<1>1. PICK call : call = intents[i].call
  OBVIOUS
<1>2. /\ call \in MilestoneOperation /\ UNCHANGED <<rows, misnamed>>
      /\ \/ PerformMilestone(call) /\ Settle(i, "SUCCESS", About(call))
         \/ Settle(i, "FAILED", 0) /\ UNCHANGED chainVars
  BY <1>1, ApplyCallCases
<1>3. CallSound(i)
  BY DEF RowsInv
<1>4. call.row \in DOMAIN rows
  BY <1>1, <1>2, <1>3 DEF CallSound
<1>5. CASE PerformMilestone(call) /\ Settle(i, "SUCCESS", About(call))
  <2>1. OnChainInv'
    BY <1>2, <1>4, <1>5, PerformKeepsChain
  <2>2. /\ MilestonesGo
        /\ call.op = "create" => About(call) \in DOMAIN milestones'[TheOrg]
        /\ call.op # "create" =>
               /\ call.id \in DOMAIN milestones'[TheOrg]
               /\ StatusAfter[call.op] \in Ahead =>
                      milestones'[TheOrg][call.id].status \in Through(StatusAfter[call.op])
    BY <1>2, <1>4, <1>5, PerformMoves DEF About
  <2>3. PICK value : value = About(call)
    OBVIOUS
  <2>4. value \in Nat
    <3>1. milestones[TheOrg] \in Seq(MilestoneRecord)
      BY HomeId DEF OnChainInv, MilestoneTypeOK
    <3>2. Len(milestones[TheOrg]) \in Nat /\ call.id \in Nat
      BY <1>2, <3>1 DEF MilestoneOperation
    <3>3. QED BY <2>3, <3>2 DEF About
  <2>5. RowsInv'
    BY <1>1, <1>2, <1>5, <2>2, <2>3, <2>4, TransactionKeeps
  <2>6. QED BY <2>1, <2>2, <2>5
<1>6. CASE Settle(i, "FAILED", 0) /\ UNCHANGED chainVars
  <2>1. MilestonesGo
    BY <1>6, MilestonesStay DEF chainVars, milestoneVars
  <2>2. RowsInv'
    BY <1>1, <1>2, <1>6, <2>1, TransactionKeeps
  <2>3. QED BY <1>6, <2>1, <2>2, OnChainUntouched
<1>7. QED BY <1>2, <1>5, <1>6

\* A transfer moves money and no milestone.
LEMMA ApplyTransferCases ==
    ASSUME NEW i \in DOMAIN intents, ApplyTransfer(i), NEW call, call = intents[i].call
    PROVE  /\ call \in TransferCall /\ UNCHANGED <<orgVars, factoryVars, pollVars>>
           /\ \/ /\ PerformTransfer(call) /\ Settle(i, "SUCCESS", 0)
                 /\ Publish(<<EventOf(call)>>)
              \/ Settle(i, "FAILED", 0) /\ UNCHANGED <<treasuryVars, publishVars>>
BY DEF ApplyTransfer

\* A deposit or a withdrawal leaves the treasury typed.
LEMMA TransferTyped ==
    ASSUME TreasuryTypeOK, NEW call \in TransferCall, PerformTransfer(call)
    PROVE  /\ TreasuryTypeOK'
           /\ booked'[HomeOrg] = booked[HomeOrg]
                  + (IF call.op = "deposit" THEN call.amount ELSE -call.amount)
<1>1. call.amount \in Int /\ HomeOrg \in Orgs /\ Founder \in Accounts
      /\ call.op \in {"deposit", "withdraw"}
  BY AccountsAssumption, DeploymentAssumption DEF TransferCall
<1>2. booked \in [Orgs -> Int]
  BY DEF TreasuryTypeOK
<1>3. CASE call.op = "deposit" /\ Deposit(HomeOrg, Founder, call.amount)
  <2>1. TreasuryTypeOK'
    BY <1>1, <1>3, DepositTyped
  <2>2. booked' = [booked EXCEPT ![HomeOrg] = @ + call.amount]
    BY <1>3 DEF Deposit
  <2>3. QED BY <1>1, <1>2, <1>3, <2>1, <2>2
<1>4. CASE call.op = "withdraw" /\ Withdraw(HomeOrg, Founder, Founder, call.amount)
  <2>1. TreasuryTypeOK'
    BY <1>1, <1>4, WithdrawTyped
  <2>2. booked' = [booked EXCEPT ![HomeOrg] = @ - call.amount]
    BY <1>4 DEF Withdraw
  <2>3. QED BY <1>1, <1>2, <1>4, <2>1, <2>2
<1>5. QED BY <1>3, <1>4 DEF PerformTransfer

\* The ledger takes a deposit or a withdrawal.
LEMMA ApplyTransferKeeps ==
    ASSUME OnChainInv, RowsInv, NEW i \in DOMAIN intents, ApplyTransfer(i),
           UNCHANGED <<milestoneVars, rows, misnamed>>
    PROVE  OnChainInv' /\ RowsInv' /\ MilestonesGo
<1>1. PICK call : call = intents[i].call
  OBVIOUS
<1>2. /\ call \in TransferCall /\ UNCHANGED <<orgVars, factoryVars>>
      /\ \/ PerformTransfer(call) /\ Settle(i, "SUCCESS", 0)
         \/ Settle(i, "FAILED", 0) /\ UNCHANGED treasuryVars
  BY <1>1, ApplyTransferCases
<1>3. /\ UNCHANGED <<milestones, escrow, refunded, rows, misnamed, deployed>>
      /\ UNCHANGED <<initialized, orgCount, registry, wasmHash, cached>>
  BY <1>2 DEF milestoneVars, orgVars, factoryVars
<1>4. MilestonesGo
  BY <1>3, MilestonesStay
<1>5. RowsInv'
  <2>1. call \notin MilestoneOperation
    BY <1>2 DEF TransferCall, MilestoneOperation
  <2>2. PICK status \in {"SUCCESS", "FAILED"} : Settle(i, status, 0)
    BY <1>2
  <2>3. QED BY <1>1, <1>3, <1>4, <2>1, <2>2, TransactionKeeps
<1>6. TreasuryTypeOK'
  <2>1. CASE PerformTransfer(call)
    BY <1>2, <2>1, TransferTyped DEF OnChainInv
  <2>2. CASE UNCHANGED treasuryVars
    BY <2>2 DEF OnChainInv, TreasuryTypeOK, treasuryVars
  <2>3. QED BY <1>2, <2>1, <2>2
<1>7. RegistryInv' /\ FactoryTypeOK' /\ MilestoneTypeOK' /\ MilestonesInv'
  BY <1>3, RegistryUntouched
     DEF OnChainInv, FactoryTypeOK, MilestoneTypeOK, MilestonesInv
<1>8. QED BY <1>4, <1>5, <1>6, <1>7 DEF OnChainInv

-----------------------------------------------------------------------------
(***************************************************************************)
(* The indexer, and what it writes to rows.                                *)
(***************************************************************************)
LEMMA NextEventIn ==
    ASSUME LogInv, poll.todo # {}
    PROVE  /\ PollSound /\ NextEvent \in poll.todo /\ NextEvent \in DOMAIN events
           /\ poll.todo \in SUBSET DOMAIN events
<1>1. PollSound
  BY DEF LogInv, Asleep
<1>2. poll.todo \in SUBSET DOMAIN events
  BY <1>1 DEF PollSound, Polling
<1>3. poll.todo \in SUBSET Nat
  BY <1>2 DEF LogInv
<1>4. \E n \in poll.todo : \A k \in poll.todo : n <= k
  BY <1>3, LeastNumber
<1>5. NextEvent \in poll.todo
  BY <1>4 DEF NextEvent, Min
<1>6. QED BY <1>1, <1>2, <1>5

\* Without a write, what the rows rest on stays as it is.
LEMMA RowsAside ==
    ASSUME RowsInv, UNCHANGED <<intentVars, rows, misnamed, milestones>> PROVE RowsInv'
<1>1. UNCHANGED <<intents, requests, sequence>>
  BY DEF intentVars
<1>2. IntentsInv(Calls, {Founder})' /\ IntentsKept
  BY <1>1 DEF RowsInv, IntentsInv, SubmitState, IntentsKept, Confirmed
<1>3. MilestonesGo
  BY MilestonesStay
<1>4. QED BY <1>1, <1>2, <1>3, RowsUntouched DEF Confirmed

\* An event tells a row no more than the milestone went through.
LEMMA HandleEventKeeps ==
    ASSUME OnChainInv, RowsInv, LogInv, HandleEvent, UNCHANGED <<chainVars, intentVars>>
    PROVE  RowsInv'
<1>1. PICK e : e = NextEvent
  OBVIOUS
<1>2. /\ UNCHANGED <<intents, requests, sequence, milestones, misnamed>> /\ poll.todo # {}
      /\ rows' = IF events[e].topic \notin DOMAIN StatusByTopic THEN rows
                 ELSE [r \in DOMAIN rows |->
                          IF rows[r].id = events[e].id
                          THEN [rows[r] EXCEPT !.status = StatusByTopic[events[e].topic]]
                          ELSE rows[r]]
  BY <1>1 DEF HandleEvent, Handle, chainVars, milestoneVars, intentVars
<1>3. CASE events[e].topic \notin DOMAIN StatusByTopic
  BY <1>2, <1>3, RowsAside DEF intentVars
<1>4. CASE events[e].topic \in DOMAIN StatusByTopic
  <2>1. e \in DOMAIN events
    BY <1>1, <1>2, NextEventIn
  <2>2. EventSound(e)
    BY <2>1 DEF LogInv
  <2>3. PICK id, status : id = events[e].id /\ status = StatusByTopic[events[e].topic]
    OBVIOUS
  <2>4. GotThere(id, status) /\ status \in RowStatus
    BY <1>4, <2>2, <2>3 DEF EventSound, StatusByTopic, RowStatus
  <2>5. id # Null
    <3>1. milestones[TheOrg] \in Seq(MilestoneRecord)
      BY HomeId DEF OnChainInv, MilestoneTypeOK
    <3>2. QED BY <2>4, <3>1 DEF GotThere, Null
  <2>6. rows' = [r \in DOMAIN rows |-> IF rows[r].id = id
                                       THEN [rows[r] EXCEPT !.status = status] ELSE rows[r]]
    BY <1>2, <1>4, <2>3
  <2>7. rows \in Seq(RowRecord) /\ Len(rows) <= MaxRows
    BY DEF RowsInv
  <2>8. ASSUME NEW r \in DOMAIN rows
        PROVE  /\ rows'[r] \in RowRecord /\ rows'[r].id = rows[r].id
               /\ \/ rows'[r].status = rows[r].status
                  \/ rows[r].id = id /\ rows'[r].status = status
    <3>1. rows[r] \in RowRecord
      BY <2>7
    <3>2. PICK row : row = [rows[r] EXCEPT !.status = status]
      OBVIOUS
    <3>3. row \in RowRecord /\ row.id = rows[r].id /\ row.status = status
      BY <2>4, <3>1, <3>2 DEF RowRecord
    <3>4. (rows'[r] = row /\ rows[r].id = id) \/ rows'[r] = rows[r]
      BY <2>6, <3>2
    <3>5. QED BY <3>1, <3>3, <3>4
  <2>9. DOMAIN rows' = DOMAIN rows /\ DOMAIN rows = 1 .. Len(rows) /\ Len(rows) \in Nat
    BY <2>6, <2>7
  <2>10. rows' \in Seq(RowRecord) /\ Len(rows') = Len(rows)
    <3>1. rows' \in [1 .. Len(rows) -> RowRecord]
      BY <2>6, <2>8, <2>9
    <3>2. QED BY <2>9, <3>1
  <2>11. IntentsInv(Calls, {Founder})' /\ IntentsKept /\ MilestonesGo
    BY <1>2, MilestonesStay
       DEF RowsInv, IntentsInv, SubmitState, IntentsKept, Confirmed
  <2>12. RowsKept /\ misnamed' \subseteq DOMAIN rows'
    BY <1>2, <2>9 DEF RowsInv, RowsKept
  <2>13. ASSUME NEW r \in DOMAIN rows'
         PROVE  \/ r \in DOMAIN rows /\ rows'[r].status = rows[r].status
                \/ rows'[r].status \in Ahead =>
                       \E k \in CreatedFor(r)', s \in Ahead :
                           s = rows'[r].status /\ GotThere(k, s)'
    <3>1. CASE rows'[r].status = rows[r].status
      BY <2>9, <3>1
    <3>2. CASE rows[r].id = id /\ rows'[r].status = status
      <4>1. RowSound(r)
        BY <2>9 DEF RowsInv
      <4>2. id \in CreatedFor(r)
        BY <2>5, <3>2, <4>1 DEF RowSound, Linked
      <4>3. id \in CreatedFor(r)'
        BY <2>11, <4>2, CreatedStays
      <4>4. GotThere(id, status)'
        BY <2>4, <2>11, GotThereStays
      <4>5. QED BY <3>2, <4>3, <4>4
    <3>3. QED BY <2>8, <2>9, <3>1, <3>2
  <2>14. \A i \in DOMAIN intents' : i \in DOMAIN intents /\ (Confirmed(i)' => Confirmed(i))
    BY <1>2 DEF Confirmed
  <2>15. Len(rows') <= MaxRows
    BY <2>7, <2>10
  <2>16. \A r \in DOMAIN rows' : r \in DOMAIN rows /\ rows'[r].id = rows[r].id
    BY <2>8, <2>9
  <2>17. QED BY <1>2, <2>10, <2>11, <2>12, <2>13, <2>14, <2>15, <2>16, RowsStep
<1>5. QED BY <1>3, <1>4

\* Every step, for the chain and the rows.
LEMMA ChainAndRowsStep ==
    ASSUME OnChainInv, RowsInv, LogInv, [MilestonesServiceNext]_milestonesServiceVars
    PROVE  OnChainInv' /\ RowsInv' /\ MilestonesGo
<1>1. ASSUME UNCHANGED chainVars PROVE OnChainInv' /\ MilestonesGo /\ milestones' = milestones
  BY <1>1, OnChainUntouched, MilestonesStay DEF chainVars, milestoneVars
<1>2. CASE UNCHANGED milestonesServiceVars
  <2>1. UNCHANGED <<chainVars, intentVars, rows, misnamed>>
    BY <1>2 DEF milestonesServiceVars, treasuryServiceVars, chainVars, tables
  <2>2. QED BY <1>1, <2>1, RowsAside
<1>3. CASE CreateRow
  BY <1>1, <1>3, CreateRowKeeps DEF CreateRow
<1>4. ASSUME NEW p \in Slots,
             ReadRow(p) \/ BuildIntent(p) \/ Discard(p) \/ WaitForCall(p) \/ WriteRow(p)
      PROVE  OnChainInv' /\ RowsInv' /\ MilestonesGo
  <2>1. UNCHANGED chainVars
    BY <1>4 DEF ReadRow, BuildIntent, Discard, WaitForCall, WriteRow
  <2>2. RowsInv'
    BY <1>4, ReadRowKeeps, BuildIntentKeeps, DiscardKeeps, WaitKeeps, WriteKeeps
       DEF OnChainInv
  <2>3. QED BY <1>1, <2>1, <2>2
<1>5. ASSUME NEW i \in DOMAIN intents, ApplyCall(i)
      PROVE  OnChainInv' /\ RowsInv' /\ MilestonesGo
  BY <1>5, ApplyCallKeeps
<1>6. ASSUME NEW p \in Slots, BuildTransfer(p) \/ ReturnSubmitted(p),
             UNCHANGED <<milestoneVars, tables>>
      PROVE  OnChainInv' /\ RowsInv' /\ MilestonesGo
  <2>1. UNCHANGED chainVars
    BY <1>6 DEF BuildTransfer, ReturnSubmitted, chainVars
  <2>2. RowsInv'
    BY <1>6, TransferRequestKeeps DEF tables
  <2>3. QED BY <1>1, <2>1, <2>2
<1>7. ASSUME NEW i \in DOMAIN intents, ApplyTransfer(i), UNCHANGED <<milestoneVars, tables>>
      PROVE  OnChainInv' /\ RowsInv' /\ MilestonesGo
  BY <1>7, ApplyTransferKeeps DEF tables
<1>8. ASSUME NEW p \in Slots, SubmitStep(p), UNCHANGED <<chainVars, indexerVars, tables>>
      PROVE  OnChainInv' /\ RowsInv' /\ MilestonesGo
  <2>1. UNCHANGED <<rows, misnamed, milestones>>
    BY <1>1, <1>8 DEF tables
  <2>2. RowsInv'
    BY <1>8, <2>1, SubmitKeeps
  <2>3. QED BY <1>1, <1>8, <2>2
<1>9. CASE (HandleEvent \/ PollOtherwise) /\ UNCHANGED <<chainVars, intentVars>>
  <2>1. RowsInv'
    BY <1>1, <1>9, HandleEventKeeps, RowsAside DEF PollOtherwise, tables
  <2>2. QED BY <1>1, <1>9, <2>1
<1>10. QED
  BY <1>2, <1>3, <1>4, <1>5, <1>6, <1>7, <1>8, <1>9 DEF MilestonesServiceNext

-----------------------------------------------------------------------------
(***************************************************************************)
(* The log: what is published, and how far the cursors have come.          *)
(***************************************************************************)
Message == [contract : {Home, MilestoneEngine}, topic : Topics, id : Nat, amount : Int]

\* A message that is true once the step is done.
Truthful(message) ==
    /\ message.contract = Home <=> message.topic \in DOMAIN TypeOf
    /\ message.topic \in DOMAIN StatusByTopic =>
           /\ message.id \in DOMAIN milestones'[TheOrg]
           /\ StatusByTopic[message.topic] \in Ahead =>
                  milestones'[TheOrg][message.id].status
                      \in Through(StatusByTopic[message.topic])

\* The events there were stay, and each new one bears a message and the new
\* ledger.
Appended(published) ==
    /\ ledger' = ledger + 1 /\ ledger' \in 0 .. MaxLedger
    /\ events' \in Seq(Event)
    /\ DOMAIN events \subseteq DOMAIN events'
    /\ \A e \in DOMAIN events : events'[e] = events[e]
    /\ DOMAIN events' \ DOMAIN events =
           {Len(events) + k : k \in DOMAIN published}
    /\ \A k \in DOMAIN published :
           LET event == events'[Len(events) + k]
           IN  /\ event.contract = published[k].contract /\ event.topic = published[k].topic
               /\ event.id = published[k].id /\ event.amount = published[k].amount
               /\ event.ledger = ledger + 1

\* Events are added at the end and keep their place.
LEMMA PublishAppends ==
    ASSUME LogInv, NEW published \in Seq(Message), Publish(published)
    PROVE  Appended(published)
<1> DEFINE new == [k \in DOMAIN published |->
           [contract |-> published[k].contract, topic |-> published[k].topic,
            id |-> published[k].id, amount |-> published[k].amount, ledger |-> ledger + 1]]
<1>1. events' = events \o new /\ ledger' = ledger + 1 /\ ledger < MaxLedger
  BY DEF Publish
<1>2. ledger \in Nat /\ events \in Seq(Event) /\ MaxLedger \in Nat
  BY IndexerAssumption DEF LogInv
<1>3. \A k \in DOMAIN published :
          /\ new[k] \in Event
          /\ new[k].contract = published[k].contract /\ new[k].topic = published[k].topic
          /\ new[k].id = published[k].id /\ new[k].amount = published[k].amount
          /\ new[k].ledger = ledger + 1
  <2>1. \A k \in DOMAIN published : published[k] \in Message
    OBVIOUS
  <2>2. QED BY <1>2, <2>1 DEF Message, Event
<1>4. new \in Seq(Event) /\ Len(new) = Len(published) /\ DOMAIN new = DOMAIN published
      /\ DOMAIN published = 1 .. Len(published)
  <2>1. DOMAIN published = 1 .. Len(published) /\ Len(published) \in Nat
    OBVIOUS
  <2>2. DOMAIN new = 1 .. Len(published)
    BY <2>1
  <2>3. new \in [1 .. Len(published) -> Event]
    BY <1>3, <2>1
  <2> HIDE DEF new
  <2>4. QED BY <2>1, <2>2, <2>3
<1> HIDE DEF new
<1>5. /\ events' \in Seq(Event) /\ Len(events') = Len(events) + Len(published)
      /\ \A e \in DOMAIN events : events'[e] = events[e]
      /\ \A k \in DOMAIN published : events'[Len(events) + k] = new[k]
  <2>1. /\ events \o new \in Seq(Event) /\ Len(events \o new) = Len(events) + Len(new)
        /\ \A e \in 1 .. Len(events) : (events \o new)[e] = events[e]
    BY <1>2, <1>4
  <2>2. ASSUME NEW k \in 1 .. Len(new) PROVE (events \o new)[Len(events) + k] = new[k]
    BY <1>2, <1>4
  <2>3. QED BY <1>1, <1>2, <1>4, <2>1, <2>2
<1>6. DOMAIN events = 1 .. Len(events) /\ DOMAIN events' = 1 .. Len(events')
      /\ Len(events) \in Nat /\ Len(published) \in Nat
  BY <1>2, <1>5
<1>7. DOMAIN events \subseteq DOMAIN events'
      /\ DOMAIN events' \ DOMAIN events = {Len(events) + k : k \in DOMAIN published}
  <2>1. \A n \in Int : n \in Len(events) + 1 .. Len(events) + Len(published) =>
                           n - Len(events) \in 1 .. Len(published)
                           /\ n = Len(events) + (n - Len(events))
    BY <1>6
  <2>2. \A n \in DOMAIN events' \ DOMAIN events :
            n \in Int /\ n \in Len(events) + 1 .. Len(events) + Len(published)
    BY <1>5, <1>6
  <2>3. \A k \in DOMAIN published : Len(events) + k \in DOMAIN events' \ DOMAIN events
    BY <1>4, <1>5, <1>6
  <2>4. \A n \in DOMAIN events' \ DOMAIN events :
            n \in {Len(events) + k : k \in DOMAIN published}
    BY <1>4, <2>1, <2>2
  <2>5. DOMAIN events \subseteq DOMAIN events'
    BY <1>5, <1>6
  <2>6. QED BY <2>3, <2>4, <2>5
<1>8. ledger' \in 0 .. MaxLedger
  BY <1>1, <1>2
<1>9. ASSUME NEW k \in DOMAIN published, NEW event, event = events'[Len(events) + k]
      PROVE  /\ event.contract = published[k].contract /\ event.topic = published[k].topic
             /\ event.id = published[k].id /\ event.amount = published[k].amount
             /\ event.ledger = ledger + 1
  BY <1>3, <1>5, <1>9
<1>10. QED BY <1>1, <1>5, <1>7, <1>8, <1>9 DEF Appended

\* New events lie in a new ledger, beyond every cursor and page.
LEMMA PublishKeepsLog ==
    ASSUME LogInv, NEW published \in Seq(Message), Appended(published), UNCHANGED pollVars,
           MilestonesGo, \A k \in DOMAIN published : Truthful(published[k])
    PROVE  LogInv'
<1>1. /\ ledger' = ledger + 1 /\ ledger' \in 0 .. MaxLedger /\ events' \in Seq(Event)
      /\ DOMAIN events \subseteq DOMAIN events'
      /\ \A e \in DOMAIN events : events'[e] = events[e]
  BY DEF Appended
<1>2. UNCHANGED <<cursor, poll, handled, forgone>>
  BY DEF pollVars
<1>3. ledger \in Nat
  BY DEF LogInv
<1>4. ASSUME NEW e \in DOMAIN events PROVE EventSound(e)'
  <2>1. EventSound(e) /\ events'[e] = events[e]
    BY <1>1 DEF LogInv
  <2>2. PICK id, status : id = events[e].id /\ status = StatusByTopic[events[e].topic]
    OBVIOUS
  <2>3. GotThere(id, status) => GotThere(id, status)'
    BY GotThereStays
  <2>4. events'[e].ledger \in 1 .. ledger'
    BY <1>1, <1>3, <2>1 DEF EventSound
  <2>5. GotThere(events[e].id, StatusByTopic[events[e].topic])
            => GotThere(events[e].id, StatusByTopic[events[e].topic])'
    BY <2>1, <2>2, <2>3 DEF GotThere
  <2>6. QED BY <2>1, <2>4, <2>5 DEF EventSound, GotThere
<1>5. ASSUME NEW e \in DOMAIN events' \ DOMAIN events
      PROVE  EventSound(e)' /\ events'[e].ledger = ledger + 1
  <2>1. PICK k \in DOMAIN published :
            /\ e = Len(events) + k
            /\ events'[e].contract = published[k].contract
            /\ events'[e].topic = published[k].topic
            /\ events'[e].id = published[k].id /\ events'[e].ledger = ledger + 1
    BY DEF Appended
  <2>2. Truthful(published[k])
    OBVIOUS
  <2>3. QED BY <1>1, <1>3, <2>1, <2>2 DEF Truthful, EventSound, GotThere
<1>6. ASSUME NEW e \in DOMAIN events' PROVE events'[e].contract \in Watched
  <2>1. events'[e] \in Event
    BY <1>1
  <2>2. QED BY <2>1, TreasuryServiceAssumption, MilestonesServiceAssumption DEF Event
<1>7. cursor \in [Watched -> NoCursor .. ledger']
  BY <1>1, <1>3 DEF LogInv, NoCursor
<1>8. CursorCovered'
  <2> SUFFICES ASSUME NEW e \in DOMAIN events',
                      events'[e].ledger <= cursor'[events'[e].contract]
               PROVE  e \in handled' \cup forgone'
    BY DEF CursorCovered
  <2>1. CASE e \in DOMAIN events
    BY <1>1, <1>2, <2>1 DEF LogInv, CursorCovered
  <2>2. CASE e \notin DOMAIN events
    <3>1. cursor[events'[e].contract] \in NoCursor .. ledger
      BY <1>6 DEF LogInv
    <3>2. events'[e].ledger = ledger + 1
      BY <1>5, <2>2
    <3>3. QED BY <1>2, <1>3, <3>1, <3>2 DEF NoCursor
  <2>3. QED BY <2>1, <2>2
<1>9. ASSUME PollSound PROVE PollSound'
  <2>1. poll \in Polling /\ poll.high \in 0 .. ledger /\ poll.todo \in SUBSET DOMAIN events
    BY <1>9 DEF PollSound, Polling
  <2>2. poll' \in Polling'
    <3>1. SUBSET DOMAIN events \subseteq SUBSET DOMAIN events' /\ 0 .. ledger \subseteq 0 .. ledger'
      BY <1>1, <1>3
    <3>2. QED BY <1>2, <2>1, <3>1 DEF Polling
  <2>3. ASSUME NEW e \in DOMAIN events', events'[e].ledger <= poll.high
        PROVE  e \in DOMAIN events
    BY <1>3, <1>5, <2>1, <2>3
  <2>4. QED BY <1>1, <1>2, <1>9, <2>2, <2>3 DEF PollSound
<1>10. handled' \subseteq DOMAIN events' /\ forgone' \subseteq DOMAIN events'
  BY <1>1, <1>2 DEF LogInv
<1>11. poll' = Asleep \/ PollSound'
  BY <1>2, <1>9 DEF LogInv
<1>12. QED BY <1>1, <1>2, <1>4, <1>5, <1>7, <1>8, <1>10, <1>11 DEF LogInv

\* The poll: a cursor moves only when what lies behind it is done with.
LEMMA BaselineKeepsLog ==
    ASSUME LogInv, NEW c \in Watched, Baseline(c), UNCHANGED milestones PROVE LogInv'
<1>1. /\ UNCHANGED <<ledger, events, poll, handled>> /\ poll = Asleep
      /\ cursor' = [cursor EXCEPT ![c] = ledger] /\ forgone' = forgone \cup EventsOf(c, 1)
  BY DEF Baseline, publishVars
<1>2. cursor \in [Watched -> NoCursor .. ledger] /\ ledger \in Nat
  BY DEF LogInv
<1>3. cursor' \in [Watched -> NoCursor .. ledger] /\ cursor'[c] = ledger
      /\ \A d \in Watched \ {c} : cursor'[d] = cursor[d]
  BY <1>1, <1>2 DEF NoCursor
<1>4. \A e \in DOMAIN events : EventSound(e) /\ EventSound(e)'
  BY <1>1 DEF LogInv, EventSound, GotThere
<1>5. ASSUME NEW e \in DOMAIN events PROVE events[e].contract \in Watched
  <2>1. events[e] \in Event
    BY DEF LogInv
  <2>2. QED BY <2>1, TreasuryServiceAssumption, MilestonesServiceAssumption DEF Event
<1>6. CursorCovered'
  <2> SUFFICES ASSUME NEW e \in DOMAIN events, events[e].ledger <= cursor'[events[e].contract]
               PROVE  e \in handled \cup forgone'
    BY <1>1 DEF CursorCovered
  <2>1. CASE events[e].contract = c
    BY <1>1, <1>4, <2>1 DEF EventsOf, EventSound
  <2>2. CASE events[e].contract # c
    BY <1>1, <1>3, <1>5, <2>2 DEF LogInv, CursorCovered
  <2>3. QED BY <2>1, <2>2
<1>7. forgone' \subseteq DOMAIN events
  BY <1>1 DEF LogInv, EventsOf
<1>8. QED BY <1>1, <1>3, <1>4, <1>6, <1>7 DEF LogInv

\* A set of numbers below a bound has a greatest.
LEMMA GreatestIn ==
    ASSUME NEW n \in Nat, NEW S \in SUBSET (0 .. n), S # {} PROVE Max(S) \in S
<1>1. \E g \in S : \A y \in S : g >= y
  <2> DEFINE gaps == {n - x : x \in S}
  <2>1. gaps \in SUBSET Nat /\ gaps # {}
    <3>1. \A x \in S : n - x \in Nat
      <4>1. \A x \in 0 .. n : n - x \in Nat
        OBVIOUS
      <4>2. QED BY <4>1
    <3>2. QED BY <3>1
  <2>2. PICK d \in gaps : \A k \in gaps : d <= k
    <3> HIDE DEF gaps
    <3>1. QED BY <2>1, LeastNumber
  <2>3. PICK g \in S : d = n - g
    OBVIOUS
  <2>4. ASSUME NEW y \in S PROVE g >= y
    <3>1. d <= n - y /\ y \in Nat /\ g \in Nat
      BY <2>2
    <3>2. QED BY <2>3, <3>1
  <2>5. QED BY <2>4
<1>2. QED BY <1>1 DEF Max

\* A page holds every event from the cursor to its last ledger.
LEMMA FetchKeepsLog ==
    ASSUME LogInv, NEW c \in Watched, Fetch(c), UNCHANGED milestones PROVE LogInv'
<1>1. PICK page : page = EventsOf(c, cursor[c] + 1)
  OBVIOUS
<1>2. PICK high : high = Max({events[e].ledger : e \in page})
  OBVIOUS
<1>3. /\ UNCHANGED <<ledger, events, cursor, handled, forgone>> /\ page # {}
      /\ poll' = [contract |-> c, todo |-> page, high |-> high]
  BY <1>1, <1>2 DEF Fetch, publishVars, StartLedger
<1>4. \A e \in DOMAIN events : EventSound(e) /\ EventSound(e)'
  BY <1>3 DEF LogInv, EventSound, GotThere
<1>5. ledger \in Nat /\ page \in SUBSET DOMAIN events
  BY <1>1 DEF LogInv, EventsOf
<1>6. high \in 0 .. ledger
  <2>1. \A e \in page : events[e].ledger \in 0 .. ledger
    BY <1>4, <1>5 DEF EventSound
  <2>2. PICK S : S = {events[e].ledger : e \in page}
    OBVIOUS
  <2>3. S \in SUBSET (0 .. ledger) /\ S # {}
    BY <1>3, <2>1, <2>2
  <2>4. Max(S) \in S
    BY <1>5, <2>3, GreatestIn
  <2>5. QED BY <1>2, <2>2, <2>3, <2>4
<1>7. poll' \in Polling'
  BY <1>3, <1>5, <1>6 DEF Polling
<1>8. ASSUME NEW e \in DOMAIN events, events[e].contract = c
      PROVE  e \in handled \cup forgone \cup page
  <2>1. CASE events[e].ledger <= cursor[c]
    BY <1>8, <2>1 DEF LogInv, CursorCovered
  <2>2. CASE events[e].ledger >= cursor[c] + 1
    BY <1>1, <1>8, <2>2 DEF EventsOf
  <2>3. events[e].ledger \in Int /\ cursor[c] \in Int
    BY <1>4, <1>5 DEF EventSound, LogInv, NoCursor
  <2>4. QED BY <2>1, <2>2, <2>3
<1>9. PollSound'
  BY <1>3, <1>7, <1>8 DEF PollSound
<1>10. QED BY <1>3, <1>4, <1>9 DEF LogInv, CursorCovered

\* An event is handled, or thrown away with a line in the log.
LEMMA DoneWithKeepsLog ==
    ASSUME LogInv, Handle \/ Skip, UNCHANGED milestones PROVE LogInv'
<1>1. PICK e : e = NextEvent
  OBVIOUS
<1>2. /\ UNCHANGED <<ledger, events, cursor>> /\ poll.todo # {}
      /\ poll' = [poll EXCEPT !.todo = @ \ {e}]
      /\ handled' \cup forgone' = handled \cup forgone \cup {e}
      /\ handled' \subseteq handled \cup {e} /\ forgone' \subseteq forgone \cup {e}
  BY <1>1 DEF Handle, Skip, publishVars
<1>3. e \in poll.todo /\ e \in DOMAIN events /\ PollSound
  BY <1>1, <1>2, NextEventIn
<1>4. \A k \in DOMAIN events : EventSound(k)'
  BY <1>2 DEF LogInv, EventSound, GotThere
<1>5. poll \in Polling
  BY <1>3 DEF PollSound
<1>6. /\ poll'.contract = poll.contract /\ poll'.high = poll.high
      /\ poll'.todo = poll.todo \ {e} /\ poll' \in Polling'
  BY <1>2, <1>5 DEF Polling
<1>7. PollSound'
  BY <1>2, <1>3, <1>6 DEF PollSound
<1>8. CursorCovered'
  BY <1>2 DEF LogInv, CursorCovered
<1>9. handled' \subseteq DOMAIN events /\ forgone' \subseteq DOMAIN events
  BY <1>2, <1>3 DEF LogInv
<1>10. QED BY <1>2, <1>4, <1>7, <1>8, <1>9 DEF LogInv

\* The cursor moves over a page of which nothing is left, or stays.
LEMMA AdvanceKeepsLog ==
    ASSUME LogInv, Advance \/ Interrupt, UNCHANGED milestones PROVE LogInv'
<1>1. /\ UNCHANGED <<ledger, events, handled, forgone>> /\ poll # Asleep /\ poll' = Asleep
      /\ \/ poll.todo = {} /\ cursor' = [cursor EXCEPT ![poll.contract] = poll.high]
         \/ cursor' = cursor
  BY DEF Advance, Interrupt, publishVars
<1>2. \A e \in DOMAIN events : EventSound(e)'
  BY <1>1 DEF LogInv, EventSound, GotThere
<1>3. PollSound
  BY <1>1 DEF LogInv
<1>4. poll.contract \in Watched /\ poll.high \in 0 .. ledger
  BY <1>3 DEF PollSound, Polling
<1>5. cursor \in [Watched -> NoCursor .. ledger] /\ ledger \in Nat
  BY DEF LogInv
<1>6. CASE poll.todo = {} /\ cursor' = [cursor EXCEPT ![poll.contract] = poll.high]
  <2>1. cursor' \in [Watched -> NoCursor .. ledger]
    BY <1>4, <1>5, <1>6 DEF NoCursor
  <2>2. ASSUME NEW e \in DOMAIN events, events[e].ledger <= cursor'[events[e].contract]
        PROVE  e \in handled \cup forgone
    <3>1. CASE events[e].contract = poll.contract
      BY <1>3, <1>4, <1>5, <1>6, <2>2, <3>1 DEF PollSound
    <3>2. CASE events[e].contract # poll.contract
      BY <1>5, <1>6, <2>2, <3>2 DEF LogInv, CursorCovered
    <3>3. QED BY <3>1, <3>2
  <2>3. QED BY <1>1, <1>2, <2>1, <2>2 DEF LogInv, CursorCovered
<1>7. CASE cursor' = cursor
  BY <1>1, <1>2, <1>7 DEF LogInv, CursorCovered
<1>8. QED BY <1>1, <1>6, <1>7

\* Nothing new on the log, whatever milestones do.
LEMMA LogAside ==
    ASSUME LogInv, UNCHANGED indexerVars, MilestonesGo PROVE LogInv'
<1>1. UNCHANGED <<ledger, events, cursor, poll, transactions, handled, forgone>>
  BY DEF indexerVars, publishVars, pollVars
<1>2. ASSUME NEW e \in DOMAIN events PROVE EventSound(e)'
  <2>1. PICK id, status : id = events[e].id /\ status = StatusByTopic[events[e].topic]
    OBVIOUS
  <2>2. EventSound(e)
    BY DEF LogInv
  <2>3. GotThere(id, status) => GotThere(id, status)'
    BY GotThereStays
  <2>4. GotThere(events[e].id, StatusByTopic[events[e].topic])
            => GotThere(events[e].id, StatusByTopic[events[e].topic])'
    BY <1>1, <2>1, <2>3 DEF GotThere
  <2>5. QED BY <1>1, <2>2, <2>4 DEF EventSound, GotThere
<1>3. PollSound => PollSound'
  BY <1>1 DEF PollSound, Polling
<1>4. QED BY <1>1, <1>2, <1>3 DEF LogInv, CursorCovered

-----------------------------------------------------------------------------
(***************************************************************************)
(* The books: what the treasury's events did to it, and what was recorded. *)
(***************************************************************************)
LEMMA HomeApart == Home # MilestoneEngine /\ Home \in Watched /\ HomeOrg \in Orgs
BY AccountsAssumption, DeploymentAssumption, TreasuryServiceAssumption DEF Home, Treasuries

\* What an event did to the treasury is an integer.
LEMMA NetTyped ==
    ASSUME events \in Seq(Event)
    PROVE  /\ IsFiniteSet(DOMAIN events) /\ \A e \in DOMAIN events : NetOf[e] \in Int
           /\ DOMAIN NetOf = DOMAIN events
<1>1. IsFiniteSet(DOMAIN events)
  <2>1. DOMAIN events = 1 .. Len(events) /\ Len(events) \in Int
    OBVIOUS
  <2>2. QED BY <2>1, FS_Interval
<1>2. ASSUME NEW e \in DOMAIN events PROVE NetOf[e] \in Int
  <2>1. events[e] \in Event
    OBVIOUS
  <2>2. events[e].amount \in Int
    BY <2>1 DEF Event
  <2>3. QED BY <2>2 DEF NetOf
<1>3. QED BY <1>1, <1>2 DEF NetOf

\* Only events of the treasury have transactions.
LEMMA RecordedAtHome ==
    ASSUME transactions \in Seq(Transaction)
    PROVE  /\ Recorded \subseteq HomeEvents
           /\ \A k \in DOMAIN transactions : transactions[k].event \in HomeEvents
<1>1. ASSUME NEW k \in DOMAIN transactions PROVE transactions[k].event \in HomeEvents
  <2>1. transactions[k] \in Transaction
    OBVIOUS
  <2>2. QED BY <2>1 DEF Transaction
<1>2. QED BY <1>1 DEF Recorded

\* The books stay right while nothing they speak of changes.
LEMMA BooksAside ==
    ASSUME BooksInv, UNCHANGED <<events, booked, transactions, handled>> PROVE BooksInv'
<1>1. HomeEvents' = HomeEvents /\ NetOf' = NetOf /\ Nets' = Nets /\ Recorded' = Recorded
  BY DEF HomeEvents, NetOf, Nets, Net, Recorded
<1>2. Transaction' = Transaction
  BY <1>1 DEF Transaction
<1>3. QED BY <1>1, <1>2 DEF BooksInv

\* At most one of the new events is the treasury's, and the treasury's ledger
\* moves by it.
BookedBy(published) ==
    \/ /\ \A k \in DOMAIN published : published[k].contract # Home
       /\ booked'[HomeOrg] = booked[HomeOrg]
    \/ \E k \in DOMAIN published :
           /\ published[k].contract = Home
           /\ \A j \in DOMAIN published \ {k} : published[j].contract # Home
           /\ booked'[HomeOrg] = booked[HomeOrg]
                  + (IF published[k].topic = "deposited" THEN published[k].amount
                     ELSE -published[k].amount)

\* What the treasury books it publishes.
LEMMA PublishKeepsBooks ==
    ASSUME LogInv, BooksInv, TreasuryTypeOK, NEW published \in Seq(Message),
           Appended(published), BookedBy(published), UNCHANGED pollVars
    PROVE  BooksInv'
<1>1. /\ events' \in Seq(Event) /\ DOMAIN events \subseteq DOMAIN events'
      /\ \A e \in DOMAIN events : events'[e] = events[e]
      /\ DOMAIN events' \ DOMAIN events = {Len(events) + k : k \in DOMAIN published}
      /\ \A k \in DOMAIN published :
             /\ events'[Len(events) + k].contract = published[k].contract
             /\ events'[Len(events) + k].topic = published[k].topic
             /\ events'[Len(events) + k].amount = published[k].amount
  BY DEF Appended
<1>2. transactions' = transactions /\ handled' = handled
  BY DEF pollVars
<1>3. PICK f, g : f = NetOf /\ g = NetOf'
  OBVIOUS
<1>4. events \in Seq(Event) /\ handled \subseteq DOMAIN events
  BY DEF LogInv
<1>5. IsFiniteSet(DOMAIN events) /\ \A e \in DOMAIN events : f[e] \in Int
  BY <1>3, <1>4, NetTyped
<1>6. \A e \in DOMAIN events' : g[e] \in Int
  <2>1. ASSUME NEW e \in DOMAIN events' PROVE g[e] \in Int
    <3>1. events'[e] \in Event
      BY <1>1
    <3>2. events'[e].amount \in Int
      BY <3>1 DEF Event
    <3>3. QED BY <1>3, <3>2 DEF NetOf
  <2>2. QED BY <2>1
<1>7. \A e \in DOMAIN events : f[e] = g[e]
  BY <1>1, <1>3 DEF NetOf
<1>8. HomeEvents \subseteq DOMAIN events /\ Recorded \subseteq HomeEvents
  BY RecordedAtHome DEF HomeEvents, BooksInv
<1>9. IsFiniteSet(HomeEvents) /\ IsFiniteSet(Recorded)
  BY <1>5, <1>8, FS_Subset
<1>10. /\ SumFunctionOnSet(f, HomeEvents) = SumFunctionOnSet(g, HomeEvents)
       /\ SumFunctionOnSet(f, Recorded) = SumFunctionOnSet(g, Recorded)
       /\ SumFunctionOnSet(g, HomeEvents) \in Int
  <2>1. (\A e \in HomeEvents : f[e] = g[e] /\ g[e] \in Int) /\ \A e \in Recorded : f[e] = g[e]
    BY <1>1, <1>6, <1>7, <1>8
  <2>2. QED BY <1>9, <2>1, SumSame, SumInt
<1>11. booked[HomeOrg] \in Int /\ Endowment[Home] \in Int
  <2>1. Endowment \in [Accounts -> Nat] /\ Home \in Accounts
    BY AccountsAssumption, DeploymentAssumption DEF Home
  <2>2. QED BY <2>1, HomeApart DEF TreasuryTypeOK
<1>12. \A e \in DOMAIN events : e \in HomeEvents <=> e \in HomeEvents'
  BY <1>1 DEF HomeEvents
<1>13. \A e \in HomeEvents' \ HomeEvents :
           \E k \in DOMAIN published : e = Len(events) + k /\ published[k].contract = Home
  BY <1>1 DEF HomeEvents
<1>14. booked'[HomeOrg] - Endowment[Home] = SumFunctionOnSet(g, HomeEvents')
  <2>1. booked[HomeOrg] - Endowment[Home] = SumFunctionOnSet(g, HomeEvents)
    BY <1>3, <1>10 DEF BooksInv
  <2>2. CASE /\ \A k \in DOMAIN published : published[k].contract # Home
             /\ booked'[HomeOrg] = booked[HomeOrg]
    <3>1. HomeEvents' = HomeEvents
      BY <1>1, <1>8, <1>12, <1>13, <2>2
    <3>2. QED BY <2>1, <2>2, <3>1
  <2>3. ASSUME NEW k \in DOMAIN published, published[k].contract = Home,
               \A j \in DOMAIN published \ {k} : published[j].contract # Home,
               booked'[HomeOrg] = booked[HomeOrg]
                   + (IF published[k].topic = "deposited" THEN published[k].amount
                      ELSE -published[k].amount)
        PROVE  booked'[HomeOrg] - Endowment[Home] = SumFunctionOnSet(g, HomeEvents')
    <3>1. PICK e : e = Len(events) + k
      OBVIOUS
    <3>2. e \in DOMAIN events' /\ e \notin DOMAIN events /\ events'[e].contract = Home
      BY <1>1, <2>3, <3>1
    <3>3. HomeEvents' = HomeEvents \cup {e}
      <4>1. \A x \in HomeEvents' \ HomeEvents : x = e
        BY <1>13, <2>3, <3>1
      <4>2. e \in HomeEvents' /\ HomeEvents \subseteq HomeEvents'
        BY <1>8, <1>12, <3>2 DEF HomeEvents
      <4>3. QED BY <4>1, <4>2
    <3>4. g[e] = IF published[k].topic = "deposited" THEN published[k].amount
                 ELSE -published[k].amount
      BY <1>1, <1>3, <3>1, <3>2 DEF NetOf
    <3>5. e \notin HomeEvents /\ \A x \in HomeEvents \cup {e} : g[x] \in Int
      BY <1>1, <1>6, <1>8, <3>2
    <3>6. SumFunctionOnSet(g, HomeEvents \cup {e}) = SumFunctionOnSet(g, HomeEvents) + g[e]
      BY <1>9, <3>5, SumAdd
    <3>7. g[e] \in Int /\ booked'[HomeOrg] = booked[HomeOrg] + g[e]
      BY <2>3, <3>4, <3>5
    <3>8. QED BY <1>10, <1>11, <2>1, <3>3, <3>6, <3>7
  <2>4. QED BY <2>2, <2>3 DEF BookedBy
<1>15. transactions' \in Seq(Transaction')
  <2>1. HomeEvents \subseteq HomeEvents'
    BY <1>8, <1>12
  <2>2. Transaction \subseteq Transaction'
    BY <2>1 DEF Transaction
  <2>3. QED BY <1>2, <2>2 DEF BooksInv
<1>16. ASSUME NEW k \in DOMAIN transactions'
       PROVE  /\ transactions'[k].type = TypeOf[events'[transactions'[k].event].topic]
              /\ transactions'[k].amount = events'[transactions'[k].event].amount
  <2>1. transactions[k].event \in Recorded
    BY <1>2 DEF Recorded
  <2>2. transactions[k].event \in DOMAIN events
    BY <1>8, <2>1
  <2>3. QED BY <1>1, <1>2, <2>2 DEF BooksInv
<1>17. handled' \cap HomeEvents' \subseteq Recorded'
  BY <1>2, <1>4, <1>12 DEF BooksInv, Recorded
<1>18. SumFunction(Nets)' = SumFunctionOnSet(g, Recorded')
  <2>1. Nets' = Nets /\ Recorded' = Recorded
    BY <1>2 DEF Nets, Net, Recorded
  <2>2. QED BY <1>3, <1>10, <2>1 DEF BooksInv
<1>19. QED BY <1>3, <1>14, <1>15, <1>16, <1>17, <1>18 DEF BooksInv

\* A transaction is recorded once, however often its event is handled.
LEMMA HandleKeepsBooks ==
    ASSUME LogInv, BooksInv, Handle, UNCHANGED booked PROVE BooksInv'
<1>1. PICK e : e = NextEvent
  OBVIOUS
<1>2. /\ events' = events /\ poll.todo # {} /\ handled' = handled \cup {e}
      /\ transactions' = IF events[e].topic \in DOMAIN TypeOf THEN Upsert(e) ELSE transactions
  BY <1>1 DEF Handle, publishVars
<1>3. e \in DOMAIN events
  BY <1>1, <1>2, NextEventIn
<1>4. EventSound(e) /\ events \in Seq(Event) /\ events[e] \in Event
  BY <1>3 DEF LogInv
<1>5. e \in HomeEvents <=> events[e].topic \in DOMAIN TypeOf
  BY <1>3, <1>4 DEF HomeEvents, EventSound
<1>6. HomeEvents' = HomeEvents /\ NetOf' = NetOf
  BY <1>2 DEF HomeEvents, NetOf
<1>7. Transaction' = Transaction
  BY <1>6 DEF Transaction
<1>8. CASE transactions' = transactions /\ (e \in HomeEvents => e \in Recorded)
  <2>1. Nets' = Nets /\ Recorded' = Recorded
    BY <1>8 DEF Nets, Net, Recorded
  <2>2. QED BY <1>2, <1>6, <1>7, <1>8, <2>1 DEF BooksInv
<1>9. CASE /\ e \in HomeEvents /\ e \notin Recorded
           /\ transactions' = Append(transactions,
                  [event |-> e, type |-> TypeOf[events[e].topic], amount |-> events[e].amount])
  <2>1. PICK row : row = [event |-> e, type |-> TypeOf[events[e].topic],
                          amount |-> events[e].amount]
    OBVIOUS
  <2>2. row.event = e /\ row.type = TypeOf[events[e].topic] /\ row.amount = events[e].amount
    BY <2>1
  <2>3. row \in Transaction
    BY <1>4, <1>5, <1>9, <2>1 DEF Transaction, Event
  <2>4. PICK n : n = Len(transactions) + 1
    OBVIOUS
  <2>5. transactions \in Seq(Transaction) /\ transactions' = Append(transactions, row)
    BY <1>9, <2>1 DEF BooksInv
  <2>6. /\ transactions' \in Seq(Transaction)
        /\ DOMAIN transactions' = DOMAIN transactions \cup {n} /\ n \notin DOMAIN transactions
        /\ transactions'[n] = row
        /\ \A k \in DOMAIN transactions : transactions'[k] = transactions[k]
        /\ IsFiniteSet(DOMAIN transactions)
    <3>1. DOMAIN transactions = 1 .. Len(transactions) /\ Len(transactions) \in Nat
      BY <2>5
    <3>2. IsFiniteSet(DOMAIN transactions)
      BY <3>1, FS_Interval
    <3>3. QED BY <2>3, <2>4, <2>5, <3>1, <3>2
  <2>7. Recorded' = Recorded \cup {e}
    BY <2>2, <2>6 DEF Recorded
  <2>8. PICK f : f = NetOf
    OBVIOUS
  <2>9. PICK g, h : g = Nets /\ h = Nets'
    OBVIOUS
  <2>10. h[n] = f[e]
    <3>1. row.type = "DEPOSIT" <=> events[e].topic = "deposited"
      BY <1>5, <1>9, <2>2 DEF TypeOf
    <3>2. h[n] = IF row.type = "DEPOSIT" THEN row.amount ELSE -row.amount
      BY <2>6, <2>9 DEF Nets, Net
    <3>3. QED BY <1>3, <2>2, <2>8, <3>1, <3>2 DEF NetOf
  <2>11. \A k \in DOMAIN transactions : g[k] = h[k] /\ h[k] \in Int
    <3>1. ASSUME NEW k \in DOMAIN transactions PROVE g[k] = h[k] /\ h[k] \in Int
      <4>1. transactions[k] \in Transaction
        BY <2>5
      <4>2. transactions[k].amount \in Int
        BY <4>1 DEF Transaction
      <4>3. QED BY <2>6, <2>9, <4>2 DEF Nets, Net
    <3>2. QED BY <3>1
  <2>12. DOMAIN g = DOMAIN transactions /\ DOMAIN h = DOMAIN transactions \cup {n}
    BY <2>6, <2>9 DEF Nets
  <2>13. /\ IsFiniteSet(Recorded) /\ \A k \in Recorded \cup {e} : f[k] \in Int
         /\ f[e] \in Int
    <3>1. Recorded \subseteq DOMAIN events
      BY <2>5, RecordedAtHome DEF HomeEvents
    <3>2. IsFiniteSet(DOMAIN events) /\ \A k \in DOMAIN events : f[k] \in Int
      BY <1>4, <2>8, NetTyped
    <3>3. QED BY <1>3, <3>1, <3>2, FS_Subset
  <2>14. SumFunctionOnSet(h, DOMAIN h) = SumFunctionOnSet(g, DOMAIN g) + f[e]
    <3>1. \A k \in DOMAIN transactions \cup {n} : h[k] \in Int
      BY <2>10, <2>11, <2>13
    <3>2. SumFunctionOnSet(h, DOMAIN h) = SumFunctionOnSet(h, DOMAIN transactions) + h[n]
      BY <2>6, <2>12, <3>1, SumAdd
    <3>3. SumFunctionOnSet(g, DOMAIN transactions) = SumFunctionOnSet(h, DOMAIN transactions)
      BY <2>6, <2>11, SumSame
    <3>4. QED BY <2>10, <2>12, <3>2, <3>3
  <2>15. SumFunctionOnSet(f, Recorded \cup {e}) = SumFunctionOnSet(f, Recorded) + f[e]
    BY <1>9, <2>13, SumAdd
  <2>16. SumFunction(Nets)' = SumFunctionOnSet(NetOf, Recorded)'
    <3>1. SumFunction(Nets) = SumFunctionOnSet(g, DOMAIN g)
          /\ SumFunction(Nets)' = SumFunctionOnSet(h, DOMAIN h)
      BY <2>9 DEF SumFunction
    <3>2. SumFunctionOnSet(g, DOMAIN g) = SumFunctionOnSet(f, Recorded)
      BY <2>8, <3>1 DEF BooksInv
    <3>3. QED BY <1>6, <2>7, <2>8, <2>14, <2>15, <3>1, <3>2
  <2>17. ASSUME NEW k \in DOMAIN transactions'
         PROVE  /\ transactions'[k].type = TypeOf[events[transactions'[k].event].topic]
                /\ transactions'[k].amount = events[transactions'[k].event].amount
    <3>1. CASE k \in DOMAIN transactions
      BY <2>6, <3>1 DEF BooksInv
    <3>2. CASE k = n
      BY <2>2, <2>6, <3>2
    <3>3. QED BY <2>6, <3>1, <3>2
  <2>18. handled' \cap HomeEvents' \subseteq Recorded'
    BY <1>2, <1>6, <2>7 DEF BooksInv
  <2>19. booked'[HomeOrg] - Endowment[Home] = SumFunctionOnSet(NetOf, HomeEvents)'
    BY <1>6 DEF BooksInv
  <2>20. QED BY <1>2, <1>7, <2>6, <2>16, <2>17, <2>18, <2>19 DEF BooksInv
<1>10. QED BY <1>2, <1>5, <1>8, <1>9 DEF Upsert, Recorded

\* Two events at once, one after the other.
LEMMA TwoMessages ==
    ASSUME NEW S, NEW a \in S, NEW b \in S, NEW both, both = <<a>> \o <<b>>
    PROVE  both \in Seq(S) /\ DOMAIN both = {1, 2} /\ both[1] = a /\ both[2] = b
<1>1. PICK s, t : s = <<a>> /\ t = <<b>>
  OBVIOUS
<1>2. s \in Seq(S) /\ t \in Seq(S) /\ Len(s) = 1 /\ Len(t) = 1 /\ s[1] = a /\ t[1] = b
  BY <1>1
<1>3. both = s \o t
  BY <1>1
<1>4. both \in Seq(S) /\ Len(both) = 2
  BY <1>2, <1>3
<1>5. both[1] = s[1] /\ both[1 + 1] = t[1]
  BY <1>2, <1>3
<1>6. DOMAIN both = 1 .. 2 /\ 1 .. 2 = {1, 2}
  BY <1>4
<1>7. QED BY <1>2, <1>4, <1>5, <1>6

\* What a call of the engine publishes is true, and accounts for what it took
\* from the treasury.
LEMMA CallPublishes ==
    ASSUME OnChainInv, RowsInv, NEW call \in MilestoneOperation, call.row \in DOMAIN rows,
           PerformMilestone(call), NEW published, published = Published(call, About(call))
    PROVE  /\ published \in Seq(Message) /\ BookedBy(published)
           /\ \A k \in DOMAIN published : Truthful(published[k])
<1>1. /\ call.op = "create" => Len(milestones[TheOrg]) + 1 \in DOMAIN milestones'[TheOrg]
      /\ call.op # "create" =>
             /\ call.id \in DOMAIN milestones[TheOrg]
             /\ call.id \in DOMAIN milestones'[TheOrg]
             /\ StatusAfter[call.op] \in Ahead =>
                    milestones'[TheOrg][call.id].status \in Through(StatusAfter[call.op])
  BY PerformMoves
<1>2. booked'[HomeOrg] = booked[HomeOrg]
          - (IF call.op = "fund" THEN milestones[TheOrg][call.id].amount ELSE 0)
  BY PerformBooks
<1>3. milestones[TheOrg] \in Seq(MilestoneRecord) /\ booked[HomeOrg] \in Int
  BY HomeId, HomeApart DEF OnChainInv, MilestoneTypeOK, TreasuryTypeOK
<1>4. About(call) \in Nat /\ call.op \in Operation
  BY <1>3 DEF About, MilestoneOperation
<1>5. PICK a : a = [contract |-> MilestoneEngine, topic |-> TopicOf[call.op],
                    id |-> About(call), amount |-> 0]
  OBVIOUS
<1>6. a \in Message /\ a.contract # Home /\ a.topic = TopicOf[call.op] /\ a.id = About(call)
  <2>1. TopicOf[call.op] \in Topics
    BY <1>4 DEF TopicOf, Operation, Topics
  <2>2. a \in Message
    BY <1>4, <1>5, <2>1 DEF Message
  <2>3. QED BY <1>5, <2>2, HomeApart
<1>7. Truthful(a)
  <2>1. a.topic \notin DOMAIN TypeOf
    BY <1>4, <1>6 DEF TopicOf, TypeOf, Operation
  <2>2. a.topic \in DOMAIN StatusByTopic =>
            call.op # "create" /\ StatusByTopic[a.topic] = StatusAfter[call.op]
    BY <1>4, <1>6 DEF TopicOf, StatusByTopic, StatusAfter, Operation
  <2>3. QED BY <1>1, <1>6, <2>1, <2>2 DEF Truthful, About
<1>8. CASE call.op # "fund"
  <2>1. published = <<a>>
    BY <1>5, <1>8 DEF Published
  <2>2. booked'[HomeOrg] = booked[HomeOrg]
    BY <1>2, <1>3, <1>8
  <2>3. QED BY <1>6, <1>7, <2>1, <2>2 DEF BookedBy
<1>9. CASE call.op = "fund"
  <2>1. PICK b : b = [contract |-> Home, topic |-> "transferred_out", id |-> About(call),
                      amount |-> milestones[TheOrg][About(call)].amount]
    OBVIOUS
  <2>2. About(call) = call.id /\ call.id \in DOMAIN milestones[TheOrg]
    BY <1>1, <1>9 DEF About
  <2>3. milestones[TheOrg][call.id] \in MilestoneRecord
    BY <1>3, <2>2
  <2>4. b \in Message /\ b.contract = Home /\ b.topic = "transferred_out"
        /\ b.amount = milestones[TheOrg][call.id].amount
    <3>1. milestones[TheOrg][call.id].amount \in Int
      BY <2>3 DEF MilestoneRecord
    <3>2. PICK id, amount : id = About(call) /\ amount = milestones[TheOrg][About(call)].amount
      OBVIOUS
    <3>3. id \in Nat /\ amount \in Int
      BY <1>4, <2>2, <3>1, <3>2
    <3>4. b = [contract |-> Home, topic |-> "transferred_out", id |-> id, amount |-> amount]
      BY <2>1, <3>2
    <3>5. b \in Message
      BY <3>3, <3>4 DEF Message, Topics
    <3>6. b.contract = Home /\ b.topic = "transferred_out" /\ b.amount = amount
      BY <3>4
    <3>7. QED BY <2>2, <3>2, <3>5, <3>6
  <2>5. Truthful(b)
    BY <2>4 DEF Truthful, TypeOf, StatusByTopic
  <2>6. published = <<a>> \o <<b>>
    BY <1>5, <1>9, <2>1 DEF Published
  <2>7. published \in Seq(Message) /\ DOMAIN published = {1, 2}
        /\ published[1] = a /\ published[2] = b
    BY <1>6, <2>4, <2>6, TwoMessages
  <2>8. booked'[HomeOrg] = booked[HomeOrg] + (-b.amount)
    BY <1>2, <1>3, <1>9, <2>3, <2>4 DEF MilestoneRecord
  <2>9. BookedBy(published)
    <3>1. /\ 2 \in DOMAIN published /\ published[2].contract = Home
          /\ \A j \in DOMAIN published \ {2} : published[j].contract # Home
      BY <1>6, <2>4, <2>7
    <3>2. booked'[HomeOrg] = booked[HomeOrg]
              + (IF published[2].topic = "deposited" THEN published[2].amount
                 ELSE -published[2].amount)
      BY <2>4, <2>7, <2>8
    <3>3. QED BY <3>1, <3>2 DEF BookedBy
  <2>10. QED BY <1>7, <2>5, <2>7, <2>9
<1>10. QED BY <1>8, <1>9

\* A deposit or a withdrawal publishes its own event.
LEMMA TransferPublishes ==
    ASSUME TreasuryTypeOK, NEW call \in TransferCall, PerformTransfer(call),
           NEW published, published = <<EventOf(call)>>
    PROVE  /\ published \in Seq(Message) /\ BookedBy(published)
           /\ \A k \in DOMAIN published : Truthful(published[k])
<1>1. call.amount \in Int /\ call.op \in {"deposit", "withdraw"}
  BY AccountsAssumption DEF TransferCall
<1>2. PICK m : m = EventOf(call)
  OBVIOUS
<1>3. /\ m \in Message /\ m.contract = Home /\ m.amount = call.amount
      /\ m.topic = IF call.op = "deposit" THEN "deposited" ELSE "withdrawn"
  <2>1. PICK topic, amount :
            /\ topic = IF call.op = "deposit" THEN "deposited" ELSE "withdrawn"
            /\ amount = call.amount
    OBVIOUS
  <2>2. m = [contract |-> Home, topic |-> topic, id |-> 0, amount |-> amount]
    BY <1>2, <2>1 DEF EventOf
  <2>3. topic \in Topics /\ amount \in Int
    BY <1>1, <2>1 DEF Topics
  <2>4. m \in Message
    BY <2>2, <2>3 DEF Message
  <2>5. m.contract = Home /\ m.topic = topic /\ m.amount = amount
    BY <2>2
  <2>6. QED BY <2>1, <2>4, <2>5
<1>4. Truthful(m)
  BY <1>3 DEF Truthful, TypeOf, StatusByTopic
<1>5. published \in Seq(Message) /\ DOMAIN published = {1} /\ published[1] = m
  BY <1>2, <1>3
<1>6. booked'[HomeOrg] = booked[HomeOrg]
          + (IF m.topic = "deposited" THEN m.amount ELSE -m.amount)
  BY <1>1, <1>3, TransferTyped
<1>7. BookedBy(published)
  BY <1>3, <1>5, <1>6 DEF BookedBy
<1>8. QED BY <1>4, <1>5, <1>7

\* A transaction that succeeded, for the log and the books.
LEMMA PublicationKeeps ==
    ASSUME LogInv, BooksInv, TreasuryTypeOK, NEW published \in Seq(Message), Publish(published),
           BookedBy(published), \A k \in DOMAIN published : Truthful(published[k]),
           MilestonesGo, UNCHANGED pollVars
    PROVE  LogInv' /\ BooksInv'
<1>1. Appended(published)
  BY PublishAppends
<1>2. QED BY <1>1, PublishKeepsLog, PublishKeepsBooks

\* A transaction keeps log and books.
LEMMA ApplyKeepsRecords ==
    ASSUME MilestonesServiceInv, MilestonesGo, NEW i \in DOMAIN intents,
           ApplyCall(i) \/ ApplyTransfer(i)
    PROVE  LogInv' /\ BooksInv'
<1>1. OnChainInv /\ RowsInv /\ LogInv /\ BooksInv /\ TreasuryTypeOK
  BY DEF MilestonesServiceInv, OnChainInv
<1>2. PICK call : call = intents[i].call
  OBVIOUS
<1>3. ASSUME UNCHANGED <<treasuryVars, publishVars, pollVars>> PROVE LogInv' /\ BooksInv'
  <2>1. UNCHANGED indexerVars /\ UNCHANGED <<events, booked, transactions, handled>>
    BY <1>3 DEF indexerVars, treasuryVars, publishVars, pollVars
  <2>2. QED BY <1>1, <2>1, LogAside, BooksAside
<1>4. CASE ApplyCall(i)
  <2>1. /\ call \in MilestoneOperation /\ UNCHANGED pollVars
        /\ \/ PerformMilestone(call) /\ Publish(Published(call, About(call)))
           \/ UNCHANGED <<chainVars, publishVars>>
    BY <1>2, <1>4, ApplyCallCases
  <2>2. CASE PerformMilestone(call) /\ Publish(Published(call, About(call)))
    <3>1. PICK published : published = Published(call, About(call))
      OBVIOUS
    <3>2. CallSound(i)
      BY <1>1 DEF RowsInv
    <3>3. call.row \in DOMAIN rows
      BY <1>2, <2>1, <3>2 DEF CallSound
    <3>4. /\ published \in Seq(Message) /\ BookedBy(published)
          /\ \A k \in DOMAIN published : Truthful(published[k])
      BY <1>1, <2>1, <2>2, <3>1, <3>3, CallPublishes
    <3>5. QED BY <1>1, <2>1, <2>2, <3>1, <3>4, PublicationKeeps
  <2>3. CASE UNCHANGED <<chainVars, publishVars>>
    BY <1>3, <2>1, <2>3 DEF chainVars
  <2>4. QED BY <2>1, <2>2, <2>3
<1>5. CASE ApplyTransfer(i)
  <2>1. /\ call \in TransferCall /\ UNCHANGED pollVars
        /\ \/ PerformTransfer(call) /\ Publish(<<EventOf(call)>>)
           \/ UNCHANGED <<treasuryVars, publishVars>>
    BY <1>2, <1>5, ApplyTransferCases
  <2>2. CASE PerformTransfer(call) /\ Publish(<<EventOf(call)>>)
    <3>1. PICK published : published = <<EventOf(call)>>
      OBVIOUS
    <3>2. /\ published \in Seq(Message) /\ BookedBy(published)
          /\ \A k \in DOMAIN published : Truthful(published[k])
      BY <1>1, <2>1, <2>2, <3>1, TransferPublishes
    <3>3. QED BY <1>1, <2>1, <2>2, <3>1, <3>2, PublicationKeeps
  <2>3. QED BY <1>3, <2>1, <2>2
<1>6. QED BY <1>4, <1>5

\* Every step of a poll keeps log and books.
LEMMA PollKeepsRecords ==
    ASSUME LogInv, BooksInv, HandleEvent \/ PollOtherwise, UNCHANGED <<milestones, booked>>
    PROVE  LogInv' /\ BooksInv'
<1>1. ASSUME NEW c \in Watched, Baseline(c) \/ Fetch(c) PROVE LogInv' /\ BooksInv'
  <2>1. LogInv'
    BY <1>1, BaselineKeepsLog, FetchKeepsLog
  <2>2. UNCHANGED <<events, transactions, handled>>
    BY <1>1 DEF Baseline, Fetch, publishVars
  <2>3. QED BY <2>1, <2>2, BooksAside
<1>2. CASE Skip \/ Advance \/ Interrupt
  <2>1. LogInv'
    BY <1>2, DoneWithKeepsLog, AdvanceKeepsLog
  <2>2. UNCHANGED <<events, transactions, handled>>
    BY <1>2 DEF Skip, Advance, Interrupt, publishVars
  <2>3. QED BY <2>1, <2>2, BooksAside
<1>3. CASE HandleEvent
  <2>1. Handle
    BY <1>3 DEF HandleEvent
  <2>2. QED BY <2>1, DoneWithKeepsLog, HandleKeepsBooks
<1>4. QED BY <1>1, <1>2, <1>3 DEF PollOtherwise

\* Every step of clients, handlers, indexer and ledger keeps the invariant.
LEMMA MilestonesServiceInvStep ==
    MilestonesServiceInv /\ [MilestonesServiceNext]_milestonesServiceVars => MilestonesServiceInv'
<1> SUFFICES ASSUME MilestonesServiceInv, [MilestonesServiceNext]_milestonesServiceVars
             PROVE  MilestonesServiceInv'
  OBVIOUS
<1>1. OnChainInv' /\ RowsInv' /\ MilestonesGo /\ LogInv /\ BooksInv
  BY ChainAndRowsStep DEF MilestonesServiceInv
<1> SUFFICES LogInv' /\ BooksInv'
  BY <1>1 DEF MilestonesServiceInv
<1>2. ASSUME UNCHANGED indexerVars, UNCHANGED booked PROVE LogInv' /\ BooksInv'
  <2>1. UNCHANGED <<events, transactions, handled>>
    BY <1>2 DEF indexerVars, publishVars, pollVars
  <2>2. QED BY <1>1, <1>2, <2>1, LogAside, BooksAside
<1>3. CASE UNCHANGED milestonesServiceVars
  BY <1>2, <1>3 DEF milestonesServiceVars, treasuryServiceVars, treasuryVars
<1>4. CASE CreateRow \/ \E p \in Slots : \/ ReadRow(p) \/ BuildIntent(p) \/ Discard(p)
                                         \/ WaitForCall(p) \/ WriteRow(p)
  BY <1>2, <1>4
     DEF CreateRow, ReadRow, BuildIntent, Discard, WaitForCall, WriteRow, chainVars, treasuryVars
<1>5. CASE \E i \in DOMAIN intents : ApplyCall(i) \/ ApplyTransfer(i)
  BY <1>1, <1>5, ApplyKeepsRecords
<1>6. CASE \E p \in Slots : BuildTransfer(p) \/ ReturnSubmitted(p)
  BY <1>2, <1>6 DEF BuildTransfer, ReturnSubmitted, treasuryVars
<1>7. CASE UNCHANGED <<chainVars, indexerVars, tables>>
  BY <1>2, <1>7 DEF chainVars, treasuryVars
<1>8. CASE (HandleEvent \/ PollOtherwise) /\ UNCHANGED <<chainVars, intentVars>>
  <2>1. UNCHANGED <<milestones, booked>>
    BY <1>8 DEF chainVars, milestoneVars, treasuryVars
  <2>2. QED BY <1>1, <1>8, <2>1, PollKeepsRecords
<1>9. QED BY <1>3, <1>4, <1>5, <1>6, <1>7, <1>8 DEF MilestonesServiceNext

-----------------------------------------------------------------------------
(***************************************************************************)
(* The theorems.                                                           *)
(***************************************************************************)

\* The chain, the handlers, the rows, the log and the books stand in the
\* relation above in every reachable state.
THEOREM MilestonesServiceInvariant == MilestonesServiceSpec => []MilestonesServiceInv
<1>1. QED BY ServiceInvInit, MilestonesServiceInvStep, PTL DEF MilestonesServiceSpec

\* A row never calls a milestone FUNDED that was not funded on chain, nor, unless
\* the row was named when another row's intent was submitted, APPROVED or
\* RELEASED one that did not get there, in whatever order the submit endpoints,
\* the indexer and their repetitions write it and whatever rows clients name.
THEOREM StatusesWereReached == MilestonesServiceSpec => []StatusWasReached
<1>1. MilestonesServiceInv => StatusWasReached
  BY DEF MilestonesServiceInv, RowsInv
<1>2. QED BY <1>1, MilestonesServiceInvariant, PTL

\* The indexer's cursor passes no event that was neither handled nor lost to a
\* handler that threw, wherever polls are cut short.
THEOREM CursorsCovered == MilestonesServiceSpec => []CursorCovered
<1>1. MilestonesServiceInv => CursorCovered
  BY DEF MilestonesServiceInv, LogInv
<1>2. QED BY <1>1, MilestonesServiceInvariant, PTL

\* Once the treasury's events are handled, the Transaction table adds up to
\* what they did to the treasury: upsertTransaction records each one once,
\* although batches are processed again.
THEOREM TransactionsAddUpAtRest == MilestonesServiceSpec => []TransactionsAddUp
<1>1. MilestonesServiceInv => TransactionsAddUp
  <2> SUFFICES ASSUME MilestonesServiceInv, HomeEvents \subseteq handled
               PROVE  SumFunction([k \in DOMAIN transactions |-> Net(k)])
                          = booked[HomeOrg] - Endowment[Home]
    BY DEF TransactionsAddUp, HomeEvents
  <2>1. BooksInv
    BY DEF MilestonesServiceInv
  <2>2. Recorded = HomeEvents
    BY <2>1, RecordedAtHome DEF BooksInv
  <2>3. QED BY <2>1, <2>2 DEF BooksInv, Nets
<1>2. QED BY <1>1, MilestonesServiceInvariant, PTL

\* Every variable stays in its type, and a row's on-chain id is null or names
\* a milestone there is.
THEOREM MilestonesServiceTypeCorrect == MilestonesServiceSpec => []MilestonesServiceTypeOK
<1>1. MilestonesServiceInv => MilestonesServiceTypeOK
  <2> SUFFICES ASSUME MilestonesServiceInv PROVE MilestonesServiceTypeOK
    OBVIOUS
  <2>1. OnChainInv /\ RowsInv /\ LogInv /\ BooksInv
    BY DEF MilestonesServiceInv
  <2>2. IntentsTypeOK(MilestoneOperation \cup TransferCall)
    <3>1. IntentsInv(Calls, {Founder})
      BY <2>1 DEF RowsInv
    <3>2. ASSUME NEW i \in DOMAIN intents
          PROVE  /\ intents[i].call \in Calls /\ intents[i].tx \in TxStatus
                 /\ intents[i].consumed \in BOOLEAN /\ intents[i].seq \in Nat
      <4>1. intents[i] \in Intent(Calls, {Founder})
        BY <3>1, IntentTyped
      <4>2. QED BY <4>1 DEF Intent
    <3>3. QED BY <3>1, <3>2 DEF IntentsTypeOK, IntentsInv, Calls
  <2>3. IndexerTypeOK
    <3>1. ASSUME NEW e \in DOMAIN events
          PROVE  events[e].contract \in Watched /\ events[e].ledger \in 1 .. ledger
      <4>1. events[e] \in Event /\ EventSound(e)
        BY <2>1 DEF LogInv
      <4>2. QED
        BY <4>1, TreasuryServiceAssumption, MilestonesServiceAssumption DEF Event, EventSound
    <3>2. \A k \in DOMAIN transactions : transactions[k].event \in DOMAIN events
      BY <2>1, RecordedAtHome DEF BooksInv, HomeEvents
    <3>3. poll.todo \subseteq DOMAIN events
      BY <2>1 DEF LogInv, PollSound, Polling, Asleep
    <3>4. QED BY <2>1, <3>1, <3>2, <3>3 DEF LogInv, IndexerTypeOK
  <2>4. ASSUME NEW r \in DOMAIN rows
        PROVE  rows[r].status \in RowStatus /\ rows[r].id \in Null .. Len(milestones[TheOrg])
    <3>1. rows[r] \in RowRecord /\ RowSound(r)
      BY <2>1 DEF RowsInv
    <3>2. rows[r].status \in RowStatus /\ rows[r].id \in Nat
      BY <3>1 DEF RowRecord
    <3>3. milestones[TheOrg] \in Seq(MilestoneRecord)
      BY <2>1, HomeId DEF OnChainInv, MilestoneTypeOK
    <3>4. Linked(r) => rows[r].id \in DOMAIN milestones[TheOrg]
      BY <2>1, <3>1, CreatedThere DEF RowSound
    <3>5. DOMAIN milestones[TheOrg] = 1 .. Len(milestones[TheOrg])
          /\ Len(milestones[TheOrg]) \in Nat
      BY <3>3
    <3>6. QED BY <3>2, <3>4, <3>5 DEF Linked, Null
  <2>5. misnamed \subseteq DOMAIN rows
    BY <2>1 DEF RowsInv
  <2>6. QED BY <2>1, <2>2, <2>3, <2>4, <2>5 DEF OnChainInv, MilestonesServiceTypeOK
<1>2. QED BY <1>1, MilestonesServiceInvariant, PTL
=============================================================================
