------------------------- MODULE MilestonesService -------------------------
(***************************************************************************)
(* Milestones through the backend: a Postgres row per milestone, drafted   *)
(* off chain, then created, funded, approved and released, or cancelled,   *)
(* by intents.  A row learns what became of a transaction in two ways: the *)
(* submit endpoint that waited for it writes the row, and so does the      *)
(* indexer when it comes to the event.  Neither looks at what the row says *)
(* when it writes.                                                         *)
(***************************************************************************)
EXTENDS MilestoneEngine, TreasuryService

CONSTANTS
    MaxRows,            \* bound: milestones drafted
    MaxUnlinked         \* bound: rows without a milestone when another is drafted

ASSUME MilestonesServiceAssumption ==
    MaxRows \in Nat \ {0} /\ MaxUnlinked \in Nat \ {0} /\ MilestoneEngine \in Watched

VARIABLES
    rows,               \* the Milestone table
    misnamed            \* rows written in the submission of another row's intent;
                        \* a history, which no program variable holds

tables == <<rows, misnamed>>
milestonesServiceVars == <<treasuryServiceVars, milestoneVars, tables>>
chainVars == <<orgVars, treasuryVars, factoryVars, milestoneVars>>

RowStatus == {"DRAFT", "FUNDED", "APPROVED", "RELEASED", "CANCELLED"}

\* onChainMilestoneId is null
Null == 0

Operation == {"create", "fund", "approve", "release", "cancel"}
MilestoneOperation == [op : Operation, row : 1 .. MaxRows, id : Nat]

MilestonesServiceTypeOK ==
    /\ MilestoneTypeOK /\ TreasuryTypeOK /\ IndexerTypeOK
    /\ IntentsTypeOK(MilestoneOperation \cup TransferCall)
    /\ misnamed \subseteq DOMAIN rows
    /\ \A r \in DOMAIN rows :
           /\ rows[r].status \in RowStatus
           /\ rows[r].id \in Null .. Len(milestones[TheOrg])

\* The milestone a longer history leaves behind: created by intent 1, funded,
\* its row written and its events indexed.
FundedEarlier(contractor, amount) ==
    /\ amount \in 1 .. Endowment[Home]
    /\ MaxMilestones[TheOrg] > 0
    /\ DeployedInit(amount) /\ IndexerInit
    /\ milestones = [id \in OrgId |-> <<[contractor |-> contractor, amount |-> amount,
                                        status |-> "Funded"]>>]
    /\ escrow = [id \in OrgId |-> amount]
    /\ refunded = [id \in OrgId |-> 0]
    /\ rows = <<[contractor |-> contractor, amount |-> amount, status |-> "FUNDED", id |-> 1]>>
    /\ intents = <<[call |-> [op |-> "create", row |-> 1, id |-> Null], signer |-> Founder,
                    seq |-> 0, consumed |-> TRUE, tx |-> "SUCCESS", value |-> 1]>>
    /\ requests = [p \in Slots |-> Idle]
    /\ sequence = [s \in Signers |-> 1]

MilestonesServiceInit ==
    /\ \/ TreasuryServiceInit /\ MilestoneInit /\ rows = <<>>
       \/ \E contractor \in Payees, amount \in Amounts : FundedEarlier(contractor, amount)
    /\ misnamed = {}

-----------------------------------------------------------------------------
(***************************************************************************)
(* The rows, and the endpoints that build intents.                         *)
(***************************************************************************)
\* create: a draft, off chain.
CreateRow ==
    /\ Len(rows) < MaxRows
    /\ Cardinality({r \in DOMAIN rows : rows[r].id = Null}) < MaxUnlinked
    /\ \E contractor \in Payees, amount \in Amounts :
           rows' = Append(rows, [contractor |-> contractor, amount |-> amount,
                                 status |-> "DRAFT", id |-> Null])
    /\ UNCHANGED <<chainVars, intentVars, indexerVars, misnamed>>

\* What the endpoints allow for a row as it was read: buildFundIntent, whose
\* next step it is to create or to fund; buildApproveIntent and
\* buildReleaseIntent; and cancel, which for a row without a milestone is a
\* write, not a call.
FundStep(row) ==
    IF row.status # "DRAFT" THEN {} ELSE IF row.id = Null THEN {"create"} ELSE {"fund"}

ApproveStep(row) == IF row.status = "FUNDED" THEN {"approve"} ELSE {}

ReleaseStep(row) == IF row.status = "APPROVED" THEN {"release"} ELSE {}

CancelStep(row) ==
    IF row.status \notin {"DRAFT", "FUNDED"} THEN {}
    ELSE IF row.id = Null THEN {"discard"} ELSE {"cancel"}

Offered(row) == FundStep(row) \cup ApproveStep(row) \cup ReleaseStep(row) \cup CancelStep(row)

ReadRow(p) ==
    /\ At(p, "idle")
    /\ Len(intents) < MaxIntents
    /\ \E r \in DOMAIN rows : \E op \in Offered(rows[r]) :
           Await(p, [pc |-> "build", op |-> op, row |-> r, id |-> rows[r].id])
    /\ UNCHANGED <<intents, sequence, chainVars, indexerVars, tables>>

\* The call as milestone_engine executes it.
PerformMilestone(call) ==
    /\ \/ /\ call.op = "create"
          /\ CreateMilestone(TheOrg, Founder, rows[call.row].contractor, rows[call.row].amount)
       \/ call.op = "fund" /\ FundMilestone(TheOrg, Founder, call.id)
       \/ call.op = "approve" /\ ApproveMilestone(TheOrg, Founder, call.id)
       \/ call.op = "release" /\ ReleaseMilestone(TheOrg, Founder, call.id)
       \/ call.op = "cancel" /\ CancelMilestone(TheOrg, Founder, call.id)
    /\ UNCHANGED setting

MilestoneSimulates(call) == ENABLED PerformMilestone(call)

\* buildXdrOrThrow and the intent; without a simulation that succeeds, 502.
BuildIntent(p) ==
    LET call == [op |-> requests[p].op, row |-> requests[p].row, id |-> requests[p].id] IN
    /\ At(p, "build") /\ requests[p].op # "discard"
    /\ IF MilestoneSimulates(call) THEN Create(call, Founder) ELSE UNCHANGED <<intents, sequence>>
    /\ Answer(p)
    /\ UNCHANGED <<chainVars, indexerVars, tables>>

\* cancel, of a row read without a milestone.
Discard(p) ==
    /\ At(p, "build") /\ requests[p].op = "discard"
    /\ rows' = [rows EXCEPT ![requests[p].row].status = "CANCELLED"]
    /\ Answer(p)
    /\ UNCHANGED <<intents, sequence, chainVars, indexerVars, misnamed>>

-----------------------------------------------------------------------------
(***************************************************************************)
(* The submit endpoints, after the intent is consumed.                     *)
(***************************************************************************)
WaitForCall(p) ==
    /\ At(p, "wait")
    /\ intents[requests[p].intent].call \in MilestoneOperation
    /\ IF Confirmed(requests[p].intent)
       THEN Await(p, [requests[p] EXCEPT !.pc = "write"])
       ELSE Answer(p)
    /\ UNCHANGED <<intents, sequence, chainVars, indexerVars, tables>>

StatusAfter == [fund |-> "FUNDED", approve |-> "APPROVED", release |-> "RELEASED",
                cancel |-> "CANCELLED"]

\* The rows a client may name in the URL of the submission: submitFundIntent
\* compares it with the row the intent was built for, the other three do not.
\* First a comparison nowhere.  (A row drafted since the request came is among
\* them: a little more than a client could name.)
Named_Unchecked(call) == DOMAIN rows

Named(call) == IF call.op \in {"create", "fund"} THEN {call.row} ELSE DOMAIN rows

\* backfillOnChainMilestoneId with the transaction's return value, or
\* updateStatus, of the row named.
WriteRow(p) ==
    LET i == requests[p].intent
        call == intents[i].call
    IN
    /\ At(p, "write")
    /\ \E r \in Named(call) :
           /\ rows' = IF call.op = "create" THEN [rows EXCEPT ![r].id = intents[i].value]
                      ELSE [rows EXCEPT ![r].status = StatusAfter[call.op]]
           /\ misnamed' = IF r = call.row THEN misnamed ELSE misnamed \cup {r}
    /\ Answer(p)
    /\ UNCHANGED <<intents, sequence, chainVars, indexerVars>>

-----------------------------------------------------------------------------
(***************************************************************************)
(* The ledger and the indexer.                                             *)
(***************************************************************************)
TopicOf == [create |-> "milestone_created", fund |-> "milestone_funded",
            approve |-> "milestone_approved", release |-> "milestone_released",
            cancel |-> "milestone_cancelled"]

\* What a call publishes; the refund of a cancellation is not among it.
Published(call, id) ==
    <<[contract |-> MilestoneEngine, topic |-> TopicOf[call.op], id |-> id, amount |-> 0]>>
    \o (IF call.op # "fund" THEN <<>>
        ELSE <<[contract |-> Home, topic |-> "transferred_out", id |-> id,
                amount |-> milestones[TheOrg][id].amount]>>)

ApplyCall(i) ==
    LET call == intents[i].call
        id   == IF call.op = "create" THEN Len(milestones[TheOrg]) + 1 ELSE call.id
    IN
    /\ call \in MilestoneOperation
    /\ IF MilestoneSimulates(call)
       THEN /\ PerformMilestone(call)
            /\ Settle(i, "SUCCESS", id)
            /\ Publish(Published(call, id))
       ELSE Settle(i, "FAILED", 0) /\ UNCHANGED <<chainVars, publishVars>>
    /\ UNCHANGED <<tables, pollVars>>

\* The topics that decide a row's status; first without the cancellations.
StatusByTopic_Uncancelled ==
    [milestone_funded |-> "FUNDED", milestone_approved |-> "APPROVED",
     milestone_released |-> "RELEASED"]

StatusByTopic ==
    [milestone_funded |-> "FUNDED", milestone_approved |-> "APPROVED",
     milestone_released |-> "RELEASED", milestone_cancelled |-> "CANCELLED"]

\* handleMilestoneEvent, whose update finds the row by its on-chain id.
HandleEvent ==
    LET event == events[NextEvent] IN
    /\ Handle
    /\ rows' = IF event.topic \notin DOMAIN StatusByTopic THEN rows
               ELSE [r \in DOMAIN rows |->
                        IF rows[r].id = event.id
                        THEN [rows[r] EXCEPT !.status = StatusByTopic[event.topic]]
                        ELSE rows[r]]
    /\ UNCHANGED misnamed

PollOtherwise ==
    /\ \/ \E c \in Watched : Baseline(c) \/ Fetch(c)
       \/ Skip \/ Advance \/ Interrupt
    /\ UNCHANGED tables

-----------------------------------------------------------------------------
MilestonesServiceNext ==
    \/ CreateRow
    \/ \E p \in Slots : \/ ReadRow(p) \/ BuildIntent(p) \/ Discard(p)
                        \/ WaitForCall(p) \/ WriteRow(p)
    \/ \E i \in DOMAIN intents : ApplyCall(i)
    \/ /\ \/ \E p \in Slots : BuildTransfer(p) \/ ReturnSubmitted(p)
          \/ \E i \in DOMAIN intents : ApplyTransfer(i)
       /\ UNCHANGED <<milestoneVars, tables>>
    \/ (\E p \in Slots : SubmitStep(p)) /\ UNCHANGED <<chainVars, indexerVars, tables>>
    \/ (HandleEvent \/ PollOtherwise) /\ UNCHANGED <<chainVars, intentVars>>

\* The poll comes back for milestone_engine, and the worker in the end stays up
\* long enough to finish a batch.  Nothing is assumed of clients, handlers, the
\* network or the treasury's events.
Polls(A) == A /\ UNCHANGED <<chainVars, intentVars>>

MilestonesFairness ==
    /\ WF_milestonesServiceVars(Polls(Baseline(MilestoneEngine) /\ UNCHANGED tables))
    /\ SF_milestonesServiceVars(Polls(Fetch(MilestoneEngine) /\ UNCHANGED tables))
    /\ WF_milestonesServiceVars(Polls(HandleEvent \/ ((Skip \/ Advance) /\ UNCHANGED tables)))
    /\ <>[][~Interrupt]_milestonesServiceVars

MilestonesServiceSpec ==
    /\ MilestonesServiceInit
    /\ [][MilestonesServiceNext]_milestonesServiceVars
    /\ MilestonesFairness

-----------------------------------------------------------------------------
(***************************************************************************)
(* Properties.                                                             *)
(***************************************************************************)

\* The milestones that create_milestone transactions of row r made.
CreatedFor(r) ==
    {intents[i].value : i \in {j \in DOMAIN intents :
        intents[j].call \in [op : {"create"}, row : {r}, id : Nat] /\ Confirmed(j)}}

\* What a milestone's status on chain says it went through.
Through(status) ==
    [FUNDED    |-> {"Funded", "Approved", "Released", "Cancelled"},
     APPROVED  |-> {"Approved", "Released"},
     RELEASED  |-> {"Released"}][status]

\* Postgres runs ahead of the chain in no order of handlers and batches,
\* whatever rows clients name: a row called FUNDED has a milestone that was
\* funded, and one called APPROVED or RELEASED one that got there, unless the
\* row itself was named when another row's intent was submitted.
StatusWasReached ==
    \A r \in DOMAIN rows :
        \/ rows[r].status = "FUNDED"
        \/ rows[r].status \in {"APPROVED", "RELEASED"} /\ r \notin misnamed
        => \E id \in CreatedFor(r) : milestones[TheOrg][id].status \in Through(rows[r].status)

\* When every event of the treasury has been handled, the Transaction table
\* adds up to what the treasury's own events did to it, each counted once
\* although batches cut short are processed again.
Net(k) == IF transactions[k].type = "DEPOSIT" THEN transactions[k].amount
          ELSE -transactions[k].amount
TransactionsAddUp ==
    {e \in DOMAIN events : events[e].contract = Home} \subseteq handled =>
        SumFunction([k \in DOMAIN transactions |-> Net(k)]) = booked[HomeOrg] - Endowment[Home]

\* A row says what the chain says, unless one of its events was lost.  A row
\* cancelled before the create transaction landed keeps an unfunded milestone.
RowStatusOf == [Draft |-> "DRAFT", Funded |-> "FUNDED", Approved |-> "APPROVED",
                Released |-> "RELEASED", Cancelled |-> "CANCELLED"]

Agrees(r) ==
    rows[r].id # Null =>
        \/ rows[r].status = RowStatusOf[milestones[TheOrg][rows[r].id].status]
        \/ rows[r].status = "CANCELLED" /\ milestones[TheOrg][rows[r].id].status = "Draft"
        \/ \E e \in forgone : events[e].contract = MilestoneEngine /\ events[e].id = rows[r].id

\* When polling gave up, or the handler died before it sent or after it consumed
\* its intent, and when a batch processed twice turned a status back for a
\* while, the indexer brings each row to the status of its milestone; a misnamed
\* row is another's.  The run has one request at a time, so that no two creates
\* of a row overlap, and no request that ends between sending a transaction and
\* consuming its intent, so that no intent is sent again: either may leave a row
\* at a status that no event comes to correct.
RowsConverge == []<>(\A r \in DOMAIN rows \ misnamed : Agrees(r))
=============================================================================
