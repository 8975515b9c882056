---------------------------- MODULE PayrollRuns ----------------------------
(***************************************************************************)
(* How the backend drives one payroll run through payroll_engine.  A run   *)
(* is executed in chunks; for each chunk a client asks for an intent,      *)
(* signs it and submits it, and the service polls the transaction for a    *)
(* few seconds and writes what it learned to Postgres.                     *)
(*                                                                         *)
(* The chain is the one of PayrollEngine, the handlers those of Intents.   *)
(***************************************************************************)
EXTENDS PayrollEngine, Deployment, Intents, SequencesExt

CONSTANTS
    NumItems,       \* items of the run; item i pays the employee registered as i
    ChunkSize,      \* PAYROLL_CHUNK_SIZE
    Wallet,         \* wallet of each employee
    Amount          \* PayrollItem.amount: the salary when the run was created

ASSUME PayrollRunsAssumption ==
    /\ NumItems \in Nat \ {0} /\ ChunkSize \in Nat \ {0}
    /\ Wallet \in [1 .. NumItems -> Payees]
    /\ Amount \in [1 .. NumItems -> Nat \ {0}]
    /\ 0 .. NumItems \div ChunkSize \subseteq RunIds

VARIABLES
    runStatus,      \* PayrollRun.status
    itemStatus      \* PayrollItem.status

dbVars == <<runStatus, itemStatus>>
chainVars == <<orgVars, treasuryVars, factoryVars, employees, payrollVars>>
runVars == <<chainVars, dbVars, intentVars>>

Item == 1 .. NumItems
ItemStatus == {"PENDING", "PAID", "FAILED"}
FinalStatus == {"COMPLETED", "PARTIAL", "FAILED"}
RunStatus == {"DRAFT", "SCHEDULED", "EXECUTING"} \cup FinalStatus
\* What an execute intent calls: run_payroll for one chunk.
Call == [items : SUBSET Item, chunk : Nat]

PayrollRunsTypeOK ==
    /\ RegistryTypeOK /\ PayrollTypeOK /\ TreasuryTypeOK
    /\ runStatus \in RunStatus
    /\ itemStatus \in [Item -> ItemStatus]
    /\ IntentsTypeOK(Call)

\* The organization as create_organization leaves it, its employees
\* registered, its treasury funded, and the run as PayrollService.create
\* leaves it.
PayrollRunsInit ==
    /\ DeployedInit(0)
    /\ employees = [id \in OrgId |-> [e \in Item |->
           [wallet |-> Wallet[e], salary |-> Amount[e], active |-> TRUE]]]
    /\ PayrollInit
    /\ runStatus = "DRAFT"
    /\ itemStatus = [i \in Item |-> "PENDING"]
    /\ IntentsInit

Pending == {i \in Item : itemStatus[i] = "PENDING"}
CountOf(status) == Cardinality({i \in Item : itemStatus[i] = status})

-----------------------------------------------------------------------------
(***************************************************************************)
(* schedule                                                                *)
(***************************************************************************)
ScheduleRead(p) ==
    /\ At(p, "idle")
    /\ runStatus = "DRAFT"
    /\ Await(p, [pc |-> "schedule"])
    /\ UNCHANGED <<chainVars, dbVars, intents, sequence>>

ScheduleWrite(p) ==
    /\ At(p, "schedule")
    /\ runStatus' = "SCHEDULED"
    /\ Answer(p)
    /\ UNCHANGED <<chainVars, itemStatus, intents, sequence>>

-----------------------------------------------------------------------------
(***************************************************************************)
(* buildExecuteIntent                                                      *)
(***************************************************************************)
BuildReadRun(p) ==
    /\ At(p, "idle")
    /\ runStatus \in {"SCHEDULED", "EXECUTING"}
    /\ Await(p, [pc |-> "pending", seen |-> runStatus])
    /\ UNCHANGED <<chainVars, dbVars, intents, sequence>>

\* findPendingItems: the rows of a run are created together, so ordering by
\* createdAt leaves ties, and any chunk of PENDING items may come first.
PendingChunks ==
    IF Cardinality(Pending) <= ChunkSize THEN {Pending}
    ELSE {chunk \in SUBSET Pending : Cardinality(chunk) = ChunkSize}

BuildFindPending(p) ==
    /\ At(p, "pending")
    /\ \/ Pending = {} /\ Answer(p)
       \/ /\ Pending # {}
          /\ \E chunk \in PendingChunks :
                 Await(p, [pc |-> "count", seen |-> requests[p].seen, items |-> chunk])
    /\ UNCHANGED <<chainVars, dbVars, intents, sequence>>

\* Chunks numbered as if they started at one, and numbered by attempt.
ChunkIndex_FromOne == (CountOf("PAID") + CountOf("FAILED")) \div ChunkSize - 1
ChunkIndex_PerIntent == Len(intents)

\* Which chunk comes next is derived from counters, not from the items.
ChunkIndex == (CountOf("PAID") + CountOf("FAILED")) \div ChunkSize

BuildCount(p) ==
    /\ At(p, "count")
    /\ Await(p, [pc |-> "balance", seen |-> requests[p].seen,
                 items |-> requests[p].items, chunk |-> ChunkIndex])
    /\ UNCHANGED <<chainVars, dbVars, intents, sequence>>

CheckBalance(p) ==
    /\ At(p, "balance")
    /\ LET cost == SumFunctionOnSet(Amount, requests[p].items)
       IN  IF balance[Home] < cost
           THEN Answer(p)
           ELSE Await(p, [requests[p] EXCEPT !.pc = "simulate"])
    /\ UNCHANGED <<chainVars, dbVars, intents, sequence>>

\* deriveChunkRunId hashes the run's id and the chunk index; with one run in
\* the model the index itself is the on-chain run_id.
EmployeeIds(items) == SetToSeq(items)

CanExecute(chunk, items) == CanRunPayroll(Founder, TheOrg, chunk, EmployeeIds(items))

\* Simulation fails on a run_id that is already executed.
Simulate(p) ==
    /\ At(p, "simulate")
    /\ IF CanExecute(requests[p].chunk, requests[p].items)
       THEN Await(p, [requests[p] EXCEPT !.pc = "answer"])
       ELSE Answer(p)
    /\ UNCHANGED <<chainVars, dbVars, intents, sequence>>

\* The intent row, the status written on the strength of the first read, and
\* the answer, without which no client knows the intent.
BuildAnswer(p) ==
    /\ At(p, "answer")
    /\ Create([items |-> requests[p].items, chunk |-> requests[p].chunk], Founder)
    /\ runStatus' = IF requests[p].seen = "SCHEDULED" THEN "EXECUTING" ELSE runStatus
    /\ Answer(p)
    /\ UNCHANGED <<chainVars, itemStatus>>

-----------------------------------------------------------------------------
(***************************************************************************)
(* submitExecuteIntent                                                     *)
(***************************************************************************)

Submit(p) == SubmitStep(p) /\ UNCHANGED <<chainVars, dbVars>>

\* Without a confirmed success reconcileChunk returns.
Wait(p) ==
    LET i == requests[p].intent IN
    /\ At(p, "wait")
    /\ IF Confirmed(i)
       THEN Await(p, [pc |-> "mark", intent |-> i, left |-> intents[i].call.items])
       ELSE Await(p, [pc |-> "tally"])
    /\ UNCHANGED <<chainVars, dbVars, intents, sequence>>

\* The transaction's success taken for the payment of its items; one failed
\* item taken for the failure of the chunk.
Verdict_Success(chunk, item) == "PAID"
Verdict_WholeChunk(chunk, item) ==
    LET result == payrollResult[TheOrg][chunk]
    IN  IF \A k \in DOMAIN result : result[k].outcome = "paid" THEN "PAID" ELSE "FAILED"

\* What the on-chain result of a chunk says of an item, as markItemPaid and
\* markItemFailed store it.
Verdict(chunk, item) ==
    LET result == payrollResult[TheOrg][chunk]
    IN  IF \E k \in DOMAIN result : result[k].employee = item /\ result[k].outcome = "paid"
        THEN "PAID" ELSE "FAILED"

\* One row at a time, in any order.
MarkItem(p) ==
    LET i == requests[p].intent IN
    /\ At(p, "mark")
    /\ \/ \E item \in requests[p].left :
              /\ itemStatus' = [itemStatus EXCEPT ![item] = Verdict(intents[i].call.chunk, item)]
              /\ Await(p, [requests[p] EXCEPT !.left = @ \ {item}])
       \/ /\ requests[p].left = {}
          /\ Await(p, [pc |-> "tally"])
          /\ UNCHANGED itemStatus
    /\ UNCHANGED <<chainVars, runStatus, intents, sequence>>

\* The status of a finished run with a partial failure reported as complete.
OverallStatus_IgnoresFailed ==
    IF CountOf("PAID") = 0 THEN "FAILED" ELSE "COMPLETED"

OverallStatus ==
    IF CountOf("FAILED") = 0 THEN "COMPLETED"
    ELSE IF CountOf("PAID") = 0 THEN "FAILED" ELSE "PARTIAL"

\* Every chunk taken for the last.
Tally_EveryChunk(p) ==
    /\ At(p, "tally")
    /\ Await(p, [pc |-> "finalize", status |-> OverallStatus])
    /\ UNCHANGED <<chainVars, dbVars, intents, sequence>>

\* finalizeRunIfComplete, its read
Tally(p) ==
    /\ At(p, "tally")
    /\ IF Pending # {} THEN Answer(p)
       ELSE Await(p, [pc |-> "finalize", status |-> OverallStatus])
    /\ UNCHANGED <<chainVars, dbVars, intents, sequence>>

\* and its write.
Finalize(p) ==
    /\ At(p, "finalize")
    /\ runStatus' = requests[p].status
    /\ Answer(p)
    /\ UNCHANGED <<chainVars, itemStatus, intents, sequence>>

-----------------------------------------------------------------------------
(***************************************************************************)
(* What happens around the handlers.                                       *)
(***************************************************************************)

\* The ledger applies a transaction it was sent.
Apply(i) ==
    LET call == intents[i].call IN
    /\ IF CanExecute(call.chunk, call.items)
       THEN /\ RunPayroll(Founder, TheOrg, call.chunk, EmployeeIds(call.items))
            /\ Settle(i, "SUCCESS", 0)
       ELSE Settle(i, "FAILED", 0) /\ UNCHANGED chainVars
    /\ UNCHANGED dbVars

Drop(i) == Expire(i) /\ UNCHANGED <<chainVars, dbVars>>

\* Founder is an Owner, and so also acts as HR and as Admin on the same chain.
HrStep == RegistryCall(TheOrg, Founder) /\ UNCHANGED payrollVars

WithdrawStep ==
    /\ \E amount \in Amounts : Withdraw(HomeOrg, Founder, Founder, amount)
    /\ UNCHANGED <<orgVars, factoryVars, employees, payrollVars>>

OtherCalls == (HrStep \/ WithdrawStep) /\ UNCHANGED <<dbVars, intentVars>>

-----------------------------------------------------------------------------
Handle(p) ==
    \/ ScheduleRead(p) \/ ScheduleWrite(p)
    \/ BuildReadRun(p) \/ BuildFindPending(p) \/ BuildCount(p)
    \/ CheckBalance(p) \/ Simulate(p) \/ BuildAnswer(p)
    \/ Submit(p) \/ Wait(p) \/ MarkItem(p) \/ Tally(p) \/ Finalize(p)

PayrollRunsNext ==
    \/ \E p \in Slots : Handle(p)
    \/ \E i \in DOMAIN intents : Apply(i) \/ Drop(i)
    \/ OtherCalls

PayrollRunsSpec == PayrollRunsInit /\ [][PayrollRunsNext]_runVars

-----------------------------------------------------------------------------
(***************************************************************************)
(* Properties.                                                             *)
(***************************************************************************)

\* The chunks whose transaction paid item i on chain.
PayingChunks(i) ==
    {c \in DOMAIN payrollResult[TheOrg] :
        \E k \in DOMAIN payrollResult[TheOrg][c] :
            /\ payrollResult[TheOrg][c][k].employee = i
            /\ payrollResult[TheOrg][c][k].outcome = "paid"}

\* No item of the run is paid by two transactions, although intents are
\* rebuilt, resubmitted, dropped and applied late: SYSTEM_ARCHITECTURE.md
\* promises it of retried requests, and the chunk index has to deliver it.
NoDoublePay == \A i \in Item : Cardinality(PayingChunks(i)) <= 1

\* Postgres never calls an item PAID that the chain did not pay.
PaidOnChain == \A i \in Item : itemStatus[i] = "PAID" => PayingChunks(i) # {}

\* Nor FAILED, which invites Finance to put it in a new run, one it did pay.
FailedUnpaid == \A i \in Item : itemStatus[i] = "FAILED" => PayingChunks(i) = {}

\* A run Postgres calls finished has no item left to pay.
FinishedHasNoPending == runStatus \in FinalStatus => Pending = {}

\* The final status says what became of the items, as PAYROLL_ENGINE.md
\* defines COMPLETED, PARTIAL and FAILED.
FinalStatusTruthful ==
    runStatus \in FinalStatus =>
        /\ runStatus = "COMPLETED" <=> \A i \in Item : PayingChunks(i) # {}
        /\ runStatus = "FAILED" <=> \A i \in Item : PayingChunks(i) = {}

\* A run that is COMPLETED, PARTIAL or FAILED is never EXECUTING again: in
\* PAYROLL_ENGINE.md's lifecycle nothing leads back, and "a payroll run is
\* immutable once executed".
NeverReopened == [][(runStatus \in FinalStatus) => (runStatus' # "EXECUTING")]_runVars

\* With no request and no transaction under way, the next chunk's run_id is
\* free, so that "a retry can pick this same chunk back up".
RetryPossible ==
    /\ runStatus = "EXECUTING" /\ Pending # {}
    /\ Quiet
    /\ \A i \in DOMAIN intents : intents[i].tx # "sent"
    => ChunkIndex \notin executedRun[TheOrg]
=============================================================================
