------------------------- MODULE PayrollRuns_proofs -------------------------
(***************************************************************************)
(* How the backend drives a payroll run, for any number of items, requests *)
(* and intents.  With any number of requests at once Postgres calls an     *)
(* item PAID only when the chain paid it and a run finished only when no   *)
(* item is left.  That no item is paid twice, and that FAILED and the      *)
(* final status tell the truth, is proved where requests take turns: the   *)
(* next chunk is counted, and two counts may be the same.                  *)
(***************************************************************************)
EXTENDS PayrollRuns, Contracts_proofs, Intents_proofs

Chunks == 0 .. NumItems \div ChunkSize
RunCall == [items : SUBSET Item, chunk : Chunks]

\* What the contracts keep.
OnChainInv ==
    /\ RegistryInv /\ StaffInv /\ ResultsInv
    /\ FactoryTypeOK /\ RegistryTypeOK /\ TreasuryTypeOK /\ PayrollTypeOK

\* What a handler knows where it stands.
Building == {"balance", "simulate", "answer"}
BuildState == [pc : Building, seen : RunStatus, items : SUBSET Item, chunk : Chunks]
MarkState == [pc : {"mark"}, intent : DOMAIN intents, left : SUBSET Item]

HandlerKnows(p) ==
    /\ requests[p].pc = "pending" => requests[p].seen \in RunStatus
    /\ requests[p].pc = "count" =>
           requests[p].seen \in RunStatus /\ requests[p].items \in SUBSET Item
    /\ requests[p].pc \in Building => requests[p] \in BuildState
    /\ requests[p].pc = "mark" =>
           /\ requests[p] \in MarkState /\ Confirmed(requests[p].intent)
           /\ requests[p].left \subseteq intents[requests[p].intent].call.items
    /\ requests[p].pc = "finalize" => requests[p].status \in FinalStatus /\ Pending = {}

\* A transaction that succeeded executed the run of its chunk.
ConfirmedExecuted ==
    \A i \in DOMAIN intents : Confirmed(i) => intents[i].call.chunk \in executedRun[TheOrg]

RunsInv ==
    /\ OnChainInv /\ IntentsInv(RunCall, {Founder})
    /\ runStatus \in RunStatus /\ itemStatus \in [Item -> ItemStatus]
    /\ \A p \in Slots : HandlerKnows(p)
    /\ ConfirmedExecuted /\ PaidOnChain /\ FinishedHasNoPending

-----------------------------------------------------------------------------
(***************************************************************************)
(* Where requests take turns.                                              *)
(***************************************************************************)
OneRequest == \E p : Slots = {p}

Successful == {i \in DOMAIN intents : Confirmed(i)}
ItemsOf(i) == intents[i].call.items
ChunkOf(i) == intents[i].call.chunk
Marked == Item \ Pending

\* A chunk is counted at most up to the current one, and keeps clear of the
\* chunks before it.
Clear(items, chunk) ==
    /\ chunk <= ChunkIndex /\ Cardinality(items) <= ChunkSize
    /\ \A i \in Successful : ChunkOf(i) < chunk => ItemsOf(i) \cap items = {}

\* The items of the chunks the counters have gone past.
Done == {x \in Item : \E i \in Successful : ChunkOf(i) < ChunkIndex /\ x \in ItemsOf(i)}

\* Every executed run is that of one successful transaction, and reports the
\* items of its chunk.
ExecutedOnce ==
    /\ \A run \in executedRun[TheOrg] : \E i \in Successful : ChunkOf(i) = run
    /\ \A i, j \in Successful : ChunkOf(i) = ChunkOf(j) => i = j
    /\ \A i \in Successful : \A k \in DOMAIN payrollResult[TheOrg][ChunkOf(i)] :
           payrollResult[TheOrg][ChunkOf(i)][k].employee \in ItemsOf(i)

\* The counters move past a chunk when it is executed and all marked.
CountersExact ==
    /\ \A run \in 0 .. ChunkIndex - 1 : run \in executedRun[TheOrg]
    /\ Done \subseteq Marked /\ Cardinality(Done) = ChunkIndex * ChunkSize
    /\ \A x \in Marked \ Done : \E i \in Successful : ChunkOf(i) = ChunkIndex /\ x \in ItemsOf(i)

\* What is marked is what a successful transaction reported.
MarkedTruly ==
    \A x \in Marked : \E i \in Successful :
        x \in ItemsOf(i) /\ itemStatus[x] = Verdict(ChunkOf(i), x)

TurnKnows(p) ==
    LET r == requests[p] IN
    /\ r.pc = "schedule" => runStatus = "DRAFT"
    /\ r.pc \in {"pending", "count"} \cup Building =>
           r.seen = runStatus /\ runStatus \notin FinalStatus
    /\ r.pc = "count" => r.items \subseteq Pending /\ Cardinality(r.items) <= ChunkSize
    /\ r.pc \in Building => Clear(r.items, r.chunk)
    /\ r.pc = "finalize" => r.status = OverallStatus

TurnsInv ==
    /\ ExecutedOnce /\ CountersExact /\ MarkedTruly
    /\ \A i \in DOMAIN intents : Clear(ItemsOf(i), ChunkOf(i))
    /\ \A p \in Slots : TurnKnows(p)
    /\ runStatus \in FinalStatus => runStatus = OverallStatus

-----------------------------------------------------------------------------
\* A chunk's employees, in some order.
LEMMA ChunkOrder ==
    ASSUME NEW items \in SUBSET Item
    PROVE  EmployeeIds(items) \in Seq(items) /\ EmployeeIds(items) \in Seq(Nat)
<1>1. IsFiniteSet(Item)
  <2>1. \A n \in Nat : IsFiniteSet(1 .. n)
    BY FS_Interval
  <2>2. QED BY <2>1, PayrollRunsAssumption DEF Item
<1>2. IsFiniteSet(items)
  BY <1>1, FS_Subset
<1>3. PICK n \in Nat : n = Cardinality(items)
  BY <1>2, FS_CardinalityType
<1>4. ExistsBijection(1 .. Cardinality(items), items)
  BY <1>2, FS_CardinalityType
<1>5. \E f \in [1 .. Cardinality(items) -> items] : IsInjective(f)
  BY <1>4 DEF ExistsBijection, Bijection, Injection
<1>6. EmployeeIds(items) \in [1 .. n -> items]
  BY <1>3, <1>5 DEF EmployeeIds, SetToSeq
<1>7. items \subseteq Nat
  BY PayrollRunsAssumption DEF Item
<1>8. EmployeeIds(items) \in Seq(items)
  BY <1>6
<1>9. EmployeeIds(items) \in [1 .. n -> Nat]
  BY <1>6, <1>7
<1>10. QED BY <1>8, <1>9

\* The count of marked items, which the chunk index is derived from.
LEMMA IndexFromMarked ==
    ASSUME itemStatus \in [Item -> ItemStatus]
    PROVE  /\ IsFiniteSet(Item) /\ Cardinality(Item) = NumItems
           /\ IsFiniteSet(Marked) /\ Cardinality(Marked) \in Nat
           /\ ChunkIndex = Cardinality(Marked) \div ChunkSize
           /\ ChunkIndex \in Chunks
<1> DEFINE paid == {i \in Item : itemStatus[i] = "PAID"}
           failed == {i \in Item : itemStatus[i] = "FAILED"}
<1>1. IsFiniteSet(Item) /\ Cardinality(Item) = NumItems
  <2>1. \A n \in Nat : IsFiniteSet(1 .. n) /\ (n > 0 => Cardinality(1 .. n) = n)
    BY FS_Interval
  <2>2. QED BY <2>1, PayrollRunsAssumption DEF Item
<1>2. Marked \subseteq Item /\ paid \subseteq Item /\ failed \subseteq Item
  BY DEF Marked
<1>3. /\ IsFiniteSet(Marked) /\ IsFiniteSet(paid) /\ IsFiniteSet(failed)
      /\ Cardinality(Marked) \in Nat /\ Cardinality(Marked) <= NumItems
  BY <1>1, <1>2, FS_Subset, FS_CardinalityType
<1>4. Marked = paid \cup failed /\ paid \cap failed = {}
  BY DEF Marked, Pending, ItemStatus
<1>5. Cardinality(Marked) = Cardinality(paid) + Cardinality(failed)
  <2>1. Cardinality(paid \cup failed) =
            Cardinality(paid) + Cardinality(failed) - Cardinality(paid \cap failed)
    BY <1>3, FS_Union
  <2>2. Cardinality(paid \cap failed) = 0
    BY <1>4, FS_EmptySet
  <2>3. Cardinality(paid) \in Nat /\ Cardinality(failed) \in Nat
    BY <1>3, FS_CardinalityType
  <2>4. QED BY <1>4, <2>1, <2>2, <2>3
<1>6. ChunkIndex = Cardinality(Marked) \div ChunkSize
  BY <1>5 DEF ChunkIndex, CountOf
<1> HIDE DEF paid, failed
<1>7. ChunkIndex \in Chunks
  <2>1. \A n, m \in Nat : n <= m => n \div ChunkSize \in 0 .. m \div ChunkSize
    BY PayrollRunsAssumption
  <2>2. QED BY <1>3, <1>6, <2>1, PayrollRunsAssumption DEF Chunks
<1>8. QED BY <1>1, <1>3, <1>6, <1>7

-----------------------------------------------------------------------------
(***************************************************************************)
(* Any number of requests.                                                 *)
(***************************************************************************)
LEMMA RunsInvInit == PayrollRunsInit => RunsInv
<1> SUFFICES ASSUME PayrollRunsInit PROVE RunsInv
  OBVIOUS
<1>1. /\ DeployedInit(0) /\ PayrollInit /\ IntentsInit
      /\ employees = [id \in OrgId |-> [e \in Item |->
             [wallet |-> Wallet[e], salary |-> Amount[e], active |-> TRUE]]]
      /\ runStatus = "DRAFT" /\ itemStatus = [i \in Item |-> "PENDING"]
  BY DEF PayrollRunsInit
<1>2. RegistryInv /\ FactoryTypeOK /\ TreasuryTypeOK /\ TheOrg \in OrgId
  <2>1. /\ deployed = {HomeOrg} /\ orgCount = 1 /\ initialized = Engine \cup {"payroll_factory"}
        /\ registry =
               <<[organization |-> HomeOrg, treasury |-> TreasuryOf[HomeOrg], owner |-> Founder]>>
        /\ cached = [e \in Engine |-> <<>>] /\ wasmHash \in [WasmTarget -> Hashes]
        /\ spenders = [o \in Orgs |-> {PayrollEngine, MilestoneEngine}]
        /\ booked = [o \in Orgs |-> Endowment[TreasuryOf[o]]]
        /\ balance = Moved(Endowment, Home, MilestoneEngine, 0)
    BY <1>1 DEF DeployedInit, Home
  <2>2. Orgs = {HomeOrg} /\ Founder \in Users
    BY DeploymentAssumption
  <2>3. Home \in Accounts /\ MilestoneEngine \in Accounts /\ Endowment \in [Accounts -> Nat]
        /\ TreasuryOf \in [Orgs -> Accounts]
    BY <2>2, AccountsAssumption DEF Home
  <2>4. balance \in [Accounts -> Nat] /\ booked \in [Orgs -> Int]
    BY <2>1, <2>3, MovedTyped
  <2>5. QED BY <2>1, <2>2, <2>4, OneOrganization DEF TheOrg
<1>3. RegistryTypeOK /\ StaffInv
  BY <1>1, PayrollRunsAssumption, AccountsAssumption
     DEF RegistryTypeOK, StaffInv, Employee, Item
<1>4. PayrollTypeOK /\ ResultsInv
  BY <1>1 DEF PayrollInit, PayrollTypeOK, ResultsInv
<1>5. OnChainInv
  BY <1>2, <1>3, <1>4 DEF OnChainInv
<1>6. IntentsInv(RunCall, {Founder}) /\ ConfirmedExecuted
  BY <1>1, IntentsInvInit DEF IntentsInit, ConfirmedExecuted
<1>7. runStatus \in RunStatus /\ itemStatus \in [Item -> ItemStatus]
      /\ PaidOnChain /\ FinishedHasNoPending
  BY <1>1 DEF RunStatus, ItemStatus, PaidOnChain, FinishedHasNoPending, FinalStatus
<1>8. \A p \in Slots : HandlerKnows(p)
  BY <1>1 DEF IntentsInit, Idle, HandlerKnows, Building
<1>9. QED BY <1>5, <1>6, <1>7, <1>8 DEF RunsInv

\* The one organization has the one id.
LEMMA HomeId == TheOrg \in OrgId /\ OrgId = {TheOrg}
<1>1. Cardinality({HomeOrg}) = 1
  BY FS_Singleton
<1>2. 1 .. 1 = {1}
  OBVIOUS
<1>3. QED BY <1>1, <1>2, DeploymentAssumption DEF OrgId, TheOrg

\* A step of the backend leaves the chain as it was.
LEMMA OnChainUntouched == OnChainInv /\ UNCHANGED chainVars => OnChainInv'
<1> SUFFICES ASSUME OnChainInv, UNCHANGED chainVars PROVE OnChainInv'
  OBVIOUS
<1>1. UNCHANGED <<deployed, balance, spenders, booked, initialized, orgCount, registry, wasmHash,
                  cached, employees, executedRun, payrollResult>>
  BY DEF chainVars, orgVars, treasuryVars, factoryVars, payrollVars
<1>2. RegistryInv' /\ FactoryTypeOK' /\ TreasuryTypeOK'
  BY <1>1 DEF OnChainInv, RegistryInv, FactoryTypeOK, TreasuryTypeOK
<1>3. StaffInv' /\ RegistryTypeOK' /\ ResultsInv' /\ PayrollTypeOK'
  BY <1>1 DEF OnChainInv, StaffInv, RegistryTypeOK, ResultsInv, PayrollTypeOK
<1>4. QED BY <1>2, <1>3 DEF OnChainInv

\* A handler that does not move knows what it knew.
LEMMA KnowsStill ==
    ASSUME NEW q \in Slots, HandlerKnows(q), requests'[q] = requests[q],
           IntentsKept, Pending' \subseteq Pending
    PROVE  HandlerKnows(q)'
<1>1. requests[q].pc = "mark" =>
          /\ requests[q].intent \in DOMAIN intents /\ requests[q] \in MarkState'
          /\ Confirmed(requests[q].intent)'
          /\ requests[q].left \subseteq intents'[requests[q].intent].call.items
  BY DEF HandlerKnows, MarkState, IntentsKept
<1>2. requests[q].pc = "finalize" => requests[q].status \in FinalStatus /\ Pending' = {}
  BY DEF HandlerKnows
<1>3. Confirmed(requests[q].intent)' <=> intents'[requests[q].intent].tx = "SUCCESS"
  BY DEF Confirmed
<1>4. QED BY <1>1, <1>2, <1>3 DEF HandlerKnows, BuildState, Confirmed

\* What a handler leaves to show that calls no contract and marks no item.
LEMMA HandlerStep ==
    ASSUME RunsInv, NEW p \in Slots, UNCHANGED <<chainVars, itemStatus>>,
           IntentsInv(RunCall, {Founder})', IntentsKept, NoneConfirmed,
           \A q \in Slots \ {p} : requests'[q] = requests[q],
           HandlerKnows(p)',
           runStatus' \in RunStatus,
           runStatus' = runStatus \/ runStatus' \notin FinalStatus \/ Pending = {}
    PROVE  RunsInv'
<1>1. OnChainInv'
  BY OnChainUntouched DEF RunsInv
<1>2. Pending' = Pending /\ executedRun' = executedRun /\ payrollResult' = payrollResult
  BY DEF Pending, chainVars, payrollVars
<1>3. \A q \in Slots : HandlerKnows(q)'
  BY <1>2, KnowsStill DEF RunsInv
<1>4. ConfirmedExecuted'
  BY <1>2 DEF RunsInv, ConfirmedExecuted, IntentsKept, NoneConfirmed
<1>5. PaidOnChain'
  BY <1>2 DEF RunsInv, PaidOnChain, PayingChunks
<1>6. FinishedHasNoPending'
  BY <1>2 DEF RunsInv, FinishedHasNoPending
<1>7. QED BY <1>1, <1>3, <1>4, <1>5, <1>6 DEF RunsInv

\* The same for one that leaves the intents alone and goes on as r.
LEMMA AwaitStep ==
    ASSUME RunsInv, NEW p \in Slots, NEW r, Await(p, r), r.pc \notin Submitting,
           UNCHANGED <<chainVars, itemStatus, intents, sequence>>,
           /\ r.pc = "pending" => r.seen \in RunStatus
           /\ r.pc = "count" => r.seen \in RunStatus /\ r.items \in SUBSET Item
           /\ r.pc \in Building => r \in BuildState
           /\ r.pc = "mark" => /\ r \in MarkState /\ Confirmed(r.intent)
                               /\ r.left \subseteq intents[r.intent].call.items
           /\ r.pc = "finalize" => r.status \in FinalStatus /\ Pending = {},
           runStatus' \in RunStatus,
           runStatus' = runStatus \/ runStatus' \notin FinalStatus \/ Pending = {}
    PROVE  RunsInv'
<1>1. /\ IntentsInv(RunCall, {Founder})' /\ IntentsKept /\ NoneConfirmed
      /\ requests'[p] = r /\ \A q \in Slots \ {p} : requests'[q] = requests[q]
  BY AwaitKeepsIntents DEF RunsInv
<1>2. HandlerKnows(p)'
  BY <1>1 DEF HandlerKnows, BuildState, MarkState, Pending, Confirmed
<1>3. QED BY <1>1, <1>2, HandlerStep

\* A handler ends, perhaps with a new status of the run.
LEMMA IdleStep ==
    ASSUME RunsInv, NEW p \in Slots, Answer(p),
           UNCHANGED <<chainVars, itemStatus, intents, sequence>>,
           runStatus' \in RunStatus,
           runStatus' = runStatus \/ runStatus' \notin FinalStatus \/ Pending = {}
    PROVE  RunsInv'
<1>1. Await(p, Idle) /\ Idle.pc = "idle"
  BY DEF Answer, Idle
<1>2. QED BY <1>1, AwaitStep DEF Submitting, Building

\* schedule moves a draft on.
LEMMA ScheduleKeeps ==
    ASSUME RunsInv, NEW p \in Slots, ScheduleRead(p) \/ ScheduleWrite(p)
    PROVE  RunsInv'
<1>1. CASE ScheduleRead(p)
  <2>1. Await(p, [pc |-> "schedule"]) /\ UNCHANGED <<chainVars, dbVars, intents, sequence>>
    BY <1>1 DEF ScheduleRead
  <2>2. UNCHANGED <<runStatus, itemStatus>> /\ runStatus \in RunStatus
    BY <2>1 DEF dbVars, RunsInv
  <2>3. QED BY <2>1, <2>2, AwaitStep DEF Submitting, Building
<1>2. CASE ScheduleWrite(p)
  BY <1>2, IdleStep DEF ScheduleWrite, RunStatus, FinalStatus
<1>3. QED BY <1>1, <1>2

\* The reads of buildExecuteIntent, each at a moment of its own.
LEMMA ReadsKeep ==
    ASSUME RunsInv, NEW p \in Slots, BuildReadRun(p) \/ BuildFindPending(p) \/ BuildCount(p)
    PROVE  RunsInv'
<1>1. UNCHANGED <<chainVars, dbVars, intents, sequence>>
  BY DEF BuildReadRun, BuildFindPending, BuildCount
<1>2. /\ UNCHANGED <<runStatus, itemStatus>> /\ runStatus \in RunStatus
      /\ itemStatus \in [Item -> ItemStatus] /\ HandlerKnows(p)
  BY <1>1 DEF dbVars, RunsInv
<1>3. CASE BuildReadRun(p)
  <2>1. Await(p, [pc |-> "pending", seen |-> runStatus])
    BY <1>3 DEF BuildReadRun
  <2>2. QED BY <1>1, <1>2, <2>1, AwaitStep DEF Submitting, Building
<1>4. CASE BuildFindPending(p) /\ ~Answer(p)
  <2>1. requests[p].pc = "pending"
    BY <1>4 DEF BuildFindPending, At
  <2>2. PICK chunk \in PendingChunks :
            Await(p, [pc |-> "count", seen |-> requests[p].seen, items |-> chunk])
    BY <1>4 DEF BuildFindPending
  <2>3. chunk \in SUBSET Item /\ requests[p].seen \in RunStatus
    BY <1>2, <2>1 DEF PendingChunks, Pending, HandlerKnows
  <2>4. QED BY <1>1, <1>2, <2>2, <2>3, AwaitStep DEF Submitting, Building
<1>5. CASE BuildCount(p)
  <2>1. /\ requests[p].pc = "count"
        /\ Await(p, [pc |-> "balance", seen |-> requests[p].seen,
                     items |-> requests[p].items, chunk |-> ChunkIndex])
    BY <1>5 DEF BuildCount, At
  <2>2. /\ requests[p].items \in SUBSET Item /\ requests[p].seen \in RunStatus
        /\ ChunkIndex \in Chunks
    BY <1>2, <2>1, IndexFromMarked DEF HandlerKnows
  <2>3. [pc |-> "balance", seen |-> requests[p].seen,
         items |-> requests[p].items, chunk |-> ChunkIndex] \in BuildState
    BY <2>2 DEF BuildState, Building
  <2>4. QED BY <1>1, <1>2, <2>1, <2>3, AwaitStep DEF Submitting
<1>6. CASE Answer(p)
  BY <1>1, <1>2, <1>6, IdleStep
<1>7. QED BY <1>3, <1>4, <1>5, <1>6

\* The checks before the build.
LEMMA ChecksKeep ==
    ASSUME RunsInv, NEW p \in Slots, CheckBalance(p) \/ Simulate(p)
    PROVE  RunsInv'
<1>1. UNCHANGED <<chainVars, dbVars, intents, sequence>>
  BY DEF CheckBalance, Simulate
<1>2. UNCHANGED <<runStatus, itemStatus>> /\ runStatus \in RunStatus /\ HandlerKnows(p)
  BY <1>1 DEF dbVars, RunsInv
<1>3. requests[p] \in BuildState
  BY <1>2 DEF HandlerKnows, Building, CheckBalance, Simulate, At
<1>4. \/ Answer(p)
      \/ \E pc \in {"simulate", "answer"} : Await(p, [requests[p] EXCEPT !.pc = pc])
  BY DEF CheckBalance, Simulate
<1>5. ASSUME NEW pc \in {"simulate", "answer"}, Await(p, [requests[p] EXCEPT !.pc = pc])
      PROVE  RunsInv'
  <2> DEFINE r == [requests[p] EXCEPT !.pc = pc]
  <2>1. r \in BuildState /\ r.pc = pc
    BY <1>3 DEF BuildState, Building
  <2> HIDE DEF r
  <2>2. Await(p, r)
    BY <1>5 DEF r
  <2>3. QED BY <1>1, <1>2, <2>1, <2>2, AwaitStep DEF Submitting
<1>6. CASE Answer(p)
  BY <1>1, <1>2, <1>6, IdleStep
<1>7. QED BY <1>4, <1>5, <1>6

\* The intent is kept and the client answered.
LEMMA AnswerKeeps ==
    ASSUME RunsInv, NEW p \in Slots, BuildAnswer(p) PROVE RunsInv'
<1> DEFINE call == [items |-> requests[p].items, chunk |-> requests[p].chunk]
<1>1. /\ requests[p].pc = "answer" /\ Create(call, Founder) /\ Answer(p)
      /\ UNCHANGED <<chainVars, itemStatus>>
      /\ runStatus' \in {runStatus, "EXECUTING"}
  BY DEF BuildAnswer, At
<1>2. requests[p] \in BuildState
  BY <1>1 DEF RunsInv, HandlerKnows, Building
<1>3. call \in RunCall
  BY <1>2 DEF BuildState, RunCall
<1> HIDE DEF call
<1>4. /\ IntentsInv(RunCall, {Founder})' /\ IntentsKept /\ NoneConfirmed
  BY <1>1, <1>3, CreateKeepsIntents DEF RunsInv
<1>5. requests'[p] = Idle /\ \A q \in Slots \ {p} : requests'[q] = requests[q]
  BY <1>1 DEF Answer, Await, RunsInv, IntentsInv
<1>6. HandlerKnows(p)'
  BY <1>5 DEF HandlerKnows, Idle, Building
<1>7. runStatus' \in RunStatus /\ (runStatus' = runStatus \/ runStatus' \notin FinalStatus)
  BY <1>1 DEF RunsInv, RunStatus, FinalStatus
<1>8. QED BY <1>1, <1>4, <1>5, <1>6, <1>7, HandlerStep

\* The submit endpoint sends what was built.
LEMMA SubmitKeeps ==
    ASSUME RunsInv, NEW p \in Slots, Submit(p) PROVE RunsInv'
<1>1. SubmitStep(p) /\ UNCHANGED <<chainVars, runStatus, itemStatus>>
  BY DEF Submit, dbVars
<1>2. /\ IntentsInv(RunCall, {Founder})' /\ IntentsKept /\ NoneConfirmed
      /\ requests'[p].pc \in {"idle"} \cup Submitting
      /\ \A q \in Slots \ {p} : requests'[q] = requests[q]
  BY <1>1, SubmitKeepsIntents DEF RunsInv
<1>3. HandlerKnows(p)'
  BY <1>2 DEF HandlerKnows, Submitting, Building
<1>4. QED BY <1>1, <1>2, <1>3, HandlerStep DEF RunsInv

\* Polling ends with the outcome of the transaction, or without one.
LEMMA WaitKeeps ==
    ASSUME RunsInv, NEW p \in Slots, Wait(p) PROVE RunsInv'
<1>1. UNCHANGED <<chainVars, dbVars, intents, sequence>> /\ requests[p].pc = "wait"
  BY DEF Wait, At
<1>2. UNCHANGED <<runStatus, itemStatus>> /\ runStatus \in RunStatus
  BY <1>1 DEF dbVars, RunsInv
<1>3. requests[p] \in SubmitState
  BY <1>1 DEF RunsInv, IntentsInv, Submitting
<1>4. PICK i \in DOMAIN intents : i = requests[p].intent
  BY <1>3 DEF SubmitState
<1>5. intents[i].call.items \in SUBSET Item
  <2>1. intents[i] \in Intent(RunCall, {Founder})
    BY IntentTyped DEF RunsInv
  <2>2. QED BY <2>1 DEF Intent, RunCall
<1>6. CASE Await(p, [pc |-> "tally"])
  BY <1>1, <1>2, <1>6, AwaitStep DEF Submitting, Building
<1>7. CASE Confirmed(i) /\ Await(p, [pc |-> "mark", intent |-> i, left |-> intents[i].call.items])
  BY <1>1, <1>2, <1>5, <1>7, AwaitStep DEF Submitting, Building, MarkState
<1>8. QED BY <1>4, <1>6, <1>7 DEF Wait

\* What a mark says of an item: PAID only of one a chunk paid.
LEMMA VerdictTrue ==
    ASSUME NEW chunk, NEW item
    PROVE  /\ Verdict(chunk, item) \in {"PAID", "FAILED"}
           /\ Verdict(chunk, item) = "PAID" /\ chunk \in DOMAIN payrollResult[TheOrg]
              => chunk \in PayingChunks(item)
           /\ Verdict(chunk, item) = "FAILED" => chunk \notin PayingChunks(item)
BY DEF Verdict, PayingChunks

\* reconcileChunk marks the items of a chunk that executed.
LEMMA MarkKeeps ==
    ASSUME RunsInv, NEW p \in Slots, MarkItem(p) PROVE RunsInv'
<1>1. /\ UNCHANGED <<chainVars, runStatus, intents, sequence>> /\ requests[p].pc = "mark"
      /\ runStatus \in RunStatus /\ itemStatus \in [Item -> ItemStatus]
  BY DEF MarkItem, At, RunsInv
<1>2. /\ requests[p] \in MarkState /\ Confirmed(requests[p].intent)
      /\ requests[p].left \subseteq intents[requests[p].intent].call.items
  BY <1>1 DEF RunsInv, HandlerKnows
<1>3. PICK i \in DOMAIN intents : i = requests[p].intent
  BY <1>2 DEF MarkState
<1>4. CASE Await(p, [pc |-> "tally"]) /\ UNCHANGED itemStatus
  BY <1>1, <1>4, AwaitStep DEF Submitting, Building
<1>5. CASE \E item \in requests[p].left :
               /\ itemStatus' = [itemStatus EXCEPT ![item] = Verdict(intents[i].call.chunk, item)]
               /\ Await(p, [requests[p] EXCEPT !.left = @ \ {item}])
  <2>1. PICK item \in requests[p].left :
            /\ itemStatus' = [itemStatus EXCEPT ![item] = Verdict(intents[i].call.chunk, item)]
            /\ Await(p, [requests[p] EXCEPT !.left = @ \ {item}])
    BY <1>5
  <2> DEFINE r == [requests[p] EXCEPT !.left = @ \ {item}]
             chunk == intents[i].call.chunk
  <2>2. /\ r \in MarkState /\ r.pc = "mark" /\ r.intent = i
        /\ r.left \subseteq intents[i].call.items
        /\ item \in Item
    BY <1>2, <1>3 DEF MarkState
  <2>3. Await(p, r)
    BY <2>1
  <2> HIDE DEF r
  <2>4. /\ IntentsInv(RunCall, {Founder})' /\ IntentsKept
        /\ requests'[p] = r /\ \A q \in Slots \ {p} : requests'[q] = requests[q]
    BY <1>1, <2>2, <2>3, AwaitKeepsIntents DEF RunsInv, Submitting
  <2>5. chunk \in executedRun[TheOrg] /\ DOMAIN payrollResult[TheOrg] = executedRun[TheOrg]
    BY <1>2, <1>3, HomeId DEF RunsInv, ConfirmedExecuted, OnChainInv, ResultsInv
  <2>6. /\ itemStatus' \in [Item -> ItemStatus] /\ Pending' \subseteq Pending
        /\ itemStatus'[item] = Verdict(chunk, item)
        /\ \A x \in Item \ {item} : itemStatus'[x] = itemStatus[x]
    BY <1>1, <2>1, <2>2, VerdictTrue DEF ItemStatus, Pending
  <2> HIDE DEF chunk
  <2>7. HandlerKnows(p)'
    BY <1>1, <1>2, <1>3, <2>2, <2>4 DEF HandlerKnows, MarkState, Building, Confirmed
  <2>8. \A q \in Slots : HandlerKnows(q)'
    BY <2>4, <2>6, <2>7, KnowsStill DEF RunsInv
  <2>9. executedRun' = executedRun /\ payrollResult' = payrollResult
    BY <1>1 DEF chainVars, payrollVars
  <2>10. PaidOnChain'
    <3>1. \A x \in Item : PayingChunks(x)' = PayingChunks(x)
      BY <2>9 DEF PayingChunks
    <3>2. itemStatus'[item] = "PAID" => PayingChunks(item) # {}
      BY <2>5, <2>6, VerdictTrue
    <3>3. QED BY <2>6, <3>1, <3>2 DEF RunsInv, PaidOnChain
  <2>11. ConfirmedExecuted' /\ FinishedHasNoPending'
    BY <1>1, <2>6, <2>9
       DEF RunsInv, ConfirmedExecuted, FinishedHasNoPending, Confirmed
  <2>12. OnChainInv'
    BY <1>1, OnChainUntouched DEF RunsInv
  <2>13. QED BY <1>1, <2>4, <2>6, <2>8, <2>10, <2>11, <2>12 DEF RunsInv
<1>6. QED BY <1>3, <1>4, <1>5 DEF MarkItem

\* finalizeRunIfComplete counts, and finishes a run with nothing pending.
LEMMA TallyKeeps ==
    ASSUME RunsInv, NEW p \in Slots, Tally(p) \/ Finalize(p) PROVE RunsInv'
<1>1. CASE Tally(p)
  <2>1. UNCHANGED <<chainVars, intents, sequence, runStatus, itemStatus>> /\ runStatus \in RunStatus
    BY <1>1 DEF Tally, dbVars, RunsInv
  <2>2. CASE Pending # {}
    BY <1>1, <2>1, <2>2, IdleStep DEF Tally
  <2>3. CASE Pending = {}
    <3>1. OverallStatus \in FinalStatus
      BY DEF OverallStatus, FinalStatus
    <3>2. Await(p, [pc |-> "finalize", status |-> OverallStatus])
      BY <1>1, <2>3 DEF Tally
    <3>3. QED BY <2>1, <2>3, <3>1, <3>2, AwaitStep DEF Submitting, Building
  <2>4. QED BY <2>2, <2>3
<1>2. CASE Finalize(p)
  <2>1. requests[p].status \in FinalStatus /\ Pending = {}
    BY <1>2 DEF Finalize, At, RunsInv, HandlerKnows
  <2>2. QED BY <1>2, <2>1, IdleStep DEF Finalize, RunStatus
<1>3. QED BY <1>1, <1>2

-----------------------------------------------------------------------------
(***************************************************************************)
(* The chain.                                                              *)
(***************************************************************************)

\* What a run once reported it reports for good.
ResultsKept ==
    \A run \in executedRun[TheOrg] :
        /\ run \in executedRun'[TheOrg]
        /\ payrollResult'[TheOrg][run] = payrollResult[TheOrg][run]

\* An item once paid on chain stays paid.
LEMMA PaymentsStay ==
    ASSUME ResultsInv, ResultsInv', ResultsKept, NEW x
    PROVE  PayingChunks(x) \subseteq PayingChunks(x)'
<1>1. /\ DOMAIN payrollResult[TheOrg] = executedRun[TheOrg]
      /\ DOMAIN payrollResult'[TheOrg] = executedRun'[TheOrg]
  BY HomeId DEF ResultsInv
<1>2. QED BY <1>1 DEF PayingChunks, ResultsKept

\* What a step of the chain leaves to show.
LEMMA ChainStep ==
    ASSUME RunsInv, UNCHANGED <<dbVars, requests>>,
           OnChainInv', ResultsKept,
           IntentsInv(RunCall, {Founder})', IntentsKept, ConfirmedExecuted'
    PROVE  RunsInv'
<1>1. UNCHANGED <<runStatus, itemStatus>> /\ Pending' = Pending
  BY DEF dbVars, Pending
<1>2. \A p \in Slots : HandlerKnows(p)'
  BY <1>1, KnowsStill DEF RunsInv
<1>3. PaidOnChain'
  <2>1. \A x \in Item : PayingChunks(x) \subseteq PayingChunks(x)'
    BY PaymentsStay DEF RunsInv, OnChainInv
  <2>2. QED BY <1>1, <2>1 DEF RunsInv, PaidOnChain
<1>4. FinishedHasNoPending'
  BY <1>1 DEF RunsInv, FinishedHasNoPending
<1>5. QED BY <1>1, <1>2, <1>3, <1>4 DEF RunsInv

\* run_payroll for one chunk.
LEMMA ChunkExecuted ==
    ASSUME OnChainInv, NEW chunk \in Chunks, NEW items \in SUBSET Item,
           RunPayroll(Founder, TheOrg, chunk, EmployeeIds(items))
    PROVE  /\ OnChainInv' /\ ResultsKept
           /\ chunk \notin executedRun[TheOrg]
           /\ executedRun'[TheOrg] = executedRun[TheOrg] \cup {chunk}
           /\ \A k \in DOMAIN payrollResult'[TheOrg][chunk] :
                  payrollResult'[TheOrg][chunk][k].employee \in items
<1>1. PICK batch \in Seq(Nat) : batch = EmployeeIds(items) /\ batch \in Seq(items)
  BY ChunkOrder
<1>2. chunk \in RunIds
  BY PayrollRunsAssumption DEF Chunks
<1>3. RunPayroll(Founder, TheOrg, chunk, batch) /\ TheOrg \in OrgId
  BY <1>1, HomeId
<1>4. FactoryTypeOK' /\ RegistryTypeOK' /\ TreasuryTypeOK' /\ PayrollTypeOK'
  BY <1>2, <1>3, RunPayrollTyped DEF OnChainInv
<1>5. /\ ResultsInv'
      /\ \A id \in OrgId : \A run \in executedRun[id] :
             run \in executedRun'[id] /\ payrollResult'[id][run] = payrollResult[id][run]
  BY <1>3, RunAddsResult DEF OnChainInv
<1>6. /\ UNCHANGED <<orgCount, registry, deployed, employees>>
      /\ Resolvable("payroll_engine", TheOrg) /\ CacheResolved("payroll_engine", TheOrg)
      /\ chunk \notin executedRun[TheOrg]
      /\ executedRun' = [executedRun EXCEPT ![TheOrg] = @ \cup {chunk}]
  BY <1>3 DEF RunPayroll, CanRunPayroll, MarkExecuted, orgVars
<1>7. RegistryInv' /\ StaffInv'
  BY <1>6, CachingKeepsInv DEF OnChainInv, StaffInv, Engine
<1>8. DOMAIN executedRun = OrgId /\ DOMAIN payrollResult = OrgId
  BY DEF OnChainInv, ResultsInv
<1>9. executedRun'[TheOrg] = executedRun[TheOrg] \cup {chunk}
  BY <1>3, <1>6, <1>8
<1>10. ASSUME NEW k \in DOMAIN payrollResult'[TheOrg][chunk]
       PROVE  payrollResult'[TheOrg][chunk][k].employee \in items
  <2> DEFINE org == Resolve("payroll_engine", TheOrg).organization
             result == BatchResult(TheOrg, org, Founder, batch)
  <2>1. payrollResult' = [payrollResult EXCEPT ![TheOrg] = Put(@, chunk, result)]
    BY <1>3 DEF RunPayroll
  <2>2. DOMAIN result = 1 .. Len(batch)
        /\ \A j \in 1 .. Len(batch) : result[j].employee = batch[j]
    BY ResultItems
  <2> HIDE DEF result
  <2>3. payrollResult'[TheOrg][chunk] = result
    BY <1>3, <1>8, <2>1 DEF Put
  <2>4. QED BY <1>1, <2>2, <2>3
<1>11. QED BY <1>3, <1>4, <1>5, <1>6, <1>7, <1>9, <1>10 DEF OnChainInv, ResultsKept

\* The ledger takes a chunk.
LEMMA ApplyKeeps ==
    ASSUME RunsInv, NEW i \in DOMAIN intents, Apply(i) PROVE RunsInv'
<1>1. intents[i] \in Intent(RunCall, {Founder})
  BY IntentTyped DEF RunsInv
<1>2. PICK items \in SUBSET Item, chunk \in Chunks :
          items = intents[i].call.items /\ chunk = intents[i].call.chunk
  BY <1>1 DEF Intent, RunCall
<1>3. UNCHANGED dbVars
  BY DEF Apply
<1>4. CASE /\ RunPayroll(Founder, TheOrg, chunk, EmployeeIds(items))
           /\ Settle(i, "SUCCESS", 0)
  <2>1. /\ OnChainInv' /\ ResultsKept
        /\ executedRun'[TheOrg] = executedRun[TheOrg] \cup {chunk}
    BY <1>4, ChunkExecuted DEF RunsInv
  <2>2. /\ IntentsInv(RunCall, {Founder})' /\ IntentsKept
        /\ DOMAIN intents' = DOMAIN intents /\ requests' = requests
        /\ \A j \in DOMAIN intents \ {i} : intents'[j] = intents[j]
    BY <1>4, SettleKeepsIntents DEF RunsInv
  <2>3. ConfirmedExecuted'
    BY <1>2, <2>1, <2>2 DEF RunsInv, ConfirmedExecuted, Confirmed, IntentsKept
  <2>4. QED BY <1>3, <2>1, <2>2, <2>3, ChainStep
<1>5. CASE Settle(i, "FAILED", 0) /\ UNCHANGED chainVars
  <2>1. /\ IntentsInv(RunCall, {Founder})' /\ IntentsKept
        /\ DOMAIN intents' = DOMAIN intents /\ requests' = requests
        /\ intents'[i].tx = "FAILED"
        /\ \A j \in DOMAIN intents \ {i} : intents'[j] = intents[j]
    BY <1>5, SettleKeepsIntents DEF RunsInv
  <2>2. executedRun' = executedRun /\ payrollResult' = payrollResult
    BY <1>5 DEF chainVars, payrollVars
  <2>3. OnChainInv' /\ ResultsKept
    BY <1>5, <2>2, OnChainUntouched DEF RunsInv, ResultsKept
  <2>4. ConfirmedExecuted'
    BY <2>1, <2>2 DEF RunsInv, ConfirmedExecuted, Confirmed
  <2>5. QED BY <1>3, <2>1, <2>3, <2>4, ChainStep
<1>6. QED BY <1>2, <1>4, <1>5 DEF Apply

\* A transaction is dropped.
LEMMA DropKeeps ==
    ASSUME RunsInv, NEW i \in DOMAIN intents, Drop(i) PROVE RunsInv'
<1>1. Expire(i) /\ UNCHANGED <<chainVars, dbVars>>
  BY DEF Drop
<1>2. /\ IntentsInv(RunCall, {Founder})' /\ IntentsKept /\ NoneConfirmed
      /\ DOMAIN intents' = DOMAIN intents /\ requests' = requests
  BY <1>1, ExpireKeepsIntents DEF RunsInv
<1>3. executedRun' = executedRun /\ payrollResult' = payrollResult
  BY <1>1 DEF chainVars, payrollVars
<1>4. OnChainInv' /\ ResultsKept
  BY <1>1, <1>3, OnChainUntouched DEF RunsInv, ResultsKept
<1>5. ConfirmedExecuted'
  BY <1>2, <1>3 DEF RunsInv, ConfirmedExecuted, IntentsKept, NoneConfirmed
<1>6. QED BY <1>1, <1>2, <1>4, <1>5, ChainStep

\* HR and Admin act on the same chain.
LEMMA OthersKeep ==
    ASSUME RunsInv, OtherCalls
    PROVE  RunsInv' /\ UNCHANGED <<payrollVars, dbVars, intentVars>>
<1>1. UNCHANGED <<dbVars, intents, requests, sequence>> /\ OnChainInv
  BY DEF OtherCalls, intentVars, RunsInv
<1>2. UNCHANGED <<executedRun, payrollResult>> /\ OnChainInv'
  <2>1. CASE HrStep
    <3>1. RegistryCall(TheOrg, Founder) /\ UNCHANGED <<executedRun, payrollResult>>
          /\ UNCHANGED <<orgVars, treasuryVars, orgCount, registry>>
      BY <2>1 DEF HrStep, payrollVars, RegistryCall
    <3>2. FactoryTypeOK' /\ RegistryTypeOK' /\ StaffInv'
      BY <1>1, <3>1, HomeId, RegistryCallTyped DEF OnChainInv
    <3>3. Resolvable("employee_registry", TheOrg) /\ CacheResolved("employee_registry", TheOrg)
      BY <3>1 DEF RegistryCall, RegisterEmployee, UpdateEmployee, DeactivateEmployee, AssertHr
    <3>4. RegistryInv'
      BY <1>1, <3>1, <3>3, CachingKeepsInv DEF OnChainInv, orgVars, Engine
    <3>5. TreasuryTypeOK' /\ PayrollTypeOK' /\ ResultsInv'
      BY <1>1, <3>1 DEF OnChainInv, treasuryVars, TreasuryTypeOK, PayrollTypeOK, ResultsInv
    <3>6. QED BY <3>1, <3>2, <3>4, <3>5 DEF OnChainInv
  <2>2. CASE WithdrawStep
    <3>1. /\ UNCHANGED <<deployed, initialized, orgCount, registry, wasmHash, cached>>
          /\ UNCHANGED <<employees, executedRun, payrollResult>>
      BY <2>2 DEF WithdrawStep, orgVars, factoryVars, payrollVars
    <3>2. PICK amount \in Amounts : Withdraw(HomeOrg, Founder, Founder, amount)
      BY <2>2 DEF WithdrawStep
    <3>3. TreasuryTypeOK'
      BY <1>1, <3>2, WithdrawTyped, AccountsAssumption, DeploymentAssumption DEF OnChainInv
    <3>4. RegistryInv' /\ FactoryTypeOK'
      BY <1>1, <3>1, RegistryUntouched DEF OnChainInv, FactoryTypeOK
    <3>5. RegistryTypeOK' /\ StaffInv' /\ PayrollTypeOK' /\ ResultsInv'
      BY <1>1, <3>1 DEF OnChainInv, RegistryTypeOK, StaffInv, PayrollTypeOK, ResultsInv
    <3>6. QED BY <3>1, <3>3, <3>4, <3>5 DEF OnChainInv
  <2>3. QED BY <2>1, <2>2 DEF OtherCalls
<1>3. ResultsKept
  BY <1>2 DEF ResultsKept
<1>4. IntentsInv(RunCall, {Founder})' /\ IntentsKept /\ ConfirmedExecuted'
  BY <1>1, <1>2 DEF RunsInv, IntentsInv, SubmitState, IntentsKept, ConfirmedExecuted, Confirmed
<1>5. QED BY <1>1, <1>2, <1>3, <1>4, ChainStep DEF payrollVars, intentVars

\* Every step of clients, handlers and ledger keeps the invariant.
LEMMA RunsInvStep == RunsInv /\ [PayrollRunsNext]_runVars => RunsInv'
<1> SUFFICES ASSUME RunsInv, [PayrollRunsNext]_runVars PROVE RunsInv'
  OBVIOUS
<1>1. ASSUME NEW p \in Slots, Handle(p) PROVE RunsInv'
  BY <1>1, ScheduleKeeps, ReadsKeep, ChecksKeep, AnswerKeeps, SubmitKeeps, WaitKeeps, MarkKeeps,
     TallyKeeps DEF Handle
<1>2. ASSUME NEW i \in DOMAIN intents, Apply(i) \/ Drop(i) PROVE RunsInv'
  BY <1>2, ApplyKeeps, DropKeeps
<1>3. CASE UNCHANGED runVars
  <2>1. UNCHANGED <<chainVars, dbVars, intents, requests, sequence, executedRun, payrollResult>>
    BY <1>3 DEF runVars, intentVars, chainVars, payrollVars
  <2>2. OnChainInv' /\ ResultsKept
    BY <2>1, OnChainUntouched DEF RunsInv, ResultsKept
  <2>3. IntentsInv(RunCall, {Founder})' /\ IntentsKept /\ ConfirmedExecuted'
    BY <2>1 DEF RunsInv, IntentsInv, SubmitState, IntentsKept, ConfirmedExecuted, Confirmed
  <2>4. QED BY <2>1, <2>2, <2>3, ChainStep
<1>4. QED BY <1>1, <1>2, <1>3, OthersKeep DEF PayrollRunsNext

\* What the handlers know of a run is true in every reachable state.
THEOREM RunsInvariant == PayrollRunsSpec => []RunsInv
<1>1. PayrollRunsInit => RunsInv
  BY RunsInvInit
<1>2. RunsInv /\ [PayrollRunsNext]_runVars => RunsInv'
  BY RunsInvStep
<1>3. QED BY <1>1, <1>2, PTL DEF PayrollRunsSpec

\* The rows of a run, its intents and the chain have the types declared.
THEOREM PayrollRunsTypeCorrect == PayrollRunsSpec => []PayrollRunsTypeOK
<1>1. RunsInv => PayrollRunsTypeOK
  <2> SUFFICES ASSUME RunsInv PROVE PayrollRunsTypeOK
    OBVIOUS
  <2>1. IntentsTypeOK(RunCall)
    BY IntentsTyped DEF RunsInv
  <2>2. RunCall \subseteq Call
    BY PayrollRunsAssumption DEF RunCall, Call, Chunks
  <2>3. IntentsTypeOK(Call)
    BY <2>1, <2>2 DEF IntentsTypeOK
  <2>4. QED BY <2>3 DEF RunsInv, OnChainInv, PayrollRunsTypeOK
<1>2. QED BY <1>1, RunsInvariant, PTL

\* reconcileChunk marks PAID nothing the chain did not pay, however many
\* requests and transactions are under way.
THEOREM PaidIsPaid == PayrollRunsSpec => []PaidOnChain
<1>1. RunsInv => PaidOnChain
  BY DEF RunsInv
<1>2. QED BY <1>1, RunsInvariant, PTL

\* finalizeRunIfComplete finishes no run with an item left to pay.
THEOREM FinishedIsDone == PayrollRunsSpec => []FinishedHasNoPending
<1>1. RunsInv => FinishedHasNoPending
  BY DEF RunsInv
<1>2. QED BY <1>1, RunsInvariant, PTL

-----------------------------------------------------------------------------
(***************************************************************************)
(* Requests that take turns.                                               *)
(***************************************************************************)
LEMMA ChunkTyped ==
    ASSUME RunsInv, NEW i \in DOMAIN intents
    PROVE  ItemsOf(i) \in SUBSET Item /\ ChunkOf(i) \in Chunks /\ ChunkOf(i) \in Nat
<1>1. intents[i] \in Intent(RunCall, {Founder})
  BY IntentTyped DEF RunsInv
<1>2. ItemsOf(i) \in SUBSET Item /\ ChunkOf(i) \in Chunks
  BY <1>1 DEF Intent, RunCall, ItemsOf, ChunkOf
<1>3. QED BY <1>2, PayrollRunsAssumption DEF Chunks

\* No item is in two chunks that were executed.
LEMMA OneChunkOnly ==
    ASSUME RunsInv, TurnsInv, NEW i \in Successful, NEW j \in Successful,
           NEW x, x \in ItemsOf(i), x \in ItemsOf(j)
    PROVE  i = j
<1>1. ChunkOf(i) \in Nat /\ ChunkOf(j) \in Nat
  BY ChunkTyped DEF Successful
<1>2. Clear(ItemsOf(i), ChunkOf(i)) /\ Clear(ItemsOf(j), ChunkOf(j))
  BY DEF TurnsInv, Successful
<1>3. ~(ChunkOf(i) < ChunkOf(j)) /\ ~(ChunkOf(j) < ChunkOf(i))
  BY <1>2 DEF Clear
<1>4. ChunkOf(i) = ChunkOf(j)
  BY <1>1, <1>3
<1>5. QED BY <1>4 DEF TurnsInv, ExecutedOnce

\* Nothing is executed, built or marked.
LEMMA TurnsInvInit ==
    ASSUME OneRequest, PayrollRunsInit PROVE TurnsInv
<1>1. /\ intents = <<>> /\ runStatus = "DRAFT" /\ itemStatus = [i \in Item |-> "PENDING"]
      /\ requests = [q \in Slots |-> Idle] /\ executedRun = [id \in OrgId |-> {}]
  BY DEF PayrollRunsInit, IntentsInit, PayrollInit
<1>2. Successful = {} /\ Marked = {} /\ executedRun[TheOrg] = {} /\ Done = {}
  BY <1>1, HomeId DEF Successful, Marked, Pending, Done
<1>3. Cardinality(Marked) = 0 /\ itemStatus \in [Item -> ItemStatus]
  BY <1>1, <1>2, FS_EmptySet DEF ItemStatus
<1>4. ChunkIndex = 0
  <2>1. 0 \div ChunkSize = 0
    BY PayrollRunsAssumption
  <2>2. QED BY <1>3, <2>1, IndexFromMarked
<1>5. ExecutedOnce /\ MarkedTruly
  BY <1>2 DEF ExecutedOnce, MarkedTruly
<1>6. CountersExact
  BY <1>2, <1>3, <1>4, PayrollRunsAssumption DEF CountersExact
<1>7. \A q \in Slots : TurnKnows(q)
  BY <1>1 DEF TurnKnows, Idle, Building
<1>8. runStatus \notin FinalStatus /\ DOMAIN intents = {}
  BY <1>1 DEF FinalStatus
<1>9. QED BY <1>5, <1>6, <1>7, <1>8 DEF TurnsInv

\* A step that executes nothing and marks nothing leaves the chunks as clear
\* as they were.
LEMMA ChunksUntouched ==
    ASSUME IntentsKept, NoneConfirmed, UNCHANGED <<itemStatus, executedRun, payrollResult>>,
           ExecutedOnce, CountersExact, MarkedTruly
    PROVE  /\ ExecutedOnce' /\ CountersExact' /\ MarkedTruly'
           /\ \A items, chunk : Clear(items, chunk) => Clear(items, chunk)'
           /\ Pending' = Pending /\ OverallStatus' = OverallStatus
<1>1. Successful' = Successful
  BY DEF Successful, IntentsKept, NoneConfirmed
<1>2. \A i \in Successful : ItemsOf(i)' = ItemsOf(i) /\ ChunkOf(i)' = ChunkOf(i)
  BY DEF Successful, IntentsKept, ItemsOf, ChunkOf
<1>3. /\ Pending' = Pending /\ Marked' = Marked /\ ChunkIndex' = ChunkIndex
      /\ OverallStatus' = OverallStatus
  BY DEF Pending, Marked, ChunkIndex, CountOf, OverallStatus
<1>4. Done' = Done
  BY <1>1, <1>2, <1>3 DEF Done
<1>5. ExecutedOnce'
  BY <1>1, <1>2 DEF ExecutedOnce
<1>6. CountersExact'
  BY <1>1, <1>2, <1>3, <1>4 DEF CountersExact
<1>7. MarkedTruly'
  BY <1>1, <1>2, <1>3 DEF MarkedTruly, Verdict
<1>8. \A items, chunk : Clear(items, chunk) => Clear(items, chunk)'
  BY <1>1, <1>2, <1>3 DEF Clear
<1>9. QED BY <1>3, <1>5, <1>6, <1>7, <1>8

\* What the one handler leaves to show that executes and marks nothing.
LEMMA TurnStep ==
    ASSUME TurnsInv, NEW p \in Slots, Slots = {p},
           UNCHANGED <<chainVars, itemStatus>>, IntentsKept, NoneConfirmed,
           \A i \in DOMAIN intents' \ DOMAIN intents : Clear(ItemsOf(i)', ChunkOf(i)'),
           TurnKnows(p)',
           runStatus' = runStatus \/ runStatus' \notin FinalStatus \/ runStatus' = OverallStatus
    PROVE  TurnsInv'
<1>1. UNCHANGED <<executedRun, payrollResult>>
  BY DEF chainVars, payrollVars
<1>2. /\ ExecutedOnce' /\ CountersExact' /\ MarkedTruly' /\ OverallStatus' = OverallStatus
      /\ \A items, chunk : Clear(items, chunk) => Clear(items, chunk)'
  BY <1>1, ChunksUntouched DEF TurnsInv
<1>3. \A i \in DOMAIN intents : ItemsOf(i)' = ItemsOf(i) /\ ChunkOf(i)' = ChunkOf(i)
  BY DEF IntentsKept, ItemsOf, ChunkOf
<1>4. ASSUME NEW i \in DOMAIN intents' PROVE Clear(ItemsOf(i), ChunkOf(i))'
  <2>1. PICK items, chunk : items = ItemsOf(i)' /\ chunk = ChunkOf(i)'
    OBVIOUS
  <2>2. Clear(items, chunk)
    BY <1>3, <2>1 DEF TurnsInv
  <2>3. Clear(items, chunk)'
    BY <1>2, <2>2
  <2>4. QED BY <2>1, <2>3 DEF Clear
<1>5. runStatus' \in FinalStatus => runStatus' = OverallStatus'
  BY <1>2 DEF TurnsInv
<1>6. QED BY <1>2, <1>4, <1>5 DEF TurnsInv

\* The same for one that leaves the intents alone and goes on as r.
LEMMA TurnAwait ==
    ASSUME RunsInv, TurnsInv, NEW p \in Slots, Slots = {p}, NEW r, Await(p, r),
           UNCHANGED <<chainVars, itemStatus, intents>>,
           /\ r.pc = "schedule" => runStatus' = "DRAFT"
           /\ r.pc \in {"pending", "count"} \cup Building =>
                  r.seen = runStatus' /\ runStatus' \notin FinalStatus
           /\ r.pc = "count" => r.items \subseteq Pending /\ Cardinality(r.items) <= ChunkSize
           /\ r.pc \in Building => Clear(r.items, r.chunk)
           /\ r.pc = "finalize" => r.status = OverallStatus,
           runStatus' = runStatus \/ runStatus' \notin FinalStatus \/ runStatus' = OverallStatus
    PROVE  TurnsInv'
<1>1. requests'[p] = r
  BY DEF Await, RunsInv, IntentsInv
<1>2. IntentsKept /\ NoneConfirmed
  BY DEF IntentsKept, NoneConfirmed, Confirmed
<1>3. UNCHANGED <<executedRun, payrollResult>>
  BY DEF chainVars, payrollVars
<1>4. /\ Pending' = Pending /\ OverallStatus' = OverallStatus
      /\ Clear(r.items, r.chunk) => Clear(r.items, r.chunk)'
  BY <1>2, <1>3, ChunksUntouched DEF TurnsInv
<1>5. TurnKnows(p)'
  BY <1>1, <1>4 DEF TurnKnows, Clear
<1>6. QED BY <1>2, <1>5, TurnStep

\* A handler that ends.
LEMMA TurnEnds ==
    ASSUME RunsInv, TurnsInv, NEW p \in Slots, Slots = {p}, Answer(p),
           UNCHANGED <<chainVars, itemStatus, intents>>,
           runStatus' = runStatus \/ runStatus' \notin FinalStatus \/ runStatus' = OverallStatus
    PROVE  TurnsInv'
<1>1. Await(p, Idle) /\ Idle.pc = "idle"
  BY DEF Answer, Idle
<1>2. QED BY <1>1, TurnAwait DEF Building

\* schedule, with no other request under way.
LEMMA ScheduleInTurn ==
    ASSUME RunsInv, TurnsInv, NEW p \in Slots, Slots = {p}, ScheduleRead(p) \/ ScheduleWrite(p)
    PROVE  TurnsInv'
<1>1. CASE ScheduleRead(p)
  <2>1. /\ Await(p, [pc |-> "schedule"]) /\ runStatus = "DRAFT"
        /\ UNCHANGED <<chainVars, runStatus, itemStatus, intents>>
    BY <1>1 DEF ScheduleRead, dbVars
  <2>2. QED BY <2>1, TurnAwait DEF Building
<1>2. CASE ScheduleWrite(p)
  BY <1>2, TurnEnds DEF ScheduleWrite, FinalStatus
<1>3. QED BY <1>1, <1>2

\* The items of a chunk are those pending when it is picked, so they keep
\* clear of every chunk the counters have gone past.
LEMMA ReadsInTurn ==
    ASSUME RunsInv, TurnsInv, NEW p \in Slots, Slots = {p},
           BuildReadRun(p) \/ BuildFindPending(p) \/ BuildCount(p)
    PROVE  TurnsInv'
<1>1. UNCHANGED <<chainVars, runStatus, itemStatus, intents>> /\ TurnKnows(p)
  BY DEF BuildReadRun, BuildFindPending, BuildCount, dbVars, TurnsInv
<1>2. CASE BuildReadRun(p)
  <2>1. /\ Await(p, [pc |-> "pending", seen |-> runStatus])
        /\ runStatus \notin FinalStatus
    BY <1>2 DEF BuildReadRun, FinalStatus
  <2>2. QED BY <1>1, <2>1, TurnAwait DEF Building
<1>3. CASE BuildFindPending(p) /\ ~Answer(p)
  <2>1. requests[p].pc = "pending"
    BY <1>3 DEF BuildFindPending, At
  <2>2. PICK chunk \in PendingChunks :
            Await(p, [pc |-> "count", seen |-> requests[p].seen, items |-> chunk])
    BY <1>3 DEF BuildFindPending
  <2>3. Cardinality(chunk) <= ChunkSize /\ chunk \subseteq Pending
    BY <2>2, PayrollRunsAssumption DEF PendingChunks
  <2>4. requests[p].seen = runStatus /\ runStatus \notin FinalStatus
    BY <1>1, <2>1 DEF TurnKnows
  <2>5. QED BY <1>1, <2>2, <2>3, <2>4, TurnAwait DEF Building
<1>4. CASE BuildCount(p)
  <2>1. /\ requests[p].pc = "count"
        /\ Await(p, [pc |-> "balance", seen |-> requests[p].seen,
                     items |-> requests[p].items, chunk |-> ChunkIndex])
    BY <1>4 DEF BuildCount, At
  <2>2. /\ requests[p].seen = runStatus /\ runStatus \notin FinalStatus
        /\ requests[p].items \subseteq Pending /\ Cardinality(requests[p].items) <= ChunkSize
    BY <1>1, <2>1 DEF TurnKnows
  <2>3. Clear(requests[p].items, ChunkIndex)
    <3>1. ChunkIndex <= ChunkIndex
      BY IndexFromMarked, PayrollRunsAssumption DEF RunsInv, Chunks
    <3>2. ASSUME NEW i \in Successful, ChunkOf(i) < ChunkIndex
          PROVE  ItemsOf(i) \cap requests[p].items = {}
      <4>1. ItemsOf(i) \subseteq Item
        BY ChunkTyped DEF Successful
      <4>2. ItemsOf(i) \subseteq Done
        BY <3>2, <4>1 DEF Done
      <4>3. ItemsOf(i) \subseteq Marked
        BY <4>2 DEF TurnsInv, CountersExact
      <4>4. QED BY <2>2, <4>3 DEF Marked
    <3>3. QED BY <2>2, <3>1, <3>2 DEF Clear
  <2> DEFINE r == [pc |-> "balance", seen |-> requests[p].seen,
                   items |-> requests[p].items, chunk |-> ChunkIndex]
  <2>4. PICK x : x = r
    OBVIOUS
  <2>5. x.pc = "balance" /\ x.seen = requests[p].seen
        /\ x.items = requests[p].items /\ x.chunk = ChunkIndex
    BY <2>4
  <2>6. Await(p, x)
    BY <2>1, <2>4
  <2> HIDE DEF r
  <2>7. QED BY <1>1, <2>2, <2>3, <2>5, <2>6, TurnAwait DEF Building
<1>5. CASE Answer(p)
  BY <1>1, <1>5, TurnEnds
<1>6. QED BY <1>2, <1>3, <1>4, <1>5

\* The checks of a build, with no other request under way.
LEMMA ChecksInTurn ==
    ASSUME RunsInv, TurnsInv, NEW p \in Slots, Slots = {p}, CheckBalance(p) \/ Simulate(p)
    PROVE  TurnsInv'
<1>1. UNCHANGED <<chainVars, runStatus, itemStatus, intents>> /\ TurnKnows(p) /\ HandlerKnows(p)
  BY DEF CheckBalance, Simulate, dbVars, TurnsInv, RunsInv
<1>2. requests[p] \in BuildState
  BY <1>1 DEF HandlerKnows, Building, CheckBalance, Simulate, At
<1>3. /\ requests[p].seen = runStatus /\ runStatus \notin FinalStatus
      /\ Clear(requests[p].items, requests[p].chunk)
  BY <1>1, <1>2 DEF TurnKnows, BuildState
<1>4. \/ Answer(p)
      \/ \E pc \in {"simulate", "answer"} : Await(p, [requests[p] EXCEPT !.pc = pc])
  BY DEF CheckBalance, Simulate
<1>5. ASSUME NEW pc \in {"simulate", "answer"}, Await(p, [requests[p] EXCEPT !.pc = pc])
      PROVE  TurnsInv'
  <2>1. PICK x : x = [requests[p] EXCEPT !.pc = pc]
    OBVIOUS
  <2>2. /\ x.pc = pc /\ x.seen = requests[p].seen
        /\ x.items = requests[p].items /\ x.chunk = requests[p].chunk
    BY <1>2, <2>1 DEF BuildState
  <2>3. Await(p, x)
    BY <1>5, <2>1
  <2>4. QED BY <1>1, <1>3, <2>2, <2>3, TurnAwait DEF Building
<1>6. CASE Answer(p)
  BY <1>1, <1>6, TurnEnds
<1>7. QED BY <1>4, <1>5, <1>6

\* The intent is kept: its chunk and its items were counted just before.
LEMMA AnswerInTurn ==
    ASSUME RunsInv, TurnsInv, NEW p \in Slots, Slots = {p}, BuildAnswer(p) PROVE TurnsInv'
<1>1. PICK call : call = [items |-> requests[p].items, chunk |-> requests[p].chunk]
  OBVIOUS
<1>2. /\ requests[p].pc = "answer" /\ Create(call, Founder) /\ Answer(p)
      /\ UNCHANGED <<chainVars, itemStatus>>
      /\ runStatus' \in {runStatus, "EXECUTING"}
  BY <1>1 DEF BuildAnswer, At
<1>3. requests[p] \in BuildState /\ Clear(requests[p].items, requests[p].chunk)
  BY <1>2 DEF RunsInv, HandlerKnows, TurnsInv, TurnKnows, Building
<1>4. call \in RunCall /\ Clear(call.items, call.chunk)
  BY <1>1, <1>3 DEF BuildState, RunCall
<1>5. /\ DOMAIN intents' = DOMAIN intents \cup {Len(intents) + 1}
      /\ intents'[Len(intents) + 1].call = call
  <2>1. IntentsInv(RunCall, {Founder}) /\ Founder \in {Founder}
    BY DEF RunsInv
  <2>2. call \in RunCall /\ Create(call, Founder)
    BY <1>2, <1>4
  <2>3. LET new == intents'[Len(intents) + 1]
        IN  new.call = call /\ new.signer = Founder /\ new.tx = "unsent"
    BY <2>1, <2>2, CreateAppends
  <2>4. DOMAIN intents' = DOMAIN intents \cup {Len(intents) + 1}
    BY <2>1, <2>2, CreateAppends
  <2>5. QED BY <2>3, <2>4
<1>6. IntentsKept /\ NoneConfirmed
  BY <1>2, <1>4, CreateKeepsIntents DEF RunsInv
<1>7. \A i \in DOMAIN intents' \ DOMAIN intents : Clear(ItemsOf(i)', ChunkOf(i)')
  BY <1>4, <1>5 DEF ItemsOf, ChunkOf
<1>8. TurnKnows(p)'
  BY <1>2 DEF Answer, Await, RunsInv, IntentsInv, TurnKnows, Idle, Building
<1>9. runStatus' = runStatus \/ runStatus' \notin FinalStatus
  BY <1>2 DEF FinalStatus
<1>10. QED BY <1>2, <1>6, <1>7, <1>8, <1>9, TurnStep

\* The submit endpoint, with no other request under way.
LEMMA SubmitInTurn ==
    ASSUME RunsInv, TurnsInv, NEW p \in Slots, Slots = {p}, Submit(p) PROVE TurnsInv'
<1>1. SubmitStep(p) /\ UNCHANGED <<chainVars, runStatus, itemStatus>>
  BY DEF Submit, dbVars
<1>2. /\ IntentsKept /\ NoneConfirmed /\ DOMAIN intents' = DOMAIN intents
      /\ requests'[p].pc \in {"idle"} \cup Submitting
  BY <1>1, SubmitKeepsIntents DEF RunsInv
<1>3. TurnKnows(p)'
  BY <1>2 DEF TurnKnows, Submitting, Building
<1>4. QED BY <1>1, <1>2, <1>3, TurnStep

\* The handler waits for its chunk, then counts the items and ends.
LEMMA WaitInTurn ==
    ASSUME RunsInv, TurnsInv, NEW p \in Slots, Slots = {p}, Wait(p) \/ Tally(p) \/ Finalize(p)
    PROVE  TurnsInv'
<1>1. CASE Wait(p)
  <2>1. UNCHANGED <<chainVars, runStatus, itemStatus, intents>>
    BY <1>1 DEF Wait, dbVars
  <2>2. QED BY <1>1, <2>1, TurnAwait DEF Wait, Building
<1>2. CASE Tally(p)
  <2>1. UNCHANGED <<chainVars, runStatus, itemStatus, intents>>
    BY <1>2 DEF Tally, dbVars
  <2>2. Answer(p) \/ Await(p, [pc |-> "finalize", status |-> OverallStatus])
    BY <1>2 DEF Tally
  <2>3. QED BY <2>1, <2>2, TurnEnds, TurnAwait DEF Building
<1>3. CASE Finalize(p)
  <2>1. runStatus' = OverallStatus
    BY <1>3 DEF Finalize, At, TurnsInv, TurnKnows
  <2>2. QED BY <1>3, <2>1, TurnEnds DEF Finalize
<1>4. QED BY <1>1, <1>2, <1>3

\* A mark that repeats an earlier one says the same again.
LEMMA MarkedAgain ==
    ASSUME RunsInv, TurnsInv, NEW i \in Successful, NEW x \in Marked, x \in ItemsOf(i)
    PROVE  itemStatus[x] = Verdict(ChunkOf(i), x)
<1>1. PICK j \in Successful : x \in ItemsOf(j) /\ itemStatus[x] = Verdict(ChunkOf(j), x)
  BY DEF TurnsInv, MarkedTruly
<1>2. QED BY <1>1, OneChunkOnly

\* The count of chunks the counters have gone past.
LEMMA IndexBounds ==
    ASSUME itemStatus \in [Item -> ItemStatus]
    PROVE  /\ ChunkIndex \in Nat
           /\ ChunkIndex * ChunkSize <= Cardinality(Marked)
           /\ Cardinality(Marked) < (ChunkIndex + 1) * ChunkSize
<1>1. PICK n \in Nat : n = Cardinality(Marked)
  BY IndexFromMarked
<1>2. PICK m \in Nat : m = ChunkSize /\ m > 0
  BY PayrollRunsAssumption
<1>3. ChunkIndex = n \div m
  BY <1>1, <1>2, IndexFromMarked
<1>4. n \div m \in Nat /\ (n \div m) * m <= n /\ n < (n \div m) * m + m
  BY <1>2
<1>5. PICK q \in Nat : q = n \div m
  BY <1>4
<1>6. (q + 1) * m = q * m + m
  BY <1>2
<1>7. QED BY <1>1, <1>2, <1>3, <1>4, <1>5, <1>6

\* The mark of an item not marked yet moves the count by one at most, and
\* past the chunk only when all of the chunk is marked.
LEMMA MarkCounts ==
    ASSUME itemStatus \in [Item -> ItemStatus], itemStatus' \in [Item -> ItemStatus],
           NEW x \in Item \ Marked, Marked' = Marked \cup {x}
    PROVE  /\ Cardinality(Marked') = Cardinality(Marked) + 1
           /\ \/ ChunkIndex' = ChunkIndex
              \/ /\ ChunkIndex' = ChunkIndex + 1
                 /\ Cardinality(Marked') = (ChunkIndex + 1) * ChunkSize
<1>1. /\ IsFiniteSet(Marked) /\ Cardinality(Marked) \in Nat
      /\ ChunkIndex = Cardinality(Marked) \div ChunkSize
  BY IndexFromMarked
<1>2. Cardinality(Marked') = Cardinality(Marked) + 1
  BY <1>1, FS_AddElement
<1>3. ChunkIndex' = Cardinality(Marked') \div ChunkSize
  <2>1. ChunkIndex' = (Cardinality({i \in Item : itemStatus'[i] = "PAID"})
                       + Cardinality({i \in Item : itemStatus'[i] = "FAILED"})) \div ChunkSize
    BY DEF ChunkIndex, CountOf
  <2>2. {i \in Item : itemStatus'[i] = "PAID"} \cup {i \in Item : itemStatus'[i] = "FAILED"}
            = Marked'
    BY DEF Marked, Pending, ItemStatus
  <2>3. IsFiniteSet(Marked')
    BY <1>1, FS_AddElement
  <2>4. /\ IsFiniteSet({i \in Item : itemStatus'[i] = "PAID"})
        /\ IsFiniteSet({i \in Item : itemStatus'[i] = "FAILED"})
    BY <2>2, <2>3, FS_Subset
  <2>5. {i \in Item : itemStatus'[i] = "PAID"} \cap {i \in Item : itemStatus'[i] = "FAILED"} = {}
    OBVIOUS
  <2>6. Cardinality(Marked') = Cardinality({i \in Item : itemStatus'[i] = "PAID"})
                               + Cardinality({i \in Item : itemStatus'[i] = "FAILED"})
    <3> DEFINE paid == {i \in Item : itemStatus'[i] = "PAID"}
               failed == {i \in Item : itemStatus'[i] = "FAILED"}
    <3>1. Cardinality(paid \cup failed) =
              Cardinality(paid) + Cardinality(failed) - Cardinality(paid \cap failed)
      BY <2>4, FS_Union
    <3>2. Cardinality(paid \cap failed) = 0
      BY <2>5, FS_EmptySet
    <3>3. Cardinality(paid) \in Nat /\ Cardinality(failed) \in Nat
      BY <2>4, FS_CardinalityType
    <3>4. QED BY <2>2, <3>1, <3>2, <3>3
  <2>7. QED BY <2>1, <2>6
<1>4. \A n, m \in Nat : m > 0 =>
          \/ (n + 1) \div m = n \div m
          \/ (n + 1) \div m = n \div m + 1 /\ n + 1 = (n \div m + 1) * m
  <2> SUFFICES ASSUME NEW n \in Nat, NEW m \in Nat, m > 0
               PROVE  \/ (n + 1) \div m = n \div m
                      \/ (n + 1) \div m = n \div m + 1 /\ n + 1 = (n \div m + 1) * m
    OBVIOUS
  <2> DEFINE q == n \div m
             r == (n + 1) \div m
  <2>1. q \in Nat /\ q * m <= n /\ n < q * m + m
    OBVIOUS
  <2>2. r \in Nat /\ r * m <= n + 1 /\ n + 1 < r * m + m
    OBVIOUS
  <2> HIDE DEF q, r
  <2>3. q <= r /\ r <= q + 1
    <3>1. ~(r < q)
      BY <2>1, <2>2
    <3>2. ~(r > q + 1)
      BY <2>1, <2>2
    <3>3. QED BY <2>1, <2>2, <3>1, <3>2
  <2>4. r = q + 1 => n + 1 = (q + 1) * m
    BY <2>1, <2>2
  <2>5. r = q \/ r = q + 1
    BY <2>1, <2>2, <2>3
  <2>6. QED BY <2>4, <2>5 DEF q, r
<1>5. PICK n \in Nat, m \in Nat : n = Cardinality(Marked) /\ m = ChunkSize /\ m > 0
  BY <1>1, PayrollRunsAssumption
<1>6. Cardinality(Marked') = n + 1 /\ ChunkIndex = n \div m /\ ChunkIndex' = (n + 1) \div m
  BY <1>1, <1>2, <1>3, <1>5
<1>7. \/ (n + 1) \div m = n \div m
      \/ (n + 1) \div m = n \div m + 1 /\ n + 1 = (n \div m + 1) * m
  BY <1>4, <1>5
<1>8. QED BY <1>2, <1>5, <1>6, <1>7

\* The mark of an item not marked yet belongs to the chunk the counters are
\* at.  They pass it with its last item, and then all it holds is marked.
LEMMA MarkAdvances ==
    ASSUME RunsInv, TurnsInv, itemStatus' \in [Item -> ItemStatus],
           UNCHANGED <<intents, executedRun, payrollResult>>,
           NEW i \in Successful, NEW x \in ItemsOf(i), x \in Item \ Marked,
           itemStatus' = [itemStatus EXCEPT ![x] = Verdict(ChunkOf(i), x)]
    PROVE  /\ ChunkIndex \in Nat /\ ChunkIndex' \in Nat /\ ChunkIndex <= ChunkIndex'
           /\ CountersExact' /\ MarkedTruly'
<1>1. /\ itemStatus \in [Item -> ItemStatus] /\ Verdict(ChunkOf(i), x) # "PENDING"
      /\ ExecutedOnce /\ CountersExact /\ MarkedTruly
  BY VerdictTrue DEF RunsInv, TurnsInv
<1>2. Marked' = Marked \cup {x} /\ itemStatus'[x] = Verdict(ChunkOf(i), x)
      /\ \A y \in Item \ {x} : itemStatus'[y] = itemStatus[y]
  BY <1>1 DEF Marked, Pending
<1>3. /\ Successful' = Successful
      /\ \A j \in Successful : ItemsOf(j)' = ItemsOf(j) /\ ChunkOf(j)' = ChunkOf(j)
      /\ \A c, y : Verdict(c, y)' = Verdict(c, y)
  BY DEF Successful, Confirmed, ItemsOf, ChunkOf, Verdict
<1>4. \A j \in Successful : ItemsOf(j) \subseteq Item /\ ChunkOf(j) \in Nat
  BY ChunkTyped DEF Successful
<1>5. PICK n \in Nat : n = ChunkIndex
  BY <1>1, IndexBounds
<1>6. ChunkOf(i) = n
  <2>1. ChunkOf(i) <= n
    BY <1>5 DEF TurnsInv, Clear, Successful
  <2>2. ~(ChunkOf(i) < n)
    BY <1>1, <1>5 DEF Done, CountersExact
  <2>3. QED BY <1>4, <1>5, <2>1, <2>2
<1>7. /\ Cardinality(Marked') = Cardinality(Marked) + 1
      /\ \/ ChunkIndex' = n
         \/ ChunkIndex' = n + 1 /\ Cardinality(Marked') = (n + 1) * ChunkSize
  BY <1>1, <1>2, <1>5, MarkCounts
<1>8. MarkedTruly'
  <2>1. ASSUME NEW y \in Marked, y # x
        PROVE  \E j \in Successful : y \in ItemsOf(j) /\ itemStatus'[y] = Verdict(ChunkOf(j), y)
    <3>1. y \in Item
      BY DEF Marked
    <3>2. QED BY <1>1, <1>2, <2>1, <3>1 DEF MarkedTruly
  <2>2. \A y \in Marked \cup {x} : \E j \in Successful :
            y \in ItemsOf(j) /\ itemStatus'[y] = Verdict(ChunkOf(j), y)
    BY <1>2, <2>1
  <2>3. QED BY <1>2, <1>3, <2>2 DEF MarkedTruly
<1>9. \A y \in Marked' \ Done : y \in ItemsOf(i)
  <2>1. ASSUME NEW y \in Marked \ Done PROVE y \in ItemsOf(i)
    <3>1. PICK j \in Successful : ChunkOf(j) = n /\ y \in ItemsOf(j)
      BY <1>1, <1>5 DEF CountersExact
    <3>2. j = i
      BY <1>1, <1>6, <3>1 DEF ExecutedOnce
    <3>3. QED BY <3>1, <3>2
  <2>2. QED BY <1>2, <2>1
<1>10. CASE ChunkIndex' = n
  <2>1. Done' = Done
    BY <1>3, <1>5, <1>10 DEF Done
  <2>2. CountersExact'
    BY <1>1, <1>2, <1>3, <1>5, <1>6, <1>9, <1>10, <2>1 DEF CountersExact
  <2>3. QED BY <1>5, <1>8, <1>10, <2>2
<1>11. CASE ChunkIndex' = n + 1 /\ Cardinality(Marked') = (n + 1) * ChunkSize
  <2>1. Done' = Done \cup ItemsOf(i)
    <3>1. \A j \in Successful : ChunkOf(j) < n + 1 <=> ChunkOf(j) < n \/ j = i
      BY <1>1, <1>4, <1>6 DEF ExecutedOnce
    <3>2. Done' = {y \in Item : \E j \in Successful : ChunkOf(j) < n + 1 /\ y \in ItemsOf(j)}
      BY <1>3, <1>11 DEF Done
    <3>3. QED BY <1>4, <1>5, <3>1, <3>2 DEF Done
  <2>2. Marked' \subseteq Done \cup ItemsOf(i)
    BY <1>9
  <2>3. Done \cup ItemsOf(i) = Marked'
    <3>1. /\ IsFiniteSet(Item) /\ Done \subseteq Item /\ ItemsOf(i) \subseteq Item
      BY <1>1, <1>4, IndexFromMarked DEF Done
    <3>2. IsFiniteSet(Done) /\ IsFiniteSet(ItemsOf(i)) /\ IsFiniteSet(Done \cup ItemsOf(i))
      BY <3>1, FS_Subset
    <3>3. /\ Cardinality(Done) \in Nat /\ Cardinality(ItemsOf(i)) \in Nat
          /\ Cardinality(Done \cap ItemsOf(i)) \in Nat
          /\ Cardinality(Done \cup ItemsOf(i)) \in Nat
      <4>1. IsFiniteSet(Done \cap ItemsOf(i))
        BY <3>2, FS_Subset
      <4>2. QED BY <3>2, <4>1, FS_CardinalityType
    <3>4. Cardinality(Done \cup ItemsOf(i)) =
              Cardinality(Done) + Cardinality(ItemsOf(i)) - Cardinality(Done \cap ItemsOf(i))
      BY <3>2, FS_Union
    <3>5. Cardinality(Done) = n * ChunkSize /\ Cardinality(ItemsOf(i)) <= ChunkSize
      BY <1>1, <1>5 DEF CountersExact, TurnsInv, Clear, Successful
    <3>6. Cardinality(Done \cup ItemsOf(i)) <= (n + 1) * ChunkSize
      <4>1. (n + 1) * ChunkSize = n * ChunkSize + ChunkSize /\ n * ChunkSize \in Nat
        BY PayrollRunsAssumption
      <4>2. QED BY <3>3, <3>4, <3>5, <4>1, PayrollRunsAssumption
    <3>7. Cardinality(Marked') <= Cardinality(Done \cup ItemsOf(i))
      BY <2>2, <3>2, FS_Subset
    <3>8. Cardinality(Marked') = Cardinality(Done \cup ItemsOf(i))
      <4>1. Cardinality(Marked') \in Nat
        BY <2>2, <3>2, FS_Subset, FS_CardinalityType
      <4>2. QED BY <1>11, <3>3, <3>6, <3>7, <4>1
    <3>9. QED BY <2>2, <3>2, <3>8, FS_Subset
  <2>4. \A run \in 0 .. n : run \in executedRun[TheOrg]
    <3>1. \A run \in 0 .. n - 1 : run \in executedRun[TheOrg]
      BY <1>1, <1>5 DEF CountersExact
    <3>2. n \in executedRun[TheOrg]
      BY <1>6 DEF RunsInv, ConfirmedExecuted, Successful, ChunkOf
    <3>3. QED BY <1>5, <3>1, <3>2
  <2>5. (n + 1) - 1 = n
    OBVIOUS
  <2>6. CountersExact'
    BY <1>11, <2>1, <2>3, <2>4, <2>5 DEF CountersExact
  <2>7. QED BY <1>5, <1>8, <1>11, <2>6
<1>12. QED BY <1>7, <1>10, <1>11

\* Each item marked is one of the chunk that executed.
LEMMA MarkInTurn ==
    ASSUME RunsInv, RunsInv', TurnsInv, NEW p \in Slots, Slots = {p}, MarkItem(p)
    PROVE  TurnsInv'
<1>1. /\ UNCHANGED <<chainVars, runStatus, intents, executedRun, payrollResult>>
      /\ requests[p].pc = "mark"
  BY DEF MarkItem, At, chainVars, payrollVars
<1>2. /\ requests[p] \in MarkState /\ Confirmed(requests[p].intent)
      /\ requests[p].left \subseteq intents[requests[p].intent].call.items
  BY <1>1 DEF RunsInv, HandlerKnows
<1>3. PICK i \in Successful : i = requests[p].intent
  BY <1>2 DEF MarkState, Successful
<1>4. CASE Await(p, [pc |-> "tally"]) /\ UNCHANGED itemStatus
  BY <1>1, <1>4, TurnAwait DEF Building
<1>5. ASSUME NEW x \in requests[p].left,
             itemStatus' = [itemStatus EXCEPT ![x] = Verdict(ChunkOf(i), x)],
             Await(p, [requests[p] EXCEPT !.left = @ \ {x}])
      PROVE  TurnsInv'
  <2>1. PICK r : r = [requests[p] EXCEPT !.left = @ \ {x}]
    OBVIOUS
  <2>2. r.pc = "mark" /\ Await(p, r)
    BY <1>2, <1>5, <2>1 DEF MarkState
  <2>3. x \in ItemsOf(i) /\ x \in Item
    BY <1>2, <1>3, <1>5 DEF ItemsOf, MarkState
  <2>4. CASE x \in Marked
    <3>1. itemStatus[x] = Verdict(ChunkOf(i), x)
      BY <2>3, <2>4, MarkedAgain
    <3>2. itemStatus' = itemStatus
      BY <1>5, <3>1 DEF RunsInv
    <3>3. QED BY <1>1, <2>2, <3>2, TurnAwait DEF Building
  <2>5. CASE x \in Item \ Marked
    <3>1. /\ ChunkIndex \in Nat /\ ChunkIndex' \in Nat /\ ChunkIndex <= ChunkIndex'
          /\ CountersExact' /\ MarkedTruly'
      <4>1. itemStatus' \in [Item -> ItemStatus]
        BY DEF RunsInv
      <4>2. QED BY <1>1, <1>5, <2>3, <2>5, <4>1, MarkAdvances
    <3>2. runStatus' \notin FinalStatus
      BY <1>1, <2>5 DEF RunsInv, FinishedHasNoPending, Marked
    <3>3. Successful' = Successful
      BY <1>1 DEF Successful, Confirmed
    <3>4. ExecutedOnce'
      BY <1>1, <3>3 DEF TurnsInv, ExecutedOnce, ItemsOf, ChunkOf
    <3>5. ASSUME NEW j \in DOMAIN intents PROVE Clear(ItemsOf(j), ChunkOf(j))'
      <4>1. ChunkOf(j) <= ChunkIndex /\ ChunkOf(j) \in Nat
        BY ChunkTyped DEF TurnsInv, Clear
      <4>2. ChunkOf(j) <= ChunkIndex'
        BY <3>1, <4>1
      <4>3. QED BY <1>1, <3>3, <4>2 DEF TurnsInv, Clear, ItemsOf, ChunkOf
    <3>6. requests'[p] = r
      BY <2>2 DEF Await, RunsInv, IntentsInv
    <3>7. TurnKnows(p)'
      BY <2>2, <3>6 DEF TurnKnows, Building
    <3>8. QED BY <1>1, <3>1, <3>2, <3>4, <3>5, <3>7 DEF TurnsInv
  <2>6. QED BY <2>3, <2>4, <2>5
<1>6. QED BY <1>3, <1>4, <1>5 DEF MarkItem, ChunkOf

\* A step of the chain after which every chunk is as clear as it was.
LEMMA ChainInTurn ==
    ASSUME TurnsInv, UNCHANGED <<dbVars, requests>>,
           DOMAIN intents' = DOMAIN intents, IntentsKept,
           ExecutedOnce', CountersExact', MarkedTruly',
           \A items \in SUBSET Item, chunk \in Chunks :
               Clear(items, chunk) => Clear(items, chunk)',
           \A i \in DOMAIN intents : ItemsOf(i) \in SUBSET Item /\ ChunkOf(i) \in Chunks,
           \A p \in Slots : HandlerKnows(p)
    PROVE  TurnsInv'
<1>1. UNCHANGED <<runStatus, itemStatus>> /\ Pending' = Pending /\ OverallStatus' = OverallStatus
  BY DEF dbVars, Pending, OverallStatus, CountOf
<1>2. ASSUME NEW i \in DOMAIN intents PROVE Clear(ItemsOf(i), ChunkOf(i))'
  <2>1. PICK items \in SUBSET Item, chunk \in Chunks : items = ItemsOf(i) /\ chunk = ChunkOf(i)
    OBVIOUS
  <2>2. Clear(items, chunk)'
    BY <2>1 DEF TurnsInv
  <2>3. items = ItemsOf(i)' /\ chunk = ChunkOf(i)'
    BY <2>1 DEF IntentsKept, ItemsOf, ChunkOf
  <2>4. QED BY <2>2, <2>3 DEF Clear
<1>3. ASSUME NEW p \in Slots PROVE TurnKnows(p)'
  <2>1. ASSUME requests[p].pc \in Building PROVE Clear(requests[p].items, requests[p].chunk)'
    <3>1. requests[p] \in BuildState
      BY <2>1 DEF HandlerKnows
    <3>2. PICK items \in SUBSET Item, chunk \in Chunks :
              items = requests[p].items /\ chunk = requests[p].chunk
      BY <3>1 DEF BuildState
    <3>3. Clear(items, chunk)'
      BY <2>1, <3>2 DEF TurnsInv, TurnKnows
    <3>4. QED BY <3>2, <3>3 DEF Clear
  <2>2. QED BY <1>1, <2>1 DEF TurnsInv, TurnKnows
<1>4. QED BY <1>1, <1>2, <1>3 DEF TurnsInv

\* A step that leaves executed runs and rows alone.
LEMMA IdleChainInTurn ==
    ASSUME RunsInv, TurnsInv, UNCHANGED <<dbVars, requests, executedRun, payrollResult>>,
           DOMAIN intents' = DOMAIN intents, IntentsKept, NoneConfirmed
    PROVE  TurnsInv'
<1>1. itemStatus' = itemStatus
  BY DEF dbVars
<1>2. /\ ExecutedOnce' /\ CountersExact' /\ MarkedTruly'
      /\ \A items, chunk : Clear(items, chunk) => Clear(items, chunk)'
  BY <1>1, ChunksUntouched DEF TurnsInv
<1>3. \A i \in DOMAIN intents : ItemsOf(i) \in SUBSET Item /\ ChunkOf(i) \in Chunks
  BY ChunkTyped
<1>4. QED BY <1>2, <1>3, ChainInTurn DEF RunsInv

\* A chunk is executed only once those before it were, and it is then the one
\* the counters are at.
LEMMA ExecutedInTurn ==
    ASSUME RunsInv, TurnsInv, NEW i \in DOMAIN intents, UNCHANGED <<dbVars, requests>>,
           RunPayroll(Founder, TheOrg, ChunkOf(i), EmployeeIds(ItemsOf(i))),
           Settle(i, "SUCCESS", 0)
    PROVE  TurnsInv'
<1>1. ItemsOf(i) \in SUBSET Item /\ ChunkOf(i) \in Chunks /\ ChunkOf(i) \in Nat
  BY ChunkTyped
<1>2. PICK c \in Chunks, its \in SUBSET Item : c = ChunkOf(i) /\ its = ItemsOf(i) /\ c \in Nat
  BY <1>1
<1>3. /\ OnChainInv' /\ ResultsKept /\ c \notin executedRun[TheOrg]
      /\ executedRun'[TheOrg] = executedRun[TheOrg] \cup {c}
      /\ \A k \in DOMAIN payrollResult'[TheOrg][c] :
             payrollResult'[TheOrg][c][k].employee \in its
  <2>1. RunPayroll(Founder, TheOrg, c, EmployeeIds(its)) /\ OnChainInv
    BY <1>2 DEF RunsInv
  <2>2. QED BY <2>1, ChunkExecuted
<1>4. /\ IntentsKept /\ DOMAIN intents' = DOMAIN intents /\ intents'[i].tx = "SUCCESS"
      /\ \A j \in DOMAIN intents \ {i} : intents'[j] = intents[j]
  BY SettleKeepsIntents DEF RunsInv
<1>5. /\ Successful' = Successful \cup {i} /\ i \notin Successful
      /\ \A j \in DOMAIN intents : ItemsOf(j)' = ItemsOf(j) /\ ChunkOf(j)' = ChunkOf(j)
  BY <1>4 DEF Successful, Confirmed, IntentsKept, ItemsOf, ChunkOf, Settle
<1>6. /\ ExecutedOnce /\ CountersExact /\ MarkedTruly
      /\ \A j \in DOMAIN intents : Clear(ItemsOf(j), ChunkOf(j))
  BY DEF TurnsInv
<1>7. UNCHANGED <<runStatus, itemStatus>> /\ Marked' = Marked /\ ChunkIndex' = ChunkIndex
  BY DEF dbVars, Marked, Pending, ChunkIndex, CountOf
<1>8. c = ChunkIndex /\ ChunkIndex \in Nat
  <2>1. ChunkIndex \in Nat
    BY IndexBounds DEF RunsInv
  <2>2. c <= ChunkIndex
    BY <1>2, <1>6 DEF Clear
  <2>3. ~(c < ChunkIndex)
    BY <1>2, <1>3, <1>6, <2>1 DEF CountersExact
  <2>4. QED BY <1>2, <2>1, <2>2, <2>3
<1>9. \A j \in Successful : ChunkOf(j) \in executedRun[TheOrg] /\ ChunkOf(j) # c
  BY <1>3 DEF RunsInv, ConfirmedExecuted, Successful, ChunkOf
<1>10. Done' = Done
  <2>1. ~(c < ChunkIndex)
    BY <1>2, <1>8
  <2>2. \A j \in Successful \cup {i} : ChunkOf(j)' < ChunkIndex' <=>
            j \in Successful /\ ChunkOf(j) < ChunkIndex
    BY <1>2, <1>5, <1>7, <2>1 DEF Successful
  <2>3. Done' = {x \in Item : \E j \in Successful \cup {i} :
                    ChunkOf(j)' < ChunkIndex' /\ x \in ItemsOf(j)'}
    BY <1>5 DEF Done
  <2>4. QED BY <1>5, <2>2, <2>3 DEF Done, Successful
<1>11. ExecutedOnce'
  <2>1. \A run \in executedRun'[TheOrg] : \E j \in Successful' : ChunkOf(j)' = run
    BY <1>2, <1>3, <1>5, <1>6 DEF ExecutedOnce, Successful
  <2>2. \A j, k \in Successful' : ChunkOf(j)' = ChunkOf(k)' => j = k
    BY <1>2, <1>5, <1>6, <1>9 DEF ExecutedOnce, Successful
  <2>3. ASSUME NEW j \in Successful'
        PROVE  \A k \in DOMAIN payrollResult'[TheOrg][ChunkOf(j)'] :
                   payrollResult'[TheOrg][ChunkOf(j)'][k].employee \in ItemsOf(j)'
    <3>1. CASE j = i
      BY <1>2, <1>3, <1>5, <3>1
    <3>2. CASE j \in Successful
      BY <1>3, <1>5, <1>6, <1>9, <3>2 DEF ExecutedOnce, ResultsKept, Successful
    <3>3. QED BY <1>5, <3>1, <3>2
  <2>4. QED BY <2>1, <2>2, <2>3 DEF ExecutedOnce
<1>12. CountersExact'
  BY <1>3, <1>5, <1>6, <1>7, <1>10 DEF CountersExact, Successful
<1>13. MarkedTruly'
  <2>1. \A run \in executedRun[TheOrg] : \A x : Verdict(run, x)' = Verdict(run, x)
    BY <1>3 DEF Verdict, ResultsKept
  <2>2. ASSUME NEW x \in Marked'
        PROVE  \E j \in Successful' : x \in ItemsOf(j)' /\ (itemStatus[x] = Verdict(ChunkOf(j), x))'
    <3>1. PICK j \in Successful : x \in ItemsOf(j) /\ itemStatus[x] = Verdict(ChunkOf(j), x)
      BY <1>6, <1>7, <2>2 DEF MarkedTruly
    <3>2. PICK run \in executedRun[TheOrg] : run = ChunkOf(j)
      BY <1>9
    <3>3. itemStatus'[x] = Verdict(run, x)'
      BY <1>7, <2>1, <3>1, <3>2
    <3>4. run = ChunkOf(j)' /\ x \in ItemsOf(j)' /\ j \in Successful'
      BY <1>5, <3>1, <3>2 DEF Successful
    <3>5. QED BY <3>3, <3>4 DEF Verdict
  <2>3. QED BY <2>2 DEF MarkedTruly
<1>14. ASSUME NEW items \in SUBSET Item, NEW chunk \in Chunks, Clear(items, chunk)
       PROVE  Clear(items, chunk)'
  <2>1. chunk \in Nat /\ ~(c < chunk)
    BY <1>2, <1>8, <1>14, PayrollRunsAssumption DEF Chunks, Clear
  <2>2. QED BY <1>2, <1>5, <1>7, <1>14, <2>1 DEF Clear, Successful
<1>15. \A j \in DOMAIN intents : ItemsOf(j) \in SUBSET Item /\ ChunkOf(j) \in Chunks
  BY ChunkTyped
<1>16. QED BY <1>4, <1>11, <1>12, <1>13, <1>14, <1>15, ChainInTurn DEF RunsInv

\* The ledger takes a chunk, or drops it.
LEMMA ApplyInTurn ==
    ASSUME RunsInv, TurnsInv, NEW i \in DOMAIN intents, Apply(i) \/ Drop(i)
    PROVE  TurnsInv'
<1>1. CASE Apply(i) /\ Settle(i, "SUCCESS", 0)
  <2>1. UNCHANGED <<dbVars, requests>>
    BY <1>1 DEF Apply, Settle
  <2>2. RunPayroll(Founder, TheOrg, ChunkOf(i), EmployeeIds(ItemsOf(i)))
    <3>1. ~Settle(i, "FAILED", 0)
      <4>1. i \in DOMAIN intents /\ intents' = [intents EXCEPT ![i].tx = "SUCCESS", ![i].value = 0]
        BY <1>1 DEF Settle
      <4>2. Settle(i, "FAILED", 0) => intents'[i].tx = "FAILED"
        BY SettleKeepsIntents DEF RunsInv
      <4>3. intents'[i].tx = "SUCCESS"
        BY <1>1, SettleKeepsIntents DEF RunsInv
      <4>4. QED BY <4>2, <4>3
    <3>2. QED BY <1>1, <3>1 DEF Apply, ChunkOf, ItemsOf
  <2>3. QED BY <1>1, <2>1, <2>2, ExecutedInTurn
<1>2. CASE Apply(i) /\ ~Settle(i, "SUCCESS", 0)
  <2>1. Settle(i, "FAILED", 0) /\ UNCHANGED <<chainVars, dbVars, requests>>
    BY <1>2 DEF Apply, Settle
  <2>2. /\ IntentsKept /\ DOMAIN intents' = DOMAIN intents /\ intents'[i].tx = "FAILED"
        /\ \A j \in DOMAIN intents \ {i} : intents'[j] = intents[j]
    BY <2>1, SettleKeepsIntents DEF RunsInv
  <2>3. NoneConfirmed
    BY <2>2 DEF NoneConfirmed, Confirmed
  <2>4. UNCHANGED <<executedRun, payrollResult>>
    BY <2>1 DEF chainVars, payrollVars
  <2>5. QED BY <2>1, <2>2, <2>3, <2>4, IdleChainInTurn
<1>3. CASE Drop(i)
  <2>1. Expire(i) /\ UNCHANGED <<chainVars, dbVars>>
    BY <1>3 DEF Drop
  <2>2. /\ IntentsKept /\ NoneConfirmed
        /\ DOMAIN intents' = DOMAIN intents /\ requests' = requests
    BY <2>1, ExpireKeepsIntents DEF RunsInv
  <2>3. UNCHANGED <<executedRun, payrollResult>>
    BY <2>1 DEF chainVars, payrollVars
  <2>4. QED BY <2>1, <2>2, <2>3, IdleChainInTurn
<1>4. QED BY <1>1, <1>2, <1>3

\* Every step keeps what the one handler knows.
LEMMA TurnsInvStep ==
    ASSUME OneRequest, RunsInv, RunsInv', TurnsInv, [PayrollRunsNext]_runVars
    PROVE  TurnsInv'
<1>1. ASSUME NEW p \in Slots, Handle(p) PROVE TurnsInv'
  <2>1. Slots = {p}
    BY DEF OneRequest
  <2>2. QED BY <1>1, <2>1, ScheduleInTurn, ReadsInTurn, ChecksInTurn, AnswerInTurn, SubmitInTurn,
               WaitInTurn, MarkInTurn DEF Handle
<1>2. ASSUME NEW i \in DOMAIN intents, Apply(i) \/ Drop(i) PROVE TurnsInv'
  BY <1>2, ApplyInTurn
<1>3. CASE OtherCalls \/ UNCHANGED runVars
  <2>1. UNCHANGED <<dbVars, requests, executedRun, payrollResult, intents>>
    BY <1>3, OthersKeep DEF runVars, chainVars, payrollVars, intentVars
  <2>2. IntentsKept /\ NoneConfirmed /\ DOMAIN intents' = DOMAIN intents
    BY <2>1 DEF IntentsKept, NoneConfirmed, Confirmed
  <2>3. QED BY <2>1, <2>2, IdleChainInTurn
<1>4. QED BY <1>1, <1>2, <1>3 DEF PayrollRunsNext

\* What the handler of the one request knows is true in every reachable state.
THEOREM TurnsInvariant == OneRequest => (PayrollRunsSpec => []TurnsInv)
<1> SUFFICES ASSUME OneRequest PROVE PayrollRunsSpec => []TurnsInv
  OBVIOUS
<1>1. PayrollRunsInit => TurnsInv
  BY TurnsInvInit
<1>2. RunsInv /\ RunsInv' /\ TurnsInv /\ [PayrollRunsNext]_runVars => TurnsInv'
  BY TurnsInvStep
<1>3. QED BY <1>1, <1>2, RunsInvariant, PTL DEF PayrollRunsSpec

\* A chunk that paid an item is that of a successful transaction that holds it.
LEMMA PaidByIntent ==
    ASSUME RunsInv, TurnsInv, NEW x, NEW c \in PayingChunks(x)
    PROVE  \E j \in Successful : ChunkOf(j) = c /\ x \in ItemsOf(j)
<1>1. c \in executedRun[TheOrg]
  BY HomeId DEF PayingChunks, RunsInv, OnChainInv, ResultsInv
<1>2. PICK j \in Successful : ChunkOf(j) = c
  BY <1>1 DEF TurnsInv, ExecutedOnce
<1>3. x \in ItemsOf(j)
  BY <1>2 DEF TurnsInv, ExecutedOnce, PayingChunks
<1>4. QED BY <1>2, <1>3

\* Where requests take turns no item is paid by two transactions, however
\* many intents are built, resubmitted, dropped or applied late: the index
\* derived from the counters gives items of an executed chunk to no other.
THEOREM OneTurnPaysOnce == OneRequest => (PayrollRunsSpec => []NoDoublePay)
<1> SUFFICES ASSUME OneRequest PROVE PayrollRunsSpec => []NoDoublePay
  OBVIOUS
<1>1. RunsInv /\ TurnsInv => NoDoublePay
  <2> SUFFICES ASSUME RunsInv, TurnsInv, NEW x \in Item PROVE Cardinality(PayingChunks(x)) <= 1
    BY DEF NoDoublePay
  <2>1. ASSUME NEW c \in PayingChunks(x), NEW d \in PayingChunks(x) PROVE c = d
    <3>1. PICK i \in Successful : ChunkOf(i) = c /\ x \in ItemsOf(i)
      BY PaidByIntent
    <3>2. PICK j \in Successful : ChunkOf(j) = d /\ x \in ItemsOf(j)
      BY PaidByIntent
    <3>3. i = j
      BY <3>1, <3>2, OneChunkOnly
    <3>4. QED BY <3>1, <3>2, <3>3
  <2>2. CASE PayingChunks(x) = {}
    BY <2>2, FS_EmptySet
  <2>3. ASSUME NEW c \in PayingChunks(x) PROVE Cardinality(PayingChunks(x)) <= 1
    <3>1. PayingChunks(x) = {c}
      BY <2>1
    <3>2. Cardinality({c}) = 1
      BY FS_Singleton
    <3>3. QED BY <3>1, <3>2
  <2>4. QED BY <2>2, <2>3
<1>2. QED BY <1>1, RunsInvariant, TurnsInvariant, PTL

\* The verdict that marked the item was the chain's own.
LEMMA FailedMeansUnpaid == RunsInv /\ TurnsInv => FailedUnpaid
<1> SUFFICES ASSUME RunsInv, TurnsInv, NEW x \in Item, itemStatus[x] = "FAILED",
                    NEW c \in PayingChunks(x)
             PROVE  FALSE
  BY DEF FailedUnpaid
<1>1. PICK j \in Successful : ChunkOf(j) = c /\ x \in ItemsOf(j)
  BY PaidByIntent
<1>2. x \in Marked
  BY DEF Marked, Pending
<1>3. Verdict(c, x) = "FAILED"
  BY <1>1, <1>2, MarkedAgain
<1>4. QED BY <1>3, VerdictTrue

\* Where requests take turns an item Postgres calls FAILED was paid by no
\* transaction, so that a new run may hold it.
THEOREM OneTurnFailsTruly == OneRequest => (PayrollRunsSpec => []FailedUnpaid)
<1> SUFFICES ASSUME OneRequest PROVE PayrollRunsSpec => []FailedUnpaid
  OBVIOUS
<1>1. QED BY FailedMeansUnpaid, RunsInvariant, TurnsInvariant, PTL

\* Where requests take turns a run's final status says what became of its
\* items on chain.
THEOREM OneTurnEndsTruly == OneRequest => (PayrollRunsSpec => []FinalStatusTruthful)
<1> SUFFICES ASSUME OneRequest PROVE PayrollRunsSpec => []FinalStatusTruthful
  OBVIOUS
<1>1. RunsInv /\ TurnsInv => FinalStatusTruthful
  <2> SUFFICES ASSUME RunsInv, TurnsInv, runStatus \in FinalStatus
               PROVE  /\ runStatus = "COMPLETED" <=> \A x \in Item : PayingChunks(x) # {}
                      /\ runStatus = "FAILED" <=> \A x \in Item : PayingChunks(x) = {}
    BY DEF FinalStatusTruthful
  <2> DEFINE paid == {x \in Item : itemStatus[x] = "PAID"}
             failed == {x \in Item : itemStatus[x] = "FAILED"}
  <2>1. runStatus = OverallStatus /\ Pending = {} /\ itemStatus \in [Item -> ItemStatus]
        /\ PaidOnChain /\ FailedUnpaid
    BY FailedMeansUnpaid DEF TurnsInv, RunsInv, FinishedHasNoPending
  <2>2. \A x \in Item : itemStatus[x] # "PENDING" /\ itemStatus[x] \in {"PENDING", "PAID", "FAILED"}
    BY <2>1 DEF Pending, ItemStatus
  <2>3. \A x \in Item : (x \in paid \/ x \in failed) /\ ~(x \in paid /\ x \in failed)
    BY <2>2
  <2>4. /\ \A x \in paid : PayingChunks(x) # {}
        /\ \A x \in failed : PayingChunks(x) = {}
    BY <2>1 DEF PaidOnChain, FailedUnpaid
  <2>5. paid \subseteq Item /\ failed \subseteq Item /\ \E x \in Item : TRUE
    BY PayrollRunsAssumption DEF Item
  <2>6. IsFiniteSet(paid) /\ IsFiniteSet(failed)
    BY <2>1, <2>5, IndexFromMarked, FS_Subset
  <2>7. (Cardinality(paid) = 0 <=> paid = {}) /\ (Cardinality(failed) = 0 <=> failed = {})
    BY <2>6, FS_EmptySet
  <2>8. runStatus = IF failed = {} THEN "COMPLETED"
                    ELSE IF paid = {} THEN "FAILED" ELSE "PARTIAL"
    BY <2>1, <2>7 DEF OverallStatus, CountOf
  <2> HIDE DEF paid, failed
  <2>9. QED BY <2>3, <2>4, <2>5, <2>8
<1>2. QED BY <1>1, RunsInvariant, TurnsInvariant, PTL
=============================================================================
