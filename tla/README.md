# PayMesh in TLA+

This directory holds TLA+ models of PayMesh: the six Soroban contracts that move
money, and the backend that drives them and mirrors them in Postgres. The modules
are checked with TLC on small instances, and what the passing runs check, but for
liveness, is proved with TLAPS for every instance. All paths below are relative to the repository.

## The system

| Component | State it keeps | Operations | What makes it correct |
|---|---|---|---|
| `packages/contracts/organization` | role per member, `OwnerCount`, engine pointers, metadata hash | grant, revoke, set pointers, set hash | the counter is exact; there is always an Owner |
| `packages/contracts/treasury` | token balance, spender allowlist | deposit, withdraw, `transfer_out` (engines only) | events and refunds account for the balance |
| `packages/contracts/payroll-factory` | registry of organizations, wasm hashes | initialize, create, update hash | an id leads to one treasury, for good |
| `packages/contracts/employee-registry` | employee records | register, update, deactivate | |
| `packages/contracts/payroll-engine` | executed run ids, cached records | `run_payroll` | a run is paid once; items fail alone; the result is true |
| `packages/contracts/milestone-engine` | milestones, escrow counters, one pooled balance | create, fund, approve, release, cancel | each milestone's money goes whole and once to one place |
| `apps/backend` payroll | runs, items, intents | schedule, build, submit, reconcile | nobody is paid twice; the recorded status is true |
| `apps/backend` intents | the intent table | create, validate, send, consume, poll | |
| `apps/backend` milestones | a row per milestone | draft, build, submit, cancel | a row is never ahead of its milestone and ends where it ends |
| `apps/backend` employees | a row per employee | create, import, edit, deactivate, submit | a row is linked to its own record; payroll is offered only what it can pay |
| `apps/backend` organizations | organizations, members | create, add, change, remove, submit | a row claims no address and no role the chain did not give |
| `apps/backend` treasury | none of its own | deposit and withdraw intents | the indexer's transactions add up to the balance |
| `apps/backend` indexer | a cursor per contract, transactions | poll, handle event, advance | every event is applied, none counts twice |
| `apps/backend` auth, contractors, analytics, transactions | sessions, wallets, rows | CRUD, queries | |
| `packages/sdk`, `packages/shared`, `apps/frontend` | none of their own | build, sign, submit, poll | |

Contracts call each other synchronously inside a transaction, which commits whole
or not at all. The backend reaches the chain through a three-step *intent*: it
builds an unsigned transaction, a client signs it, a second request submits it and
polls for about fifteen seconds. Backend handlers await Postgres and the RPC node
statement by statement with no lock and no database transaction around them, so
other requests, the ledger, or a crash come between any two awaits. That is where
the hard behaviours are: stale reads, late or lost transactions, half-done
reconciliations, retries. On chain the hard part is hand-kept redundancy:
`OwnerCount`, `EscrowBalance`, cached registry entries, the executed-run flag.
`PROJECT.json` lists each hazard at its line.

## Modules

| Module | Models | Correspondence |
|---|---|---|
| `Roles` | `common/src/role.rs` (and its TypeScript twin) | the role order |
| `Organization` | organization contract | one action per entry point; a call that returns an error is a disabled action, as it reverts |
| `Treasury` | treasury contract and, as an external ledger, the token | `transfer_out` is a predicate and an effect used inside the engines' actions |
| `PayrollFactory` | factory, and the caches its clients keep | `Resolve`/`CacheResolved` are `resolve_org_record` |
| `EmployeeRegistry` | employee registry | |
| `PayrollEngine` | payroll engine | `LedgerAfter` is the loop of `run_payroll` as a recursive function over the batch |
| `MilestoneEngine` | milestone engine | |
| `Contracts` | the six together | `Next` is one transaction by anybody; each step leaves the others' variables alone |
| `EscrowVaults` | the abstract promise of milestone escrow | one vault per milestone, no pool, no counters |
| `Intents` | `intent.service.ts` with the SDK's submit and poll | one action per await; `requests[p]` is the handler in slot `p` with what it has read; `sequence` is the signer's account |
| `Deployment` | the chain the services start from | one organization as `create_organization` leaves it |
| `PayrollRuns` | `payroll.service.ts`, on `PayrollEngine`, `Deployment` and `Intents` | one action per await |
| `Indexer` | `indexer.service.ts`, and the RPC's events as an external log | `Baseline`, `Fetch`, `Handle`, `Skip`, `Advance` are the ways through `pollContract`; `Interrupt` is everything that ends it early |
| `TreasuryService` | `treasury.service.ts`, with `Indexer` | the submit endpoints answer without waiting: only the indexer learns the outcome |
| `MilestonesService` | `milestones.service.ts`, with `MilestoneEngine`, `TreasuryService` and `Indexer` | `ReadRow` then `BuildIntent` or `Discard`; `WaitForCall` then `WriteRow`; `HandleEvent` is the indexer's update of the same rows |
| `EmployeesService` | `employees.service.ts`, with `EmployeeRegistry` | `CreateEmployees`, `NextEmployee`, `BuildRegister` are the loop of `importCsv` (and `create`, its case of one) |
| `OrganizationsService` | `organizations.service.ts` and the role guard, with the factory and the contract | `ReadForIntent` holds what an endpoint refuses, `WriteOrganization` and `WriteMember` what a confirmed transaction leaves in the tables |
| `Sums_proofs` | lemmas about finite sums | what money is counted with |
| `Organization_proofs` | theorems about `Organization` and `Roles` | |
| `Contracts_proofs` | theorems about `Contracts` | on the two above |
| `Intents_proofs` | lemmas about `Intents` | what no step of any service takes back |
| `OrganizationsService_proofs`, `PayrollRuns_proofs`, `EmployeesService_proofs`, `MilestonesService_proofs` | theorems about the module each is named for | each on `Contracts_proofs` and `Intents_proofs` |
| `MCOrganization`, `MCContracts`, `MCPayrollRuns`, `MCIndexer`, `MCMilestones`, `MCEmployees`, `MCOrganizations` | instances for TLC | |

Every service runs against the very contract modules that `Contracts` composes: an
intent's transaction is the contract's action, simulation is its `ENABLED`, and a
failed call is a disabled action. The services share `Intents` and, but for
`OrganizationsService`, which starts from an empty registry, `Deployment`. They are
composed with each other where they share state: milestones, treasury and indexer in
one specification. A definition whose name carries a suffix such as
`CountAfter_NoDemotion` is a faulty variant of the definition that follows it; it is
used nowhere in the specifications, and substituting it makes the property named in
`PROJECT.json` fail.

Some variables are histories that no program variable holds: `booked` (the treasury
events), `refunded` (the `MilestoneCancelled` events), `payrollResult` (the returned
results), `handled` and `forgone` (the events the indexer has finished with, and those
it has lost), `written` (the intents whose outcome reached a row), `misnamed` (the rows
written in the submission of another row's intent). No guard reads them, except that
`MaxForgone` bounds `forgone`.

## Runs

| Run | Question | Answer |
|---|---|---|
| `organization` | can the owner counter drift or the last Owner go? | no |
| `payroll_engine` | is a run paid once, as reported, items independent? | yes |
| `milestone_engine` | does pooled escrow behave like a vault per milestone? | yes, it refines `EscrowVaults` |
| `payroll_serial` | one request at a time, with crashes and late or lost transactions: double payment, false statuses? | no |
| `payroll_concurrent` | which guarantees survive two interleaved requests? | PAID rows were paid; a finished run has nothing pending |
| `payroll_double_pay` | do two interleaved requests pay somebody twice? | **yes**: see below |
| `payroll_retry` | can a chunk that timed out always be retried? | **no** |
| `payroll_reopened` | with two requests, does a finished run stay out of EXECUTING? | **no** |
| `milestones` | handlers that die or give up, batches cut short and repeated, an event lost: is a row ever ahead of its milestone, a transaction counted twice, a row wrong for ever? | no transaction is; a row only if it was named when another row's intent was submitted, and a row is wrong for ever also where creates overlap or an intent is sent again, which the run leaves out (see Bounds) |
| `indexer_quiet` | is a contract indexed again after a long silence? | **no** |
| `employees` | overlapping registrations, imports that stop halfway, deactivations that race them: a row linked to another's record, an employee offered who cannot be paid? | only through a submission that names another row than its intent was built for: see "Rows named by the URL" |
| `organizations` | two clients after one slug and each other's roles: a row with addresses or a role the chain never gave? | no; a row drifts by a missed or an overtaken write only |

### Disagreements found

* `NoDoublePay`. `buildExecuteIntent` reads the PENDING items (`payroll.service.ts:126`)
  and then the counters that number the chunk (`:131`). A reconciliation that ends
  in between marks these items PAID and moves the counters, so the intent carries
  paid items under the *next* chunk's `run_id`, which the contract accepts. The
  reader may follow the shortest trace TLC prints: schedule, build and submit chunk
  0, with a second build suspended between its two reads.
  `docs/SYSTEM_ARCHITECTURE.md:103-105` promises that retried requests cannot
  double-pay.
* `RetryPossible`. If the transaction is applied after the poll gives up, the items
  stay PENDING, the chunk index stays the same and its `run_id` is spent: the run is
  stuck in EXECUTING. The comment at `payroll.service.ts:204-206` expects a retry to
  pick the chunk up.
* `NeverReopened`. `buildExecuteIntent` reads the run's status, awaits seven times and
  writes EXECUTING because the status *was* SCHEDULED (`payroll.service.ts:165`). A
  request that executes, reconciles and completes the run meanwhile has its COMPLETED
  replaced by EXECUTING: a run with nothing left to execute, which no build accepts any
  more and only the submission of that second intent finishes again.
  `docs/PAYROLL_ENGINE.md:9` draws no way back, and
  `docs/PRODUCT_REQUIREMENTS_DOCUMENT.md:87` calls an executed run immutable. `schedule`
  writes SCHEDULED over whatever the status has become in the same way (`:102`).
* `EventuallyIndexed`. The cursor moves when events are handled, and an empty page
  moves nothing (`indexer.service.ts:104`). A contract that stays quiet for longer than
  the RPC keeps events is asked about from a ledger the RPC no longer serves; the
  refusal mentions the "ledger range", which line 101 takes for an index that lags, and
  returns. Every later poll does the same, and later events are never handled.
  `docs/EVENT_INDEXING.md:44-45` says that no events are skipped; the comment of
  `events-client.ts` (lines 23-25) that callers never fall behind.

### Rows named by the URL

The submit endpoints write the row their URL names. `submitFundIntent` compares it with
the intent's metadata (`milestones.service.ts:153-156`); `submitApproveIntent`,
`submitReleaseIntent`, `submitCancelIntent` (`:206`, `:230`, `:269`) and
`submitRegisterIntent` (`employees.service.ts:208`) compare nothing. The models do the
same: `WriteRow` writes any row of `Named(call)`, and `LinkEmployee` links any row. So
a draft can be called RELEASED, a funded milestone's row CANCELLED, and an employee's
row be linked to another's record, which has another wallet and may be inactive, and
still be offered to payroll. (The code would write a row of another organization as
well; the models have one.)

A row this happened to is in `misnamed`, and `StatusWasReached` (for APPROVED and
RELEASED), `OwnRecord`, `EligibleIsPayable` and `RowsConverge` except just these rows.
What they say, and the theorems prove for the first three, is that the damage stays in
the row that was named: no other row is called what it is not, linked to what is not its
own, or offered with a wallet that is not its own. FUNDED needs no such exception, as
`submitFundIntent` compares. That an employee who is offered has an *active* record
holds only while no row at all was misnamed, for a deactivation of a misnamed row
retires the record of another.

### Met on the way

Consequences of the code that came up while modelling. No run is about them: either no
property of a run denies them, or the bounds of its run leave them out, as noted:

* The engine pays the employee's on-chain salary at execution time
  (`payroll-engine/src/lib.rs:160`), never `PayrollItem.amount`, which
  `docs/PAYROLL_ENGINE.md:16-17` calls a snapshot that later changes do not affect. An
  update of a salary between the creation of a run and its execution (`HrStep`) is enough.
* A create transaction confirmed after the polling window leaves the row without its
  milestone; the next build creates another one. One request at a time this leaves an
  unfunded draft on chain; with two at a time both milestones can be funded for one row
  (found with two slots and four intents, a search too long for a run).
* A handler that dies between sending and `markConsumed` leaves an intent that can be
  submitted again, much later. Its handler then writes the outcome of the old
  transaction: an older status (`milestones.service.ts:182`), or an older link (`:169`).
  The indexer does not come back to events behind its cursor, so `milestones` excludes
  that one place from `DiesAt`; `RowsConverge` fails with it.
* Cancelling a row that has no milestone yet does not revoke the create intent, which
  may still land. `RowsConverge` allows this pair of statuses by name.
* A registration confirmed late leaves its row pending for good
  (`employees.service.ts:207`), and an import that fails halfway returns none of its
  intents; `docs/EMPLOYEE_MODEL.md:43-46` describes a retry no endpoint offers.
* An organization whose row was not written (`organizations.service.ts:94`, `:115`)
  exists on chain only. `docs/PERMISSION_MODEL.md:47-54` describes role changes as
  written to the database first and reconciled by a periodic job; the code writes after
  confirmation and has no such job. `RowsFollowChain` states what is left.
* An edit of a salary made before the registration is linked changes the row and builds
  no update (`employees.service.ts:128`): the record keeps the older salary. The run of
  employees has one salary and does not see it.
* The client's Retry (`useSignAndSubmit.tsx:196`) builds a new intent. A chunk or a
  milestone step is refused the second time; a deposit or a withdrawal whose answer was
  lost is made twice.

### Bounds

Every bound is a constant or a named constraint.

* `organization`: one instance, three users, all five roles. Three users are enough
  for every pair of an acting and an affected member with a bystander Owner;
  instances do not share state. Users are symmetric.
* `payroll_engine`: one organization, two employees, two stroops, two run ids, batches
  in order reversed, repeated, with an unknown id, and empty; one of two wallets has no
  trustline. Two stroops against salaries of one and two make the treasury run dry
  midway.
* `milestone_engine`: two organizations with two and one milestones, amounts one and
  two, and two stroops in all, so that one organization's escrow is reachable by the
  other's mistakes. Both runs use one user: roles decide who may call, and their own
  run varies them.
* In all runs a wallet that is paid is no treasury, as `PayeesOutside` asks in the
  proofs of `BalanceFromEvents` and `PayrollPaysAsReported`: the contracts do not refuse
  a treasury as a payee, and the events would then book money that stays.
* `DeployedFirst`: engines are initialized before the first organization, as
  `scripts/deploy-contracts.sh` does. `MetadataUntouched`: nothing reads the hash.
* `payroll_serial`: three items in chunks of two (a full and a partial chunk), two
  intents (a chunk and its successor, or a chunk and its retry), handlers may die at
  any await. `payroll_concurrent`: two items, chunks of one, two intents, two slots.
  `payroll_double_pay` is the same without `OneInterference`, `payroll_retry` the same
  with one slot; in `payroll_reopened` one chunk of two items is the whole run.
  `OneInterference`: one deactivation, or one withdrawal that leaves the treasury
  short, may happen at any moment.
* `milestones`: one request at a time, three intents, two rows, one deposit or withdrawal
  besides, one stroop, four ledgers, one lost event. The second row is drafted once the
  first has its milestone (`MaxUnlinked`): two rows are enough for one to be named in
  the submission of the other's intent, and two unlinked ones would multiply the states
  without a new case. Three intents carry a milestone from
  draft to approved, and `FundedEarlier`, a second initial state with a funded one whose
  events are already indexed, on to release and cancellation; it holds no more money than its treasury had. The RPC never forgets here
  (`Retention` exceeds `MaxLedger`): forgetting is the question of `indexer_quiet`. The
  engine is followed from the first poll on, the treasury from before. Handlers die
  everywhere but at "consume", between sending a transaction and consuming its intent.
  With one slot two handlers never overlap, but a handler still overlaps the ledger and
  the whole of the indexer, which are the races the run is about. These two are
  hypotheses of `RowsConverge`, and it fails without either: an intent that is sent again
  writes an older status long after its event was handled, and of two creates that
  overlap the later link may replace that of a funded milestone. The run's safety
  properties need neither: their theorems allow any slots and any deaths.
* `indexer_quiet`: one deposit and three silent ledgers against an RPC that keeps two.
  `IdleLedger` waits until every event the RPC still serves has been fetched, since
  retention is days and the poll's period seconds: the counterexample needs no slow
  indexer, only silence.
* `employees`: two slots, two rows, two wallets, files of up to two lines, three
  intents; handlers die where a row exists without an intent and where a transaction is
  sent and not consumed. One salary, because no property here compares amounts. Wallets
  and slots are symmetric.
* `organizations`: two organizations, two users, two slugs, the roles Owner and Viewer
  (the two sides of the guard), two slots, three intents; handlers die where a
  transaction is sent and not consumed and where its outcome is not yet written. Users,
  slugs and slots are symmetric: `FactoryAdmin` is a user whom nothing in this
  specification asks about. Three intents are one creation with two changes of roles, or
  two creations under one slug with one change.
* `Signers` are the wallets whose account sequence number is followed: two transactions
  of such a wallet built from the same number cannot both be applied. With `Signers`
  empty (payroll, employees) each intent has a signer of its own, which allows strictly
  more. The five-minute expiry of an intent is left out: it only forbids behaviours, and
  no counterexample needs longer.

Deadlock checking is off where a bound ends the world: no run ids, milestones, intents
or ledgers left.

### Fairness

Only the indexer is assumed to go on. BullMQ repeats the poll every five seconds
(`indexer.module.ts:38-44`), and `pollAll` visits every contract whatever the others do
(`indexer.service.ts:62-74`): weak fairness of a first poll (`Baseline`) and of handling
what was fetched, strong fairness of `Fetch`, which a poll of another contract disables
while it lasts; in `milestones` the polls of milestone_engine alone. A worker that is interrupted in every batch makes no progress, so
`<>[][~Interrupt]_vars` assumes that in the end it stays up. Nothing is assumed of
clients, of request handlers, or of the network: a client may never sign, a handler may
stop, a transaction may never be taken. Under exactly this, `RowsConverge` holds within
the bounds of its run, two of which it needs, and `EventuallyIndexed` fails.

## Proofs

Every invariant, action property and refinement that a passing run checks is proved
for every value of the constants, with `payroll_serial`'s under the condition of that
run, that requests take turns. There is no bound on organizations, users, accounts,
employees, milestones, rows, batches, requests, intents or ledgers other than the
constants themselves, which may be any.

The proofs are layered as the modules are. A service's invariant has the invariant of
the contracts it drives as its first conjunct, then that of the intents, then what its
own tables and handlers know.

### Contracts

`Organization_proofs`, for any finite set of users and any organizations:

* `OrganizationTypeCorrect`, `OwnerCountIsExact`, `OrganizationNeverOwnerless`, from
  the single assumption that `Users` is finite. The inductive invariant
  `OrganizationInv` adds to the three that a deployed instance counts at least one
  Owner and that an instance not yet deployed has none: without the second, the
  constructor's count of one could not be justified, and without the first a
  revocation's guard says nothing about the roles. `CountAfterExact` is the heart: a
  single update of the member map changes the number of Owners by what
  `CountAfter` says. `RoleChangeKeepsInv` then covers grants, demotions and
  revocations at once.
* `RolesOrdered` and `FundsNeedFinance`: the role order is a partial order, and the
  two tests for "may move money" agree.

`Contracts_proofs`, about the six contracts together:

* `EnginesCacheCurrent` (`CachesCurrent`). The code never refreshes a cache, so this
  rests on entries being immutable. `RegistryInv` is the strengthening: ids are handed
  out in sequence (`DOMAIN registry = 1 .. orgCount`), so a new entry replaces none;
  every registered organization is deployed and an address is deployed once, so a new
  organization is not already registered. That two organizations have two treasuries
  is `AccountsAssumption`, the salts of the deployer.
* `ExecutedRunsAreFinal` (`RunsFinal`), from `ResultsInv`: exactly the executed runs
  have results.
* `ContractsTypeCorrect`, `EscrowAccounted`, `EscrowAlwaysCovered`,
  `ChainNeverOwnerless`, from `ChainInv`. The types need the registry (an id resolves
  to an organization that exists), the escrow equations need the types, and release
  and cancel keep a balance natural only because the pool covers the counters and the
  counters cover the milestone (`EscrowSolvent`, `EscrowMatchesMilestones`): the three
  are one induction. `DeploymentInv` counts deployed organizations, so that ids never
  outnumber them; `MilestonesInv` says that a milestone past its draft has money.
* `LedgerFromEvents` (`BalanceFromEvents`) from `MoneyInv`, which adds that a treasury
  not yet deployed has its endowment and nothing booked, and that an id not yet
  registered has no refunds. `PayrollReportsTruly` follows the ledger through the
  batch: after i items the treasury has lost, and each account gained, the sum of what
  the first i results report. `BatchItemsAreIndependent` shows that, while the
  treasury holds the salaries still to come, no item fails for lack of money.
* The first two of these have the hypothesis `PayeesOutside`, that nobody is paid at the
  address of a treasury. It is stated where it is used and nowhere assumed: the contracts
  accept such a payee, and both properties are then false.
* `EscrowIsVaults` (`ImplementsVaults`): the initial state maps to empty vaults, and
  under `ChainInv` each of the steps of all six contracts is a step of `EscrowVaults` or
  leaves it alone. The mapping carves the vaults out of the engine's balance by the sum of
  its counters. No condition is put on contractors: one may be a treasury, or the engine.

`Sums_proofs` supports the money. `SumFunction` folds over a set in an order given by
`CHOOSE`; `SumUnroll` shows that the fold is what it should be, and `SumAdd`,
`SumChange`, `SumSame` and `SumSubset` what one more, one changed, the same and fewer
summands do. An induction over the sets summed is replaced by its contrapositive: of
the sets that would refute a lemma there is a least (`LeastSet`, from `LeastNumber`),
and its last element leads to a smaller one. Recursive functions over batches
(`LedgerAfter`) are treated the same way.

### Services

`Intents_proofs` states once what the four services need of their intents: an intent
keeps its call and signer, a successful transaction keeps its outcome, a handler that
submits holds an intent that exists (`IntentsInv`, `IntentsKept`, `NoneConfirmed`), for
every action of `Intents`, whatever the calls are.

* `OrganizationsService_proofs`: `RowsStayRegistered`, `RolesStayGranted`, `RowsFollow`.
  What a row says was true when the chain was asked; `ServiceInv` carries the answer
  from the ledger through the intent to the handler that writes. `MembersTracked`
  strengthens `RowsFollowChain` to what is known before and after the one change of a
  member's role is written.
* `PayrollRuns_proofs`: with any number of requests, `PaidIsPaid` and `FinishedIsDone`,
  from `RunsInv`: a handler that reconciles holds a chunk that was executed. Under
  `OneRequest` (one slot), `OneTurnPaysOnce`, `OneTurnFailsTruly`, `OneTurnEndsTruly`,
  from `TurnsInv`: the counters move past a chunk only when it was executed and all of
  its items are marked, what is marked is what a successful
  transaction reported, and every intent names a chunk no further than the counters and
  no item of an earlier chunk that was executed. `OneRequest` cannot be dropped:
  `payroll_double_pay` is the counterexample, and no code enforces it. It describes a
  client that awaits each answer before it sends the next request; handlers may still
  die and transactions still be dropped or applied late. Nothing is claimed of the
  status of a finished run beyond its truth: `payroll_reopened` shows what happens to it
  when requests overlap.
* `EmployeesService_proofs`: `RowsHaveOwnRecord` and `OfferedIsPayable`.
  `StaffServiceInv` follows a registration from its row through its one intent to its
  one record, linked or not, and a deactivation from the row to the call; a row that is
  not in `misnamed` was linked by its own registration. A late link is harmless because
  the row was retired before the deactivation was built.
* `MilestonesService_proofs`, about milestones, treasury and indexer in one:
  `StatusesWereReached`, `CursorsCovered`, `TransactionsAddUpAtRest`. `RowsInv` gives
  every call, handler and row outside `misnamed` a milestone that went at least as far as
  it says, which stays true as statuses only go forward (`MilestonesGo`); of a misnamed
  row it keeps what its link and FUNDED say. `LogInv` says the same of
  events, and that a poll's page has nothing behind its end that is neither handled,
  lost, nor still to do. `BooksInv` says that the treasury booked what it published, and
  that each recorded event has one transaction.

Each module also proves its type invariant.

### Assumptions

Those of the modules (`ASSUME`), which TLC evaluates in every run: bounds are numbers,
`Users` and `Orgs` are finite, accounts of treasuries, users and the engine are
different, neither treasuries nor the engine lack a trustline, endowments are not
negative, the deployed organization is one of those there are, and the indexer watches
the contracts it is composed with. Besides these only `PayeesOutside` and `OneRequest`,
written in the theorems that need them.

What the models themselves take for granted of clients and of the world, in every run
and in every proof:

* A client signs and submits the transaction its intent was built with (`Intents!Send`).
  The code sends whatever signed XDR it is given (`intent.service.ts:77`) and does not
  compare it with the intent.
* An intent is submitted by the user who asked for it. The code gives the OWNER row of a
  new organization to the user who submits (`organizations.service.ts`,
  `submitCreateIntent`), `WriteOrganization` to the intent's signer.
* In the service modules transactions are those of intents, except for the registry calls
  and withdrawals of `PayrollRuns`. A member may call the contracts without the backend,
  and anybody may send tokens to a treasury; `Contracts` has the former, nothing the
  latter. The rows of the services would then differ from the chain, and
  `BalanceFromEvents` would miss the transfer.

### Model-checked only

* `RowsConverge` and `EventuallyIndexed`: liveness under fairness is beyond the prover.
* The simulation of an intent is `ENABLED` of the contract's action. The proofs never
  look inside it: what they show holds whatever a simulation answers, since the guard is
  met again when the ledger takes the transaction.
* `NoDoublePay`, `RetryPossible`, `NeverReopened`, `EventuallyIndexed` in the runs that
  refute them.

## Plan

Next:

1. The order of a milestone's statuses, and that a row's link, once set, is replaced only
   by another create transaction of the row, as action properties.
2. `CursorCovered` for `TreasuryServiceSpec` alone, whose invariants are the parts of
   `LogInv` that speak of no milestone.
3. Shorter proofs: lemmas the services prove each for themselves (`HomeId`, what
   `DeployedInit` gives) belong in one module.

## Not modelled

* Token transfers to a treasury that bypass `deposit`, and, for the service modules, calls
  made without the backend (see Assumptions).
* On chain: storage expiry (`extend_ttl`), contract upgrades beyond recording the wasm
  hash, signatures and fees.
* In the services that are modelled: departments and e-mail addresses of employees, the
  parsing of an imported file, renaming an organization (one statement nothing depends
  on), the treasury overview and other queries, several payroll runs at once, and the
  conversion between decimal amounts and stroops, which no property here tells apart.
* `auth`: two handlers that check and then create, whose races the schema's unique
  constraints decide, around signature verification; it shares no state with the rest.
* `contractors`, `transactions`, `analytics`: single-statement CRUD and queries.
* HTTP and the platform, the schemas of `packages/shared`, the frontend (its requests
  are among those the services allow in any order), the seed and deployment scripts, and CI.
