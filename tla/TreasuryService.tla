-------------------------- MODULE TreasuryService --------------------------
(***************************************************************************)
(* Deposits and withdrawals through the backend.  Both are intents whose   *)
(* submit endpoint does not wait for the transaction: what it did reaches  *)
(* Postgres through the indexer only, as a row of the Transaction table.   *)
(***************************************************************************)
EXTENDS Deployment, Intents, Indexer

CONSTANT MaxTransfers   \* bound: intents to deposit or withdraw

ASSUME TreasuryServiceAssumption == Home \in Watched /\ MaxTransfers \in Nat

\* What the contracts keep still while treasuries and milestones are at work.
setting == <<orgVars, spenders, initialized, orgCount, registry, wasmHash>>
treasuryServiceVars == <<orgVars, treasuryVars, factoryVars, intentVars, indexerVars>>

TransferCall == [op : {"deposit", "withdraw"}, amount : Amounts]

TreasuryServiceInit == DeployedInit(0) /\ IntentsInit /\ IndexerInit

-----------------------------------------------------------------------------
\* The call as a contract executes it, Founder being both the depositor and
\* the Admin who withdraws to a wallet of their own.
PerformTransfer(call) ==
    \/ call.op = "deposit" /\ Deposit(HomeOrg, Founder, call.amount)
    \/ call.op = "withdraw" /\ Withdraw(HomeOrg, Founder, Founder, call.amount)

\* Simulation runs the call against the current ledger.
TransferSimulates(call) == ENABLED PerformTransfer(call)

\* buildDepositIntent and buildWithdrawIntent.
BuildTransfer(p) ==
    /\ At(p, "idle")
    /\ Cardinality({i \in DOMAIN intents : intents[i].call \in TransferCall}) < MaxTransfers
    /\ \E call \in TransferCall : TransferSimulates(call) /\ Create(call, Founder)
    /\ UNCHANGED <<requests, orgVars, treasuryVars, factoryVars, indexerVars>>

\* submitDepositIntent and submitWithdrawIntent answer once the intent is
\* consumed.
ReturnSubmitted(p) ==
    /\ At(p, "wait")
    /\ intents[requests[p].intent].call \in TransferCall
    /\ Answer(p)
    /\ UNCHANGED <<intents, sequence, orgVars, treasuryVars, factoryVars, indexerVars>>

EventOf(call) ==
    [contract |-> Home, topic |-> IF call.op = "deposit" THEN "deposited" ELSE "withdrawn",
     id |-> 0, amount |-> call.amount]

\* A ledger takes a transfer it was sent.
ApplyTransfer(i) ==
    LET call == intents[i].call IN
    /\ call \in TransferCall
    /\ IF TransferSimulates(call)
       THEN /\ PerformTransfer(call)
            /\ Settle(i, "SUCCESS", 0)
            /\ Publish(<<EventOf(call)>>)
       ELSE /\ Settle(i, "FAILED", 0)
            /\ UNCHANGED <<treasuryVars, publishVars>>
    /\ UNCHANGED <<orgVars, factoryVars, pollVars>>

\* The poll, whose effect on the tables is the transactions only.
PollStep ==
    \/ \E c \in Watched : Baseline(c) \/ Fetch(c)
    \/ Handle \/ Skip \/ Advance \/ Interrupt

Aside == UNCHANGED <<orgVars, treasuryVars, factoryVars>>

TreasuryServiceNext ==
    \/ \E p \in Slots : BuildTransfer(p) \/ ReturnSubmitted(p)
    \/ \E i \in DOMAIN intents : ApplyTransfer(i)
    \/ (\E p \in Slots : SubmitStep(p)) /\ UNCHANGED indexerVars /\ Aside
    \/ (PollStep \/ IdleLedger) /\ UNCHANGED intentVars /\ Aside

\* The job comes back every five seconds and visits every contract; the
\* worker stays up long enough, in the end, to finish a batch.
PollFairness ==
    /\ \A c \in Watched : /\ WF_treasuryServiceVars(Baseline(c) /\ UNCHANGED intentVars /\ Aside)
                         /\ SF_treasuryServiceVars(Fetch(c) /\ UNCHANGED intentVars /\ Aside)
    /\ WF_treasuryServiceVars((Handle \/ Skip \/ Advance) /\ UNCHANGED intentVars /\ Aside)
    /\ <>[][~Interrupt]_treasuryServiceVars

TreasuryServiceSpec ==
    TreasuryServiceInit /\ [][TreasuryServiceNext]_treasuryServiceVars /\ PollFairness
=============================================================================
