------------------------------ MODULE Treasury ------------------------------
(***************************************************************************)
(* The per-organization treasury and the token it holds.  Money leaves a   *)
(* treasury in two ways only: withdraw, decided by the organization's      *)
(* Admin, and transfer_out, which an allowlisted engine calls on behalf of *)
(* a Finance holder.  Anybody may deposit.                                 *)
(*                                                                         *)
(* The token is external: a ledger of balances whose transfer fails when   *)
(* the sender is short or the recipient holds no trustline.                *)
(***************************************************************************)
EXTENDS Organization

CONSTANTS
    Accounts,           \* every address that can hold the token
    TreasuryOf,         \* the treasury deployed beside each organization
    PayrollEngine,      \* address of the payroll_engine singleton
    MilestoneEngine,    \* address of the milestone_engine singleton
    NoTrustline,        \* accounts that cannot receive the token
    Endowment,          \* token balances before the first call
    Payees,             \* wallets of employees and contractors
    Amounts             \* amounts callers pass, non-positive ones included

Treasuries == {TreasuryOf[o] : o \in Orgs}

ASSUME AccountsAssumption ==
    /\ Users \subseteq Accounts /\ Payees \subseteq Accounts
    /\ MilestoneEngine \in Accounts
    /\ TreasuryOf \in [Orgs -> Accounts]
    /\ \A o, p \in Orgs : TreasuryOf[o] = TreasuryOf[p] => o = p
    /\ MilestoneEngine \notin Treasuries \cup Users
    /\ Treasuries \cap Users = {}
    /\ NoTrustline \cap (Treasuries \cup {MilestoneEngine}) = {}
    /\ Endowment \in [Accounts -> Nat]
    /\ Amounts \subseteq Int

VARIABLES
    balance,    \* the token ledger
    spenders,   \* AuthorizedSpender, per organization
    booked      \* net of the Deposited, Withdrawn and TransferredOut events

treasuryVars == <<balance, spenders, booked>>

TreasuryTypeOK ==
    /\ balance \in [Accounts -> Nat]
    /\ spenders \in [Orgs -> SUBSET {PayrollEngine, MilestoneEngine}]
    /\ booked \in [Orgs -> Int]

TreasuryInit ==
    /\ balance = Endowment
    /\ spenders = [o \in Orgs |-> {}]
    /\ booked = [o \in Orgs |-> 0]

-----------------------------------------------------------------------------
(***************************************************************************)
(* The token, as the contracts use it.                                     *)
(***************************************************************************)
CanMove(bal, from, to, amount) == bal[from] >= amount /\ to \notin NoTrustline

Moved(bal, from, to, amount) ==
    [a \in Accounts |-> bal[a] - (IF a = from THEN amount ELSE 0)
                               + (IF a = to THEN amount ELSE 0)]

-----------------------------------------------------------------------------
(***************************************************************************)
(* Entry points.                                                           *)
(***************************************************************************)

\* __constructor: the spender allowlist is written here and nowhere else.
ConstructTreasury(o) ==
    /\ spenders' = [spenders EXCEPT ![o] = {PayrollEngine, MilestoneEngine}]
    /\ UNCHANGED <<balance, booked>>

Deposit(o, from, amount) ==
    /\ o \in deployed
    /\ amount > 0
    /\ CanMove(balance, from, TreasuryOf[o], amount)
    /\ balance' = Moved(balance, from, TreasuryOf[o], amount)
    /\ booked' = [booked EXCEPT ![o] = @ + amount]
    /\ UNCHANGED spenders

Withdraw(o, caller, to, amount) ==
    /\ amount > 0
    /\ RequireRole(o, caller, "Admin")
    /\ CanMove(balance, TreasuryOf[o], to, amount)
    /\ balance' = Moved(balance, TreasuryOf[o], to, amount)
    /\ booked' = [booked EXCEPT ![o] = @ - amount]
    /\ UNCHANGED spenders

\* transfer_out succeeds, on the ledger as it stands when the engine calls it:
\* in a payroll batch that is after the items before this one.
CanTransferOut(bal, o, spender, authorizer, to, amount) ==
    /\ o \in deployed
    /\ spender \in spenders[o]
    /\ RequireRole(o, authorizer, "Finance")
    /\ amount > 0
    /\ CanMove(bal, TreasuryOf[o], to, amount)

-----------------------------------------------------------------------------
TreasuryCall(o, caller) ==
    \/ \E amount \in Amounts : Deposit(o, caller, amount)
    \/ \E to \in Payees \cup {caller}, amount \in Amounts :
           Withdraw(o, caller, to, amount)
=============================================================================
