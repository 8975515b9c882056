---------------------------- MODULE EscrowVaults ----------------------------
(***************************************************************************)
(* What milestone escrow promises, with a vault for every milestone.  The  *)
(* money of a milestone comes from its organization's treasury, stays in   *)
(* its own vault, and goes whole, once, either to the contractor it was    *)
(* agreed with or back to the treasury it came from.  Nothing else that    *)
(* moves the token can touch a vault.                                      *)
(***************************************************************************)
EXTENDS Integers

CONSTANTS
    Milestones,     \* milestone identities
    Accounts        \* token accounts

VARIABLES
    purse,      \* what each account can spend freely
    vault,      \* what is locked for each milestone
    fate,       \* where each milestone stands
    terms       \* payee, home treasury and amount, once agreed

vars == <<purse, vault, fate, terms>>

Init ==
    /\ purse \in [Accounts -> Nat]
    /\ vault = [m \in Milestones |-> 0]
    /\ fate = [m \in Milestones |-> "none"]

Becomes(m, from, to) == fate[m] = from /\ fate' = [fate EXCEPT ![m] = to]

Paying(account, amount) == purse' = [purse EXCEPT ![account] = @ + amount]

\* terms is settled here, for this milestone only.
Agree(m) ==
    /\ Becomes(m, "none", "open")
    /\ \A n \in Milestones \ {m} : terms'[n] = terms[n]
    /\ UNCHANGED <<purse, vault>>

Lock(m) ==
    /\ Becomes(m, "open", "held")
    /\ terms[m].amount > 0 /\ purse[terms[m].home] >= terms[m].amount
    /\ vault' = [vault EXCEPT ![m] = terms[m].amount]
    /\ Paying(terms[m].home, -terms[m].amount)
    /\ UNCHANGED terms

Approve(m) == Becomes(m, "held", "approved") /\ UNCHANGED <<purse, vault, terms>>

Unlock(m, account) ==
    /\ vault' = [vault EXCEPT ![m] = 0]
    /\ Paying(account, vault[m])
    /\ UNCHANGED terms

Pay(m) == Becomes(m, "approved", "paid") /\ Unlock(m, terms[m].payee)

Return(m) == Becomes(m, "held", "closed") /\ Unlock(m, terms[m].home)

Void(m) == Becomes(m, "open", "closed") /\ UNCHANGED <<purse, vault, terms>>

\* Deposits, withdrawals, payroll.
MoveElsewhere == purse' \in [Accounts -> Nat] /\ UNCHANGED <<vault, fate, terms>>

Next ==
    \/ \E m \in Milestones :
           Agree(m) \/ Lock(m) \/ Approve(m) \/ Pay(m) \/ Return(m) \/ Void(m)
    \/ MoveElsewhere

Spec == Init /\ [][Next]_vars
=============================================================================
