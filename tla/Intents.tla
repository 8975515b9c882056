------------------------------ MODULE Intents ------------------------------
(***************************************************************************)
(* How every on-chain change leaves the backend.  A service builds an      *)
(* unsigned transaction and keeps it as an intent; the client signs it and *)
(* submits the intent; the service sends it, marks the intent consumed and *)
(* polls a few seconds for the outcome.                                    *)
(*                                                                         *)
(* A request handler is a little process: nothing holds a lock or opens a  *)
(* transaction across its awaits, so other requests, the ledger and a      *)
(* crash may come between any two of them.  requests[p] is where the       *)
(* handler running in slot p stands, with the values it has read so far.   *)
(*                                                                         *)
(* An intent's transaction bears the sequence number its signer's account  *)
(* had when it was built, and a ledger takes the next number only.         *)
(***************************************************************************)
EXTENDS Naturals, Sequences

CONSTANTS
    Slots,          \* bound: requests the backend serves at the same time
    MaxIntents,     \* bound: intents built
    DiesAt,         \* where in its course a handler may die
    Signers         \* wallets that build more than one intent; any other
                    \* signer stands for a member who builds a single one

ASSUME IntentsAssumption == MaxIntents \in Nat

VARIABLES
    intents,        \* intents clients hold, each with its transaction
    requests,       \* the handler in each slot
    sequence        \* transactions of each signer a ledger has taken

intentVars == <<intents, requests, sequence>>

\* A transaction nobody has sent, one in the network, and its three ends.
TxStatus == {"unsent", "sent", "SUCCESS", "FAILED", "expired"}

Idle == [pc |-> "idle"]
At(p, pc) == requests[p].pc = pc
Await(p, state) == requests' = [requests EXCEPT ![p] = state]
Answer(p) == Await(p, Idle)
Quiet == \A p \in Slots : At(p, "idle")

IntentsTypeOK(Call) ==
    /\ \A i \in DOMAIN intents :
           /\ intents[i].call \in Call
           /\ intents[i].tx \in TxStatus
           /\ intents[i].consumed \in BOOLEAN
           /\ intents[i].seq \in Nat
    /\ DOMAIN requests = Slots
    /\ sequence \in [Signers -> Nat]

IntentsInit ==
    /\ intents = <<>>
    /\ requests = [p \in Slots |-> Idle]
    /\ sequence = [s \in Signers |-> 0]

-----------------------------------------------------------------------------
\* The simulated transaction and its intent row; the caller's guard is that
\* simulation succeeded.  A ledger closing between the two leaves an intent
\* nobody can use.
Create(call, signer) ==
    /\ Len(intents) < MaxIntents
    /\ intents' = Append(intents,
           [call |-> call, signer |-> signer,
            seq |-> IF signer \in Signers THEN sequence[signer] ELSE 0,
            consumed |-> FALSE, tx |-> "unsent", value |-> 0])
    /\ UNCHANGED sequence

\* The transaction bears the next sequence number of its signer.
Timely(i) == intents[i].signer \in Signers => intents[i].seq = sequence[intents[i].signer]

\* validateForSubmit.  Expiry only removes behaviours: any client may stop.
SubmitValidate(p) ==
    /\ At(p, "idle")
    /\ \E i \in DOMAIN intents :
           /\ ~intents[i].consumed
           /\ Await(p, [pc |-> "send", intent |-> i])
    /\ UNCHANGED <<intents, sequence>>

\* sendTransaction.  ERROR, as for a sequence number already used, is a 502
\* and leaves the intent as it was.  Any other status counts as submitted:
\* PENDING and DUPLICATE, when the network has the transaction, and
\* TRY_AGAIN_LATER, when it does not.  The transaction is the intent's own: that
\* the client signed this one is an assumption, which the code does not check.
Send(p) ==
    LET i == requests[p].intent IN
    /\ At(p, "send")
    /\ \/ Answer(p) /\ UNCHANGED intents
       \/ /\ intents[i].tx = "unsent" /\ Timely(i)
          /\ \/ intents' = [intents EXCEPT ![i].tx = "sent"]
             \/ UNCHANGED intents
          /\ Await(p, [pc |-> "consume", intent |-> i])
       \/ /\ intents[i].tx \in {"sent", "SUCCESS"}
          /\ Await(p, [pc |-> "consume", intent |-> i])
          /\ UNCHANGED intents
    /\ UNCHANGED sequence

MarkConsumed(p) ==
    LET i == requests[p].intent IN
    /\ At(p, "consume")
    /\ intents' = [intents EXCEPT ![i].consumed = TRUE]
    /\ Await(p, [pc |-> "wait", intent |-> i])
    /\ UNCHANGED sequence

\* waitForTransactionConfirmation has its answer: fifteen seconds of polling
\* may end before the transaction does, and nobody polls again.  First, an
\* answer that takes a transaction in the network for one that is applied.
Confirmed_Accepted(i) == intents[i].tx \in {"sent", "SUCCESS"}

Confirmed(i) == intents[i].tx = "SUCCESS"

\* An await throws, or the server goes down: the handler is gone, what it
\* wrote stays.
Abort(p) ==
    /\ requests[p].pc \in DiesAt
    /\ Answer(p)
    /\ UNCHANGED <<intents, sequence>>

\* What every submit endpoint does first.
SubmitStep(p) == SubmitValidate(p) \/ Send(p) \/ MarkConsumed(p) \/ Abort(p)

-----------------------------------------------------------------------------
\* A ledger takes transaction i and it ends with `status`; either way its
\* sequence number is used.
Settle(i, status, value) ==
    LET s == intents[i].signer IN
    /\ intents[i].tx = "sent" /\ Timely(i)
    /\ intents' = [intents EXCEPT ![i].tx = status, ![i].value = value]
    /\ sequence' = IF s \in Signers THEN [sequence EXCEPT ![s] = @ + 1] ELSE sequence
    /\ UNCHANGED requests

\* A transaction the network dropped.
Expire(i) ==
    /\ intents[i].tx = "sent"
    /\ intents' = [intents EXCEPT ![i].tx = "expired"]
    /\ UNCHANGED <<requests, sequence>>
=============================================================================
