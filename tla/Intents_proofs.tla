--------------------------- MODULE Intents_proofs ---------------------------
(***************************************************************************)
(* What every step does to the intents, whichever service takes it: an     *)
(* intent, once there, keeps its call and its signer, and a transaction    *)
(* that succeeded keeps its outcome.  The proofs about the services rest   *)
(* on these lemmas; Caller and Who are the calls and the signers of the    *)
(* service at hand.                                                        *)
(***************************************************************************)
EXTENDS Intents, TLAPS

Intent(Caller, Who) ==
    [call : Caller, signer : Who, seq : Nat, consumed : BOOLEAN, tx : TxStatus, value : Nat]

\* Where a handler that submits may stand, and what it then carries.
Submitting == {"send", "consume", "wait"}
SubmitState == [pc : Submitting, intent : DOMAIN intents]

\* The intents and the handlers, typed; a handler that submits knows its
\* intent.
IntentsInv(Caller, Who) ==
    /\ intents \in Seq(Intent(Caller, Who))
    /\ sequence \in [Signers -> Nat]
    /\ DOMAIN requests = Slots
    /\ \A p \in Slots : requests[p].pc \in Submitting => requests[p] \in SubmitState

\* What no step takes back.
IntentsKept ==
    /\ DOMAIN intents \subseteq DOMAIN intents'
    /\ \A i \in DOMAIN intents :
           /\ intents'[i].call = intents[i].call
           /\ intents'[i].signer = intents[i].signer
           /\ Confirmed(i) => Confirmed(i)' /\ intents'[i].value = intents[i].value

\* No transaction succeeds in this step.
NoneConfirmed == \A i \in DOMAIN intents' : Confirmed(i)' => i \in DOMAIN intents /\ Confirmed(i)

-----------------------------------------------------------------------------
\* No intent exists and no handler runs.
LEMMA IntentsInvInit ==
    ASSUME NEW Caller, NEW Who, IntentsInit PROVE IntentsInv(Caller, Who)
BY DEF IntentsInit, IntentsInv, Submitting, Idle

\* A handler that goes on, or ends, and leaves the intents alone.
LEMMA AwaitKeepsIntents ==
    ASSUME NEW Caller, NEW Who, IntentsInv(Caller, Who), NEW p \in Slots, NEW r,
           Await(p, r), UNCHANGED <<intents, sequence>>,
           r.pc \in Submitting => r \in SubmitState
    PROVE  /\ IntentsInv(Caller, Who)' /\ IntentsKept /\ NoneConfirmed
           /\ requests'[p] = r
           /\ \A q \in Slots \ {p} : requests'[q] = requests[q]
BY DEF IntentsInv, SubmitState, IntentsKept, NoneConfirmed, Await, Confirmed

\* Create leaves the other intents alone and adds one that is not sent yet.
LEMMA CreateAppends ==
    ASSUME NEW Caller, NEW Who, IntentsInv(Caller, Who),
           NEW call \in Caller, NEW signer \in Who, Create(call, signer)
    PROVE  /\ intents' \in Seq(Intent(Caller, Who))
           /\ sequence' = sequence
           /\ DOMAIN intents' = DOMAIN intents \cup {Len(intents) + 1}
           /\ \A i \in DOMAIN intents : intents'[i] = intents[i]
           /\ LET new == intents'[Len(intents) + 1]
              IN  new.call = call /\ new.signer = signer /\ new.tx = "unsent"
<1> DEFINE new == [call |-> call, signer |-> signer,
                   seq |-> IF signer \in Signers THEN sequence[signer] ELSE 0,
                   consumed |-> FALSE, tx |-> "unsent", value |-> 0]
<1>1. intents \in Seq(Intent(Caller, Who)) /\ sequence \in [Signers -> Nat]
  BY DEF IntentsInv
<1>2. new \in Intent(Caller, Who)
  BY <1>1 DEF Intent, TxStatus
<1>3. new.call = call /\ new.signer = signer /\ new.tx = "unsent"
  OBVIOUS
<1>4. intents' = Append(intents, new) /\ sequence' = sequence
  BY DEF Create
<1> HIDE DEF new
<1>5. QED BY <1>1, <1>2, <1>3, <1>4

\* A new intent is typed.
LEMMA CreateKeepsIntents ==
    ASSUME NEW Caller, NEW Who, IntentsInv(Caller, Who),
           NEW call \in Caller, NEW signer \in Who, NEW p \in Slots,
           Create(call, signer), UNCHANGED requests \/ Answer(p)
    PROVE  IntentsInv(Caller, Who)' /\ IntentsKept /\ NoneConfirmed
<1>1. IntentsKept /\ NoneConfirmed
  BY CreateAppends DEF IntentsKept, NoneConfirmed, Confirmed
<1>2. \A q \in Slots : requests'[q].pc \in Submitting => requests'[q] \in SubmitState'
  BY CreateAppends DEF IntentsInv, SubmitState, Submitting, Answer, Await, Idle
<1>3. QED BY <1>1, <1>2, CreateAppends DEF IntentsInv, Answer, Await

\* The same for a handler that goes on, and not to submit.
LEMMA CreateGoesOn ==
    ASSUME NEW Caller, NEW Who, IntentsInv(Caller, Who),
           NEW call \in Caller, NEW signer \in Who, NEW p \in Slots, NEW r,
           Create(call, signer), Await(p, r), r.pc \notin Submitting
    PROVE  /\ IntentsInv(Caller, Who)' /\ IntentsKept /\ NoneConfirmed
           /\ DOMAIN intents' = DOMAIN intents \cup {Len(intents) + 1}
           /\ \A i \in DOMAIN intents : intents'[i] = intents[i]
           /\ intents'[Len(intents) + 1].call = call
           /\ requests'[p] = r
           /\ \A q \in Slots \ {p} : requests'[q] = requests[q]
<1>1. /\ DOMAIN intents' = DOMAIN intents \cup {Len(intents) + 1}
      /\ \A i \in DOMAIN intents : intents'[i] = intents[i]
      /\ LET new == intents'[Len(intents) + 1]
         IN  new.call = call /\ new.signer = signer /\ new.tx = "unsent"
      /\ intents' \in Seq(Intent(Caller, Who)) /\ sequence' = sequence
  BY CreateAppends
<1>2. IntentsKept /\ NoneConfirmed
  BY <1>1 DEF IntentsKept, NoneConfirmed, Confirmed
<1>3. /\ requests'[p] = r /\ \A q \in Slots \ {p} : requests'[q] = requests[q]
      /\ DOMAIN requests' = Slots
  BY DEF Await, IntentsInv
<1>4. \A q \in Slots : requests'[q].pc \in Submitting => requests'[q] \in SubmitState'
  BY <1>1, <1>3 DEF IntentsInv, SubmitState
<1>5. QED BY <1>1, <1>2, <1>3, <1>4 DEF IntentsInv

-----------------------------------------------------------------------------
\* Replacing an intent by one with the same call, signer and value.
LEMMA RewriteKeepsIntents ==
    ASSUME NEW Caller, NEW Who, IntentsInv(Caller, Who), NEW i \in DOMAIN intents,
           NEW row \in Intent(Caller, Who), intents' = [intents EXCEPT ![i] = row],
           row.call = intents[i].call, row.signer = intents[i].signer,
           Confirmed(i) => row.tx = "SUCCESS" /\ row.value = intents[i].value
    PROVE  /\ intents' \in Seq(Intent(Caller, Who))
           /\ DOMAIN intents' = DOMAIN intents
           /\ intents'[i] = row
           /\ \A j \in DOMAIN intents \ {i} : intents'[j] = intents[j]
           /\ IntentsKept
<1>1. intents \in Seq(Intent(Caller, Who))
  BY DEF IntentsInv
<1>2. /\ intents' \in Seq(Intent(Caller, Who))
      /\ DOMAIN intents' = DOMAIN intents
      /\ intents'[i] = row
      /\ \A j \in DOMAIN intents \ {i} : intents'[j] = intents[j]
  BY <1>1
<1>3. IntentsKept
  BY <1>2 DEF IntentsKept, Confirmed
<1>4. QED BY <1>2, <1>3

\* Unless a transaction becomes a success no intent is newly confirmed.
LEMMA NoneSucceeds ==
    ASSUME NEW i, NEW row, DOMAIN intents' = DOMAIN intents, intents'[i] = row,
           \A j \in DOMAIN intents \ {i} : intents'[j] = intents[j],
           row.tx = "SUCCESS" => Confirmed(i)
    PROVE  NoneConfirmed
BY DEF NoneConfirmed, Confirmed

\* Each intent has the fields declared.
LEMMA IntentTyped ==
    ASSUME NEW Caller, NEW Who, IntentsInv(Caller, Who), NEW i \in DOMAIN intents
    PROVE  intents[i] \in Intent(Caller, Who)
BY DEF IntentsInv

\* The steps every submission begins with: none of them moves another
\* handler, and none leads past the wait for the outcome.
LEMMA SubmitKeepsIntents ==
    ASSUME NEW Caller, NEW Who, IntentsInv(Caller, Who), NEW p \in Slots, SubmitStep(p)
    PROVE  /\ IntentsInv(Caller, Who)' /\ IntentsKept /\ NoneConfirmed
           /\ DOMAIN intents' = DOMAIN intents
           /\ requests'[p].pc \in {"idle"} \cup Submitting
           /\ \A q \in Slots \ {p} : requests'[q] = requests[q]
<1>1. CASE SubmitValidate(p)
  <2>1. PICK i \in DOMAIN intents : Await(p, [pc |-> "send", intent |-> i])
    BY <1>1 DEF SubmitValidate
  <2>2. UNCHANGED <<intents, sequence>>
    BY <1>1 DEF SubmitValidate
  <2>3. QED BY <2>1, <2>2, AwaitKeepsIntents DEF SubmitState, Submitting
<1>2. CASE Abort(p)
  <2>1. Await(p, [pc |-> "idle"]) /\ UNCHANGED <<intents, sequence>>
    BY <1>2 DEF Abort, Answer, Idle
  <2>2. QED BY <2>1, AwaitKeepsIntents DEF SubmitState, Submitting
<1>3. ASSUME At(p, "send") \/ At(p, "consume")
      PROVE  requests[p].intent \in DOMAIN intents
  BY <1>3 DEF At, IntentsInv, SubmitState, Submitting
<1>4. CASE Send(p) /\ UNCHANGED intents
  <2>1. \/ Await(p, [pc |-> "idle"])
        \/ Await(p, [pc |-> "consume", intent |-> requests[p].intent])
    BY <1>4 DEF Send, Answer, Idle
  <2>2. UNCHANGED <<intents, sequence>> /\ requests[p].intent \in DOMAIN intents
    BY <1>3, <1>4 DEF Send
  <2>3. QED BY <2>1, <2>2, AwaitKeepsIntents DEF SubmitState, Submitting
<1> DEFINE i == requests[p].intent
           sent == [intents[i] EXCEPT !.tx = "sent"]
           taken == [intents[i] EXCEPT !.consumed = TRUE]
<1>5. CASE Send(p) /\ ~UNCHANGED intents
  <2>1. /\ intents[i].tx = "unsent"
        /\ intents' = [intents EXCEPT ![i] = sent]
        /\ requests' = [requests EXCEPT ![p] = [pc |-> "consume", intent |-> i]]
        /\ UNCHANGED sequence
    BY <1>5 DEF Send, Await
  <2>2. i \in DOMAIN intents
    BY <1>3, <1>5 DEF Send
  <2>3. intents[i] \in Intent(Caller, Who)
    BY <2>2, IntentTyped
  <2>4. sent \in Intent(Caller, Who) /\ sent.call = intents[i].call
        /\ sent.signer = intents[i].signer /\ ~Confirmed(i) /\ ~(sent.tx = "SUCCESS")
    BY <2>1, <2>3 DEF Intent, TxStatus, Confirmed
  <2> HIDE DEF sent
  <2>5. /\ intents' \in Seq(Intent(Caller, Who)) /\ IntentsKept
        /\ DOMAIN intents' = DOMAIN intents /\ intents'[i] = sent
        /\ \A j \in DOMAIN intents \ {i} : intents'[j] = intents[j]
    BY <2>1, <2>2, <2>4, RewriteKeepsIntents
  <2>6. NoneConfirmed
    BY <2>4, <2>5, NoneSucceeds
  <2>7. QED BY <2>1, <2>2, <2>5, <2>6 DEF IntentsInv, SubmitState, Submitting
<1>6. CASE MarkConsumed(p)
  <2>1. /\ intents' = [intents EXCEPT ![i] = taken]
        /\ requests' = [requests EXCEPT ![p] = [pc |-> "wait", intent |-> i]]
        /\ UNCHANGED sequence
    BY <1>6 DEF MarkConsumed, Await
  <2>2. i \in DOMAIN intents
    BY <1>3, <1>6 DEF MarkConsumed
  <2>3. intents[i] \in Intent(Caller, Who)
    BY <2>2, IntentTyped
  <2>4. taken \in Intent(Caller, Who) /\ taken.call = intents[i].call
        /\ taken.signer = intents[i].signer /\ taken.tx = intents[i].tx
        /\ taken.value = intents[i].value
    BY <2>3 DEF Intent
  <2> HIDE DEF taken
  <2>5. /\ intents' \in Seq(Intent(Caller, Who)) /\ IntentsKept
        /\ DOMAIN intents' = DOMAIN intents /\ intents'[i] = taken
        /\ \A j \in DOMAIN intents \ {i} : intents'[j] = intents[j]
    BY <2>1, <2>2, <2>4, RewriteKeepsIntents DEF Confirmed
  <2>6. NoneConfirmed
    BY <2>4, <2>5, NoneSucceeds DEF Confirmed
  <2>7. QED BY <2>1, <2>2, <2>5, <2>6 DEF IntentsInv, SubmitState, Submitting
<1>7. QED BY <1>1, <1>2, <1>4, <1>5, <1>6 DEF SubmitStep

\* A ledger takes a transaction; no other intent and no handler changes.
LEMMA SettleKeepsIntents ==
    ASSUME NEW Caller, NEW Who, IntentsInv(Caller, Who), NEW i \in DOMAIN intents,
           NEW status \in {"SUCCESS", "FAILED"}, NEW value \in Nat, Settle(i, status, value)
    PROVE  /\ IntentsInv(Caller, Who)' /\ IntentsKept
           /\ DOMAIN intents' = DOMAIN intents /\ requests' = requests
           /\ ~Confirmed(i)
           /\ intents'[i].tx = status /\ intents'[i].value = value
           /\ \A j \in DOMAIN intents \ {i} : intents'[j] = intents[j]
<1> DEFINE row == [intents[i] EXCEPT !.tx = status, !.value = value]
<1>1. intents[i] \in Intent(Caller, Who)
  BY IntentTyped
<1>2. /\ intents[i].tx = "sent" /\ ~Confirmed(i)
      /\ intents' = [intents EXCEPT ![i] = row]
      /\ requests' = requests
  BY DEF Settle, Confirmed
<1>3. row \in Intent(Caller, Who) /\ row.call = intents[i].call /\ row.signer = intents[i].signer
      /\ row.tx = status /\ row.value = value
  BY <1>1 DEF Intent, TxStatus
<1>4. sequence' \in [Signers -> Nat]
  BY DEF Settle, IntentsInv
<1> HIDE DEF row
<1>5. /\ intents' \in Seq(Intent(Caller, Who)) /\ IntentsKept
      /\ DOMAIN intents' = DOMAIN intents /\ intents'[i] = row
      /\ \A j \in DOMAIN intents \ {i} : intents'[j] = intents[j]
  BY <1>2, <1>3, RewriteKeepsIntents
<1>6. QED BY <1>2, <1>3, <1>4, <1>5 DEF IntentsInv, SubmitState

\* A transaction that is dropped gives no outcome.
LEMMA ExpireKeepsIntents ==
    ASSUME NEW Caller, NEW Who, IntentsInv(Caller, Who), NEW i \in DOMAIN intents, Expire(i)
    PROVE  /\ IntentsInv(Caller, Who)' /\ IntentsKept /\ NoneConfirmed
           /\ DOMAIN intents' = DOMAIN intents /\ requests' = requests
<1> DEFINE row == [intents[i] EXCEPT !.tx = "expired"]
<1>1. intents[i] \in Intent(Caller, Who)
  BY IntentTyped
<1>2. /\ ~Confirmed(i) /\ intents' = [intents EXCEPT ![i] = row]
      /\ UNCHANGED <<requests, sequence>>
  BY DEF Expire, Confirmed
<1>3. row \in Intent(Caller, Who) /\ row.call = intents[i].call /\ row.signer = intents[i].signer
      /\ row.tx # "SUCCESS"
  BY <1>1 DEF Intent, TxStatus
<1> HIDE DEF row
<1>4. /\ intents' \in Seq(Intent(Caller, Who)) /\ IntentsKept
      /\ DOMAIN intents' = DOMAIN intents /\ intents'[i] = row
      /\ \A j \in DOMAIN intents \ {i} : intents'[j] = intents[j]
  BY <1>2, <1>3, RewriteKeepsIntents
<1>5. NoneConfirmed
  BY <1>3, <1>4, NoneSucceeds
<1>6. QED BY <1>2, <1>4, <1>5 DEF IntentsInv, SubmitState

\* The invariant says what IntentsTypeOK says.
LEMMA IntentsTyped ==
    ASSUME NEW Caller, NEW Who, IntentsInv(Caller, Who) PROVE IntentsTypeOK(Caller)
<1>1. \A i \in DOMAIN intents : intents[i] \in Intent(Caller, Who)
  BY DEF IntentsInv
<1>2. QED BY <1>1 DEF IntentsInv, IntentsTypeOK, Intent
=============================================================================
