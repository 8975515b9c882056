------------------------------ MODULE Indexer ------------------------------
(***************************************************************************)
(* The event indexer: a BullMQ job that, every five seconds, asks the RPC  *)
(* for the events of each watched contract since that contract's cursor    *)
(* and writes what they say to Postgres.  Only one poll runs at a time; it *)
(* may be cut short at any await, and starts again from the cursors.       *)
(*                                                                         *)
(* The chain side is the sequence of the events published so far.  The RPC *)
(* keeps those of the last Retention ledgers, and refuses a startLedger    *)
(* outside the range it keeps with the same words whichever end is missed. *)
(* That its index may lag the ledger by one changes nothing here: the page *)
(* it serves is the page of a poll a moment earlier.                       *)
(*                                                                         *)
(* A step that handles an event also updates the rows of the module that   *)
(* composes with this one.                                                 *)
(***************************************************************************)
EXTENDS Integers, Sequences, FiniteSetsExt

CONSTANTS
    Watched,        \* addresses of the contracts whose events have an effect
    Retention,      \* ledgers whose events the RPC still serves
    MaxLedger,      \* bound: ledgers closed
    MaxIdle,        \* bound: ledgers closed without an event of Watched
    MaxForgone,     \* bound: events lost by a handler that throws
    Followed        \* contracts that already have a cursor

ASSUME IndexerAssumption ==
    /\ Retention \in Nat \ {0} /\ MaxLedger \in Nat /\ MaxIdle \in Nat
    /\ MaxForgone \in Nat /\ Followed \subseteq Watched

VARIABLES
    ledger,         \* the latest ledger
    events,         \* what the watched contracts published, in order; the
                    \* position is the event's id
    cursor,         \* IndexerCursor.lastLedgerSequence, per contract
    poll,           \* where the poll stands
    transactions,   \* the Transaction table
    handled,        \* history: events whose handler ran to its end
    forgone         \* history: events whose handler threw, or older than the
                    \* cursor a contract started with

publishVars == <<ledger, events>>
pollVars == <<cursor, poll, transactions, handled, forgone>>
indexerVars == <<publishVars, pollVars>>

NoCursor == -1
Asleep == [todo |-> {}, high |-> NoCursor]

\* handleTreasuryEvent: the topics it writes a row for, and the row's type;
\* milestone_engine is the only spender at work beside this module.
TypeOf == [deposited |-> "DEPOSIT", withdrawn |-> "WITHDRAWAL",
           transferred_out |-> "MILESTONE_FUND"]

IndexerTypeOK ==
    /\ ledger \in 0 .. MaxLedger
    /\ \A e \in DOMAIN events : events[e].contract \in Watched /\ events[e].ledger \in 1 .. ledger
    /\ cursor \in [Watched -> NoCursor .. ledger]
    /\ poll.todo \subseteq DOMAIN events
    /\ \A k \in DOMAIN transactions : transactions[k].event \in DOMAIN events
    /\ handled \cup forgone \subseteq DOMAIN events

IndexerInit ==
    /\ ledger = 0
    /\ events = <<>>
    /\ cursor = [c \in Watched |-> IF c \in Followed THEN 0 ELSE NoCursor]
    /\ poll = Asleep
    /\ transactions = <<>>
    /\ handled = {}
    /\ forgone = {}

EventsOf(c, first) ==
    {e \in DOMAIN events : events[e].contract = c /\ events[e].ledger >= first}

\* The ledgers the RPC can answer about.
Retained == Max({1, ledger - Retention + 1}) .. ledger

-----------------------------------------------------------------------------
(***************************************************************************)
(* The chain.                                                              *)
(***************************************************************************)
\* A transaction applied in the next ledger, with what its calls published.
Publish(published) ==
    /\ ledger < MaxLedger
    /\ ledger' = ledger + 1
    /\ events' = events \o [k \in DOMAIN published |->
           [contract |-> published[k].contract, topic |-> published[k].topic,
            id |-> published[k].id, amount |-> published[k].amount, ledger |-> ledger + 1]]

\* A ledger none of the watched contracts took part in.  Retention is days and
\* the poll's period seconds: no event grows old waiting for its poll.
IdleLedger ==
    /\ ledger < MaxLedger
    /\ \A c \in Watched : EventsOf(c, cursor[c] + 1) = {} \/ cursor[c] + 1 \notin Retained
    /\ ledger - Cardinality({events[e].ledger : e \in DOMAIN events}) < MaxIdle
    /\ ledger' = ledger + 1
    /\ UNCHANGED <<events, pollVars>>

-----------------------------------------------------------------------------
(***************************************************************************)
(* pollContract.                                                           *)
(***************************************************************************)
\* A contract seen for the first time is followed from the latest ledger on.
Baseline(c) ==
    /\ poll = Asleep
    /\ cursor[c] = NoCursor
    /\ cursor' = [cursor EXCEPT ![c] = ledger]
    /\ forgone' = forgone \cup EventsOf(c, 1)
    /\ UNCHANGED <<publishVars, poll, transactions, handled>>

\* The first ledger to ask for.
StartLedger(c) == cursor[c] + 1

\* getContractEvents.  A start the RPC refuses ends the poll of this contract,
\* and so does an empty page: neither touches the cursor.
Fetch(c) ==
    LET page == EventsOf(c, StartLedger(c)) IN
    /\ poll = Asleep
    /\ cursor[c] # NoCursor
    /\ StartLedger(c) \in Retained
    /\ page # {}
    /\ poll' = [contract |-> c, todo |-> page, high |-> Max({events[e].ledger : e \in page})]
    /\ UNCHANGED <<publishVars, cursor, transactions, handled, forgone>>

\* The RPC answers in the order of publication, and so the loop takes them.
NextEvent == Min(poll.todo)

\* A row for an event, whether or not there is one.
Upsert_Insert(e) == Append(transactions,
    [event |-> e, type |-> TypeOf[events[e].topic], amount |-> events[e].amount])

\* upsertTransaction, keyed by the event's id.
Upsert(e) ==
    IF \E k \in DOMAIN transactions : transactions[k].event = e THEN transactions
    ELSE Append(transactions,
        [event |-> e, type |-> TypeOf[events[e].topic], amount |-> events[e].amount])

\* handleEvent, without the effect on other tables.
Handle ==
    LET e == NextEvent IN
    /\ poll.todo # {}
    /\ transactions' = IF events[e].topic \in DOMAIN TypeOf THEN Upsert(e) ELSE transactions
    /\ handled' = handled \cup {e}
    /\ poll' = [poll EXCEPT !.todo = @ \ {e}]
    /\ UNCHANGED <<publishVars, cursor, forgone>>

\* Whatever the handler throws, the event is logged and skipped.
Skip ==
    /\ Cardinality(forgone) < MaxForgone
    /\ poll.todo # {}
    /\ forgone' = forgone \cup {NextEvent}
    /\ poll' = [poll EXCEPT !.todo = @ \ {NextEvent}]
    /\ UNCHANGED <<publishVars, cursor, transactions, handled>>

\* The cursor moved to the latest ledger, and to the next one to ask for.
Advance_ToHead ==
    /\ poll # Asleep
    /\ poll.todo = {}
    /\ cursor' = [cursor EXCEPT ![poll.contract] = ledger]
    /\ poll' = Asleep
    /\ UNCHANGED <<publishVars, transactions, handled, forgone>>

Advance_PastBatch ==
    /\ poll # Asleep
    /\ poll.todo = {}
    /\ cursor' = [cursor EXCEPT ![poll.contract] = poll.high + 1]
    /\ poll' = Asleep
    /\ UNCHANGED <<publishVars, transactions, handled, forgone>>

\* Only when the whole batch is handled, and only as far as it went.
Advance ==
    /\ poll # Asleep
    /\ poll.todo = {}
    /\ cursor' = [cursor EXCEPT ![poll.contract] = poll.high]
    /\ poll' = Asleep
    /\ UNCHANGED <<publishVars, transactions, handled, forgone>>

\* The worker goes down, or an await outside the handlers throws.
Interrupt ==
    /\ poll # Asleep
    /\ poll' = Asleep
    /\ UNCHANGED <<publishVars, cursor, transactions, handled, forgone>>

-----------------------------------------------------------------------------
(***************************************************************************)
(* Properties.                                                             *)
(***************************************************************************)

\* No event at or before a contract's cursor was passed over: it was handled,
\* or lost to a handler that threw.  The cursor is what a restart resumes
\* from, so an event behind it is one nobody will look at again.
CursorCovered ==
    \A e \in DOMAIN events :
        events[e].ledger <= cursor[events[e].contract] => e \in handled \cup forgone

CaughtUp == DOMAIN events \subseteq handled \cup forgone

\* Every event is handled in the end (or its loss is logged): EVENT_INDEXING.md
\* promises that no events are skipped.
EventuallyIndexed == []<>CaughtUp
=============================================================================
