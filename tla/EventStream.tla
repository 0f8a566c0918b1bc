---------------------------- MODULE EventStream ----------------------------
(***************************************************************************)
(* The way of an event from its transaction to a browser: the writers that  *)
(* append to invoice_events and event_outbox, the relays that mark outbox   *)
(* rows DELIVERED (relay_outbox_batch), the server's stream that polls the  *)
(* delivered events beyond its cursor (load_event_history, sse_stream), and *)
(* the browser's EventSource, which reconnects with the last id it received.*)
(*                                                                         *)
(* An event carries the time at which its transaction began, which is not   *)
(* the order of the commits; a stream reads the events in the order of      *)
(* (occurred_at, invoice_id, sequence).                                     *)
(***************************************************************************)
EXTENDS Naturals, FiniteSets

CONSTANTS
  Invoice,       \* invoice ids, ordered like the index
  Writer,        \* transactions that publish one event
  Relay,         \* processes that run the relay
  Stream,        \* browsers, each with one EventSource
  RelayBatch,    \* LIMIT of the relay
  PageLimit,     \* LIMIT of a poll
  MaxSequence,   \* bounds on the events of the invoices
  MaxClock,      \* bound on the database clock
  MaxFaults,     \* bound on lost connections, page reloads and relay crashes
  MaxResets,     \* bound on resets of the hero invoice
  None           \* no transaction, no cursor

ASSUME InvoiceAssumption == Invoice \subseteq Nat
ASSUME LimitAssumption == RelayBatch \in Nat \ {0} /\ PageLimit \in Nat \ {0}
ASSUME BoundAssumption ==
  MaxSequence \in [Invoice -> Nat] /\ MaxClock \in Nat /\ MaxFaults \in Nat /\ MaxResets \in Nat

Event ==
  UNION {[at : 0 .. MaxClock, invoice : {i}, sequence : 1 .. MaxSequence[i]] : i \in Invoice}

ASSUME NoneAssumption == None \notin 0 .. MaxClock /\ None \notin Event

VARIABLES
  clock,      \* the database's now()
  opened,     \* when each writer's transaction began, or None
  sequence,   \* invoices.status_sequence
  pending,    \* events whose outbox row is PENDING
  delivered,  \* events whose outbox row is DELIVERED
  locked,     \* the outbox rows that a relay's transaction has locked
  cursor,     \* the last event id a browser received, which its stream reads from
  up,         \* is the stream's generator running?
  checked,    \* cursor_checked: has the generator polled once?
  page,       \* events that the generator has read and not yet sent
  received,   \* history: events the browser got since it last started from nothing
  missed,     \* history: events delivered when the stream had read past them
  faults,     \* faults so far
  resets      \* resets so far

writing == <<clock, opened, sequence>>
outbox == <<pending, delivered, locked>>
reading == <<cursor, up, checked, page, received, missed>>
vars == <<writing, outbox, reading, faults, resets>>

\* The type invariant of the tables, the relays and the streams.
TypeOK ==
  /\ clock \in 0 .. MaxClock
  /\ opened \in [Writer -> 0 .. MaxClock \cup {None}]
  /\ sequence \in [Invoice -> Nat] /\ \A i \in Invoice : sequence[i] <= MaxSequence[i]
  /\ pending \subseteq Event
  /\ delivered \subseteq Event
  /\ locked \in [Relay -> SUBSET Event]
  /\ cursor \in [Stream -> Event \cup {None}]
  /\ up \in [Stream -> BOOLEAN]
  /\ checked \in [Stream -> BOOLEAN]
  /\ page \in [Stream -> SUBSET Event]
  /\ received \in [Stream -> SUBSET Event]
  /\ missed \in [Stream -> SUBSET Event]
  /\ faults \in 0 .. MaxFaults
  /\ resets \in 0 .. MaxResets

Init ==
  /\ clock = 0
  /\ opened = [w \in Writer |-> None]
  /\ sequence = [i \in Invoice |-> 0]
  /\ pending = {}
  /\ delivered = {}
  /\ locked = [r \in Relay |-> {}]
  /\ cursor = [s \in Stream |-> None]
  /\ up = [s \in Stream |-> FALSE]
  /\ checked = [s \in Stream |-> FALSE]
  /\ page = [s \in Stream |-> {}]
  /\ received = [s \in Stream |-> {}]
  /\ missed = [s \in Stream |-> {}]
  /\ faults = 0
  /\ resets = 0

\* ORDER BY occurred_at, invoice_id, sequence
Before(e, f) ==
  \/ e.at < f.at
  \/ e.at = f.at /\ e.invoice < f.invoice
  \/ e.at = f.at /\ e.invoice = f.invoice /\ e.sequence < f.sequence

\* B holds as many members of S as a LIMIT lets through.
Limited(B, S, limit) ==
  /\ B \subseteq S
  /\ Cardinality(B) = IF Cardinality(S) < limit THEN Cardinality(S) ELSE limit

-----------------------------------------------------------------------------
\* Writers.

\* SELECT now(): the time at which the transaction began.
Open(w) ==
  /\ opened[w] = None
  /\ opened' = [opened EXCEPT ![w] = clock]
  /\ UNCHANGED <<clock, sequence, outbox, reading, faults, resets>>

\* The invoice row is locked and its sequence advanced, the event and its outbox
\* row are inserted, and the transaction commits.
Publish(w, i) ==
  /\ opened[w] # None
  /\ sequence[i] < MaxSequence[i]
  /\ sequence' = [sequence EXCEPT ![i] = @ + 1]
  /\ pending' = pending \cup
       {[at |-> opened[w], invoice |-> i, sequence |-> sequence[i] + 1]}
  /\ opened' = [opened EXCEPT ![w] = None]
  /\ UNCHANGED <<clock, delivered, locked, reading, faults, resets>>

ClockTicks ==
  /\ clock < MaxClock
  /\ clock' = clock + 1
  /\ UNCHANGED <<opened, sequence, outbox, reading, faults, resets>>

\* demo_reset_hero deletes the events of an invoice and their outbox rows; it
\* waits for a relay that has locked one.
Reset(i) ==
  /\ resets < MaxResets
  /\ \A r \in Relay : \A e \in locked[r] : e.invoice # i
  /\ pending' = {e \in pending : e.invoice # i}
  /\ delivered' = {e \in delivered : e.invoice # i}
  /\ resets' = resets + 1
  /\ UNCHANGED <<writing, locked, reading, faults>>

-----------------------------------------------------------------------------
\* The relay.

\* FOR UPDATE SKIP LOCKED
Unlocked == pending \ UNION {locked[r] : r \in Relay}

\* A relay that waits until a batch is full.
LockFullBatch(r) ==
  /\ locked[r] = {}
  /\ Cardinality(Unlocked) >= RelayBatch
  /\ \E B \in SUBSET Unlocked :
       /\ Limited(B, Unlocked, RelayBatch)
       /\ \A e \in B, f \in Unlocked \ B : e.at <= f.at
       /\ locked' = [locked EXCEPT ![r] = B]
  /\ UNCHANGED <<writing, pending, delivered, reading, faults, resets>>

\* ORDER BY available_at, id LIMIT n, where available_at is the time of the event
\* and id is random.
LockBatch(r) ==
  /\ locked[r] = {}
  /\ Unlocked # {}
  /\ \E B \in SUBSET Unlocked :
       /\ Limited(B, Unlocked, RelayBatch)
       /\ \A e \in B, f \in Unlocked \ B : e.at <= f.at
       /\ locked' = [locked EXCEPT ![r] = B]
  /\ UNCHANGED <<writing, pending, delivered, reading, faults, resets>>

\* Has stream s read past event e?
Passed(s, e) ==
  \/ cursor[s] # None /\ Before(e, cursor[s])
  \/ \E f \in page[s] : Before(e, f)

\* The batch is marked DELIVERED.
Deliver(r) ==
  /\ locked[r] # {}
  /\ pending' = pending \ locked[r]
  /\ delivered' = delivered \cup locked[r]
  /\ locked' = [locked EXCEPT ![r] = {}]
  /\ missed' = [s \in Stream |-> missed[s] \cup {e \in locked[r] : Passed(s, e)}]
  /\ UNCHANGED <<writing, cursor, up, checked, page, received, faults, resets>>

\* The relay's process or its transaction ends before the commit.
RelayCrash(r) ==
  /\ locked[r] # {}
  /\ faults < MaxFaults
  /\ faults' = faults + 1
  /\ locked' = [locked EXCEPT ![r] = {}]
  /\ UNCHANGED <<writing, pending, delivered, reading, resets>>

-----------------------------------------------------------------------------
\* The stream and its browser.

\* EventSource connects, with the last id it received.
Connect(s) ==
  /\ ~up[s]
  /\ up' = [up EXCEPT ![s] = TRUE]
  /\ checked' = [checked EXCEPT ![s] = FALSE]
  /\ UNCHANGED <<writing, outbox, cursor, page, received, missed, faults, resets>>

\* The cursor names an event that does not exist (any more).
Unknown(s) == cursor[s] # None /\ cursor[s] \notin pending \cup delivered

\* The event of the cursor is read again.
AheadOrAt(s) ==
  IF cursor[s] = None THEN delivered ELSE {e \in delivered : ~Before(e, cursor[s])}

\* The delivered events beyond the cursor.
Ahead(s) ==
  IF cursor[s] = None THEN delivered ELSE {e \in delivered : Before(cursor[s], e)}

\* Only the first poll of a generator tells the browser of an unknown cursor, and
\* starts from nothing; a later one reads no events.
PollUnknown(s) ==
  /\ up[s] /\ page[s] = {}
  /\ Unknown(s)
  /\ checked' = [checked EXCEPT ![s] = TRUE]
  /\ IF checked[s]
       THEN UNCHANGED <<cursor, received, missed>>
       ELSE /\ cursor' = [cursor EXCEPT ![s] = None]
            /\ received' = [received EXCEPT ![s] = {}]
            /\ missed' = [missed EXCEPT ![s] = {}]
  /\ UNCHANGED <<writing, outbox, up, page, faults, resets>>

\* A page in no particular order.
PollUnordered(s) ==
  /\ up[s] /\ page[s] = {}
  /\ ~Unknown(s)
  /\ checked' = [checked EXCEPT ![s] = TRUE]
  /\ \E P \in SUBSET Ahead(s) :
       /\ Limited(P, Ahead(s), PageLimit)
       /\ page' = [page EXCEPT ![s] = P]
  /\ UNCHANGED <<writing, outbox, cursor, up, received, missed, faults, resets>>

\* The next page of events.
Poll(s) ==
  /\ up[s] /\ page[s] = {}
  /\ ~Unknown(s)
  /\ checked' = [checked EXCEPT ![s] = TRUE]
  /\ \E P \in SUBSET Ahead(s) :
       /\ Limited(P, Ahead(s), PageLimit)
       /\ \A e \in P, f \in Ahead(s) \ P : Before(e, f)
       /\ page' = [page EXCEPT ![s] = P]
  /\ UNCHANGED <<writing, outbox, cursor, up, received, missed, faults, resets>>

\* The first event of the page reaches the browser.
Yield(s, e) ==
  /\ up[s]
  /\ e \in page[s]
  /\ \A f \in page[s] \ {e} : Before(e, f)
  /\ page' = [page EXCEPT ![s] = @ \ {e}]
  /\ cursor' = [cursor EXCEPT ![s] = e]
  /\ received' = [received EXCEPT ![s] = @ \cup {e}]
  /\ UNCHANGED <<writing, outbox, up, checked, missed, faults, resets>>

\* The connection is lost, and with it what was on its way: an event missed
\* before it is missed still, unless the stream had only read past it.
Drop(s) ==
  /\ up[s]
  /\ faults < MaxFaults
  /\ faults' = faults + 1
  /\ up' = [up EXCEPT ![s] = FALSE]
  /\ page' = [page EXCEPT ![s] = {}]
  /\ missed' = [missed EXCEPT ![s] = {e \in @ : cursor[s] # None /\ Before(e, cursor[s])}]
  /\ UNCHANGED <<writing, outbox, cursor, checked, received, resets>>

\* The page is reloaded: an EventSource without an id.
Reload(s) ==
  /\ faults < MaxFaults
  /\ faults' = faults + 1
  /\ cursor' = [cursor EXCEPT ![s] = None]
  /\ up' = [up EXCEPT ![s] = FALSE]
  /\ page' = [page EXCEPT ![s] = {}]
  /\ received' = [received EXCEPT ![s] = {}]
  /\ missed' = [missed EXCEPT ![s] = {}]
  /\ UNCHANGED <<writing, outbox, checked, resets>>

StreamStep(s) ==
  \/ Connect(s) \/ PollUnknown(s) \/ Poll(s) \/ \E e \in page[s] : Yield(s, e)

Next ==
  \/ \E w \in Writer : Open(w) \/ \E i \in Invoice : Publish(w, i)
  \/ ClockTicks
  \/ \E i \in Invoice : Reset(i)
  \/ \E r \in Relay : LockBatch(r) \/ Deliver(r) \/ RelayCrash(r)
  \/ \E s \in Stream : StreamStep(s) \/ Drop(s) \/ Reload(s)

Spec == Init /\ [][Next]_vars

\* The loop of the runtime relays in every iteration, and a generator polls
\* every half second as long as its browser reads; EventSource reconnects.
Fairness ==
  /\ \A r \in Relay : WF_vars(LockBatch(r)) /\ WF_vars(Deliver(r))
  /\ \A s \in Stream : WF_vars(StreamStep(s))

FairSpec == Spec /\ Fairness

-----------------------------------------------------------------------------
\* Properties.

\* "Last-Event-ID resumes the cursor": an event behind the cursor was received,
\* whatever pages, connections and relays lie in between, unless it was marked
\* DELIVERED only after the stream had read past its time.
NothingElseSkipped ==
  \A s \in Stream : \A e \in delivered :
    cursor[s] # None /\ ~Before(cursor[s], e) => e \in received[s] \cup missed[s]

\* EXECUTION_MANIFEST.json: replay "returned the three missed events once".  What
\* a stream is about to send has not been received, and is not behind the cursor.
NeverTwice ==
  \A s \in Stream : \A e \in page[s] :
    /\ e \notin received[s]
    /\ cursor[s] # None => Before(cursor[s], e)

Stalled(s) == up[s] /\ checked[s] /\ Unknown(s)

\* An event that was published reaches every browser, unless it was missed as
\* above, deleted, or the stream stands on a deleted event.
EveryEventArrives ==
  \A s \in Stream, e \in Event :
    e \in pending \cup delivered ~>
      \/ e \in received[s] \cup missed[s]
      \/ e \notin pending \cup delivered
      \/ Stalled(s)

\* sse_stream: "Event cursor is unavailable; reload server snapshots".  A stream
\* whose cursor was deleted gets to say so.
UnknownCursorReported == \A s \in Stream : Unknown(s) ~> ~Unknown(s)

=============================================================================
