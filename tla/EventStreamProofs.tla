------------------------- MODULE EventStreamProofs -------------------------
(***************************************************************************)
(* Proofs about EventStream, for any writers, relays, browsers, limits and   *)
(* number of events: no event is sent twice, and none behind the cursor is   *)
(* lacking but those that were marked DELIVERED too late.                   *)
(***************************************************************************)
EXTENDS EventStream, TLAPS

\* An event carries a number that its invoice has already given out, and it is
\* delivered once only.
NumberInv ==
  /\ \A e \in pending \cup delivered : e.sequence <= sequence[e.invoice]
  /\ \A s \in Stream : \A e \in page[s] \cup received[s] : e.sequence <= sequence[e.invoice]
  /\ pending \cap delivered = {}
  /\ \A s \in Stream : pending \cap (page[s] \cup received[s]) = {}

\* Two relays never lock one row.
LockInv ==
  /\ \A r \in Relay : locked[r] \subseteq pending
  /\ \A q, r \in Relay : q # r => locked[q] \cap locked[r] = {}

\* The cursor is the last event received.
CursorInv ==
  \A s \in Stream :
    /\ cursor[s] # None => cursor[s] \in received[s]
    /\ \A e \in received[s] : cursor[s] # None /\ (e = cursor[s] \/ Before(e, cursor[s]))

\* Between the cursor and an event of the page there is nothing but the page.
PageInv ==
  \A s \in Stream : \A e \in page[s], f \in delivered :
    Before(f, e) /\ (cursor[s] = None \/ Before(cursor[s], f)) => f \in page[s] \cup missed[s]

StreamInv == CursorInv /\ PageInv /\ NeverTwice /\ NothingElseSkipped

IInv == TypeOK /\ NumberInv /\ LockInv /\ StreamInv

-----------------------------------------------------------------------------
\* The fields of an event are numbers, and they make up the event.
LEMMA EventFields ==
  ASSUME NEW e \in Event
  PROVE  /\ e.at \in Nat /\ e.invoice \in Nat /\ e.sequence \in Nat
         /\ e.invoice \in Invoice
         /\ e = [at |-> e.at, invoice |-> e.invoice, sequence |-> e.sequence]
<1>1. PICK i \in Invoice : e \in [at : 0 .. MaxClock, invoice : {i}, sequence : 1 .. MaxSequence[i]]
  BY DEF Event
<1>2. e.at \in 0 .. MaxClock /\ e.invoice = i /\ e.sequence \in 1 .. MaxSequence[i]
  BY <1>1
<1>3. e = [at |-> e.at, invoice |-> e.invoice, sequence |-> e.sequence]
  BY <1>1
<1>4. QED
  BY <1>2, <1>3, InvoiceAssumption, BoundAssumption

\* The order of the stream is a strict total order on the events.
LEMMA BeforeOrder ==
  ASSUME NEW e \in Event, NEW f \in Event
  PROVE  /\ ~(Before(e, f) /\ Before(f, e)) /\ ~Before(e, e)
         /\ e = f \/ Before(e, f) \/ Before(f, e)
         /\ \A g \in Event : Before(e, f) /\ Before(f, g) => Before(e, g)
<1>1. /\ ~(Before(e, f) /\ Before(f, e)) /\ ~Before(e, e)
      /\ \A g \in Event : Before(e, f) /\ Before(f, g) => Before(e, g)
  BY EventFields DEF Before
<1>2. ~Before(e, f) /\ ~Before(f, e) =>
        e.at = f.at /\ e.invoice = f.invoice /\ e.sequence = f.sequence
  BY EventFields DEF Before
<1>3. e = f \/ Before(e, f) \/ Before(f, e)
  BY <1>2, EventFields
<1>4. QED
  BY <1>1, <1>3

\* In the beginning there are no events.
LEMMA InitIInv == Init => IInv
<1> SUFFICES ASSUME Init PROVE IInv
  OBVIOUS
<1> USE DEF Init
<1>1. TypeOK
  <2>1. clock \in 0 .. MaxClock /\ faults \in 0 .. MaxFaults /\ resets \in 0 .. MaxResets
    BY BoundAssumption
  <2>2. sequence \in [Invoice -> Nat] /\ \A i \in Invoice : sequence[i] <= MaxSequence[i]
    BY BoundAssumption
  <2>3. up \in [Stream -> BOOLEAN] /\ checked \in [Stream -> BOOLEAN]
    OBVIOUS
  <2>4. /\ opened \in [Writer -> 0 .. MaxClock \cup {None}]
        /\ locked \in [Relay -> SUBSET Event] /\ pending \subseteq Event /\ delivered \subseteq Event
        /\ cursor \in [Stream -> Event \cup {None}]
    OBVIOUS
  <2>5. /\ page \in [Stream -> SUBSET Event] /\ received \in [Stream -> SUBSET Event]
        /\ missed \in [Stream -> SUBSET Event]
    OBVIOUS
  <2>6. QED
    BY <2>1, <2>2, <2>3, <2>4, <2>5 DEF TypeOK
<1>2. NumberInv /\ LockInv
  BY DEF NumberInv, LockInv
<1>3. StreamInv
  BY DEF StreamInv, CursorInv, PageInv, NeverTwice, NothingElseSkipped
<1>4. QED
  BY <1>1, <1>2, <1>3 DEF IInv

-----------------------------------------------------------------------------
\* Steps of the writers and of the clock, by conjunct.

\* A transaction begins, or time passes.
LEMMA BeginIInv ==
  ASSUME IInv, (\E w \in Writer : Open(w)) \/ ClockTicks
  PROVE  IInv'
<1>1. UNCHANGED <<sequence, outbox, reading, faults, resets>>
  BY DEF Open, ClockTicks
<1>2. clock' \in 0 .. MaxClock /\ opened' \in [Writer -> 0 .. MaxClock \cup {None}]
  BY BoundAssumption DEF IInv, TypeOK, Open, ClockTicks
<1>3. TypeOK'
  BY <1>1, <1>2 DEF IInv, TypeOK, outbox, reading
<1>4. NumberInv' /\ LockInv'
  BY <1>1 DEF IInv, NumberInv, LockInv, outbox, reading
<1>5. StreamInv'
  BY <1>1 DEF IInv, StreamInv, CursorInv, PageInv, NeverTwice, NothingElseSkipped, outbox, reading
<1>6. QED
  BY <1>3, <1>4, <1>5 DEF IInv

\* An event is published under a new number.
LEMMA PublishIInv ==
  ASSUME IInv, NEW w \in Writer, NEW i \in Invoice, Publish(w, i)
  PROVE  IInv'
<1> DEFINE e == [at |-> opened[w], invoice |-> i, sequence |-> sequence[i] + 1]
<1>1. /\ UNCHANGED <<clock, delivered, locked, reading, faults, resets>>
      /\ pending' = pending \cup {e} /\ opened[w] # None
      /\ sequence' = [sequence EXCEPT ![i] = @ + 1] /\ sequence[i] < MaxSequence[i]
      /\ opened' = [opened EXCEPT ![w] = None]
  BY DEF Publish
<1>2. e \in Event
  <2>1. opened[w] \in 0 .. MaxClock
    BY <1>1 DEF IInv, TypeOK
  <2>2. sequence[i] \in Nat /\ MaxSequence[i] \in Nat
    BY BoundAssumption DEF IInv, TypeOK
  <2>3. sequence[i] + 1 \in 1 .. MaxSequence[i]
    BY <1>1, <2>2
  <2>4. e \in [at : 0 .. MaxClock, invoice : {i}, sequence : 1 .. MaxSequence[i]]
    BY <2>1, <2>3
  <2>5. QED
    BY <2>4 DEF Event
<1>3. /\ sequence'[i] = sequence[i] + 1 /\ sequence[i] \in Nat
      /\ \A j \in Invoice : sequence'[j] \in Nat /\ sequence[j] <= sequence'[j]
  BY <1>1 DEF IInv, TypeOK
<1>4. TypeOK'
  <2>1. sequence' \in [Invoice -> Nat] /\ \A j \in Invoice : sequence'[j] <= MaxSequence[j]
    <3>1. sequence \in [Invoice -> Nat] /\ \A j \in Invoice : sequence[j] <= MaxSequence[j] /\ MaxSequence[j] \in Nat
      BY BoundAssumption DEF IInv, TypeOK
    <3>2. sequence' \in [Invoice -> Nat]
      BY <1>1, <3>1
    <3>3. QED
      BY <1>1, <1>3, <3>1, <3>2
  <2>2. pending' \subseteq Event /\ opened' \in [Writer -> 0 .. MaxClock \cup {None}]
    BY <1>1, <1>2 DEF IInv, TypeOK
  <2>3. QED
    BY <1>1, <2>1, <2>2 DEF IInv, TypeOK, reading
<1>5. e.invoice = i /\ e.sequence = sequence[i] + 1
  OBVIOUS
<1> HIDE DEF e
<1>6. \A f \in Event : f.sequence <= sequence[f.invoice] =>
        f # e /\ f.sequence <= sequence'[f.invoice]
  BY <1>3, <1>5, EventFields DEF IInv, TypeOK
<1>7. NumberInv'
  <2>1. /\ \A f \in pending \cup delivered : f \in Event
        /\ \A s \in Stream : \A f \in page[s] \cup received[s] : f \in Event
    BY DEF IInv, TypeOK
  <2>2. /\ \A f \in pending' \cup delivered' : f.sequence <= sequence'[f.invoice]
    BY <1>1, <1>3, <1>5, <1>6, <2>1 DEF IInv, NumberInv
  <2>3. \A s \in Stream : \A f \in page'[s] \cup received'[s] : f.sequence <= sequence'[f.invoice]
    BY <1>1, <1>6, <2>1 DEF IInv, NumberInv, reading
  <2>4. e \notin delivered /\ \A s \in Stream : e \notin page[s] \cup received[s]
    BY <1>6, <2>1 DEF IInv, NumberInv
  <2>5. pending' \cap delivered' = {} /\ \A s \in Stream : pending' \cap (page'[s] \cup received'[s]) = {}
    BY <1>1, <2>4 DEF IInv, NumberInv, reading
  <2>6. QED
    BY <2>2, <2>3, <2>5 DEF NumberInv
<1>8. LockInv'
  BY <1>1 DEF IInv, LockInv
<1>9. StreamInv'
  BY <1>1 DEF IInv, StreamInv, CursorInv, PageInv, NeverTwice, NothingElseSkipped, reading
<1>10. QED
  BY <1>4, <1>7, <1>8, <1>9 DEF IInv

\* The events of an invoice are deleted.
LEMMA ResetIInv ==
  ASSUME IInv, NEW i \in Invoice, Reset(i)
  PROVE  IInv'
<1>1. /\ UNCHANGED <<writing, locked, reading, faults>>
      /\ pending' = {e \in pending : e.invoice # i}
      /\ delivered' = {e \in delivered : e.invoice # i}
      /\ \A r \in Relay : \A e \in locked[r] : e.invoice # i
      /\ resets' \in 0 .. MaxResets
  BY BoundAssumption DEF Reset, IInv, TypeOK
<1>2. TypeOK'
  BY <1>1 DEF IInv, TypeOK, writing, reading
<1>3. NumberInv'
  BY <1>1 DEF IInv, NumberInv, writing, reading
<1>4. LockInv'
  BY <1>1 DEF IInv, LockInv
<1>5. StreamInv'
  BY <1>1 DEF IInv, StreamInv, CursorInv, PageInv, NeverTwice, NothingElseSkipped, reading
<1>6. QED
  BY <1>2, <1>3, <1>4, <1>5 DEF IInv

-----------------------------------------------------------------------------
\* The relays lock and let go.
LEMMA LockIInv ==
  ASSUME IInv, NEW r \in Relay, LockBatch(r) \/ RelayCrash(r)
  PROVE  IInv'
<1>1. /\ UNCHANGED <<writing, pending, delivered, reading, resets>>
      /\ faults' \in 0 .. MaxFaults
      /\ \E B \in SUBSET Unlocked : locked' = [locked EXCEPT ![r] = B]
  <2>1. CASE LockBatch(r)
    BY <2>1 DEF LockBatch, IInv, TypeOK
  <2>2. CASE RelayCrash(r)
    <3>1. /\ UNCHANGED <<writing, pending, delivered, reading, resets>>
          /\ locked' = [locked EXCEPT ![r] = {}] /\ {} \in SUBSET Unlocked
      BY <2>2 DEF RelayCrash
    <3>2. faults' \in 0 .. MaxFaults
      BY <2>2, BoundAssumption DEF RelayCrash, IInv, TypeOK
    <3>3. QED
      BY <3>1, <3>2
  <2>3. QED
    BY <2>1, <2>2
<1>2. PICK B \in SUBSET Unlocked : locked' = [locked EXCEPT ![r] = B]
  BY <1>1
<1>3. B \subseteq pending /\ \A q \in Relay : B \cap locked[q] = {}
  BY <1>2 DEF Unlocked
<1>4. locked'[r] = B /\ \A q \in Relay : q # r => locked'[q] = locked[q]
  BY <1>2 DEF IInv, TypeOK
<1>5. TypeOK'
  BY <1>1, <1>2, <1>3 DEF IInv, TypeOK, writing, reading
<1>6. NumberInv'
  BY <1>1 DEF IInv, NumberInv, writing, reading
<1>7. LockInv'
  BY <1>1, <1>3, <1>4 DEF IInv, LockInv
<1>8. StreamInv'
  BY <1>1 DEF IInv, StreamInv, CursorInv, PageInv, NeverTwice, NothingElseSkipped, reading
<1>9. QED
  BY <1>5, <1>6, <1>7, <1>8 DEF IInv

\* A batch is delivered; a stream misses what it has read past.
LEMMA DeliverIInv ==
  ASSUME IInv, NEW r \in Relay, Deliver(r)
  PROVE  IInv'
<1>1. /\ UNCHANGED <<writing, cursor, up, checked, page, received, faults, resets>>
      /\ pending' = pending \ locked[r] /\ delivered' = delivered \cup locked[r]
      /\ locked' = [locked EXCEPT ![r] = {}]
      /\ missed' = [s \in Stream |-> missed[s] \cup {e \in locked[r] : Passed(s, e)}]
  BY DEF Deliver
<1>2. locked'[r] = {} /\ \A q \in Relay : q # r => locked'[q] = locked[q]
  BY <1>1 DEF IInv, TypeOK
<1>3. locked[r] \subseteq pending /\ locked[r] \subseteq Event
  BY DEF IInv, TypeOK, LockInv
<1>4. \A s \in Stream : missed'[s] = missed[s] \cup {e \in locked[r] : Passed(s, e)}
  BY <1>1
<1>5. TypeOK'
  <2>1. missed' \in [Stream -> SUBSET Event]
    BY <1>1, <1>3 DEF IInv, TypeOK
  <2>2. locked' \in [Relay -> SUBSET Event]
    BY <1>1 DEF IInv, TypeOK
  <2>3. QED
    BY <1>1, <1>3, <2>1, <2>2 DEF IInv, TypeOK, writing
<1>6. NumberInv'
  BY <1>1, <1>3 DEF IInv, NumberInv, writing
<1>7. LockInv'
  BY <1>1, <1>2 DEF IInv, LockInv
<1>8. CursorInv' /\ NeverTwice'
  BY <1>1 DEF IInv, StreamInv, CursorInv, NeverTwice
<1>9. PageInv'
  <2>1. SUFFICES ASSUME NEW s \in Stream, NEW e \in page[s], NEW f \in delivered',
                        Before(f, e), cursor[s] = None \/ Before(cursor[s], f)
                 PROVE  f \in page[s] \cup missed'[s]
    BY <1>1 DEF PageInv
  <2>2. CASE f \in delivered
    BY <1>4, <2>1, <2>2 DEF IInv, StreamInv, PageInv
  <2>3. CASE f \in locked[r]
    BY <1>4, <2>1, <2>3 DEF Passed
  <2>4. QED
    BY <1>1, <2>2, <2>3
<1>10. NothingElseSkipped'
  <2>1. SUFFICES ASSUME NEW s \in Stream, NEW e \in delivered', cursor[s] # None,
                        ~Before(cursor[s], e)
                 PROVE  e \in received[s] \cup missed'[s]
    BY <1>1 DEF NothingElseSkipped
  <2>2. CASE e \in delivered
    BY <1>4, <2>1, <2>2 DEF IInv, StreamInv, NothingElseSkipped
  <2>3. CASE e \in locked[r]
    <3>1. cursor[s] \in Event /\ cursor[s] \in received[s]
      BY <2>1 DEF IInv, TypeOK, StreamInv, CursorInv
    <3>2. cursor[s] # e
      BY <1>3, <2>3, <3>1 DEF IInv, NumberInv
    <3>3. Before(e, cursor[s])
      BY <1>3, <2>1, <2>3, <3>1, <3>2, BeforeOrder
    <3>4. QED
      BY <1>4, <2>1, <2>3, <3>3 DEF Passed
  <2>4. QED
    BY <1>1, <2>2, <2>3
<1>11. QED
  BY <1>5, <1>6, <1>7, <1>8, <1>9, <1>10 DEF IInv, StreamInv


-----------------------------------------------------------------------------
\* Steps of the streams.

\* What the invariants say of one stream.
Kept(s) ==
  /\ cursor[s] # None => cursor[s] \in received[s]
  /\ \A e \in received[s] : cursor[s] # None /\ (e = cursor[s] \/ Before(e, cursor[s]))
  /\ \A e \in page[s], f \in delivered :
       Before(f, e) /\ (cursor[s] = None \/ Before(cursor[s], f)) => f \in page[s] \cup missed[s]
  /\ \A e \in page[s] : e \notin received[s] /\ (cursor[s] # None => Before(cursor[s], e))
  /\ \A e \in delivered :
       cursor[s] # None /\ ~Before(cursor[s], e) => e \in received[s] \cup missed[s]

LEMMA KeptByAll == StreamInv <=> \A s \in Stream : Kept(s)
BY DEF Kept, StreamInv, CursorInv, PageInv, NeverTwice, NothingElseSkipped

\* The other variables, and what the stream knows of its generator.
Frame ==
  /\ UNCHANGED <<writing, outbox, resets>>
  /\ faults' \in 0 .. MaxFaults
  /\ up' \in [Stream -> BOOLEAN]
  /\ checked' \in [Stream -> BOOLEAN]

\* A step of stream s that leaves the other streams alone and sends it nothing but
\* delivered events has to preserve what the invariants say of s.
LEMMA StreamFrame ==
  ASSUME IInv, NEW s \in Stream, Frame,
         cursor' \in [Stream -> Event \cup {None}], page' \in [Stream -> SUBSET Event],
         received' \in [Stream -> SUBSET Event], missed' \in [Stream -> SUBSET Event],
         \A q \in Stream : q # s =>
           /\ cursor'[q] = cursor[q] /\ page'[q] = page[q]
           /\ received'[q] = received[q] /\ missed'[q] = missed[q],
         page'[s] \cup received'[s] \subseteq page[s] \cup received[s] \cup delivered,
         Kept(s)'
  PROVE  IInv'
<1>1. TypeOK'
  BY DEF IInv, TypeOK, Frame, writing, outbox
<1>2. UNCHANGED <<sequence, pending, delivered, locked>>
  BY DEF Frame, writing, outbox
<1>3. NumberInv'
  <2>1. \A q \in Stream : page'[q] \cup received'[q] \subseteq page[q] \cup received[q] \cup delivered
    OBVIOUS
  <2>2. QED
    BY <1>2, <2>1 DEF IInv, NumberInv
<1>4. LockInv'
  BY <1>2 DEF IInv, LockInv
<1>5. StreamInv'
  <2>1. ASSUME NEW q \in Stream PROVE Kept(q)'
    <3>1. CASE q = s
      BY <3>1
    <3>2. CASE q # s
      BY <1>2, <3>2, KeptByAll DEF IInv, Kept
    <3>3. QED
      BY <3>1, <3>2
  <2>2. QED
    BY <2>1 DEF Kept, StreamInv, CursorInv, PageInv, NeverTwice, NothingElseSkipped
<1>6. QED
  BY <1>1, <1>3, <1>4, <1>5 DEF IInv

\* The browser connects.
LEMMA ConnectIInv ==
  ASSUME IInv, NEW s \in Stream, Connect(s)
  PROVE  IInv'
<1>1. UNCHANGED <<cursor, page, received, missed>> /\ UNCHANGED outbox
  BY DEF Connect
<1>2. Frame
  BY DEF Connect, Frame, IInv, TypeOK
<1>3. Kept(s)'
  BY <1>1, KeptByAll DEF IInv, Kept, outbox
<1>4. QED
  BY <1>1, <1>2, <1>3, StreamFrame DEF IInv, TypeOK

\* The generator finds its cursor deleted, and starts from nothing or goes on.
LEMMA PollUnknownIInv ==
  ASSUME IInv, NEW s \in Stream, PollUnknown(s)
  PROVE  IInv'
<1>1. Frame /\ UNCHANGED outbox /\ page' = page /\ page[s] = {}
  BY DEF PollUnknown, Frame, IInv, TypeOK
<1>2. CASE checked[s]
  <2>1. UNCHANGED <<cursor, page, received, missed>>
    BY <1>1, <1>2 DEF PollUnknown
  <2>2. Kept(s)'
    BY <1>1, <2>1, KeptByAll DEF IInv, Kept, outbox
  <2>3. QED
    BY <1>1, <2>1, <2>2, StreamFrame DEF IInv, TypeOK
<1>3. CASE ~checked[s]
  <2>1. /\ cursor' = [cursor EXCEPT ![s] = None]
        /\ received' = [received EXCEPT ![s] = {}]
        /\ missed' = [missed EXCEPT ![s] = {}]
    BY <1>3 DEF PollUnknown
  <2>2. cursor'[s] = None /\ received'[s] = {} /\ missed'[s] = {}
    BY <2>1 DEF IInv, TypeOK
  <2>3. Kept(s)'
    BY <1>1, <2>2 DEF Kept
  <2>4. QED
    BY <1>1, <2>1, <2>2, <2>3, StreamFrame DEF IInv, TypeOK
<1>4. QED
  BY <1>2, <1>3

\* The page that a poll reads has everything delivered up to its last event.
LEMMA PollIInv ==
  ASSUME IInv, NEW s \in Stream, Poll(s)
  PROVE  IInv'
<1>1. PICK P \in SUBSET Ahead(s) :
        (\A e \in P, f \in Ahead(s) \ P : Before(e, f)) /\ page' = [page EXCEPT ![s] = P]
  BY DEF Poll
<1>2. Frame /\ UNCHANGED outbox /\ UNCHANGED <<cursor, received, missed>>
  BY DEF Poll, Frame, IInv, TypeOK
<1>3. page'[s] = P /\ \A q \in Stream : q # s => page'[q] = page[q]
  BY <1>1 DEF IInv, TypeOK
<1>4. Ahead(s) \subseteq delivered /\ delivered \subseteq Event
  BY DEF Ahead, IInv, TypeOK
<1>5. page' \in [Stream -> SUBSET Event]
  BY <1>1, <1>4 DEF IInv, TypeOK
<1>6. Kept(s)
  BY KeptByAll DEF IInv
<1>7. Kept(s)'
  <2>1. ASSUME NEW e \in P, NEW f \in delivered, Before(f, e),
               cursor[s] = None \/ Before(cursor[s], f)
        PROVE  f \in P
    <3>1. f \in Ahead(s)
      BY <2>1 DEF Ahead
    <3>2. ~Before(e, f)
      BY <1>1, <1>4, <2>1, BeforeOrder
    <3>3. QED
      BY <1>1, <3>1, <3>2
  <2>2. ASSUME NEW e \in P
        PROVE  e \notin received[s] /\ (cursor[s] # None => Before(cursor[s], e))
    <3>1. cursor[s] # None => Before(cursor[s], e) /\ cursor[s] \in Event /\ e \in Event
      BY <1>1, <1>4 DEF Ahead, IInv, TypeOK
    <3>2. e \notin received[s]
      BY <1>6, <3>1, BeforeOrder DEF Kept
    <3>3. QED
      BY <3>1, <3>2
  <2>3. QED
    BY <1>2, <1>3, <1>6, <2>1, <2>2 DEF Kept, outbox
<1>8. page'[s] \cup received'[s] \subseteq page[s] \cup received[s] \cup delivered
  BY <1>1, <1>2, <1>3, <1>4
<1>9. QED
  BY <1>2, <1>3, <1>5, <1>7, <1>8, StreamFrame DEF IInv, TypeOK

\* The first event of the page is sent, and becomes the cursor.
LEMMA YieldIInv ==
  ASSUME IInv, NEW s \in Stream, NEW e \in page[s], Yield(s, e)
  PROVE  IInv'
<1>1. /\ \A f \in page[s] \ {e} : Before(e, f)
      /\ page' = [page EXCEPT ![s] = @ \ {e}]
      /\ cursor' = [cursor EXCEPT ![s] = e]
      /\ received' = [received EXCEPT ![s] = @ \cup {e}]
  BY DEF Yield
<1>2. Frame /\ UNCHANGED outbox /\ UNCHANGED missed
  BY DEF Yield, Frame, IInv, TypeOK
<1>3. page'[s] = page[s] \ {e} /\ cursor'[s] = e /\ received'[s] = received[s] \cup {e}
  BY <1>1 DEF IInv, TypeOK
<1>4. /\ e \in Event /\ page[s] \subseteq Event /\ received[s] \subseteq Event
      /\ delivered \subseteq Event
      /\ cursor[s] # None => cursor[s] \in Event
  BY DEF IInv, TypeOK
<1>5. e # None
  BY <1>4, NoneAssumption
<1>6. Kept(s)
  BY KeptByAll DEF IInv
<1>7. Kept(s)'
  <2>1. \A f \in received[s] : Before(f, e)
    BY <1>4, <1>6, BeforeOrder DEF Kept
  <2>2. ASSUME NEW g \in page[s] \ {e}, NEW f \in delivered, Before(f, g), Before(e, f)
        PROVE  f \in (page[s] \ {e}) \cup missed[s]
    <3>1. cursor[s] = None \/ Before(cursor[s], f)
      BY <1>4, <1>6, <2>2, BeforeOrder DEF Kept
    <3>2. f # e
      BY <1>4, <2>2, BeforeOrder
    <3>3. QED
      BY <1>6, <2>2, <3>1, <3>2 DEF Kept
  <2>3. ASSUME NEW f \in delivered, ~Before(e, f), f # e
        PROVE  f \in received[s] \cup missed[s]
    <3>1. Before(f, e) /\ f \notin page[s]
      BY <1>1, <1>4, <2>3, BeforeOrder
    <3>2. CASE cursor[s] = None \/ Before(cursor[s], f)
      BY <1>6, <3>1, <3>2 DEF Kept
    <3>3. CASE cursor[s] # None /\ ~Before(cursor[s], f)
      BY <1>6, <3>3 DEF Kept
    <3>4. QED
      BY <3>2, <3>3
  <2>4. QED
    BY <1>1, <1>2, <1>3, <1>5, <1>6, <2>1, <2>2, <2>3 DEF Kept, outbox
<1>8. /\ page' \in [Stream -> SUBSET Event] /\ received' \in [Stream -> SUBSET Event]
      /\ cursor' \in [Stream -> Event \cup {None}]
  BY <1>1, <1>4 DEF IInv, TypeOK
<1>9. QED
  BY <1>1, <1>2, <1>3, <1>7, <1>8, StreamFrame DEF IInv, TypeOK

\* The connection or the page of the browser is lost.
LEMMA LossIInv ==
  ASSUME IInv, NEW s \in Stream, Drop(s) \/ Reload(s)
  PROVE  IInv'
<1>1. Frame /\ UNCHANGED outbox
  <2>1. faults' \in 0 .. MaxFaults
    BY BoundAssumption DEF Drop, Reload, IInv, TypeOK
  <2>2. QED
    BY <2>1 DEF Drop, Reload, Frame, IInv, TypeOK, reading
<1>2. Kept(s)
  BY KeptByAll DEF IInv
<1>3. CASE Drop(s)
  <2>1. /\ UNCHANGED <<cursor, received>>
        /\ page' = [page EXCEPT ![s] = {}]
        /\ missed' = [missed EXCEPT ![s] = {e \in @ : cursor[s] # None /\ Before(e, cursor[s])}]
    BY <1>3 DEF Drop
  <2>2. /\ page'[s] = {}
        /\ missed'[s] = {e \in missed[s] : cursor[s] # None /\ Before(e, cursor[s])}
    BY <2>1 DEF IInv, TypeOK
  <2>3. ASSUME NEW e \in delivered, cursor[s] # None, ~Before(cursor[s], e), e \notin received[s]
        PROVE  e \in missed'[s]
    <3>1. cursor[s] \in Event /\ e \in Event
      BY <2>3 DEF IInv, TypeOK
    <3>2. e \in missed[s] /\ e # cursor[s]
      BY <1>2, <2>3 DEF Kept
    <3>3. QED
      BY <2>2, <2>3, <3>1, <3>2, BeforeOrder
  <2>4. Kept(s)'
    BY <1>1, <1>2, <2>1, <2>2, <2>3 DEF Kept, outbox
  <2>5. missed' \in [Stream -> SUBSET Event] /\ page' \in [Stream -> SUBSET Event]
    BY <2>1 DEF IInv, TypeOK
  <2>6. QED
    BY <1>1, <2>1, <2>2, <2>4, <2>5, StreamFrame DEF IInv, TypeOK
<1>4. CASE Reload(s)
  <2>1. /\ cursor' = [cursor EXCEPT ![s] = None]
        /\ page' = [page EXCEPT ![s] = {}]
        /\ received' = [received EXCEPT ![s] = {}]
        /\ missed' = [missed EXCEPT ![s] = {}]
    BY <1>4 DEF Reload
  <2>2. cursor'[s] = None /\ page'[s] = {} /\ received'[s] = {} /\ missed'[s] = {}
    BY <2>1 DEF IInv, TypeOK
  <2>3. Kept(s)'
    BY <2>2 DEF Kept
  <2>4. QED
    BY <1>1, <2>1, <2>2, <2>3, StreamFrame DEF IInv, TypeOK
<1>5. QED
  BY <1>3, <1>4

-----------------------------------------------------------------------------
\* The invariant holds, and with it what it says.
LEMMA NextIInv == IInv /\ [Next]_vars => IInv'
<1> SUFFICES ASSUME IInv, [Next]_vars PROVE IInv'
  OBVIOUS
<1>1. CASE \E w \in Writer : Open(w) \/ \E i \in Invoice : Publish(w, i)
  BY <1>1, BeginIInv, PublishIInv
<1>2. CASE ClockTicks
  BY <1>2, BeginIInv
<1>3. CASE \E i \in Invoice : Reset(i)
  BY <1>3, ResetIInv
<1>4. CASE \E r \in Relay : LockBatch(r) \/ Deliver(r) \/ RelayCrash(r)
  BY <1>4, LockIInv, DeliverIInv
<1>5. ASSUME NEW s \in Stream, StreamStep(s) \/ Drop(s) \/ Reload(s) PROVE IInv'
  BY <1>5, ConnectIInv, PollUnknownIInv, PollIInv, YieldIInv, LossIInv DEF StreamStep
<1>6. CASE UNCHANGED vars
  <2>1. UNCHANGED <<writing, outbox, reading, faults, resets>>
    BY <1>6 DEF vars
  <2>2. TypeOK'
    BY <2>1 DEF IInv, TypeOK, writing, outbox, reading
  <2>3. NumberInv' /\ LockInv'
    BY <2>1 DEF IInv, NumberInv, LockInv, writing, outbox, reading
  <2>4. StreamInv'
    BY <2>1 DEF IInv, StreamInv, CursorInv, PageInv, NeverTwice, NothingElseSkipped, outbox, reading
  <2>5. QED
    BY <2>2, <2>3, <2>4 DEF IInv
<1>7. QED
  BY <1>1, <1>2, <1>3, <1>4, <1>5, <1>6 DEF Next

\* The writers, relays and streams preserve the inductive invariant.
THEOREM Invariance == Spec => []IInv
BY InitIInv, NextIInv, PTL DEF Spec

\* The variables keep their types.
THEOREM TypeCorrect == Spec => []TypeOK
BY Invariance, PTL DEF IInv

\* sse_stream: the events of a page are new to the browser and beyond its cursor,
\* whatever relays deliver and whichever connections are lost.
THEOREM SentOnce == Spec => []NeverTwice
BY Invariance, PTL DEF IInv, StreamInv

\* load_event_history: a delivered event behind a browser's cursor was received,
\* or was marked DELIVERED after the stream had read past it.
THEOREM NothingElseLost == Spec => []NothingElseSkipped
BY Invariance, PTL DEF IInv, StreamInv

=============================================================================
