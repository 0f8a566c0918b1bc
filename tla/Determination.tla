--------------------------- MODULE Determination ---------------------------
(***************************************************************************)
(* What a recommendation is computed from: the source events that memory    *)
(* retains of a shipment, some before the invoice arrives and some after;   *)
(* the charged days that they source (core/reconstruction); the rule that   *)
(* the candidate clauses establish (core/applicable_rule); and the frozen   *)
(* recommendation (core/judgment).                                          *)
(*                                                                         *)
(* Instants count half days in UTC.  In the scenario's zone the first half  *)
(* of a UTC day still belongs to the day before.                            *)
(***************************************************************************)
EXTENDS Integers, FiniteSets

CONSTANTS
  Row,        \* source events that memory may come to hold
  Clause,     \* tariff clauses that the vector search may find
  Billed,     \* sets of days that the invoice may bill
  Rates,      \* daily rates that the invoice may charge
  None        \* no day, no rate, no recommendation

EventType == {"AVAILABLE", "FREE_TIME_END", "GATE_OUT", "TERMINAL_ACCESS_SNAPSHOT"}

ASSUME RowAssumption ==
  Row \subseteq [ref : Nat, type : EventType, at : Nat \ {0}, effective : Nat \cup {None},
                 owned : BOOLEAN,     \* of this shipment and container
                 asserts : BOOLEAN]   \* exact source, available, open, no hold

ASSUME ClauseAssumption ==
  Clause \subseteq [rank : Nat, rate : Nat, dates : SUBSET Nat, valid : BOOLEAN]

ASSUME InvoiceAssumption ==
  /\ Billed \subseteq SUBSET Nat /\ Rates \subseteq Nat
  /\ \A days \in Billed : IsFiniteSet(days)

VARIABLES
  retained,    \* when memory recorded a row, as against the arrival: "no", "early", "late"
  verified,    \* rows whose source is VERIFIED; the others are PENDING
  bound,       \* history: rows verified after they were retained
  billed,      \* the charged days of the invoice; None: it has not arrived
  rate,        \* its daily rate
  found,       \* the clauses that the search returns
  frozen,      \* the recommendation of the latest revision, or None
  basis        \* history: the bound rows at that revision

vars == <<retained, verified, bound, billed, rate, found, frozen, basis>>

Init ==
  /\ retained = [r \in Row |-> "no"]
  /\ verified = {}
  /\ bound = {}
  /\ billed = None
  /\ rate \in Rates
  /\ found \in SUBSET Clause
  /\ frozen = None
  /\ basis = {}

-----------------------------------------------------------------------------
\* The read of memory, and its validation.

\* The read covers what memory holds at the time of the read.
RecordedByNow(r) == retained[r] # "no"

\* recorded_at <= knowledge_cutoff, in the SELECT and again in validate_events.
RecordedByCutoff(r) == retained[r] = "early"

Read == {r \in verified : r.owned /\ RecordedByCutoff(r)}

\* Of several events of one type at one instant the first one counts; rows come
\* in the order of occurred_at and public_ref.
Accepted ==
  {r \in Read : \A q \in Read : q.type = r.type /\ q.at = r.at => r.ref <= q.ref}

Events(type) == {r \in Accepted : r.type = type}

\* The earliest event of a type.
Earliest(type) ==
  CHOOSE r \in Events(type) : \A q \in Events(type) : r.at <= q.at

LocalDate(at) == (at - 1) \div 2
UtcDate(at) == at \div 2

-----------------------------------------------------------------------------
\* The charged days.

\* The day on which free time ends is charged already.
FirstChargeableTooEarly == LocalDate(Earliest("FREE_TIME_END").at)

\* The calendar day after free time ends, and the day of the gate-out.
FirstChargeable == LocalDate(Earliest("FREE_TIME_END").at) + 1
LastChargeable == LocalDate(Earliest("GATE_OUT").at)

\* resolve_charge_boundary() returns a boundary.
Bounded ==
  /\ Events("FREE_TIME_END") # {}
  /\ Events("GATE_OUT") # {}
  /\ FirstChargeable <= LastChargeable

InWindow(d) == Bounded /\ d \in FirstChargeable .. LastChargeable

\* The day that a snapshot of terminal access sources.
SnapshotDate(r) == IF r.effective # None THEN r.effective ELSE UtcDate(r.at)

\* As soon as there is one snapshot, every day needs its own.
AccessMissing(d) ==
  /\ Events("TERMINAL_ACCESS_SNAPSHOT") # {}
  /\ \A r \in Events("TERMINAL_ACCESS_SNAPSHOT") : SnapshotDate(r) # d

Unresolved(d) ==
  \/ \E type \in {"AVAILABLE", "FREE_TIME_END", "GATE_OUT"} : Events(type) = {}
  \/ AccessMissing(d)
  \/ ~Bounded

\* adjudicate_charged_days()
Chargeability(d) ==
  IF Unresolved(d) THEN "UNRESOLVED"
  ELSE IF InWindow(d) THEN "CHARGEABLE"
  ELSE "NOT_CHARGEABLE"

-----------------------------------------------------------------------------
\* The rule.

\* Every validator passes; the clause must be in effect on every charged day.
Applies(c) == c.valid /\ billed \subseteq c.dates

\* decide_applicable_rule(): the rate on which all accepted clauses agree.
ApplicableRate ==
  LET accepted == {c.rate : c \in {c \in found : Applies(c)}}
  IN  IF Cardinality(accepted) = 1 THEN CHOOSE r \in accepted : TRUE ELSE None

-----------------------------------------------------------------------------
\* The recommendation.  All days bear the invoice's rate and the rule's.

\* judge_day()
Outcome(d) ==
  IF Chargeability(d) = "NOT_CHARGEABLE" THEN "EXCLUDED_NOT_CHARGEABLE"
  ELSE IF Chargeability(d) = "UNRESOLVED" \/ ApplicableRate = None
    THEN "INSUFFICIENT_EVIDENCE"
  ELSE IF rate = ApplicableRate THEN "SUPPORTED" ELSE "RATE_DISCREPANCY"

Days(outcomes) == {d \in billed : Outcome(d) \in outcomes}

\* The claim counts the excluded days too.
ClaimedOfAll == rate * Cardinality(billed)

Claimed ==
  rate * Cardinality(billed \ Days({"EXCLUDED_NOT_CHARGEABLE"}))

Disputed ==
  LET days == Days({"RATE_DISCREPANCY"})
  IN  IF days = {} THEN 0 ELSE (rate - ApplicableRate) * Cardinality(days)

Supported ==
  LET days == Days({"SUPPORTED", "RATE_DISCREPANCY"})
  IN  IF days = {} THEN 0 ELSE ApplicableRate * Cardinality(days)

\* resolve_recommendation()
Recommendation ==
  [type |-> IF Days({"INSUFFICIENT_EVIDENCE"}) # {}
                 \/ Days({"EXCLUDED_NOT_CHARGEABLE"}) = billed THEN "REQUEST_EVIDENCE"
            ELSE IF Disputed > 0 THEN "DISPUTE"
            ELSE "APPROVE_FOR_PAYMENT",
   claimed |-> Claimed, disputed |-> Disputed, supported |-> Supported,
   days |-> Cardinality(billed \ Days({"EXCLUDED_NOT_CHARGEABLE"}))]

-----------------------------------------------------------------------------
\* Steps.

\* A source event is stored, its source verified; a snapshot of terminal access
\* may be retained PENDING.
Retain(r, pending) ==
  /\ retained[r] = "no"
  /\ pending => r.type = "TERMINAL_ACCESS_SNAPSHOT"
  /\ retained' = [retained EXCEPT ![r] = IF billed = None THEN "early" ELSE "late"]
  /\ verified' = IF pending THEN verified ELSE verified \cup {r}
  /\ UNCHANGED <<bound, billed, rate, found, frozen, basis>>

\* The invoice arrives and sets the knowledge cutoff.
Arrive(days) ==
  /\ billed = None
  /\ billed' = days
  /\ UNCHANGED <<retained, verified, bound, rate, found, frozen, basis>>

\* verify_access_snapshot() passes for a withheld snapshot and the container and
\* date that its own row gave the held task.  Which one is held, and that a judged
\* gap asks for it, is InvoicePipeline's: here it is any of the tenant's.
BindSnapshot(r) ==
  /\ frozen # None
  /\ retained[r] # "no" /\ r \notin verified
  /\ r.effective # None /\ r.asserts
  /\ verified' = verified \cup {r}
  /\ bound' = bound \cup {r}
  /\ UNCHANGED <<retained, billed, rate, found, frozen, basis>>

\* A revision is reconstructed, its rule decided and its days judged: the first
\* one, and one more for every binding.
Judge ==
  /\ billed # None
  /\ frozen = None \/ basis # bound
  /\ frozen' = Recommendation
  /\ basis' = bound
  /\ UNCHANGED <<retained, verified, bound, billed, rate, found>>

Next ==
  \/ \E r \in Row, pending \in BOOLEAN : Retain(r, pending)
  \/ \E days \in Billed : Arrive(days)
  \/ \E r \in Row : BindSnapshot(r)
  \/ Judge

Spec == Init /\ [][Next]_vars

-----------------------------------------------------------------------------
\* Properties.

\* "no event learned after the invoice arrived": a frozen recommendation can be
\* recomputed from memory at any later time, whatever has been recorded since,
\* until another snapshot is bound.
FrozenReproduces == frozen # None /\ basis = bound => Recommendation = frozen

\* "never a partial dispute": a recommendation to dispute or to pay rests on
\* every billed day that lies after the end of free time up to the gate-out, by
\* the calendar of the scenario's zone, as memory knew them when the invoice
\* arrived; and if it knew of terminal access at all, then on access on each day.
DecisionIsSourced ==
  frozen # None /\ basis = bound /\ frozen.type # "REQUEST_EVIDENCE" =>
    LET known == {r \in verified : r.owned /\ retained[r] = "early"}
        of(type) == {r \in known : r.type = type}
        days == {d \in billed :
                   /\ \E f \in of("FREE_TIME_END") : d > (f.at - 1) \div 2
                   /\ \A g \in of("GATE_OUT") : d <= (g.at - 1) \div 2}
    IN  /\ \A type \in {"AVAILABLE", "FREE_TIME_END", "GATE_OUT"} : of(type) # {}
        /\ days # {}
        /\ frozen.days = Cardinality(days)
        /\ of("TERMINAL_ACCESS_SNAPSHOT") # {} =>
             \A d \in days : \E r \in of("TERMINAL_ACCESS_SNAPSHOT") :
               d \in {r.effective, r.at \div 2}

\* "the disputed amount is the exact sum of per-day discrepancies": what is
\* disputed and what is supported add up to what the chargeable days claim.
AmountsBalance ==
  frozen # None /\ frozen.type # "REQUEST_EVIDENCE" =>
    frozen.disputed + frozen.supported = frozen.claimed

\* judgment.py: "All supported -> APPROVE_FOR_PAYMENT", and its summary "rates
\* match": what is approved for payment is what the chargeable days claim.
ApprovedAsClaimed ==
  frozen # None /\ frozen.type = "APPROVE_FOR_PAYMENT" => frozen.supported = frozen.claimed

\* reconstruction.py: calendar-day math "is computed in THIS zone, never by
\* truncating a UTC timestamp to a date".  A snapshot without an effective date
\* sources the local day on which it occurred.
SnapshotIsLocal ==
  frozen # None =>
    \A r \in Events("TERMINAL_ACCESS_SNAPSHOT") :
      r.effective = None => ~AccessMissing(LocalDate(r.at))

=============================================================================
