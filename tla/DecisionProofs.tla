--------------------------- MODULE DecisionProofs ---------------------------
(***************************************************************************)
(* Proofs about Determination, for any source events, clauses, bills and     *)
(* rates: a frozen recommendation can be recomputed, its amounts add up, and *)
(* what it decides rests on the events memory knew.  And about              *)
(* ClauseRetrieval, for any library of clauses: the rule and the clause that *)
(* are decided on are those of the library, unless it is crowded.           *)
(***************************************************************************)
EXTENDS Determination, ClauseRetrieval, FiniteSetTheorems, WellFoundedInduction, TLAPS

\* A row is verified after it was retained, and a revision rests on rows bound
\* before it.
MemoryInv ==
  /\ retained \in [Row -> {"no", "early", "late"}]
  /\ verified \subseteq Row /\ \A r \in verified : retained[r] # "no"
  /\ bound \subseteq verified /\ basis \subseteq bound
  /\ rate \in Rates /\ found \subseteq Clause
  /\ billed \in Billed \cup {None}
  /\ billed = None => frozen = None

IInv == MemoryInv /\ FrozenReproduces /\ AmountsBalance

-----------------------------------------------------------------------------
\* A set of natural numbers has a least one.
LEMMA LeastOf ==
  ASSUME NEW S, S \subseteq Nat, S # {}
  PROVE  \E m \in S : \A n \in S : m <= n
<1> DEFINE R == {ss \in Nat \X Nat : ss[1] < ss[2]}
<1>1. IsWellFoundedOn(R, Nat)
  BY NatLessThanWellFounded DEF OpToRel
<1>2. \A x, y \in Nat : y < x => <<y, x>> \in R
  OBVIOUS
<1> HIDE DEF R
<1>3. \E x \in S : \A y \in S : ~ (<<y, x>> \in R)
  BY <1>1, WFMin, Zenon
<1>4. \E x \in S : \A y \in S : ~ (y < x)
  BY <1>2, <1>3
<1>5. QED
  BY <1>4

\* What is known of a row.
LEMMA RowFields ==
  ASSUME NEW r \in Row
  PROVE  r.ref \in Nat /\ r.at \in Nat
BY RowAssumption

-----------------------------------------------------------------------------
\* The recommendation is a function of what memory lets it read.
LEMMA RecommendationDepends ==
  ASSUME Read' = Read, UNCHANGED <<billed, rate, found>>
  PROVE  Recommendation' = Recommendation
<1>1. Accepted' = Accepted
  BY DEF Accepted
<1>2. \A type : Events(type)' = Events(type)
  BY <1>1 DEF Events
<1>3. \A type : Earliest(type)' = Earliest(type)
  BY <1>2 DEF Earliest
<1>4. FirstChargeable' = FirstChargeable /\ LastChargeable' = LastChargeable
  BY <1>3 DEF FirstChargeable, LastChargeable
<1>5. Bounded' = Bounded
  BY <1>2, <1>4 DEF Bounded
<1>6. \A d : Chargeability(d)' = Chargeability(d)
  <2>1. \A d : InWindow(d)' = InWindow(d)
    BY <1>4, <1>5 DEF InWindow
  <2>2. \A d : AccessMissing(d)' = AccessMissing(d)
    BY <1>2 DEF AccessMissing
  <2>3. \A d : Unresolved(d)' = Unresolved(d)
    BY <1>2, <1>5, <2>2 DEF Unresolved
  <2>4. QED
    BY <2>1, <2>3 DEF Chargeability
<1>7. ApplicableRate' = ApplicableRate
  BY DEF ApplicableRate, Applies
<1>8. \A d : Outcome(d)' = Outcome(d)
  BY <1>6, <1>7 DEF Outcome
<1>9. \A outcomes : Days(outcomes)' = Days(outcomes)
  BY <1>8 DEF Days
<1>10. /\ Claimed' = Claimed
       /\ Disputed' = Disputed
       /\ Supported' = Supported
  BY <1>7, <1>9 DEF Claimed, Disputed, Supported
<1>11. QED
  BY <1>9, <1>10 DEF Recommendation

-----------------------------------------------------------------------------
\* What a decision to dispute or to pay says of the days.

\* Days that a decision is about.
Chargeable == {d \in billed : InWindow(d)}

\* Every billed day is resolved, the rule has a rate, and some day is chargeable.
LEMMA Decided ==
  ASSUME MemoryInv, billed # None, Recommendation.type # "REQUEST_EVIDENCE"
  PROVE  /\ \A d \in billed : ~Unresolved(d)
         /\ Chargeable # {}
         /\ ApplicableRate # None
         /\ billed \ Days({"EXCLUDED_NOT_CHARGEABLE"}) = Chargeable
         /\ Days({"RATE_DISCREPANCY"}) = IF rate = ApplicableRate THEN {} ELSE Chargeable
         /\ Days({"SUPPORTED", "RATE_DISCREPANCY"}) = Chargeable
<1>1. /\ Days({"INSUFFICIENT_EVIDENCE"}) = {}
      /\ Days({"EXCLUDED_NOT_CHARGEABLE"}) # billed
  BY DEF Recommendation
<1>2. \A d \in billed : ~Unresolved(d)
  BY <1>1 DEF Days, Outcome, Chargeability
<1>3. \A d \in billed : Outcome(d) = "EXCLUDED_NOT_CHARGEABLE" <=> ~InWindow(d)
  BY <1>2 DEF Outcome, Chargeability
<1>4. billed \ Days({"EXCLUDED_NOT_CHARGEABLE"}) = Chargeable
  BY <1>3 DEF Days, Chargeable
<1>5. Chargeable # {}
  BY <1>1, <1>3 DEF Days, Chargeable
<1>6. \A d \in Chargeable : Outcome(d) # "INSUFFICIENT_EVIDENCE"
  BY <1>1 DEF Days, Chargeable
<1>7. ApplicableRate # None
  BY <1>2, <1>5, <1>6 DEF Outcome, Chargeability, Chargeable
<1>8. \A d \in billed : InWindow(d) =>
        Outcome(d) = IF rate = ApplicableRate THEN "SUPPORTED" ELSE "RATE_DISCREPANCY"
  BY <1>2, <1>7 DEF Outcome, Chargeability
<1>9. QED
  BY <1>2, <1>3, <1>4, <1>5, <1>7, <1>8 DEF Days, Chargeable

\* The rate of the rule is a number.
LEMMA RuleRate ==
  ASSUME MemoryInv, ApplicableRate # None
  PROVE  ApplicableRate \in Nat
<1> DEFINE accepted == {c.rate : c \in {c \in found : Applies(c)}}
<1>1. Cardinality(accepted) = 1 /\ ApplicableRate = CHOOSE r \in accepted : TRUE
  BY DEF ApplicableRate
<1>2. accepted \subseteq Nat
  BY ClauseAssumption DEF MemoryInv
<1> HIDE DEF accepted
<1>3. accepted # {}
  BY <1>1, FS_EmptySet
<1>4. QED
  BY <1>1, <1>2, <1>3

\* The amounts of a decision add up.
LEMMA DecidedBalance ==
  ASSUME MemoryInv, billed # None, Recommendation.type # "REQUEST_EVIDENCE"
  PROVE  Recommendation.disputed + Recommendation.supported = Recommendation.claimed
<1> DEFINE n == Cardinality(Chargeable)
<1>1. n \in Nat
  <2>1. IsFiniteSet(billed) /\ Chargeable \subseteq billed
    BY InvoiceAssumption DEF MemoryInv, Chargeable
  <2>2. IsFiniteSet(Chargeable)
    BY <2>1, FS_Subset
  <2>3. QED
    BY <2>2, FS_CardinalityType
<1>2. rate \in Nat /\ ApplicableRate \in Nat
  BY Decided, RuleRate, InvoiceAssumption DEF MemoryInv
<1>3. Claimed = rate * n /\ Supported = ApplicableRate * n
  BY Decided DEF Claimed, Supported
<1>4. Disputed = IF rate = ApplicableRate THEN 0 ELSE (rate - ApplicableRate) * n
  BY Decided DEF Disputed
<1>5. Recommendation.disputed = Disputed /\ Recommendation.supported = Supported
        /\ Recommendation.claimed = Claimed
  BY DEF Recommendation
<1> HIDE DEF n
<1>6. \A a, b, k \in Nat : (a - b) * k + b * k = a * k /\ 0 + b * k = b * k
  OBVIOUS
<1>7. QED
  BY <1>1, <1>2, <1>3, <1>4, <1>5, <1>6

-----------------------------------------------------------------------------
\* Which events a decision rests on.

LEMMA ReadRows == MemoryInv => Read \subseteq Row /\ Accepted \subseteq Read
BY DEF MemoryInv, Read, Accepted

\* Of the events of one type and time the first one is accepted.
LEMMA AcceptedTimes ==
  ASSUME MemoryInv, NEW r \in Read
  PROVE  \E q \in Events(r.type) : q.at = r.at
<1> DEFINE Same == {q \in Read : q.type = r.type /\ q.at = r.at}
           refs == {q.ref : q \in Same}
<1>1. refs \subseteq Nat /\ refs # {}
  BY ReadRows, RowFields
<1> HIDE DEF refs
<1>2. PICK m \in refs : \A n \in refs : m <= n
  BY <1>1, LeastOf
<1>3. PICK q \in Same : q.ref = m /\ \A p \in Same : q.ref <= p.ref
  BY <1>2 DEF refs
<1>4. q \in Accepted
  BY <1>3 DEF Accepted
<1>5. QED
  BY <1>3, <1>4 DEF Events

\* There is an earliest event of each type that has one.
LEMMA EarliestIs ==
  ASSUME MemoryInv, NEW type, Events(type) # {}
  PROVE  /\ Earliest(type) \in Events(type)
         /\ \A q \in Read : q.type = type => Earliest(type).at <= q.at
<1> DEFINE times == {q.at : q \in Events(type)}
<1>1. times \subseteq Nat /\ times # {}
  BY ReadRows, RowFields DEF Events
<1> HIDE DEF times
<1>2. PICK m \in times : \A n \in times : m <= n
  BY <1>1, LeastOf
<1>3. \E r \in Events(type) : \A q \in Events(type) : r.at <= q.at
  BY <1>2 DEF times
<1>4. Earliest(type) \in Events(type) /\ \A q \in Events(type) : Earliest(type).at <= q.at
  BY <1>3 DEF Earliest
<1>5. QED
  BY <1>4, AcceptedTimes

LEMMA DateGrows ==
  ASSUME NEW a \in Nat, NEW b \in Nat, a <= b
  PROVE  LocalDate(a) \in Int /\ LocalDate(a) <= LocalDate(b)
BY DEF LocalDate

\* What memory knew of when the invoice arrived, and the billed days between the end
\* of free time and the gate-out by that knowledge.
Known == {r \in verified : r.owned /\ retained[r] = "early"}

DaysDue ==
  {d \in billed :
     /\ \E f \in Known : f.type = "FREE_TIME_END" /\ d > (f.at - 1) \div 2
     /\ \A g \in Known : g.type = "GATE_OUT" => d <= (g.at - 1) \div 2}

\* DecisionIsSourced, said of the recommendation that memory yields.
LEMMA DecidedSourced ==
  ASSUME MemoryInv, billed # None, Recommendation.type # "REQUEST_EVIDENCE"
  PROVE  /\ \A type \in {"AVAILABLE", "FREE_TIME_END", "GATE_OUT"} :
              \E r \in Known : r.type = type
         /\ DaysDue # {}
         /\ Recommendation.days = Cardinality(DaysDue)
         /\ (\E r \in Known : r.type = "TERMINAL_ACCESS_SNAPSHOT") =>
              \A d \in DaysDue : \E r \in Known :
                r.type = "TERMINAL_ACCESS_SNAPSHOT" /\ d \in {r.effective, r.at \div 2}
<1>1. Known = Read
  BY DEF Known, Read, RecordedByCutoff
<1>2. \A d \in billed : ~Unresolved(d)
  BY Decided
<1>3. billed # {} /\ billed \subseteq Nat
  BY Decided, InvoiceAssumption DEF Chargeable, MemoryInv
<1>4. Bounded /\ \A type \in {"AVAILABLE", "FREE_TIME_END", "GATE_OUT"} : Events(type) # {}
  BY <1>2, <1>3 DEF Unresolved
<1>5. \A type : Events(type) \subseteq {r \in Read : r.type = type}
  BY ReadRows DEF Events
<1> DEFINE free == Earliest("FREE_TIME_END")
           out == Earliest("GATE_OUT")
<1>6. /\ free \in Read /\ free.type = "FREE_TIME_END"
      /\ \A f \in Read : f.type = "FREE_TIME_END" => free.at <= f.at
  BY <1>4, <1>5, EarliestIs
<1>7. /\ out \in Read /\ out.type = "GATE_OUT"
      /\ \A g \in Read : g.type = "GATE_OUT" => out.at <= g.at
  BY <1>4, <1>5, EarliestIs
<1>8. \A r \in Read : r.at \in Nat
  BY ReadRows, RowFields
<1>9. FirstChargeable = LocalDate(free.at) + 1 /\ LastChargeable = LocalDate(out.at)
  BY DEF FirstChargeable, LastChargeable
<1> HIDE DEF free, out
<1>10. ASSUME NEW d \in billed
       PROVE  InWindow(d) <=> d \in DaysDue
  <2>1. InWindow(d) <=> LocalDate(free.at) + 1 <= d /\ d <= LocalDate(out.at)
    <3>1. LocalDate(free.at) \in Int /\ LocalDate(out.at) \in Int /\ d \in Int
      BY <1>3, <1>6, <1>7, <1>8, DateGrows
    <3>2. QED
      BY <1>4, <1>9, <3>1 DEF InWindow
  <2>2. d \in DaysDue <=>
          /\ \E f \in Read : f.type = "FREE_TIME_END" /\ d > LocalDate(f.at)
          /\ \A g \in Read : g.type = "GATE_OUT" => d <= LocalDate(g.at)
    BY <1>1 DEF DaysDue, LocalDate
  <2>3. \A f \in Read : f.type = "FREE_TIME_END" =>
          LocalDate(free.at) <= LocalDate(f.at) /\ LocalDate(f.at) \in Int /\ LocalDate(free.at) \in Int
    BY <1>6, <1>8, DateGrows
  <2>4. \A g \in Read : g.type = "GATE_OUT" =>
          LocalDate(out.at) <= LocalDate(g.at) /\ LocalDate(g.at) \in Int /\ LocalDate(out.at) \in Int
    BY <1>7, <1>8, DateGrows
  <2>5. (\E f \in Read : f.type = "FREE_TIME_END" /\ d > LocalDate(f.at))
          <=> LocalDate(free.at) + 1 <= d
    BY <1>3, <1>6, <2>3
  <2>6. (\A g \in Read : g.type = "GATE_OUT" => d <= LocalDate(g.at)) <=> d <= LocalDate(out.at)
    BY <1>3, <1>7, <2>4
  <2>7. QED
    BY <2>1, <2>2, <2>5, <2>6
<1>11. DaysDue = Chargeable
  BY <1>10 DEF Chargeable, DaysDue
<1>12. DaysDue # {} /\ Recommendation.days = Cardinality(DaysDue)
  BY <1>11, Decided DEF Recommendation
<1>13. ASSUME NEW r \in Known, r.type = "TERMINAL_ACCESS_SNAPSHOT", NEW d \in DaysDue
       PROVE  \E q \in Known : q.type = "TERMINAL_ACCESS_SNAPSHOT" /\ d \in {q.effective, q.at \div 2}
  <2>1. Events("TERMINAL_ACCESS_SNAPSHOT") # {}
    BY <1>1, <1>13, AcceptedTimes
  <2>2. ~AccessMissing(d)
    BY <1>2, <1>13 DEF Unresolved, DaysDue
  <2>3. PICK q \in Events("TERMINAL_ACCESS_SNAPSHOT") : SnapshotDate(q) = d
    BY <2>1, <2>2 DEF AccessMissing
  <2>4. QED
    BY <1>1, <1>5, <2>3 DEF SnapshotDate, UtcDate
<1>14. \A type \in {"AVAILABLE", "FREE_TIME_END", "GATE_OUT"} : \E r \in Known : r.type = type
  BY <1>1, <1>4, <1>5
<1>15. QED
  BY <1>12, <1>13, <1>14

-----------------------------------------------------------------------------
\* The inductive invariant.

LEMMA InitIInv == Init => IInv
BY DEF Init, IInv, MemoryInv, FrozenReproduces, AmountsBalance

\* A row that is retained after the arrival is not read.
LEMMA RetainIInv ==
  ASSUME IInv, NEW r \in Row, NEW pending \in BOOLEAN, Retain(r, pending)
  PROVE  IInv'
<1>1. /\ retained[r] = "no" /\ UNCHANGED <<bound, billed, rate, found, frozen, basis>>
      /\ retained' = [retained EXCEPT ![r] = IF billed = None THEN "early" ELSE "late"]
      /\ verified' \in {verified, verified \cup {r}}
  BY DEF Retain
<1>2. /\ retained'[r] = IF billed = None THEN "early" ELSE "late"
      /\ \A q \in Row : q # r => retained'[q] = retained[q]
  BY <1>1 DEF IInv, MemoryInv
<1>3. MemoryInv'
  BY <1>1, <1>2 DEF IInv, MemoryInv
<1>4. FrozenReproduces'
  <2>1. CASE billed = None
    BY <1>1, <2>1 DEF IInv, MemoryInv, FrozenReproduces
  <2>2. CASE billed # None
    <3>1. Read' = Read
      BY <1>1, <1>2, <2>2 DEF IInv, MemoryInv, Read, RecordedByCutoff
    <3>2. QED
      BY <1>1, <3>1, RecommendationDepends DEF IInv, FrozenReproduces
  <2>3. QED
    BY <2>1, <2>2
<1>5. AmountsBalance'
  BY <1>1 DEF IInv, AmountsBalance
<1>6. QED
  BY <1>3, <1>4, <1>5 DEF IInv

\* The arrival, before anything was judged, and a binding, which starts a revision.
LEMMA ArriveOrBindIInv ==
  ASSUME IInv, \/ \E days \in Billed : Arrive(days)
               \/ \E r \in Row : BindSnapshot(r)
  PROVE  IInv'
<1>1. ASSUME NEW days \in Billed, Arrive(days) PROVE IInv'
  BY <1>1 DEF Arrive, IInv, MemoryInv, FrozenReproduces, AmountsBalance
<1>2. ASSUME NEW r \in Row, BindSnapshot(r) PROVE IInv'
  <2>1. /\ r \notin bound /\ r \notin basis /\ bound' = bound \cup {r} /\ basis' = basis
        /\ verified' = verified \cup {r} /\ retained[r] # "no"
        /\ UNCHANGED <<retained, billed, rate, found, frozen>>
    BY <1>2 DEF BindSnapshot, IInv, MemoryInv
  <2>2. MemoryInv'
    BY <2>1 DEF IInv, MemoryInv
  <2>3. FrozenReproduces'
    BY <2>1 DEF FrozenReproduces
  <2>4. AmountsBalance'
    BY <2>1 DEF IInv, AmountsBalance
  <2>5. QED
    BY <2>2, <2>3, <2>4 DEF IInv
<1>3. QED
  BY <1>1, <1>2

\* A revision is judged.
LEMMA JudgeIInv ==
  ASSUME IInv, Judge
  PROVE  IInv'
<1>1. /\ billed # None /\ frozen' = Recommendation /\ basis' = bound
      /\ UNCHANGED <<retained, verified, bound, billed, rate, found>>
  BY DEF Judge
<1>2. MemoryInv'
  BY <1>1 DEF IInv, MemoryInv
<1>3. Recommendation' = Recommendation
  <2>1. Read' = Read
    BY <1>1 DEF Read, RecordedByCutoff
  <2>2. QED
    BY <1>1, <2>1, RecommendationDepends
<1>4. FrozenReproduces'
  BY <1>1, <1>3 DEF FrozenReproduces
<1>5. AmountsBalance'
  BY <1>1, DecidedBalance DEF IInv, AmountsBalance
<1>6. QED
  BY <1>2, <1>4, <1>5 DEF IInv

LEMMA NextIInv == IInv /\ [Next]_vars => IInv'
<1> SUFFICES ASSUME IInv, [Next]_vars PROVE IInv'
  OBVIOUS
<1>1. CASE UNCHANGED vars
  <2>1. Recommendation' = Recommendation
    <3>1. Read' = Read
      BY <1>1 DEF vars, Read, RecordedByCutoff
    <3>2. QED
      BY <1>1, <3>1, RecommendationDepends DEF vars
  <2>2. QED
    BY <1>1, <2>1 DEF vars, IInv, MemoryInv, FrozenReproduces, AmountsBalance
<1>2. QED
  BY <1>1, RetainIInv, ArriveOrBindIInv, JudgeIInv DEF Next

\* Memory, bindings and judgments preserve the inductive invariant.
THEOREM Invariance == Spec => []IInv
BY InitIInv, NextIInv, PTL DEF Spec

\* complete_judgment: until another snapshot is bound the recommendation can be
\* computed again from memory, whatever has been recorded since.
THEOREM Reproducible == Spec => []FrozenReproduces
BY Invariance, PTL DEF IInv

\* resolve_recommendation: what is disputed and what is supported add up to what the
\* chargeable days claim.
THEOREM AmountsAddUp == Spec => []AmountsBalance
BY Invariance, PTL DEF IInv

\* resolve_recommendation: a decision counts exactly the billed days between the
\* end of free time and the gate-out that memory knew of when the invoice arrived.
THEOREM SourcedDecision == Spec => []DecisionIsSourced
<1>1. IInv => DecisionIsSourced
  <2> SUFFICES ASSUME IInv, frozen # None, basis = bound, frozen.type # "REQUEST_EVIDENCE"
               PROVE  DecisionIsSourced
    BY DEF DecisionIsSourced
  <2>1. /\ MemoryInv /\ billed # None /\ Recommendation = frozen
        /\ Recommendation.type # "REQUEST_EVIDENCE"
    BY DEF IInv, MemoryInv, FrozenReproduces
  <2> DEFINE known == {r \in verified : r.owned /\ retained[r] = "early"}
             of(type) == {r \in known : r.type = type}
             days == {d \in billed :
                        /\ \E f \in of("FREE_TIME_END") : d > (f.at - 1) \div 2
                        /\ \A g \in of("GATE_OUT") : d <= (g.at - 1) \div 2}
  <2>2. known = Known /\ days = DaysDue
    BY DEF Known, DaysDue
  <2> HIDE DEF known, days
  <2>3. /\ \A type \in {"AVAILABLE", "FREE_TIME_END", "GATE_OUT"} : of(type) # {}
        /\ days # {} /\ frozen.days = Cardinality(days)
        /\ of("TERMINAL_ACCESS_SNAPSHOT") # {} =>
             \A d \in days : \E r \in of("TERMINAL_ACCESS_SNAPSHOT") :
               d \in {r.effective, r.at \div 2}
    BY <2>1, <2>2, DecidedSourced
  <2>4. QED
    BY <2>3 DEF DecisionIsSourced, known, days
<1>2. QED
  BY <1>1, Invariance, PTL

-----------------------------------------------------------------------------
\* The retrieval of clauses.

\* What was decided was decided on the hits of the last search.
RetrievalInv ==
  /\ library \subseteq TariffClause /\ seen \subseteq TariffClause
  /\ hits # Null => hits \in Searches(seen)
  /\ rule # Null =>
       /\ hits # Null
       /\ \E days \in Period : rule = Decision(hits, days)
  /\ choice # Null =>
       /\ hits # Null
       /\ \E d \in Nat, fetched \in SUBSET hits :
            choice = [day |-> d, fetched |-> fetched, clause |-> Selected(d, fetched)]

\* What is known of a clause.
LEMMA ClauseFields ==
  ASSUME NEW c \in TariffClause
  PROVE  /\ c.id \in Nat /\ c.distance \in Nat
         /\ c.from \in Nat /\ c.to \in Nat
         /\ c.verified \in BOOLEAN /\ c.inScope \in BOOLEAN /\ c.quoted \in BOOLEAN
         /\ c.fits \in BOOLEAN /\ c.intact \in BOOLEAN /\ c.sound \in BOOLEAN
BY TariffClauseAssumption

\* So many of a set of clauses as a limit allows: all of them, if it allows that.
LEMMA AllWithinLimit ==
  ASSUME NEW clauses \in SUBSET TariffClause, NEW n \in Nat, NEW some \in SUBSET clauses,
         Cardinality(some) = IF Cardinality(clauses) < n THEN Cardinality(clauses) ELSE n,
         Cardinality(clauses) <= n
  PROVE  some = clauses
<1>1. IsFiniteSet(clauses) /\ Cardinality(clauses) \in Nat
  BY TariffClauseAssumption, FS_Subset, FS_CardinalityType
<1>2. Cardinality(some) = Cardinality(clauses)
  BY <1>1
<1>3. QED
  BY <1>1, <1>2, FS_Subset

\* The hits of a search, if there are no more clauses than it can look at.
LEMMA HitsAre ==
  ASSUME RetrievalInv, hits # Null
  PROVE  /\ hits \subseteq {c \in Searchable : c.verified}
         /\ ~Crowded => hits = {c \in Searchable : c.verified}
         /\ Cardinality(Searchable) <= Limit * Multiplier =>
              \A c \in hits, q \in Searchable \ hits : q.verified => c.distance <= q.distance
<1>1. PICK pool \in Approximate(Searchable, Limit * Multiplier) :
        hits \in Nearest({c \in pool : c.verified}, Limit)
  BY DEF RetrievalInv, Searches, Pool, Searchable
<1>2. Searchable \in SUBSET TariffClause /\ Limit * Multiplier \in Nat /\ Limit \in Nat
  <2>1. Limit * Multiplier \in Nat
    BY LimitAssumption
  <2>2. QED
    BY <2>1, LimitAssumption DEF RetrievalInv, Searchable
<1>3. /\ pool \subseteq Searchable
      /\ Cardinality(Searchable) <= Limit * Multiplier => pool = Searchable
  <2>1. /\ pool \in SUBSET Searchable
        /\ Cardinality(pool) = IF Cardinality(Searchable) < Limit * Multiplier
                                 THEN Cardinality(Searchable) ELSE Limit * Multiplier
    BY <1>1 DEF Approximate
  <2>2. QED
    BY <1>2, <2>1, AllWithinLimit
<1> DEFINE fit == {c \in pool : c.verified}
<1>4. fit \in SUBSET TariffClause
  BY <1>2, <1>3
<1>5. /\ hits \subseteq fit
      /\ Cardinality(fit) <= Limit => hits = fit
      /\ \A c \in hits, q \in fit \ hits : c.distance <= q.distance
  <2>1. /\ hits \in SUBSET fit
        /\ Cardinality(hits) = IF Cardinality(fit) < Limit THEN Cardinality(fit) ELSE Limit
        /\ \A c \in hits, q \in fit \ hits : c.distance <= q.distance
    BY <1>1 DEF Nearest
  <2> HIDE DEF fit
  <2>2. QED
    BY <1>2, <1>4, <2>1, AllWithinLimit
<1>6. ASSUME ~Crowded PROVE hits = {c \in Searchable : c.verified}
  <2>1. IsFiniteSet(Searchable) /\ IsFiniteSet({c \in Searchable : c.verified})
    BY <1>2, TariffClauseAssumption, FS_Subset
  <2>2. Cardinality(Searchable) \in Nat /\ Cardinality({c \in Searchable : c.verified}) \in Nat
    BY <2>1, FS_CardinalityType
  <2>3. /\ Cardinality(Searchable) <= Limit * Multiplier
        /\ Cardinality({c \in Searchable : c.verified}) <= Limit
    BY <1>2, <1>6, <2>2 DEF Crowded
  <2>4. fit = {c \in Searchable : c.verified}
    BY <1>3, <2>3
  <2>5. QED
    BY <1>5, <2>3, <2>4
<1>7. QED
  BY <1>3, <1>5, <1>6

\* Among the clauses that pass there is a first one.
LEMMA FirstIs ==
  ASSUME NEW passing \in SUBSET TariffClause, passing # {}
  PROVE  LET first == CHOOSE c \in passing : \A q \in passing \ {c} : Before(c, q)
         IN  first \in passing /\ \A q \in passing : first.distance <= q.distance
<1> DEFINE first == CHOOSE c \in passing : \A q \in passing \ {c} : Before(c, q)
           distances == {c.distance : c \in passing}
<1>1. distances \subseteq Nat /\ distances # {}
  BY ClauseFields
<1>2. PICK m \in distances : \A n \in distances : m <= n
  BY <1>1, LeastOf
<1> DEFINE ids == {c.id : c \in {q \in passing : q.distance = m}}
<1>3. ids \subseteq Nat /\ ids # {}
  BY <1>2, ClauseFields
<1>4. PICK k \in ids : \A n \in ids : k <= n
  BY <1>3, LeastOf
<1>5. PICK c \in passing : c.distance = m /\ c.id = k
  BY <1>4
<1>6. ASSUME NEW q \in passing, q # c PROVE Before(c, q)
  <2>1. /\ c.distance <= q.distance /\ c.distance \in Nat /\ q.distance \in Nat
        /\ c.id \in Nat /\ q.id \in Nat /\ c.id # q.id
        /\ q.distance = m => c.id <= q.id
    <3>1. c.distance <= q.distance
      BY <1>2, <1>5
    <3>2. q.distance = m => c.id <= q.id
      BY <1>4, <1>5
    <3>3. QED
      BY <1>6, <3>1, <3>2, ClauseFields, TariffClauseAssumption
  <2>2. QED
    BY <1>5, <2>1 DEF Before
<1>7. first \in passing /\ \A q \in passing \ {first} : Before(first, q)
  BY <1>6
<1> HIDE DEF first
<1>8. \A q \in passing : first.distance <= q.distance
  BY <1>7, ClauseFields DEF Before
<1>9. QED
  BY <1>7, <1>8 DEF first

LEMMA InitRetrieval == RetrievalInit => RetrievalInv
BY DEF RetrievalInit, RetrievalInv

LEMMA NextRetrieval == RetrievalInv /\ [RetrievalNext]_retrievalVars => RetrievalInv'
<1> SUFFICES ASSUME RetrievalInv, [RetrievalNext]_retrievalVars PROVE RetrievalInv'
  OBVIOUS
<1>1. ASSUME library' \in SUBSET TariffClause, UNCHANGED <<hits, seen, rule, choice>>
      PROVE  RetrievalInv'
  BY <1>1 DEF RetrievalInv, Selected, FirstPassing
<1>2. ASSUME NEW clauses \in SUBSET TariffClause, Seed(clauses) PROVE RetrievalInv'
  BY <1>1, <1>2 DEF Seed, RetrievalInv
<1>3. ASSUME NEW c \in TariffClause, Store(c) PROVE RetrievalInv'
  BY <1>1, <1>3 DEF Store, RetrievalInv
<1>4. ASSUME Search PROVE RetrievalInv'
  BY <1>4 DEF Search, RetrievalInv
<1>5. ASSUME NEW days \in Period, DecideRule(days) PROVE RetrievalInv'
  <2>1. /\ hits # Null /\ UNCHANGED <<library, hits, seen, choice>>
        /\ rule' = Decision(hits, days)
    BY <1>5 DEF DecideRule
  <2>2. QED
    BY <2>1 DEF RetrievalInv, Selected, FirstPassing
<1>6. ASSUME NEW d \in UNION Period, Retrieve(d) PROVE RetrievalInv'
  <2>1. PICK fetched \in SUBSET hits :
          choice' = [day |-> d, fetched |-> fetched, clause |-> Selected(d, fetched)]
    BY <1>6 DEF Retrieve
  <2>2. hits # Null /\ UNCHANGED <<library, hits, seen, rule>>
    BY <1>6 DEF Retrieve
  <2>3. d \in Nat
    BY PeriodAssumption
  <2>4. \A x, f : Selected(x, f)' = Selected(x, f)
    BY <2>2 DEF Selected, FirstPassing
  <2>5. choice' # Null => \E x \in Nat, f \in SUBSET hits' :
          choice' = [day |-> x, fetched |-> f, clause |-> Selected(x, f)']
    BY <2>1, <2>2, <2>3, <2>4
  <2>6. QED
    BY <2>2, <2>5 DEF RetrievalInv
<1>7. CASE UNCHANGED retrievalVars
  BY <1>1, <1>7 DEF retrievalVars, RetrievalInv
<1>8. QED
  BY <1>2, <1>3, <1>4, <1>5, <1>6, <1>7 DEF RetrievalNext

THEOREM RetrievalInvariance == RetrievalSpec => []RetrievalInv
BY InitRetrieval, NextRetrieval, PTL DEF RetrievalSpec

\* decide_applicable_rule, after a search that looked at every embedded clause: what
\* it decides is what all clauses that would pass say together, and where the search
\* was cut short, all those that are nearer than one of its hits.
THEOREM UnanimousRule == RetrievalSpec => []RuleIsUnanimous
<1>1. RetrievalInv => RuleIsUnanimous
  <2> SUFFICES ASSUME RetrievalInv, rule # Null PROVE RuleIsUnanimous
    BY DEF RuleIsUnanimous
  <2>1. PICK days \in Period : rule = Decision(hits, days)
    BY DEF RetrievalInv
  <2>2. hits # Null /\ hits \subseteq {c \in Searchable : c.verified}
    BY HitsAre DEF RetrievalInv
  <2>3. Searchable \subseteq TariffClause
    BY DEF RetrievalInv, Searchable
  <2> DEFINE governing == {c \in Searchable : /\ c.verified /\ c.inScope
                                              /\ c.quoted /\ c.rate # Null
                                              /\ c.unit = "CALENDAR_DAY"
                                              /\ rule.days \subseteq c.from .. c.to}
             rates == {c.rate : c \in governing}
             accepted == {c \in hits : CandidateAccepted(c, days)}
             offered == {c.rate : c \in accepted}
  <2>4. /\ rule.days = days
        /\ rule.state = "REJECTED" <=> offered = {}
        /\ rule.state = "CONFLICTED" <=> \E r, q \in offered : r # q
        /\ rule.state = "VERIFIED" <=> offered # {} /\ \A r, q \in offered : r = q
        /\ rule.state # "VERIFIED" => rule.rate = Null
        /\ rule.state = "VERIFIED" => rule.rate = CHOOSE r \in offered : TRUE
    BY <2>1 DEF Decision
  <2>5. ASSUME NEW c \in Searchable, c.verified
        PROVE  CandidateAccepted(c, days) <=> c \in governing
    <3>1. days \subseteq Nat /\ c.from \in Nat /\ c.to \in Nat
      BY <2>3, ClauseFields, PeriodAssumption
    <3>2. CoversAllDates(c, days) <=> rule.days \subseteq c.from .. c.to
      BY <2>4, <3>1 DEF CoversAllDates
    <3>3. QED
      BY <2>5, <3>2 DEF CandidateAccepted
  <2>6. accepted \subseteq governing
    BY <2>2, <2>5
  <2>7. ~Crowded => accepted = governing
    BY <2>2, <2>5, <2>6, HitsAre
  <2> HIDE DEF accepted, governing
  <2>8. rule.state = "VERIFIED" => rule.rate \in offered /\ \A r \in offered : r = rule.rate
    <3> HIDE DEF offered
    <3>1. QED
      BY <2>4
  <2>9. offered \subseteq rates /\ Null \notin rates
    BY <2>6 DEF governing
  <2>10. ASSUME ~Crowded
         PROVE  /\ rule.state = "REJECTED" <=> rates = {}
                /\ rule.state = "VERIFIED" <=> rates = {rule.rate}
    <3>1. offered = rates
      BY <2>7, <2>10
    <3>2. rule.state = "REJECTED" <=> rates = {}
      BY <2>4, <3>1
    <3>3. rule.state = "VERIFIED" => rates = {rule.rate}
      BY <2>8, <3>1
    <3>4. rates = {rule.rate} => rule.state = "VERIFIED"
      BY <2>4, <2>9
    <3>5. QED
      BY <3>2, <3>3, <3>4
  <2>11. ASSUME rule.state = "VERIFIED", Cardinality(Searchable) <= Limit * Multiplier,
                NEW c \in governing, NEW h \in hits, c.distance < h.distance
         PROVE  c.rate = rule.rate
    <3>1. c \in Searchable /\ c.verified
      BY <2>11 DEF governing
    <3>2. c \in hits
      <4>1. ASSUME c \notin hits PROVE FALSE
        <5>1. h.distance <= c.distance
          BY <2>2, <2>11, <3>1, <4>1, HitsAre
        <5>2. h.distance \in Nat /\ c.distance \in Nat
          BY <2>2, <2>3, <2>11, <3>1, ClauseFields
        <5>3. QED
          BY <2>11, <5>1, <5>2
      <4>2. QED
        BY <4>1
    <3>3. c \in accepted
      BY <2>5, <2>11, <3>1, <3>2 DEF accepted
    <3>4. QED
      BY <2>8, <2>11, <3>3
  <2>12. QED
    BY <2>4, <2>8, <2>9, <2>10, <2>11 DEF RuleIsUnanimous, governing
<1>2. QED
  BY <1>1, RetrievalInvariance, PTL

\* The receipt retrieval chooses the nearest usable clause of the library, and only
\* if its rate is verified: _ranked_evaluations filters, and only then ranks.
THEOREM NearestSelection == RetrievalSpec => []SelectionIsNearest
<1>1. RetrievalInv => SelectionIsNearest
  <2> SUFFICES ASSUME RetrievalInv, choice # Null PROVE SelectionIsNearest
    BY DEF SelectionIsNearest
  <2>1. PICK d \in Nat, fetched \in SUBSET hits :
          choice = [day |-> d, fetched |-> fetched, clause |-> Selected(d, fetched)]
    BY DEF RetrievalInv
  <2>2. hits # Null /\ hits \subseteq {c \in Searchable : c.verified}
    BY HitsAre DEF RetrievalInv
  <2>3. Searchable \subseteq TariffClause
    BY DEF RetrievalInv, Searchable
  <2> DEFINE usable == {c \in Searchable : /\ c.verified /\ c.fits /\ c.intact
                                            /\ choice.day \in c.from .. c.to
                                            /\ (c \in hits => c \in choice.fetched)}
             nearest == {c \in usable : \A q \in usable : c.distance <= q.distance}
             passing == {c \in hits : Passes(c, d, fetched)}
             first == CHOOSE c \in passing : \A q \in passing \ {c} : Before(c, q)
  <2>4. choice.day = d /\ choice.fetched = fetched /\ choice.clause = Selected(d, fetched)
    BY <2>1
  <2>5. ASSUME NEW c \in hits PROVE Passes(c, d, fetched) <=> c \in usable
    <3>1. /\ c.from \in Nat /\ c.to \in Nat /\ c \in Searchable /\ c.verified
          /\ c.fits \in BOOLEAN /\ c.intact \in BOOLEAN
      BY <2>2, <2>3, <2>5, ClauseFields
    <3>2. TemporalApplies(c, d) <=> d \in c.from .. c.to
      BY <3>1 DEF TemporalApplies
    <3>3. QED
      BY <2>4, <2>5, <3>1, <3>2 DEF Passes
  <2>6. passing = hits \cap usable /\ passing \in SUBSET TariffClause
    BY <2>2, <2>3, <2>5
  <2>7. FirstPassing(d, fetched) = IF passing = {} THEN Null ELSE first
    BY DEF FirstPassing
  <2>8. passing # {} =>
          first \in passing /\ first # Null /\ \A q \in passing : first.distance <= q.distance
    <3> HIDE DEF first, passing
    <3>1. passing # {} => first \in passing /\ \A q \in passing : first.distance <= q.distance
      BY <2>6, FirstIs DEF first
    <3>2. QED
      BY <2>6, <3>1, TariffClauseAssumption
  <2>9. usable \subseteq {c \in Searchable : c.verified}
    OBVIOUS
  <2> HIDE DEF passing, first, usable
  <2>10. CASE passing = {}
    <3>1. choice.clause = Null
      BY <2>4, <2>7, <2>10 DEF Selected
    <3>2. ~Crowded => usable = {}
      BY <2>2, <2>6, <2>9, <2>10, HitsAre
    <3>3. QED
      BY <3>1, <3>2 DEF SelectionIsNearest, usable
  <2>11. CASE passing # {}
    <3>1. first \in passing /\ first \in hits /\ first \in usable /\ first # Null
      BY <2>6, <2>8, <2>11
    <3>2. ASSUME Cardinality(Searchable) <= Limit * Multiplier PROVE first \in nearest
      <4>1. ASSUME NEW c \in usable, c \in hits PROVE first.distance <= c.distance
        BY <2>6, <2>8, <2>11, <4>1
      <4>2. ASSUME NEW c \in usable, c \notin hits PROVE first.distance <= c.distance
        BY <2>2, <2>9, <3>1, <3>2, <4>2, HitsAre
      <4>3. QED
        BY <3>1, <4>1, <4>2
    <3>3. choice.clause = IF Eligible(first) THEN first ELSE Null
      BY <2>4, <2>7, <2>11, <3>1 DEF Selected
    <3>4. CASE Eligible(first)
      BY <3>1, <3>2, <3>3, <3>4 DEF SelectionIsNearest, Eligible, usable
    <3>5. CASE ~Eligible(first)
      <4>1. choice.clause = Null /\ (first.unit # "per_day" \/ ~first.sound)
        BY <3>3, <3>5 DEF Eligible
      <4>2. Crowded \/ first \in nearest
        <5>1. ~(Cardinality(Searchable) <= Limit * Multiplier) => Crowded
          <6>1. IsFiniteSet(Searchable)
            BY <2>3, TariffClauseAssumption, FS_Subset
          <6>2. Cardinality(Searchable) \in Nat /\ Limit * Multiplier \in Nat
            BY <6>1, FS_CardinalityType, LimitAssumption
          <6>3. QED
            BY <6>2 DEF Crowded
        <5>2. QED
          BY <3>2, <5>1
      <4>3. QED
        BY <4>1, <4>2 DEF SelectionIsNearest, usable
    <3>6. QED
      BY <3>4, <3>5
  <2>12. QED
    BY <2>10, <2>11
<1>2. QED
  BY <1>1, RetrievalInvariance, PTL

=============================================================================
