-------------------------- MODULE ClauseRetrieval --------------------------
(***************************************************************************)
(* How a tariff clause is found: clauses are stored by the seeding of the   *)
(* vector index (vector_seed) and, without an embedding, by the receipt run *)
(* (receipt_pipeline); a vector search returns the nearest ones             *)
(* (gate2_vector_search); and two consumers filter them, the rule worker of *)
(* the intake pipeline (applicable_rule) and the receipt retrieval          *)
(* (vector_receipt_pipeline, vector_retrieval).                             *)
(*                                                                         *)
(* The search is one statement; what is done with its hits comes later,     *)
(* when more clauses may be stored.  All clauses are of one tenant and      *)
(* carrier, and distances are to one query.                                 *)
(***************************************************************************)
EXTENDS Naturals, FiniteSets

CONSTANTS
  TariffClause,  \* rows that tariff_clauses may come to hold
  Period,        \* sets of charged days that a rule is sought for
  Limit,         \* hits a search returns
  Multiplier,    \* _CANDIDATE_MULTIPLIER
  Null           \* no rate, no clause, nothing yet

ASSUME TariffClauseAssumption ==
  /\ IsFiniteSet(TariffClause)
  /\ TariffClause \subseteq
       [id : Nat,
        key : Nat,               \* snapshot and clause hash, unique among the stored
        distance : Nat,
        rate : Nat \cup {Null},  \* rate_amount, or Null if it is no amount of money
        unit : {"CALENDAR_DAY", "per_day"},  \* rate_unit, normalised
        from : Nat, to : Nat,    \* effective_from, effective_to
        verified : BOOLEAN,      \* verification_status = 'VERIFIED'
        embedded : BOOLEAN,
        inScope : BOOLEAN,       \* the rule worker's scope code and currency
        quoted : BOOLEAN,        \* the text contains EXPECTED_RATE_PHRASE
        fits : BOOLEAN,          \* the receipt's family, equipment, route and
                                 \* service, by metadata that match the embedding
        intact : BOOLEAN,        \* the retained bytes and hashes bear it out
        sound : BOOLEAN]         \* the text states that amount, in dollars, by the day
  /\ \A c, q \in TariffClause : c.id = q.id => c = q   \* the primary key
  /\ Null \notin TariffClause /\ Null \notin Nat

ASSUME LimitAssumption == Limit \in Nat \ {0} /\ Multiplier \in Nat \ {0}
ASSUME PeriodAssumption == Period \subseteq (SUBSET Nat) \ {{}}

VARIABLES
  library,  \* tariff_clauses
  hits,     \* what the last search returned, or Null
  seen,     \* history: the library at that search
  rule,     \* the decision on a rule that the hits gave, or Null
  choice    \* the clause that the receipt retrieval chose among the hits, or Null

retrievalVars == <<library, hits, seen, rule, choice>>

RetrievalInit ==
  /\ library = {}
  /\ hits = Null
  /\ seen = {}
  /\ rule = Null
  /\ choice = Null

-----------------------------------------------------------------------------
\* The clauses stored.

Conflicts(c) == \E q \in library : q.key = c.key /\ q # c

\* seed_synthetic_clauses: one transaction; one row in conflict leaves none.
Seed(clauses) ==
  /\ \A c \in clauses : c.embedded /\ ~Conflicts(c)
  /\ \A c, q \in clauses : c.key = q.key => c = q
  /\ library' = library \cup clauses
  /\ UNCHANGED <<hits, seen, rule, choice>>

\* persist_verified_inputs inserts a clause without embedding and metadata.
Store(c) ==
  /\ c.verified /\ ~c.embedded
  /\ ~\E q \in library : q.key = c.key
  /\ library' = library \cup {c}
  /\ UNCHANGED <<hits, seen, rule, choice>>

-----------------------------------------------------------------------------
\* The search.

\* ORDER BY distance LIMIT n: ties are in no particular order.
Nearest(clauses, n) ==
  {near \in SUBSET clauses :
     /\ Cardinality(near) = IF Cardinality(clauses) < n THEN Cardinality(clauses) ELSE n
     /\ \A c \in near, q \in clauses \ near : c.distance <= q.distance}

\* The index is approximate: it fills its limit, with rows that need not be the
\* nearest.
Approximate(clauses, n) ==
  {found \in SUBSET clauses :
     Cardinality(found) = IF Cardinality(clauses) < n THEN Cardinality(clauses) ELSE n}

\* The inner query takes no more candidates than the outer one returns.
PoolOfLimit(clauses) == Approximate({c \in clauses : c.embedded}, Limit)

\* The inner query: the vector index alone, whatever the status.
Pool(clauses) == Approximate({c \in clauses : c.embedded}, Limit * Multiplier)

\* The outer query filters the pool and cuts it to the limit.
Searches(clauses) ==
  UNION {Nearest({c \in pool : c.verified}, Limit) : pool \in Pool(clauses)}

Search ==
  /\ hits' \in Searches(library)
  /\ seen' = library
  /\ rule' = Null
  /\ choice' = Null
  /\ UNCHANGED library

-----------------------------------------------------------------------------
\* The rule worker.

CoversAllDates(c, days) == \A d \in days : c.from <= d /\ d <= c.to

\* validate_candidate().  Its supersession check passes whatever the worker finds.
CandidateAccepted(c, days) ==
  /\ c.verified /\ c.inScope
  /\ c.quoted /\ c.rate # Null /\ c.unit = "CALENDAR_DAY"
  /\ CoversAllDates(c, days)

\* decide_applicable_rule(): all accepted candidates must bear one rate.
Decision(clauses, days) ==
  LET rates == {c.rate : c \in {q \in clauses : CandidateAccepted(q, days)}}
      Decided(state, rate) == [days |-> days, state |-> state, rate |-> rate]
  IN  IF rates = {} THEN Decided("REJECTED", Null)
      ELSE IF \E r, q \in rates : r # q THEN Decided("CONFLICTED", Null)
      ELSE Decided("VERIFIED", CHOOSE r \in rates : TRUE)

DecideRule(days) ==
  /\ hits # Null /\ rule = Null
  /\ rule' = Decision(hits, days)
  /\ UNCHANGED <<library, hits, seen, choice>>

-----------------------------------------------------------------------------
\* The receipt retrieval.

\* The end of the effective interval goes unread.
TemporalFromOnly(c, d) == c.from <= d

\* temporal_status() = TEMPORAL_APPLIES
TemporalApplies(c, d) == c.from <= d /\ d <= c.to

\* _evaluate(): the postfilters, given the exact sources that S3 returned.  Neither
\* the amount nor its unit is looked at.
Passes(c, d, fetched) ==
  c.fits /\ TemporalApplies(c, d) /\ c \in fetched /\ c.intact

\* The order of _ranked_evaluations.
Before(c, q) == c.distance < q.distance \/ (c.distance = q.distance /\ c.id < q.id)

\* retrieve_brute_force(): the first of the ranked candidates that passes.
FirstPassing(d, fetched) ==
  LET passing == {c \in hits : Passes(c, d, fetched)}
  IN  IF passing = {} THEN Null
      ELSE CHOOSE c \in passing : \A q \in passing \ {c} : Before(c, q)

\* verify_tariff_extraction() of what the clause says of its rate.
Eligible(c) == c.unit = "per_day" /\ c.sound

\* The selected clause is given up when it fails verification: no other is tried.
Selected(d, fetched) ==
  LET first == FirstPassing(d, fetched)
  IN  IF first = Null THEN Null ELSE IF Eligible(first) THEN first ELSE Null

\* retrieve(): S3 returns the exact sources of some of the hits.
Retrieve(d) ==
  /\ hits # Null /\ choice = Null
  /\ \E fetched \in SUBSET hits :
       choice' = [day |-> d, fetched |-> fetched, clause |-> Selected(d, fetched)]
  /\ UNCHANGED <<library, hits, seen, rule>>

-----------------------------------------------------------------------------
RetrievalNext ==
  \/ \E clauses \in SUBSET TariffClause : clauses # {} /\ Seed(clauses)
  \/ \E c \in TariffClause : Store(c)
  \/ Search
  \/ \E days \in Period : DecideRule(days)
  \/ \E d \in UNION Period : Retrieve(d)

RetrievalSpec == RetrievalInit /\ [][RetrievalNext]_retrievalVars

-----------------------------------------------------------------------------
Searchable == {c \in seen : c.embedded}

\* More clauses than the search can look at, or return.
Crowded ==
  \/ Cardinality(Searchable) > Limit * Multiplier
  \/ Cardinality({c \in Searchable : c.verified}) > Limit

\* "Two candidates passing with conflicting rates -> CONFLICTED, never a silent pick"
\* (applicable_rule), for all clauses that would pass and not only those found:
\* unless the searched library has outgrown the limits of the search, the rule, its
\* absence or its conflict is what all its passing clauses together say.  Even then
\* a rule is the rate of a passing clause, a conflict is one of two, and a passing
\* clause nearer than some hit agrees.
RuleIsUnanimous ==
  rule # Null =>
    LET governing == {c \in Searchable : /\ c.verified /\ c.inScope
                                         /\ c.quoted /\ c.rate # Null
                                         /\ c.unit = "CALENDAR_DAY"
                                         /\ rule.days \subseteq c.from .. c.to}
        rates == {c.rate : c \in governing}
    IN  /\ ~Crowded => /\ rule.state = "REJECTED" <=> rates = {}
                       /\ rule.state = "VERIFIED" <=> rates = {rule.rate}
        /\ rule.state = "CONFLICTED" => \E r, q \in rates : r # q
        /\ rule.state = "VERIFIED" =>
             /\ rule.rate \in rates
             /\ Cardinality(Searchable) <= Limit * Multiplier =>
                  \A c \in governing :
                    (\E h \in hits : c.distance < h.distance) => c.rate = rule.rate

\* "The vector distance is only a ranking hint": the clause that the receipt
\* retrieval chooses fits, is in effect on the charge date, is borne out by its
\* source and verified as to its rate, and no nearer one of the library would have
\* passed but for a source that could not be read.  It abstains only if none would,
\* the search was crowded, or the nearest one failed the verification
\* (vector_retrieval, vector_receipt_pipeline).
SelectionIsNearest ==
  choice # Null =>
    LET usable == {c \in Searchable : /\ c.verified /\ c.fits /\ c.intact
                                      /\ choice.day \in c.from .. c.to
                                      /\ (c \in hits => c \in choice.fetched)}
        nearest == {c \in usable : \A q \in usable : c.distance <= q.distance}
    IN  IF choice.clause = Null
          THEN \/ Crowded \/ usable = {}
               \/ \E c \in nearest : c.unit # "per_day" \/ ~c.sound
          ELSE /\ choice.clause \in usable
               /\ choice.clause.unit = "per_day" /\ choice.clause.sound
               /\ Cardinality(Searchable) <= Limit * Multiplier => choice.clause \in nearest
=============================================================================
