--------------------------- MODULE EvidenceProofs ---------------------------
(***************************************************************************)
(* Proofs about the evidence that is kept for good.                         *)
(*                                                                         *)
(* ReceiptTrail, for any captures, readings, runs and people: a run that is *)
(* told its receipt is filed finds its own evidence in the case, a seal is  *)
(* given once, and what was sealed verifies and replays ever after.         *)
(*                                                                         *)
(* Ingestion, for any keys, files and requests: one invoice per file,       *)
(* answers about the key's own file that never change, and sources that     *)
(* exist and are written once.                                              *)
(***************************************************************************)
EXTENDS ReceiptTrail, Ingestion, TLAPS

-----------------------------------------------------------------------------
(***************************************************************************)
(* ReceiptTrail.                                                            *)
(***************************************************************************)

\* The evidence of a run or a case is on file: its rows bear it out, and none
\* of them can be replaced by another.
OnFile(e) ==
  /\ e \in Evidence
  /\ Eligible(e)
  /\ snapshots[CapturedAt[e.capture]] = e.capture
  /\ clauses[<<e.capture, e.text>>] = e.reading
  /\ e.invoice \in invoices

\* The first version of a case, as filed; a bare one has no evidence.
AsFiled(i, c) ==
  /\ c.state = "ANALYZED" /\ ~c.sealed /\ c.approval = "NOT_PRESSED"
  /\ c.manifest = Null /\ c.hash = Null
  /\ c.sealed_by = Null /\ c.sealed_txn_ts = Null
  /\ c.evidence # Null =>
       OnFile(c.evidence) /\ Overcharge(c.evidence) /\ c.evidence.invoice = i

\* What the seal adds to a version c, and a contest leaves alone.
AsSealed(i, c, a, ts) ==
  /\ c.sealed /\ c.approval = "APPROVED"
  /\ c.manifest = ManifestOf(i, c, a) /\ c.hash = c.manifest
  /\ c.sealed_by = a /\ c.sealed_txn_ts = ts

\* A case has three versions at most: filed, sealed, contested.
CaseInv(i) ==
  LET versions == cases[i]
      n == Len(versions)
  IN  /\ n \in 0 .. 3
      /\ \A m \in 1 .. n : versions[m].at <= clock
      /\ n >= 1 => AsFiled(i, versions[1])
      /\ n >= 2 =>
           /\ versions[2].state = "FILED"
           /\ versions[2].evidence # Null
           /\ versions[2].evidence = versions[1].evidence
           /\ versions[2].sealed_by \in Approver
           /\ AsSealed(i, versions[2], versions[2].sealed_by, versions[2].at)
           /\ versions[1].at < versions[2].at
      /\ n = 3 =>
           /\ versions[3].state = "CONTESTED"
           /\ versions[3].evidence = versions[2].evidence
           /\ AsSealed(i, versions[3], versions[2].sealed_by, versions[2].at)
           /\ versions[2].at < versions[3].at
      /\ ledger[i] = IF n \in {2, 3} THEN 1 ELSE 0

CasesInv == \A i \in Filed : CaseInv(i)

\* A run works on evidence that is on file, files only an overcharge, and
\* reads back or reports only a case that exists.
RunInv(r) ==
  LET e == run[r].evidence
  IN  /\ run[r].at # "idle" => OnFile(e)
      /\ run[r].at \in {"file", "raced"} => Overcharge(e)
      /\ run[r].at = "raced" => HasCase(e.invoice)
      /\ run[r].at \in {"filed", "already_filed"} =>
           HasCase(e.invoice) /\ cases[e.invoice][1].evidence = e

RunsInv == \A r \in Runner : RunInv(r)

\* An answer to a press names a sealed case and its approval; a verifier holds
\* a version of the case that was once committed, or a report that follows it.
PeopleInv ==
  /\ \A a \in Approver :
       pressed[a] # Null =>
         LET versions == cases[pressed[a].invoice]
         IN  /\ Len(versions) >= 2
             /\ pressed[a].sealed_by = versions[2].sealed_by
             /\ pressed[a].sealed_txn_ts = versions[2].sealed_txn_ts
  /\ look # Null =>
       \/ /\ look \in [invoice : Filed, case : Case]
          /\ \E n \in 1 .. Len(cases[look.invoice]) : look.case = cases[look.invoice][n]
       \/ /\ look \in [sealed : BOOLEAN, passed : BOOLEAN, fetched : BOOLEAN]
          /\ look.passed <=> look.sealed /\ look.fetched

TrailInv ==
  /\ TrailTypeOK /\ CasesInv /\ RunsInv /\ PeopleInv

-----------------------------------------------------------------------------
\* The cases only grow.
Extended ==
  \A i \in Filed :
    /\ Len(cases[i]) <= Len(cases'[i])
    /\ \A m \in 1 .. Len(cases[i]) : cases'[i][m] = cases[i][m]

\* No row that evidence rests on is replaced.
RowsKept == \A e \in Evidence : OnFile(e) => OnFile(e)'

\* The versions of a case are a sequence of cases, with a first one once it exists.
LEMMA Versions ==
  ASSUME TrailTypeOK, NEW i \in Filed
  PROVE  /\ cases[i] \in Seq(Case) /\ Len(cases[i]) \in Nat
         /\ \A m \in 1 .. Len(cases[i]) : cases[i][m] \in Case
         /\ HasCase(i) <=> Len(cases[i]) >= 1
         /\ Current(i) = cases[i][Len(cases[i])]
  BY DEF TrailTypeOK, HasCase, Current, Last

\* The state of a case tells which of its versions is the current one.
LEMMA StateOfVersion ==
  ASSUME TrailTypeOK, CasesInv, NEW i \in Filed, HasCase(i)
  PROVE  /\ Len(cases[i]) \in 1 .. 3
         /\ Current(i) = cases[i][Len(cases[i])]
         /\ Current(i).state = "ANALYZED" <=> Len(cases[i]) = 1
         /\ Current(i).state = "FILED" <=> Len(cases[i]) = 2
         /\ Current(i).state = "CONTESTED" <=> Len(cases[i]) = 3
         /\ Current(i).evidence = cases[i][1].evidence
<1>1. CaseInv(i)
  BY DEF CasesInv
<1>2. Len(cases[i]) \in 1 .. 3 /\ Current(i) = cases[i][Len(cases[i])]
  BY <1>1, Versions DEF CaseInv
<1>3. CASE Len(cases[i]) = 1
  BY <1>1, <1>2, <1>3 DEF CaseInv, AsFiled
<1>4. CASE Len(cases[i]) = 2
  BY <1>1, <1>2, <1>4 DEF CaseInv
<1>5. CASE Len(cases[i]) = 3
  BY <1>1, <1>2, <1>5 DEF CaseInv
<1>6. QED
  BY <1>2, <1>3, <1>4, <1>5

\* The time of a version is set without a trace in its other fields.
LEMMA Timed ==
  ASSUME NEW c \in Case, NEW t \in Nat
  PROVE  [c EXCEPT !.at = t] \in Case
  BY ONLY c \in Case, t \in Nat DEF Case

\* A commit appends one version to one case, at the next tick of the clock.
LEMMA CommitAppends ==
  ASSUME TrailTypeOK, NEW i \in Filed, NEW c \in Case, Commit(i, c)
  PROVE  /\ cases' \in [Filed -> Seq(Case)]
         /\ clock' = clock + 1 /\ clock' \in Nat /\ clock \in Nat
         /\ Extended
         /\ \A j \in Filed : j # i => cases'[j] = cases[j]
         /\ Len(cases'[i]) = Len(cases[i]) + 1
         /\ cases'[i][Len(cases[i]) + 1] = [c EXCEPT !.at = clock + 1]
<1>1. clock \in Nat /\ cases \in [Filed -> Seq(Case)]
  BY DEF TrailTypeOK
<1>2. [c EXCEPT !.at = clock + 1] \in Case
  <2>1. clock + 1 \in Nat
    BY <1>1
  <2>2. QED
    BY <2>1, Timed, Zenon
<1>3. cases' = [cases EXCEPT ![i] = Append(@, [c EXCEPT !.at = clock + 1])]
  BY DEF Commit
<1>4. cases'[i] = Append(cases[i], [c EXCEPT !.at = clock + 1])
  BY <1>1, <1>3
<1>5. \A j \in Filed : j # i => cases'[j] = cases[j]
  BY <1>1, <1>3
<1>6. cases[i] \in Seq(Case)
  BY <1>1
<1>7. /\ Append(cases[i], [c EXCEPT !.at = clock + 1]) \in Seq(Case)
      /\ Len(cases'[i]) = Len(cases[i]) + 1
      /\ cases'[i][Len(cases[i]) + 1] = [c EXCEPT !.at = clock + 1]
      /\ \A m \in 1 .. Len(cases[i]) : cases'[i][m] = cases[i][m]
      /\ Len(cases[i]) \in Nat
  BY <1>2, <1>4, <1>6
<1>8. cases' \in [Filed -> Seq(Case)]
  BY <1>1, <1>3, <1>4, <1>7
<1>9. Extended
  <2>1. ASSUME NEW j \in Filed
        PROVE  /\ Len(cases[j]) <= Len(cases'[j])
               /\ \A m \in 1 .. Len(cases[j]) : cases'[j][m] = cases[j][m]
    <3>1. CASE j = i
      BY <1>7, <3>1
    <3>2. CASE j # i
      BY <1>5, <3>2, Versions
    <3>3. QED
      BY <3>1, <3>2
  <2>2. QED
    BY <2>1 DEF Extended
<1>10. QED
  BY <1>1, <1>3, <1>5, <1>7, <1>8, <1>9 DEF Commit

\* Cases that a step leaves alone are extended.
LEMMA SameCases ==
  ASSUME TrailTypeOK, UNCHANGED cases
  PROVE  Extended
  BY Versions DEF Extended

\* A case that gets no version, and no ledger event, stays as it should be.
LEMMA CaseKept ==
  ASSUME TrailTypeOK, NEW i \in Filed, CaseInv(i), RowsKept,
         cases'[i] = cases[i], ledger'[i] = ledger[i],
         clock' \in Nat, clock <= clock'
  PROVE  CaseInv(i)'
<1>1. \A c \in Case : AsFiled(i, c) => AsFiled(i, c)'
  BY DEF AsFiled, RowsKept, OnFile, Overcharge
<1>2. \A m \in 1 .. Len(cases[i]) : cases[i][m] \in Case /\ cases[i][m].at \in Nat
  BY Versions DEF Case
<1>3. \A m \in 1 .. Len(cases[i]) : cases'[i][m].at <= clock'
  BY <1>2 DEF CaseInv, TrailTypeOK
<1>4. QED
  BY <1>1, <1>2, <1>3, Versions DEF CaseInv, AsSealed, ManifestOf

\* A run stays as it should be under steps of others.
LEMMA RunKept ==
  ASSUME TrailTypeOK, NEW r \in Runner, RunInv(r), RowsKept, Extended,
         run'[r] = run[r], cases' \in [Filed -> Seq(Case)]
  PROVE  RunInv(r)'
<1> DEFINE e == run[r].evidence
<1>1. SUFFICES ASSUME run[r].at # "idle" PROVE RunInv(r)'
  BY DEF RunInv
<1>2. OnFile(e) /\ e \in Evidence /\ e.invoice \in Filed
  BY <1>1 DEF RunInv, OnFile, Evidence, Filed
<1>3. HasCase(e.invoice) => HasCase(e.invoice)' /\ cases'[e.invoice][1] = cases[e.invoice][1]
  BY <1>2, Versions DEF Extended, HasCase
<1>4. OnFile(e)'
  BY <1>2 DEF RowsKept
<1>5. QED
  BY <1>1, <1>2, <1>3, <1>4 DEF RunInv, Overcharge

\* ... and so do all of them, when a step moves none.
LEMMA RunsKept ==
  ASSUME TrailTypeOK, RunsInv, RowsKept, Extended, UNCHANGED run,
         cases' \in [Filed -> Seq(Case)]
  PROVE  RunsInv'
  BY RunKept DEF RunsInv

\* What people were answered and what verifiers hold stays true.
LEMMA PeopleKept ==
  ASSUME TrailTypeOK, PeopleInv, Extended, UNCHANGED <<pressed, look>>,
         cases' \in [Filed -> Seq(Case)]
  PROVE  PeopleInv'
<1>1. ASSUME NEW a \in Approver, pressed[a] # Null
      PROVE  LET versions == cases'[pressed[a].invoice]
             IN  /\ Len(versions) >= 2
                 /\ pressed[a].sealed_by = versions[2].sealed_by
                 /\ pressed[a].sealed_txn_ts = versions[2].sealed_txn_ts
  <2>1. pressed[a].invoice \in Filed
    BY <1>1 DEF TrailTypeOK
  <2>2. Len(cases[pressed[a].invoice]) \in Nat /\ Len(cases'[pressed[a].invoice]) \in Nat
    BY <2>1, Versions
  <2>3. QED
    BY <1>1, <2>1, <2>2 DEF PeopleInv, Extended
<1>2. ASSUME look \in [invoice : Filed, case : Case],
             NEW n \in 1 .. Len(cases[look.invoice]), look.case = cases[look.invoice][n]
      PROVE  n \in 1 .. Len(cases'[look.invoice]) /\ look.case = cases'[look.invoice][n]
  <2>1. look.invoice \in Filed
    BY <1>2
  <2>2. Len(cases[look.invoice]) \in Nat /\ Len(cases'[look.invoice]) \in Nat
    BY <2>1, Versions
  <2>3. QED
    BY <1>2, <2>1, <2>2 DEF Extended
<1>3. QED
  BY <1>1, <1>2 DEF PeopleInv

\* Steps that write no case keep all of them as they should be.
LEMMA CasesKept ==
  ASSUME TrailTypeOK, CasesInv, RowsKept, UNCHANGED <<cases, ledger, clock>>
  PROVE  CasesInv' /\ Extended
<1>1. clock \in Nat /\ clock' \in Nat /\ clock <= clock'
  BY DEF TrailTypeOK
<1>2. ASSUME NEW i \in Filed PROVE CaseInv(i)'
  BY <1>1, CaseKept DEF CasesInv
<1>3. QED
  BY <1>2, SameCases DEF CasesInv

\* Steps that write no capture, clause or invoice row.
LEMMA InputsKept ==
  ASSUME UNCHANGED inputs
  PROVE  RowsKept
  BY DEF RowsKept, OnFile, inputs

-----------------------------------------------------------------------------
\* Nothing is stored, filed or pressed in the beginning.
LEMMA TrailInitInv == TrailInit => TrailInv
<1> SUFFICES ASSUME TrailInit PROVE TrailInv
  OBVIOUS
<1>1. TrailTypeOK
  BY DEF TrailInit, TrailTypeOK, Resting, Execution, Answer
<1>2. CasesInv
  BY DEF TrailInit, CasesInv, CaseInv
<1>3. RunsInv
  BY DEF TrailInit, RunsInv, RunInv, Resting
<1>4. PeopleInv
  BY DEF TrailInit, PeopleInv
<1>5. QED
  BY <1>1, <1>2, <1>3, <1>4 DEF TrailInv

\* persist_verified_inputs: no stored row is replaced, and the run's evidence is.
LEMMA PersistInv ==
  ASSUME TrailInv, NEW r \in Runner, NEW e \in Evidence, Persist(r, e)
  PROVE  TrailInv'
<1> USE NullAssumption, TimesAssumption
<1>1. /\ e.capture \in Capture /\ e.text \in Text /\ e.reading \in Reading
      /\ e.invoice \in Filed /\ CapturedAt[e.capture] \in Moment
  BY DEF Evidence, Filed, Moment
<1>2. TrailTypeOK'
  <2>1. [at |-> "stored", evidence |-> e] \in Execution
    BY DEF Execution
  <2>2. QED
    BY <1>1, <2>1 DEF TrailInv, TrailTypeOK, Persist
<1>3. RowsKept
  <2>1. SUFFICES ASSUME NEW d \in Evidence, OnFile(d) PROVE OnFile(d)'
    BY DEF RowsKept
  <2>2. /\ d.capture \in Capture /\ d.text \in Text /\ d.reading \in Reading
        /\ CapturedAt[d.capture] \in Moment
    BY DEF Evidence, Moment
  <2>3. snapshots'[CapturedAt[d.capture]] = d.capture
    <3>1. /\ snapshots[CapturedAt[d.capture]] = d.capture /\ d.capture # Null
          /\ snapshots[CapturedAt[e.capture]] \in {Null, e.capture}
          /\ snapshots' = [snapshots EXCEPT ![CapturedAt[e.capture]] = e.capture]
      BY <1>1, <2>1, <2>2 DEF OnFile, Persist, Reusable
    <3>2. QED
      BY <1>1, <2>2, <3>1 DEF TrailInv, TrailTypeOK
  <2>4. clauses'[<<d.capture, d.text>>] = d.reading
    <3>1. /\ clauses[<<d.capture, d.text>>] = d.reading /\ d.reading # Null
          /\ clauses[<<e.capture, e.text>>] \in {Null, e.reading}
          /\ clauses' = [clauses EXCEPT ![<<e.capture, e.text>>] = e.reading]
      BY <1>1, <2>1, <2>2 DEF OnFile, Persist, Reusable
    <3>2. CASE <<d.capture, d.text>> = <<e.capture, e.text>>
      BY <1>1, <2>2, <3>1, <3>2 DEF TrailInv, TrailTypeOK
    <3>3. CASE <<d.capture, d.text>> # <<e.capture, e.text>>
      BY <1>1, <2>2, <3>1, <3>3 DEF TrailInv, TrailTypeOK
    <3>4. QED
      BY <3>2, <3>3
  <2>5. QED
    BY <2>1, <2>3, <2>4 DEF OnFile, Persist
<1>4. CasesInv' /\ Extended
  BY <1>3, CasesKept DEF TrailInv, Persist
<1>5. OnFile(e)'
  BY <1>1 DEF OnFile, Persist, TrailInv, TrailTypeOK
<1>6. RunsInv'
  <2>1. run'[r].at = "stored" /\ run'[r].evidence = e
    BY DEF Persist, TrailInv, TrailTypeOK
  <2>2. RunInv(r)'
    BY <1>5, <2>1 DEF RunInv
  <2>3. ASSUME NEW q \in Runner, q # r PROVE RunInv(q)'
    <3>1. run'[q] = run[q] /\ cases' \in [Filed -> Seq(Case)]
      BY <2>3 DEF Persist, TrailInv, TrailTypeOK
    <3>2. QED
      BY <1>3, <1>4, <3>1, RunKept DEF TrailInv, RunsInv
  <2>4. QED
    BY <2>2, <2>3 DEF RunsInv
<1>7. PeopleInv'
  BY <1>2, <1>4, PeopleKept DEF TrailInv, Persist, TrailTypeOK
<1>8. QED
  BY <1>2, <1>4, <1>6, <1>7 DEF TrailInv

\* The evidence a run works on is about an invoice that may have a case.
LEMMA RunEvidence ==
  ASSUME TrailInv, NEW r \in Runner, run[r].at # "idle"
  PROVE  /\ OnFile(run[r].evidence) /\ run[r].evidence \in Evidence
         /\ run[r].evidence.invoice \in Filed
         /\ run[r].evidence # Null
  BY NullAssumption DEF TrailInv, RunsInv, RunInv, OnFile, Evidence, Filed

\* A run is answered: nothing else moves, and what it is told holds.
LEMMA AnsweredInv ==
  ASSUME TrailInv, NEW r \in Runner, NEW a \in {"file", "raced"} \cup Answer,
         run[r].at # "idle", Answered(r, a),
         UNCHANGED <<inputs, cases, ledger, contests, clock, pressed, look>>,
         a \in {"file", "raced"} => Overcharge(run[r].evidence),
         a \in {"raced", "filed", "already_filed"} => HasCase(run[r].evidence.invoice),
         a \in {"filed", "already_filed"} =>
           cases[run[r].evidence.invoice][1].evidence = run[r].evidence
  PROVE  TrailInv'
<1>1. /\ run' \in [Runner -> Execution]
      /\ run'[r].at = a /\ run'[r].evidence = run[r].evidence
      /\ \A q \in Runner : q # r => run'[q] = run[q]
  BY DEF Answered, TrailInv, TrailTypeOK, Execution
<1>2. TrailTypeOK'
  BY <1>1 DEF TrailInv, TrailTypeOK, inputs
<1>3. RowsKept
  BY InputsKept
<1>4. CasesInv' /\ Extended
  BY <1>3, CasesKept DEF TrailInv
<1>5. RunInv(r)'
  <2>1. OnFile(run[r].evidence)'
    BY <1>1, <1>3, RunEvidence DEF RowsKept
  <2>2. QED
    BY <1>1, <2>1 DEF RunInv, HasCase, Overcharge
<1>6. ASSUME NEW q \in Runner, q # r PROVE RunInv(q)'
  BY <1>1, <1>2, <1>3, <1>4, <1>6, RunKept DEF TrailInv, RunsInv, TrailTypeOK
<1>7. PeopleInv'
  BY <1>2, <1>4, PeopleKept DEF TrailInv, TrailTypeOK
<1>8. QED
  BY <1>2, <1>4, <1>5, <1>6, <1>7 DEF TrailInv, RunsInv

\* The answer about a case that exists: it is the run's own evidence, or not.
LEMMA ExistingInv ==
  ASSUME TrailInv, NEW r \in Runner, run[r].at # "idle",
         HasCase(run[r].evidence.invoice), ExistingCase(r),
         UNCHANGED <<inputs, cases, ledger, contests, clock, pressed, look>>
  PROVE  TrailInv'
<1> DEFINE e == run[r].evidence
<1>1. Current(e.invoice).evidence = cases[e.invoice][1].evidence
  BY RunEvidence, StateOfVersion DEF TrailInv
<1>2. CASE BindingMatches(Current(e.invoice), e)
  <2>1. Answered(r, "already_filed") /\ cases[e.invoice][1].evidence = e
    BY <1>1, <1>2 DEF ExistingCase, BindingMatches
  <2>2. QED
    BY <2>1, AnsweredInv DEF Answer
<1>3. CASE ~BindingMatches(Current(e.invoice), e)
  <2>1. Answered(r, "conflict")
    BY <1>3 DEF ExistingCase
  <2>2. QED
    BY <2>1, AnsweredInv DEF Answer
<1>4. QED
  BY <1>2, <1>3

\* file_gate1_case up to its transaction.
LEMMA PreflightInv ==
  ASSUME TrailInv, NEW r \in Runner, Preflight(r)
  PROVE  TrailInv'
<1>1. run[r].at = "stored"
  BY DEF Preflight
<1>2. CASE ~Overcharge(run[r].evidence)
  <2>1. Answered(r, "no_overcharge")
    BY <1>2 DEF Preflight
  <2>2. QED
    BY <1>1, <2>1, AnsweredInv DEF Preflight, Answer
<1>3. CASE Overcharge(run[r].evidence) /\ HasCase(run[r].evidence.invoice)
  BY <1>1, <1>3, ExistingInv DEF Preflight
<1>4. CASE Overcharge(run[r].evidence) /\ ~HasCase(run[r].evidence.invoice)
  <2>1. Answered(r, "file")
    BY <1>4 DEF Preflight
  <2>2. QED
    BY <1>1, <1>4, <2>1, AnsweredInv DEF Preflight, Answer
<1>5. QED
  BY <1>2, <1>3, <1>4

\* The case is read back after the unique violation.
LEMMA ReadBackInv ==
  ASSUME TrailInv, NEW r \in Runner, ReadBack(r)
  PROVE  TrailInv'
  BY ExistingInv DEF ReadBack, TrailInv, RunsInv, RunInv

\* The first version of a case is filed: nobody had filed one.
LEMMA FiledInv ==
  ASSUME TrailTypeOK, CasesInv, NEW i \in Filed, ~HasCase(i),
         NEW e \in Evidence \cup {Null}, Commit(i, Analyzed(e)),
         RowsKept, UNCHANGED ledger,
         e # Null => OnFile(e) /\ Overcharge(e) /\ e.invoice = i
  PROVE  /\ CasesInv' /\ Extended
         /\ cases' \in [Filed -> Seq(Case)] /\ clock' \in Nat
         /\ HasCase(i)' /\ cases'[i][1].evidence = e
<1>1. Analyzed(e) \in Case
  BY DEF Analyzed, Case
<1>2. /\ cases' \in [Filed -> Seq(Case)]
      /\ clock' = clock + 1 /\ clock' \in Nat /\ clock \in Nat
      /\ Extended
      /\ \A j \in Filed : j # i => cases'[j] = cases[j]
      /\ Len(cases'[i]) = Len(cases[i]) + 1
      /\ cases'[i][Len(cases[i]) + 1] = [Analyzed(e) EXCEPT !.at = clock + 1]
  BY <1>1, CommitAppends
<1>3. Len(cases[i]) = 0
  BY Versions
<1>4. /\ Len(cases'[i]) = 1
      /\ cases'[i][1] = [Analyzed(e) EXCEPT !.at = clock + 1]
  BY <1>2, <1>3
<1>5. /\ cases'[i][1].at = clock' /\ cases'[i][1].evidence = e
      /\ AsFiled(i, cases[i][1])'
  <2>1. e # Null => OnFile(e)' /\ Overcharge(e)' /\ e.invoice = i
    BY DEF RowsKept, Overcharge
  <2>2. QED
    BY <1>2, <1>4, <2>1 DEF Analyzed, AsFiled
<1>6. CaseInv(i)'
  <2>1. ledger'[i] = 0
    BY <1>3 DEF CasesInv, CaseInv
  <2>2. QED
    <3>1. \A m \in 1 .. 1 : cases'[i][m].at <= clock'
      BY <1>2, <1>5
    <3>2. QED
      BY ONLY <1>4, <1>5, <2>1, <3>1 DEF CaseInv
<1>7. ASSUME NEW j \in Filed, j # i PROVE CaseInv(j)'
  BY <1>2, <1>7, CaseKept DEF CasesInv
<1>8. HasCase(i)'
  BY <1>4 DEF HasCase
<1>9. QED
  BY <1>2, <1>5, <1>6, <1>7, <1>8 DEF CasesInv

\* ... and the runs it leaves alone, and all people, stay as they should be.
LEMMA FirstVersionInv ==
  ASSUME TrailInv, NEW i \in Filed, ~HasCase(i),
         NEW e \in Evidence \cup {Null}, Commit(i, Analyzed(e)), RowsKept,
         e # Null => OnFile(e) /\ Overcharge(e) /\ e.invoice = i,
         UNCHANGED <<snapshots, clauses, ledger, contests, pressed, look>>,
         invoices' \subseteq Filed, run' \in [Runner -> Execution],
         \A r \in Runner : run'[r] = run[r] \/ RunInv(r)'
  PROVE  TrailInv'
<1>1. /\ CasesInv' /\ Extended
      /\ cases' \in [Filed -> Seq(Case)] /\ clock' \in Nat
  BY FiledInv DEF TrailInv
<1>2. TrailTypeOK'
  BY <1>1 DEF TrailInv, TrailTypeOK
<1>3. RunsInv'
  BY <1>1, RunKept DEF TrailInv, RunsInv
<1>4. PeopleInv'
  BY <1>1, PeopleKept DEF TrailInv
<1>5. QED
  BY <1>1, <1>2, <1>3, <1>4 DEF TrailInv

\* file_case: the first run files, a later one is told of the race.
LEMMA FileInv ==
  ASSUME TrailInv, NEW r \in Runner, File(r)
  PROVE  TrailInv'
<1>0. PICK e \in Evidence : e = run[r].evidence
  BY RunEvidence DEF File
<1> DEFINE i == e.invoice
<1>1. /\ run[r].at = "file" /\ Overcharge(e) /\ OnFile(e)
      /\ i \in Filed /\ e # Null
  BY <1>0, RunEvidence DEF File, TrailInv, RunsInv, RunInv
<1>2. CASE HasCase(i)
  <2>1. Answered(r, "raced") /\ UNCHANGED <<inputs, cases, ledger, contests, clock, pressed, look>>
    BY <1>0, <1>2 DEF File
  <2>2. QED
    BY <1>0, <1>1, <1>2, <2>1, AnsweredInv DEF Answer
<1>3. CASE ~HasCase(i)
  <2>1. /\ Commit(i, Analyzed(e)) /\ Answered(r, "filed")
        /\ UNCHANGED <<inputs, ledger, contests, pressed, look>>
    BY <1>0, <1>3 DEF File
  <2>2. RowsKept
    BY <2>1, InputsKept
  <2>3. HasCase(i)' /\ cases'[i][1].evidence = e
    BY <1>1, <1>3, <2>1, <2>2, FiledInv DEF TrailInv
  <2>4. /\ run' \in [Runner -> Execution]
        /\ run'[r].at = "filed" /\ run'[r].evidence = e
        /\ \A q \in Runner : q # r => run'[q] = run[q]
    BY <1>0, <2>1 DEF Answered, TrailInv, TrailTypeOK, Execution, Answer
  <2>5. RunInv(r)'
    BY <1>1, <2>2, <2>3, <2>4 DEF RunInv, RowsKept, HasCase
  <2>6. invoices' \subseteq Filed
    BY <2>1 DEF inputs, TrailInv, TrailTypeOK
  <2>7. UNCHANGED <<snapshots, clauses, ledger, contests, pressed, look>>
    BY <2>1 DEF inputs
  <2>8. QED
    BY <1>1, <1>3, <2>1, <2>2, <2>4, <2>5, <2>6, <2>7, FirstVersionInv
<1>4. QED
  BY <1>2, <1>3

\* A run that dies leaves nothing, or the case its last commit filed.
LEMMA RunDiesInv ==
  ASSUME TrailInv, NEW r \in Runner, RunDies(r)
  PROVE  TrailInv'
<1> DEFINE e == run[r].evidence
           i == run[r].evidence.invoice
<1>1. RowsKept
  BY InputsKept DEF RunDies
<1>2. /\ run' \in [Runner -> Execution] /\ RunInv(r)'
      /\ \A q \in Runner : q # r => run'[q] = run[q]
  <2>1. /\ run' \in [Runner -> Execution] /\ run'[r].at = "idle"
        /\ \A q \in Runner : q # r => run'[q] = run[q]
    BY DEF RunDies, Resting, Execution, TrailInv, TrailTypeOK
  <2>2. QED
    BY <2>1 DEF RunInv
<1>3. CASE UNCHANGED <<cases, clock>>
  <2>1. CasesInv' /\ Extended
    BY <1>1, <1>3, CasesKept DEF TrailInv, RunDies
  <2>2. TrailTypeOK'
    BY <1>2, <1>3 DEF TrailInv, TrailTypeOK, RunDies, inputs
  <2>3. RunsInv'
    BY <1>1, <1>2, <2>1, <2>2, RunKept DEF TrailInv, RunsInv, TrailTypeOK
  <2>4. PeopleInv'
    BY <2>1, <2>2, PeopleKept DEF TrailInv, RunDies, TrailTypeOK
  <2>5. QED
    BY <2>1, <2>2, <2>3, <2>4 DEF TrailInv
<1>4. CASE run[r].at = "file" /\ ~HasCase(i) /\ Commit(i, Analyzed(e))
  <2>1. Overcharge(e) /\ OnFile(e) /\ e \in Evidence /\ i \in Filed
    BY <1>4, RunEvidence DEF TrailInv, RunsInv, RunInv
  <2>2. invoices' \subseteq Filed /\ UNCHANGED <<snapshots, clauses>>
    BY DEF RunDies, inputs, TrailInv, TrailTypeOK
  <2>3. QED
    BY <1>1, <1>2, <1>4, <2>1, <2>2, FirstVersionInv DEF RunDies
<1>5. QED
  BY <1>3, <1>4 DEF RunDies

\* The case without evidence touches no row that evidence rests on.
LEMMA FileBareInv ==
  ASSUME TrailInv, NEW i \in Filed, FileBare(i)
  PROVE  TrailInv'
<1>1. RowsKept
  BY DEF FileBare, RowsKept, OnFile
<1>2. invoices' \subseteq Filed /\ run' \in [Runner -> Execution]
  BY DEF FileBare, TrailInv, TrailTypeOK
<1>3. QED
  BY <1>1, <1>2, FirstVersionInv DEF FileBare

-----------------------------------------------------------------------------
\* An answer to a press names the approval on file, or is lost.
LEMMA RepliesInv ==
  ASSUME TrailTypeOK, PeopleInv, Extended, cases' \in [Filed -> Seq(Case)],
         NEW a \in Approver, NEW i \in Filed, NEW case, NEW ts \in Nat,
         case.sealed_by \in Approver, Replies(a, i, case, ts), UNCHANGED look,
         Len(cases'[i]) >= 2, cases'[i][2].sealed_by = case.sealed_by,
         cases'[i][2].sealed_txn_ts = ts
  PROVE  /\ PeopleInv'
         /\ pressed' \in [Approver ->
              [invoice : Filed, sealed_by : Approver, sealed_txn_ts : Nat] \cup {Null}]
<1> DEFINE answer == [invoice |-> i, sealed_by |-> case.sealed_by, sealed_txn_ts |-> ts]
<1>1. answer \in [invoice : Filed, sealed_by : Approver, sealed_txn_ts : Nat]
  OBVIOUS
<1>2. /\ pressed \in [Approver ->
           [invoice : Filed, sealed_by : Approver, sealed_txn_ts : Nat] \cup {Null}]
      /\ pressed' = pressed \/ pressed' = [pressed EXCEPT ![a] = answer]
  BY DEF TrailTypeOK, Replies
<1>3. /\ pressed' \in [Approver ->
           [invoice : Filed, sealed_by : Approver, sealed_txn_ts : Nat] \cup {Null}]
      /\ \A b \in Approver : pressed'[b] = pressed[b] \/ pressed'[b] = answer
  <2> HIDE DEF answer
  <2>1. QED
    BY <1>1, <1>2
<1>4. ASSUME NEW b \in Approver, pressed'[b] # Null
      PROVE  LET versions == cases'[pressed'[b].invoice]
             IN  /\ Len(versions) >= 2
                 /\ pressed'[b].sealed_by = versions[2].sealed_by
                 /\ pressed'[b].sealed_txn_ts = versions[2].sealed_txn_ts
  <2>1. CASE pressed'[b] = answer
    BY <2>1
  <2>2. CASE pressed'[b] = pressed[b]
    <3>1. pressed[b].invoice \in Filed
      BY <1>2, <1>4, <2>2
    <3>2. Len(cases[pressed[b].invoice]) \in Nat /\ Len(cases'[pressed[b].invoice]) \in Nat
      BY <3>1, Versions
    <3>3. QED
      BY <1>4, <2>2, <3>1, <3>2 DEF PeopleInv, Extended
  <2>3. QED
    BY <1>3, <2>1, <2>2
<1>5. PeopleInv'
  <2>1. ASSUME look \in [invoice : Filed, case : Case],
               NEW n \in 1 .. Len(cases[look.invoice]), look.case = cases[look.invoice][n]
        PROVE  n \in 1 .. Len(cases'[look.invoice]) /\ look.case = cases'[look.invoice][n]
    <3>1. look.invoice \in Filed
      BY <2>1
    <3>2. Len(cases[look.invoice]) \in Nat /\ Len(cases'[look.invoice]) \in Nat
      BY <3>1, Versions
    <3>3. QED
      BY <2>1, <3>1, <3>2 DEF Extended
  <2>2. QED
    BY <1>4, <2>1 DEF PeopleInv
<1>6. QED
  BY <1>3, <1>5

\* seal_case on an ANALYZED case: the second version is the sealed first one.
LEMMA SealInv ==
  ASSUME TrailInv, NEW a \in Approver, NEW i \in Filed, Seal(a, i)
  PROVE  TrailInv'
<1> USE NullAssumption
<1>1. PICK c \in Case : c = Current(i)
  BY Versions DEF Seal, TrailInv
<1> DEFINE sealed == [c EXCEPT !.state = "FILED", !.sealed = TRUE,
                               !.approval = "APPROVED", !.manifest = ManifestOf(i, c, a),
                               !.hash = ManifestOf(i, c, a), !.sealed_by = a,
                               !.sealed_txn_ts = clock + 1]
<1>2. /\ HasCase(i) /\ c.state = "ANALYZED" /\ c.evidence # Null
      /\ Commit(i, sealed) /\ ledger' = [ledger EXCEPT ![i] = @ + 1]
      /\ Replies(a, i, sealed, clock + 1)
      /\ UNCHANGED <<inputs, contests, run, look>>
  BY <1>1 DEF Seal, FreshSealable
<1>3. Len(cases[i]) = 1 /\ c = cases[i][1] /\ CaseInv(i)
  BY <1>1, <1>2, StateOfVersion DEF TrailInv, CasesInv
<1>4. /\ ManifestOf(i, c, a) \in Manifest /\ clock + 1 \in Nat
      /\ c.evidence \in Evidence
  BY <1>2 DEF ManifestOf, Manifest, Case, TrailInv, TrailTypeOK
<1>5. PICK s \in Case :
        /\ Commit(i, s) /\ Replies(a, i, s, clock + 1)
        /\ s.state = "FILED" /\ s.evidence = c.evidence
        /\ s.sealed /\ s.approval = "APPROVED"
        /\ s.manifest = ManifestOf(i, c, a) /\ s.hash = ManifestOf(i, c, a)
        /\ s.sealed_by = a /\ s.sealed_txn_ts = clock + 1
  <2>1. /\ sealed \in Case
        /\ sealed.state = "FILED" /\ sealed.evidence = c.evidence
        /\ sealed.sealed /\ sealed.approval = "APPROVED"
        /\ sealed.manifest = ManifestOf(i, c, a) /\ sealed.hash = ManifestOf(i, c, a)
        /\ sealed.sealed_by = a /\ sealed.sealed_txn_ts = clock + 1
    BY <1>4 DEF Case
  <2> HIDE DEF sealed
  <2>2. QED
    BY <1>2, <2>1
<1> HIDE DEF sealed
<1>6. /\ cases' \in [Filed -> Seq(Case)]
      /\ clock' = clock + 1 /\ clock' \in Nat /\ clock \in Nat
      /\ Extended
      /\ \A j \in Filed : j # i => cases'[j] = cases[j]
      /\ Len(cases'[i]) = 2
      /\ cases'[i][2] = [s EXCEPT !.at = clock + 1]
  <2>1. /\ cases' \in [Filed -> Seq(Case)]
        /\ clock' = clock + 1 /\ clock' \in Nat /\ clock \in Nat
        /\ Extended
        /\ \A j \in Filed : j # i => cases'[j] = cases[j]
        /\ Len(cases'[i]) = Len(cases[i]) + 1
        /\ cases'[i][Len(cases[i]) + 1] = [s EXCEPT !.at = clock + 1]
    BY <1>5, CommitAppends DEF TrailInv
  <2>2. QED
    BY <1>3, <2>1
<1>7. /\ cases'[i][2].at = clock' /\ cases'[i][2].state = "FILED"
      /\ cases'[i][2].evidence = c.evidence
      /\ AsSealed(i, cases'[i][2], a, clock')
      /\ cases'[i][2].sealed_by = a /\ cases'[i][2].sealed_txn_ts = clock'
  BY <1>5, <1>6 DEF AsSealed, ManifestOf, Case
<1>8. RowsKept
  BY <1>2, InputsKept
<1>9. CasesInv'
  <2>1. cases'[i][1] = c /\ c.at \in Nat /\ c.at <= clock
    <3>1. 1 \in 1 .. Len(cases[i])
      BY <1>3
    <3>2. cases'[i][1] = cases[i][1]
      BY <1>6, <3>1 DEF Extended
    <3>3. cases[i][1].at <= clock
      BY <1>3, <3>1 DEF CaseInv
    <3>4. c.at \in Nat
      BY DEF Case
    <3>5. QED
      BY <1>3, <3>2, <3>3, <3>4
  <2>2. AsFiled(i, cases[i][1])'
    <3>1. AsFiled(i, c)
      BY <1>3 DEF CaseInv
    <3>2. QED
      BY <1>2, <1>4, <1>8, <2>1, <3>1 DEF AsFiled, RowsKept, Overcharge
  <2>3. ledger'[i] = 1 /\ \A j \in Filed : j # i => ledger'[j] = ledger[j]
    BY <1>2, <1>3 DEF CaseInv, TrailInv, TrailTypeOK
  <2>4. \A m \in 1 .. 2 : cases'[i][m].at <= clock'
    <3>1. cases'[i][1].at <= clock' /\ cases'[i][2].at <= clock'
      BY <1>6, <1>7, <2>1
    <3>2. QED
      BY <3>1
  <2>5. cases'[i][1].at < cases'[i][2].at
    BY <1>6, <1>7, <2>1
  <2>6. CaseInv(i)'
    BY ONLY <1>2, <1>6, <1>7, <2>1, <2>2, <2>3, <2>4, <2>5, a \in Approver DEF CaseInv
  <2>7. ASSUME NEW j \in Filed, j # i PROVE CaseInv(j)'
    BY <1>6, <1>8, <2>3, <2>7, CaseKept DEF TrailInv, CasesInv
  <2>8. QED
    BY <2>6, <2>7 DEF CasesInv
<1>10. /\ PeopleInv'
       /\ pressed' \in [Approver ->
            [invoice : Filed, sealed_by : Approver, sealed_txn_ts : Nat] \cup {Null}]
  <2>1. s.sealed_by \in Approver /\ Len(cases'[i]) >= 2 /\ UNCHANGED look
    BY <1>2, <1>5, <1>6
  <2>2. cases'[i][2].sealed_by = s.sealed_by /\ cases'[i][2].sealed_txn_ts = clock + 1
    BY <1>5, <1>6, <1>7
  <2>3. QED
    BY <1>4, <1>5, <1>6, <2>1, <2>2, RepliesInv DEF TrailInv
<1>11. TrailTypeOK'
  <2>1. ledger' \in [Filed -> Nat]
    BY <1>2 DEF TrailInv, TrailTypeOK
  <2>2. QED
    BY <1>2, <1>6, <1>10, <2>1 DEF TrailInv, TrailTypeOK, inputs
<1>12. RunsInv'
  BY <1>2, <1>6, <1>8, RunsKept DEF TrailInv
<1>13. QED
  BY <1>9, <1>10, <1>11, <1>12 DEF TrailInv

\* seal_case on a FILED case writes nothing.
LEMMA PressAgainInv ==
  ASSUME TrailInv, NEW a \in Approver, NEW i \in Filed, PressAgain(a, i)
  PROVE  TrailInv'
<1>1. /\ HasCase(i) /\ Current(i).state = "FILED"
      /\ Replies(a, i, Current(i), Current(i).sealed_txn_ts)
      /\ UNCHANGED <<inputs, cases, ledger, contests, clock, run, look>>
  BY DEF PressAgain, AlreadySealed
<1>2. Len(cases[i]) = 2 /\ Current(i) = cases[i][2] /\ cases[i][2] \in Case /\ CaseInv(i)
  BY <1>1, StateOfVersion, Versions DEF TrailInv, CasesInv
<1>3. PICK c \in Case : c = Current(i)
  BY <1>2
<1>4. c.sealed_by \in Approver /\ c.sealed_txn_ts = c.at /\ c.at \in Nat
  BY <1>2, <1>3 DEF CaseInv, AsSealed, Case
<1>5. RowsKept /\ CasesInv' /\ Extended
  BY <1>1, InputsKept, CasesKept DEF TrailInv
<1>6. cases' \in [Filed -> Seq(Case)]
  BY <1>1 DEF TrailInv, TrailTypeOK
<1>7. /\ PeopleInv'
      /\ pressed' \in [Approver ->
           [invoice : Filed, sealed_by : Approver, sealed_txn_ts : Nat] \cup {Null}]
  <2>1. Replies(a, i, c, c.sealed_txn_ts) /\ c.sealed_txn_ts \in Nat
    BY <1>1, <1>3, <1>4
  <2>2. Len(cases'[i]) >= 2 /\ cases'[i][2] = c
    BY <1>1, <1>2, <1>3
  <2>3. QED
    BY <1>1, <1>4, <1>5, <1>6, <2>1, <2>2, RepliesInv DEF TrailInv
<1>8. TrailTypeOK'
  BY <1>1, <1>7 DEF TrailInv, TrailTypeOK, inputs
<1>9. RunsInv'
  BY <1>1, <1>5, <1>6, RunsKept DEF TrailInv
<1>10. QED
  BY <1>5, <1>7, <1>8, <1>9 DEF TrailInv

\* record_later_contest: a contest adds at most the third version, in which
\* what was sealed stands.
LEMMA RecordContestInv ==
  ASSUME TrailInv, NEW k \in Contest, NEW i \in Filed, NEW claim \in Claim,
         RecordContest(k, i, claim)
  PROVE  TrailInv'
<1>1. PICK c \in Case : c = Current(i)
  BY Versions DEF RecordContest, TrailInv
<1>2. /\ HasCase(i) /\ c.state \in {"FILED", "CONTESTED"}
      /\ contests' = [contests EXCEPT ![k] = [invoice |-> i, claim |-> claim]]
      /\ UNCHANGED <<inputs, ledger, run, pressed, look>>
  BY <1>1 DEF RecordContest
<1>3. RowsKept
  BY <1>2, InputsKept
<1>4. contests' \in [Contest -> [invoice : Filed, claim : Claim] \cup {Null}]
  BY <1>2 DEF TrailInv, TrailTypeOK
<1>5. SUFFICES /\ CasesInv' /\ Extended
               /\ cases' \in [Filed -> Seq(Case)] /\ clock' \in Nat
  <2>1. ASSUME CasesInv', Extended, cases' \in [Filed -> Seq(Case)], clock' \in Nat
        PROVE  TrailTypeOK' /\ RunsInv' /\ PeopleInv'
    <3>1. TrailTypeOK'
      BY <1>2, <1>4, <2>1 DEF TrailInv, TrailTypeOK, inputs
    <3>2. RunsInv'
      BY <1>2, <1>3, <2>1, RunsKept DEF TrailInv
    <3>3. PeopleInv'
      BY <1>2, <2>1, PeopleKept DEF TrailInv
    <3>4. QED
      BY <3>1, <3>2, <3>3
  <2>2. QED
    BY <2>1 DEF TrailInv
<1>6. CASE c.state = "CONTESTED"
  <2>1. UNCHANGED <<cases, clock>>
    BY <1>1, <1>6 DEF RecordContest
  <2>2. QED
    BY <1>2, <1>3, <2>1, CasesKept DEF TrailInv, TrailTypeOK
<1>7. CASE c.state = "FILED"
  <2>1. PICK s \in Case :
          /\ Commit(i, s)
          /\ s.state = "CONTESTED" /\ s.evidence = c.evidence
          /\ s.sealed = c.sealed /\ s.approval = c.approval
          /\ s.manifest = c.manifest /\ s.hash = c.hash
          /\ s.sealed_by = c.sealed_by /\ s.sealed_txn_ts = c.sealed_txn_ts
    <3> DEFINE contested == [c EXCEPT !.state = "CONTESTED"]
    <3>1. Commit(i, contested)
      BY <1>1, <1>7 DEF RecordContest
    <3>2. /\ contested \in Case
          /\ contested.state = "CONTESTED" /\ contested.evidence = c.evidence
          /\ contested.sealed = c.sealed /\ contested.approval = c.approval
          /\ contested.manifest = c.manifest /\ contested.hash = c.hash
          /\ contested.sealed_by = c.sealed_by
          /\ contested.sealed_txn_ts = c.sealed_txn_ts
      BY DEF Case
    <3> HIDE DEF contested
    <3>3. QED
      BY <3>1, <3>2
  <2>2. Len(cases[i]) = 2 /\ c = cases[i][2] /\ CaseInv(i)
    BY <1>1, <1>2, <1>7, StateOfVersion DEF TrailInv, CasesInv
  <2>3. /\ cases' \in [Filed -> Seq(Case)]
        /\ clock' = clock + 1 /\ clock' \in Nat /\ clock \in Nat
        /\ Extended
        /\ \A j \in Filed : j # i => cases'[j] = cases[j]
        /\ Len(cases'[i]) = 3
        /\ cases'[i][3] = [s EXCEPT !.at = clock + 1]
    <3>1. /\ cases' \in [Filed -> Seq(Case)]
          /\ clock' = clock + 1 /\ clock' \in Nat /\ clock \in Nat
          /\ Extended
          /\ \A j \in Filed : j # i => cases'[j] = cases[j]
          /\ Len(cases'[i]) = Len(cases[i]) + 1
          /\ cases'[i][Len(cases[i]) + 1] = [s EXCEPT !.at = clock + 1]
      BY <2>1, CommitAppends DEF TrailInv
    <3>2. QED
      BY <2>2, <3>1
  <2>4. /\ cases'[i][1] = cases[i][1] /\ cases'[i][2] = c
        /\ cases[i][1] \in Case /\ cases[i][1].at <= clock /\ c.at <= clock
    <3>1. 1 \in 1 .. Len(cases[i]) /\ 2 \in 1 .. Len(cases[i])
      BY <2>2
    <3>2. cases'[i][1] = cases[i][1] /\ cases'[i][2] = cases[i][2]
      BY <2>3, <3>1 DEF Extended
    <3>3. cases[i][1].at <= clock /\ cases[i][2].at <= clock
      BY <2>2, <3>1 DEF CaseInv
    <3>4. cases[i][1] \in Case
      BY <3>1, Versions DEF TrailInv
    <3>5. QED
      BY <2>2, <3>2, <3>3, <3>4
  <2>5. /\ c.at \in Nat /\ cases[i][1].at \in Nat
    BY <2>4 DEF Case
  <2>6. /\ AsFiled(i, cases[i][1]) /\ c.evidence # Null
        /\ c.evidence = cases[i][1].evidence /\ c.state = "FILED"
        /\ c.sealed_by \in Approver
        /\ AsSealed(i, c, c.sealed_by, c.at)
        /\ cases[i][1].at < c.at /\ ledger[i] = 1
    BY <1>7, <2>2 DEF CaseInv
  <2>7. AsFiled(i, cases[i][1])'
    BY <1>3, <2>4, <2>6 DEF AsFiled, RowsKept, OnFile, Overcharge
  <2>8. /\ cases'[i][3].at = clock' /\ cases'[i][3].state = "CONTESTED"
        /\ cases'[i][3].evidence = c.evidence
        /\ AsSealed(i, cases'[i][3], c.sealed_by, c.at)
    <3> DEFINE last == cases'[i][3]
    <3>1. /\ last.at = clock' /\ last.state = s.state /\ last.evidence = s.evidence
          /\ last.sealed = s.sealed /\ last.approval = s.approval
          /\ last.manifest = s.manifest /\ last.hash = s.hash
          /\ last.sealed_by = s.sealed_by /\ last.sealed_txn_ts = s.sealed_txn_ts
      BY <2>3 DEF Case
    <3> HIDE DEF last
    <3>2. ManifestOf(i, last, c.sealed_by) = ManifestOf(i, c, c.sealed_by)
      BY <2>1, <3>1 DEF ManifestOf
    <3>3. AsSealed(i, last, c.sealed_by, c.at)
      BY <2>1, <2>6, <3>1, <3>2 DEF AsSealed
    <3>4. QED
      BY <2>1, <3>1, <3>3 DEF last
  <2>9. \A m \in 1 .. 3 : cases'[i][m].at <= clock'
    <3>1. /\ cases'[i][1].at <= clock' /\ cases'[i][2].at <= clock'
          /\ cases'[i][3].at <= clock'
      BY <2>3, <2>4, <2>5, <2>8
    <3>2. QED
      BY <3>1
  <2>10. cases'[i][2].at < cases'[i][3].at
    BY <2>3, <2>4, <2>5, <2>8
  <2>11. CaseInv(i)'
    <3>1. ledger'[i] = 1
      BY <1>2, <2>6
    <3>2. QED
      BY ONLY <2>3, <2>4, <2>6, <2>7, <2>8, <2>9, <2>10, <3>1 DEF CaseInv, AsSealed, ManifestOf
  <2>12. ASSUME NEW j \in Filed, j # i PROVE CaseInv(j)'
    BY <1>2, <1>3, <2>3, <2>12, CaseKept DEF TrailInv, CasesInv
  <2>13. QED
    BY <2>3, <2>11, <2>12 DEF CasesInv
<1>8. QED
  BY <1>2, <1>6, <1>7

\* verify_case_receipt holds on to the version it read.
LEMMA LoadCaseInv ==
  ASSUME TrailInv, NEW i \in Filed, LoadCase(i)
  PROVE  TrailInv'
<1>1. /\ HasCase(i) /\ look' = [invoice |-> i, case |-> Current(i)]
      /\ UNCHANGED <<inputs, cases, ledger, contests, clock, run, pressed>>
  BY DEF LoadCase
<1>2. /\ Len(cases[i]) \in 1 .. Len(cases[i])
      /\ Current(i) = cases[i][Len(cases[i])] /\ Current(i) \in Case
  BY <1>1, Versions DEF TrailInv
<1>3. RowsKept /\ CasesInv' /\ Extended
  BY <1>1, InputsKept, CasesKept DEF TrailInv
<1>4. look' \in [invoice : Filed, case : Case] /\ look'.invoice = i /\ look'.case = Current(i)
  BY <1>1, <1>2
<1>5. TrailTypeOK'
  BY <1>1, <1>4 DEF TrailInv, TrailTypeOK, inputs
<1>6. RunsInv'
  BY <1>1, <1>3, <1>5, RunsKept DEF TrailInv, TrailTypeOK
<1>7. PeopleInv'
  <2>1. \E n \in 1 .. Len(cases'[look'.invoice]) : look'.case = cases'[look'.invoice][n]
    BY <1>1, <1>2, <1>4
  <2>2. QED
    BY <1>1, <1>4, <2>1 DEF TrailInv, PeopleInv
<1>8. QED
  BY <1>3, <1>5, <1>6, <1>7 DEF TrailInv

-----------------------------------------------------------------------------
\* A version that carries the seal passes the checks on its own row and on all
\* rows that its manifest names.
LEMMA SealedVerifies ==
  ASSUME TrailInv, NEW i \in Filed, NEW n \in 2 .. Len(cases[i])
  PROVE  /\ cases[i][n].state \in SealedCaseStates
         /\ Verified(i, cases[i][n], Current(i), TRUE)
         /\ Intact(cases[i][n])
         /\ cases[i][n].evidence = cases[i][2].evidence
         /\ AsSealed(i, cases[i][n], cases[i][2].sealed_by, cases[i][2].at)
         /\ cases[i][2].sealed_by \in Approver
<1> USE NullAssumption
<1> DEFINE c == cases[i][n]
           e == cases[i][2].evidence
<1>1. CaseInv(i) /\ Len(cases[i]) \in 2 .. 3 /\ n \in {2, 3}
  BY DEF TrailInv, CasesInv, CaseInv
<1>2. /\ AsSealed(i, c, cases[i][2].sealed_by, cases[i][2].at)
      /\ c.evidence = e /\ c.state \in {"FILED", "CONTESTED"}
      /\ cases[i][2].sealed_by \in Approver
  BY <1>1 DEF CaseInv
<1>3. /\ AsSealed(i, Current(i), cases[i][2].sealed_by, cases[i][2].at)
      /\ Current(i).evidence = e
  <2>1. Current(i) = cases[i][Len(cases[i])]
    BY Versions DEF TrailInv
  <2>2. QED
    BY <1>1, <2>1 DEF CaseInv
<1>4. OnFile(e) /\ Overcharge(e) /\ e.invoice = i
  BY <1>1 DEF CaseInv, AsFiled
<1>5. cases[i][2] \in Case /\ cases[i][2].at \in Nat /\ c \in Case
  <2>1. 2 \in 1 .. Len(cases[i]) /\ n \in 1 .. Len(cases[i])
    BY <1>1
  <2>2. QED
    BY <2>1, Versions DEF TrailInv, Case
<1>6. /\ c.manifest.invoice = i /\ c.manifest.evidence = e
      /\ c.manifest.approved_by = cases[i][2].sealed_by
  BY <1>2 DEF AsSealed, ManifestOf
<1>7. c.manifest # Null
  <2>1. ManifestOf(i, c, cases[i][2].sealed_by) \in Manifest
    BY <1>2, <1>4 DEF ManifestOf, Manifest, OnFile
  <2>2. QED
    BY <1>2, <2>1 DEF AsSealed
<1>8. CaseChecks(i, c)
  BY <1>2, <1>5, <1>6, <1>7 DEF CaseChecks, AsSealed, SealedCaseStates
<1>9. EvidenceChecks(c.manifest, Current(i)) /\ FindingChecks(Current(i))
  BY <1>3, <1>4, <1>6 DEF EvidenceChecks, FindingChecks, AsSealed, OnFile
<1>10. InvoiceChecks(c.manifest)
  BY <1>4, <1>6 DEF InvoiceChecks, OnFile
<1>11. Intact(c)
  BY <1>2, <1>4, <1>6, <1>7 DEF Intact, AsSealed, OnFile
<1>12. QED
  BY <1>2, <1>8, <1>9, <1>10, <1>11 DEF Verified, SealedCaseStates

\* verify_case_receipt passes a sealed version, whatever was committed since it
\* was read, and no other.
LEMMA ReportInv ==
  ASSUME TrailInv, NEW fetched \in BOOLEAN, Report(fetched)
  PROVE  TrailInv'
<1>1. PICK i \in Filed, c \in Case : i = look.invoice /\ c = look.case
  BY DEF Report, TrailInv, PeopleInv
<1>2. /\ look # Null
      /\ look' = [sealed |-> c.state # "ANALYZED", fetched |-> fetched,
                  passed |-> Verified(i, c, Current(i), fetched)]
      /\ UNCHANGED <<inputs, cases, ledger, contests, clock, run, pressed>>
  BY <1>1 DEF Report
<1>3. PICK n \in 1 .. Len(cases[i]) : c = cases[i][n]
  BY <1>1, <1>2 DEF Report, TrailInv, PeopleInv
<1>4. RowsKept /\ CasesInv' /\ Extended
  BY <1>2, InputsKept, CasesKept DEF TrailInv
<1>5. Verified(i, c, Current(i), fetched) <=> c.state # "ANALYZED" /\ fetched
  <2>1. CaseInv(i) /\ Len(cases[i]) \in 0 .. 3
    BY DEF TrailInv, CasesInv, CaseInv
  <2>2. CASE n = 1
    BY <1>3, <2>1, <2>2 DEF CaseInv, AsFiled, Verified, CaseChecks
  <2>3. CASE n # 1
    <3>1. n \in 2 .. Len(cases[i])
      BY <2>1, <2>3
    <3>2. Verified(i, c, Current(i), TRUE) /\ c.state # "ANALYZED"
      BY <1>3, <3>1, SealedVerifies DEF SealedCaseStates
    <3>3. QED
      BY <3>2 DEF Verified
  <2>4. QED
    BY <2>2, <2>3
<1>6. /\ look' \in [sealed : BOOLEAN, passed : BOOLEAN, fetched : BOOLEAN]
      /\ look'.passed <=> look'.sealed /\ look'.fetched
  <2>1. Verified(i, c, Current(i), fetched) \in BOOLEAN
    BY <1>5 DEF Verified, CaseChecks
  <2>2. QED
    BY <1>2, <1>5, <2>1
<1>7. TrailTypeOK'
  BY <1>2, <1>6 DEF TrailInv, TrailTypeOK, inputs
<1>8. RunsInv'
  BY <1>2, <1>4, <1>7, RunsKept DEF TrailInv, TrailTypeOK
<1>9. PeopleInv'
  BY <1>2, <1>6 DEF TrailInv, PeopleInv
<1>10. QED
  BY <1>4, <1>7, <1>8, <1>9 DEF TrailInv

-----------------------------------------------------------------------------
\* The strengthened invariant is inductive.
LEMMA TrailNextInv == TrailInv /\ [TrailNext]_trailVars => TrailInv'
<1> SUFFICES ASSUME TrailInv, [TrailNext]_trailVars PROVE TrailInv'
  OBVIOUS
<1>1. ASSUME NEW r \in Runner, NEW e \in Evidence, Persist(r, e) PROVE TrailInv'
  BY <1>1, PersistInv
<1>2. ASSUME NEW r \in Runner, Preflight(r) \/ File(r) \/ ReadBack(r) \/ RunDies(r)
      PROVE  TrailInv'
  BY <1>2, PreflightInv, FileInv, ReadBackInv, RunDiesInv
<1>3. ASSUME NEW i \in Filed, FileBare(i) \/ LoadCase(i) PROVE TrailInv'
  BY <1>3, FileBareInv, LoadCaseInv
<1>4. ASSUME NEW i \in Filed, NEW a \in Approver, Seal(a, i) \/ PressAgain(a, i)
      PROVE  TrailInv'
  BY <1>4, SealInv, PressAgainInv
<1>5. ASSUME NEW i \in Filed, NEW k \in Contest, NEW claim \in Claim,
             RecordContest(k, i, claim)
      PROVE  TrailInv'
  BY <1>5, RecordContestInv
<1>6. ASSUME NEW fetched \in BOOLEAN, Report(fetched) PROVE TrailInv'
  BY <1>6, ReportInv
<1>7. CASE UNCHANGED trailVars
  <2>1. TrailTypeOK'
    BY <1>7 DEF trailVars, inputs, TrailInv, TrailTypeOK
  <2>2. RowsKept
    BY <1>7, InputsKept DEF trailVars
  <2>3. CasesInv' /\ Extended
    BY <1>7, <2>2, CasesKept DEF trailVars, TrailInv
  <2>4. RunsInv' /\ PeopleInv'
    BY <1>7, <2>1, <2>2, <2>3, RunsKept, PeopleKept DEF trailVars, TrailInv, TrailTypeOK
  <2>5. QED
    BY <2>1, <2>3, <2>4 DEF TrailInv
<1>8. QED
  BY <1>1, <1>2, <1>3, <1>4, <1>5, <1>6, <1>7 DEF TrailNext

\* It holds in every reachable state.
LEMMA TrailInductive == TrailSpec => []TrailInv
  BY TrailInitInv, TrailNextInv, PTL DEF TrailSpec

\* The tables, the runs, the answers and the reports are well typed.
THEOREM TrailTypeCorrect == TrailSpec => []TrailTypeOK
<1>1. TrailInv => TrailTypeOK
  BY DEF TrailInv
<1>2. QED
  BY <1>1, TrailInductive, PTL

\* However runs race, die and are repeated, one that is told its receipt is
\* filed finds its own evidence in the case (file_gate1_case).
THEOREM ReceiptIsOwn == TrailSpec => []AnswersAreBound
<1>1. TrailInv => AnswersAreBound
  <2>1. SUFFICES ASSUME TrailInv, NEW r \in Runner, run[r].at \in {"filed", "already_filed"}
                 PROVE  /\ HasCase(run[r].evidence.invoice)
                        /\ Current(run[r].evidence.invoice).evidence = run[r].evidence
    BY DEF AnswersAreBound
  <2>2. run[r].evidence.invoice \in Filed /\ RunInv(r)
    BY <2>1, RunEvidence DEF TrailInv, RunsInv
  <2>3. QED
    BY <2>1, <2>2, StateOfVersion DEF RunInv, TrailInv
<1>2. QED
  BY <1>1, TrailInductive, PTL

\* A sealed case has a second version.
LEMMA SealedVersion ==
  ASSUME TrailInv, NEW i \in Filed, Sealed(i)
  PROVE  /\ Current(i) = cases[i][Len(cases[i])] /\ CaseInv(i)
         /\ Len(cases[i]) \in {2, 3}
         /\ Len(cases[i]) \in 2 .. Len(cases[i]) /\ 2 \in 2 .. Len(cases[i])
<1>1. Len(cases[i]) \in 1 .. 3 /\ Len(cases[i]) # 1 /\ Current(i) = cases[i][Len(cases[i])]
  BY StateOfVersion DEF Sealed, TrailInv
<1>2. CaseInv(i)
  BY DEF TrailInv, CasesInv
<1>3. cases[i] \in Seq(Case)
  BY Versions DEF TrailInv
<1>4. Len(cases[i]) \in {2, 3} /\ Len(cases[i]) \in 2 .. Len(cases[i]) /\ 2 \in 2 .. Len(cases[i])
  BY <1>1, <1>3
<1>5. QED
  BY <1>1, <1>2, <1>4

\* The case as of the commit of its seal is its second version.
LEMMA AsOfSeal ==
  ASSUME TrailInv, NEW i \in Filed, Len(cases[i]) >= 2
  PROVE  AsOf(i, cases[i][2].at) = cases[i][2]
<1> DEFINE S == {n \in DOMAIN cases[i] : cases[i][n].at <= cases[i][2].at}
<1>1. CaseInv(i) /\ Len(cases[i]) \in 2 .. 3 /\ DOMAIN cases[i] = 1 .. Len(cases[i])
  BY Versions DEF TrailInv, CasesInv, CaseInv
<1>2. \A n \in 1 .. Len(cases[i]) : cases[i][n].at \in Nat
  BY Versions DEF TrailInv, Case
<1>3. 2 \in S /\ \A n \in S : n \in Nat /\ n <= 2
  <2>1. Len(cases[i]) = 3 => ~(cases[i][3].at <= cases[i][2].at)
    <3>1. Len(cases[i]) = 3 => cases[i][2].at < cases[i][3].at
      BY <1>1 DEF CaseInv
    <3>2. QED
      BY <1>2, <3>1
  <2>2. cases[i][2].at \in Nat
    BY <1>1, <1>2
  <2>3. QED
    BY <1>1, <2>1, <2>2
<1>4. Max(S) = 2
  <2> HIDE DEF S
  <2>1. QED
    BY <1>3 DEF Max
<1>5. QED
  BY <1>4 DEF AsOf

\* Seals verify and replay, reports are right and answers name the approval.
THEOREM SealsStand == TrailSpec => []SealsVerify
<1>1. TrailInv => SealsVerify
  <2> SUFFICES ASSUME TrailInv PROVE SealsVerify
    OBVIOUS
  <2> USE NullAssumption
  <2>1. ASSUME NEW i \in Filed, Sealed(i)
        PROVE  Verified(i, Current(i), Current(i), TRUE) /\ ReplayMatches(i)
    <3>1. /\ Current(i) = cases[i][Len(cases[i])] /\ CaseInv(i)
          /\ Len(cases[i]) \in 2 .. Len(cases[i]) /\ 2 \in 2 .. Len(cases[i])
      BY <2>1, SealedVersion
    <3>2. /\ Verified(i, Current(i), Current(i), TRUE)
          /\ Intact(Current(i)) /\ Intact(cases[i][2])
          /\ Current(i).evidence = cases[i][2].evidence
          /\ AsSealed(i, Current(i), cases[i][2].sealed_by, cases[i][2].at)
          /\ AsSealed(i, cases[i][2], cases[i][2].sealed_by, cases[i][2].at)
      BY <3>1, SealedVerifies
    <3>3. /\ Current(i).sealed_txn_ts = cases[i][2].at
          /\ cases[i][2].sealed_txn_ts = cases[i][2].at
          /\ cases[i][2].hash = Current(i).manifest
      BY <3>2 DEF AsSealed, ManifestOf
    <3>4. cases[i][2].state = "FILED"
      BY <3>1 DEF CaseInv
    <3>5. AsOf(i, Current(i).sealed_txn_ts) = cases[i][2]
      BY <3>1, <3>3, AsOfSeal
    <3>6. QED
      BY <3>2, <3>3, <3>4, <3>5 DEF ReplayMatches
  <2>2. look # Null /\ "passed" \in DOMAIN look =>
          (look.passed <=> look.sealed /\ look.fetched)
    BY DEF TrailInv, PeopleInv
  <2>3. ASSUME NEW a \in Approver, pressed[a] # Null
        PROVE  LET case == Current(pressed[a].invoice)
               IN  /\ pressed[a].sealed_by = case.sealed_by
                   /\ pressed[a].sealed_txn_ts = case.sealed_txn_ts
    <3>1. PICK i \in Filed : i = pressed[a].invoice
      BY <2>3 DEF TrailInv, TrailTypeOK
    <3>2. /\ Len(cases[i]) >= 2 /\ pressed[a].sealed_by = cases[i][2].sealed_by
          /\ pressed[a].sealed_txn_ts = cases[i][2].sealed_txn_ts
      BY <2>3, <3>1 DEF TrailInv, PeopleInv
    <3>3. /\ Current(i) = cases[i][Len(cases[i])]
          /\ Len(cases[i]) \in 2 .. Len(cases[i]) /\ 2 \in 2 .. Len(cases[i])
      BY <3>2, Versions DEF TrailInv
    <3>4. /\ AsSealed(i, Current(i), cases[i][2].sealed_by, cases[i][2].at)
          /\ AsSealed(i, cases[i][2], cases[i][2].sealed_by, cases[i][2].at)
      BY <3>3, SealedVerifies
    <3>5. QED
      BY <3>1, <3>2, <3>4 DEF AsSealed
  <2>4. QED
    BY <2>1, <2>2, <2>3 DEF SealsVerify
<1>2. QED
  BY <1>1, TrailInductive, PTL

\* Every step extends the cases.
LEMMA NextExtends ==
  ASSUME TrailInv, TrailNext
  PROVE  Extended
<1> USE DEF TrailInv
<1>1. CASE UNCHANGED cases
  BY <1>1, SameCases
<1>2. ASSUME NEW i \in Filed, NEW c \in Case, Commit(i, c) PROVE Extended
  BY <1>2, CommitAppends
<1>3. ASSUME NEW e \in Evidence \cup {Null} PROVE Analyzed(e) \in Case
  BY DEF Analyzed, Case
<1>4. ASSUME NEW r \in Runner, File(r) \/ RunDies(r) PROVE Extended
  <2>1. CASE run[r].at = "file" /\ Commit(run[r].evidence.invoice, Analyzed(run[r].evidence))
    <3>1. PICK e \in Evidence : e = run[r].evidence /\ e.invoice \in Filed
      BY <2>1, RunEvidence
    <3>2. QED
      BY <1>2, <1>3, <2>1, <3>1
  <2>2. QED
    BY <1>1, <1>4, <2>1 DEF File, RunDies
<1>5. ASSUME NEW i \in Filed, FileBare(i) PROVE Extended
  BY <1>2, <1>3, <1>5 DEF FileBare
<1>6. ASSUME NEW i \in Filed, NEW a \in Approver, Seal(a, i) PROVE Extended
  <2>1. PICK c \in Case : c = Current(i)
    BY <1>6, Versions DEF Seal
  <2> DEFINE sealed == [c EXCEPT !.state = "FILED", !.sealed = TRUE,
                                 !.approval = "APPROVED", !.manifest = ManifestOf(i, c, a),
                                 !.hash = ManifestOf(i, c, a), !.sealed_by = a,
                                 !.sealed_txn_ts = clock + 1]
  <2>2. c.evidence # Null /\ Commit(i, sealed)
    BY <1>6, <2>1 DEF Seal
  <2>3. ManifestOf(i, c, a) \in Manifest /\ clock + 1 \in Nat
    BY <2>2 DEF ManifestOf, Manifest, Case, TrailTypeOK
  <2>4. sealed \in Case
    BY <2>3 DEF Case
  <2> HIDE DEF sealed
  <2>5. QED
    BY <1>2, <2>2, <2>4
<1>7. ASSUME NEW i \in Filed, NEW k \in Contest, NEW claim \in Claim,
             RecordContest(k, i, claim)
      PROVE  Extended
  <2>1. PICK c \in Case : c = Current(i)
    BY <1>7, Versions DEF RecordContest
  <2>2. [c EXCEPT !.state = "CONTESTED"] \in Case
    BY DEF Case
  <2>3. UNCHANGED cases \/ Commit(i, [c EXCEPT !.state = "CONTESTED"])
    BY <1>7, <2>1 DEF RecordContest
  <2>4. QED
    BY <1>1, <1>2, <2>2, <2>3
<1>8. ASSUME NEW r \in Runner, NEW e \in Evidence, Persist(r, e) PROVE Extended
  BY <1>1, <1>8 DEF Persist
<1>9. ASSUME NEW r \in Runner, Preflight(r) \/ ReadBack(r) PROVE Extended
  BY <1>1, <1>9 DEF Preflight, ReadBack
<1>10. ASSUME NEW i \in Filed, NEW a \in Approver, PressAgain(a, i) PROVE Extended
  BY <1>1, <1>10 DEF PressAgain
<1>11. ASSUME NEW i \in Filed, LoadCase(i) PROVE Extended
  BY <1>1, <1>11 DEF LoadCase
<1>12. ASSUME NEW fetched \in BOOLEAN, Report(fetched) PROVE Extended
  BY <1>1, <1>12 DEF Report
<1>13. QED
  BY <1>4, <1>5, <1>6, <1>7, <1>8, <1>9, <1>10, <1>11, <1>12 DEF TrailNext

\* One approval per case: however often it is pressed and whatever is contested,
\* no step changes what was sealed, and one event is in the ledger.
THEOREM SealIsFinal == TrailSpec => SealedOnce
<1>1. TrailInv /\ TrailInv' /\ [TrailNext]_trailVars =>
        [\A i \in Filed :
           Sealed(i) =>
             /\ ledger[i] = 1 /\ ledger'[i] = 1
             /\ \A field \in {"evidence", "sealed", "approval", "manifest", "hash",
                              "sealed_by", "sealed_txn_ts"} :
                  Current(i)'[field] = Current(i)[field]]_trailVars
  <2>1. SUFFICES ASSUME TrailInv, TrailInv', TrailNext, NEW i \in Filed, Sealed(i)
                 PROVE  /\ ledger[i] = 1 /\ ledger'[i] = 1
                        /\ \A field \in {"evidence", "sealed", "approval", "manifest",
                                         "hash", "sealed_by", "sealed_txn_ts"} :
                             Current(i)'[field] = Current(i)[field]
    OBVIOUS
  <2>2. /\ Current(i) = cases[i][Len(cases[i])] /\ CaseInv(i)
        /\ Len(cases[i]) \in {2, 3}
    BY <2>1, SealedVersion
  <2>3. CaseInv(i)' /\ Extended
    BY <2>1, NextExtends DEF TrailInv, CasesInv
  <2>4. Len(cases'[i]) = 2 \/ Len(cases'[i]) = 3
    <3>1. Len(cases'[i]) \in 0 .. 3 /\ Len(cases[i]) <= Len(cases'[i])
      BY <2>3 DEF CaseInv, Extended
    <3>2. cases[i] \in Seq(Case) /\ cases'[i] \in Seq(Case)
      BY <2>1 DEF TrailInv, TrailTypeOK
    <3>3. QED
      BY <2>2, <3>1, <3>2
  <2>5. Current(i)' = cases'[i][Len(cases'[i])]
    BY DEF Current, Last
  <2>6. cases'[i][2] = cases[i][2]
    BY <2>2, <2>3 DEF Extended
  <2> DEFINE a == cases[i][2].sealed_by
             ts == cases[i][2].at
             e == cases[i][2].evidence
             next == cases'[i][Len(cases'[i])]
  <2>7. AsSealed(i, Current(i), a, ts) /\ Current(i).evidence = e
    BY <2>2 DEF CaseInv
  <2>8. next.sealed /\ next.approval = "APPROVED"
        /\ next.manifest = ManifestOf(i, next, a) /\ next.hash = next.manifest
        /\ next.sealed_by = a /\ next.sealed_txn_ts = ts /\ next.evidence = e
    <3>1. CASE Len(cases'[i]) = 2
      BY <2>3, <2>6, <3>1 DEF CaseInv, AsSealed, ManifestOf
    <3>2. CASE Len(cases'[i]) = 3
      BY <2>3, <2>6, <3>2 DEF CaseInv, AsSealed, ManifestOf
    <3>3. QED
      BY <2>4, <3>1, <3>2
  <2>9. ledger[i] = 1 /\ ledger'[i] = 1
    <3>1. ledger[i] = IF Len(cases[i]) \in {2, 3} THEN 1 ELSE 0
      BY <2>2 DEF CaseInv
    <3>2. ledger'[i] = IF Len(cases'[i]) \in {2, 3} THEN 1 ELSE 0
      BY <2>3 DEF CaseInv
    <3>3. Len(cases[i]) \in {2, 3}
      BY <2>2
    <3>4. QED
      BY <2>4, <3>1, <3>2, <3>3
  <2>10. \A field \in {"evidence", "sealed", "approval", "manifest", "hash",
                       "sealed_by", "sealed_txn_ts"} :
            next[field] = Current(i)[field]
    <3> HIDE DEF next
    <3>1. /\ next.sealed = Current(i).sealed /\ next.approval = Current(i).approval
          /\ next.evidence = Current(i).evidence
          /\ next.sealed_by = Current(i).sealed_by
          /\ next.sealed_txn_ts = Current(i).sealed_txn_ts
      BY <2>7, <2>8 DEF AsSealed
    <3>2. /\ next.manifest = Current(i).manifest /\ next.hash = Current(i).hash
      BY <2>7, <2>8 DEF AsSealed, ManifestOf
    <3>3. QED
      BY <3>1, <3>2
  <2>11. QED
    BY <2>5, <2>9, <2>10
<1>2. QED
  BY <1>1, TrailInductive, PTL DEF TrailSpec, SealedOnce

-----------------------------------------------------------------------------
(***************************************************************************)
(* Ingestion.                                                               *)
(***************************************************************************)

USE NoneAssumption DEF NoVersion

Active(r) == ~At(r, "idle")

\* What a request in flight may rely on, between any two of its steps: its key
\* is reserved for its file; as long as it has no source nothing was stored
\* under the key; the invoice it links to holds the same file.
RequestInv ==
  \A r \in Request : Active(r) =>
    LET k == request[r].key
    IN  /\ k \in Key
        /\ request[r].body \in Body
        /\ ingestion[k].body = request[r].body
        /\ ingestion[k].state # "NONE"
        /\ request[r].source = NoVersion =>
             /\ ingestion[k].state = "RESERVED"
             /\ stored[k] = 0
             /\ request[r].at \in {"lookup", "link", "preserve"}
        /\ request[r].source # NoVersion =>
             /\ request[r].source \in 1 .. stored[k]
             /\ request[r].at # "preserve"
        /\ At(r, "record") => ingestion[k].state = "RESERVED"
        /\ At(r, "link") =>
             /\ request[r].duplicate \in Key
             /\ invoice[request[r].duplicate].sha256 = request[r].body

\* A RESERVED key is served by the one request that reserved it, or by none.
SoleInv ==
  \A q, r \in Request :
    /\ Active(q) /\ Active(r)
    /\ request[q].key = request[r].key
    /\ ingestion[request[r].key].state = "RESERVED"
    => q = r

\* The rows of a key agree with what is stored under it.
KeyInv ==
  \A k \in Key :
    /\ ingestion[k].state = "NONE" =>
         ingestion[k].body = None /\ ingestion[k].source = NoVersion /\ stored[k] = 0
    /\ ingestion[k].state # "NONE" => ingestion[k].body \in Body
    /\ ingestion[k].state = "SOURCE_STORED_DB_PENDING" =>
         ingestion[k].source \in 1 .. stored[k]

\* invoices_sha256_idx.
OneInvoicePerFile ==
  \A j, k \in Invoices : invoice[j].sha256 = invoice[k].sha256 => j = k

IInv ==
  /\ TypeOK /\ RequestInv /\ SoleInv /\ KeyInv /\ OneInvoicePerFile
  /\ AnswerIsOwnFile /\ SourceIsPreserved /\ PreservedOnce

-----------------------------------------------------------------------------
\* Nothing is reserved or stored in the beginning.
LEMMA InitIInv == Init => IInv
  BY DEF Init, IInv, TypeOK, RequestInv, SoleInv, KeyInv, OneInvoicePerFile,
         AnswerIsOwnFile, SourceIsPreserved, PreservedOnce, Invoices, Active, At,
         Idle, NoRow, NoInvoice, IngestionRow, InvoiceRow, RequestState

\* Of a state with the same tables in which one request has ended, or not
\* moved at all, nothing that was said becomes false.
LEMMA TablesKept ==
  ASSUME IInv, UNCHANGED <<ingestion, invoice, stored>>
  PROVE  /\ KeyInv' /\ OneInvoicePerFile' /\ AnswerIsOwnFile'
         /\ SourceIsPreserved' /\ PreservedOnce'
  BY DEF IInv, KeyInv, OneInvoicePerFile, AnswerIsOwnFile, SourceIsPreserved,
         PreservedOnce, Invoices

\* reserve_ingestion.
LEMMA ReserveIInv ==
  ASSUME IInv, NEW r \in Request, NEW k \in Key, NEW b \in Body, Reserve(r, k, b)
  PROVE  IInv'
<1> USE DEF IInv, TypeOK, IngestionRow, InvoiceRow, RequestState, Idle
<1>1. TypeOK'
  <2>1. ingestion' \in [Key -> IngestionRow]
    <3>1. CASE UNCHANGED ingestion
      BY <3>1
    <3>2. CASE ingestion' = [ingestion EXCEPT ![k].body = b, ![k].state = "RESERVED"]
      <4>1. ingestion[k] \in IngestionRow
        OBVIOUS
      <4>2. [ingestion[k] EXCEPT !.body = b, !.state = "RESERVED"] \in IngestionRow
        BY ONLY <4>1, b \in Body DEF IngestionRow
      <4>3. ingestion' = [ingestion EXCEPT ![k] =
                            [ingestion[k] EXCEPT !.body = b, !.state = "RESERVED"]]
        BY <3>2
      <4>4. QED
        BY <4>2, <4>3
    <3>3. QED
      BY <3>1, <3>2 DEF Reserve
  <2>2. request' \in [Request -> RequestState]
    BY DEF Reserve
  <2>3. QED
    BY <2>1, <2>2 DEF Reserve
<1>2. \A q \in Request : q # r => request'[q] = request[q]
  BY DEF Reserve
<1>3. /\ request'[r].at = "lookup" /\ request'[r].key = k /\ request'[r].body = b
      /\ request'[r].source = ingestion[k].source
  BY DEF Reserve
<1>4. /\ \A j \in Key : j # k => ingestion'[j] = ingestion[j]
      /\ ingestion'[k].source = ingestion[k].source
      /\ ingestion'[k].answer = ingestion[k].answer
      /\ ingestion'[k].body = b
      /\ \/ ingestion[k].state = "NONE" /\ ingestion'[k].state = "RESERVED"
         \/ ingestion[k].state = "SOURCE_STORED_DB_PENDING" /\ ingestion'[k] = ingestion[k]
  BY DEF Reserve
<1>5. invoice' = invoice /\ stored' = stored
  BY DEF Reserve
<1>6. RequestInv'
  <2>1. SUFFICES ASSUME NEW q \in Request, q # r, Active(q)
                 PROVE  ingestion'[request[q].key] = ingestion[request[q].key]
    <3>1. ASSUME ingestion[k].state = "SOURCE_STORED_DB_PENDING"
          PROVE  ingestion[k].source \in 1 .. stored[k] /\ ingestion[k].source # NoVersion
      BY <3>1 DEF KeyInv
    <3>2. ASSUME ingestion[k].state = "NONE", ingestion[k].source # NoVersion PROVE FALSE
      BY <3>2 DEF KeyInv
    <3>3. ingestion[k].state = "NONE" => stored[k] = 0
      BY DEF KeyInv
    <3>4. QED
      BY <1>2, <1>3, <1>4, <1>5, <3>1, <3>2, <3>3 DEF RequestInv, Active, At
  <2>2. request[q].key \in Key /\ ingestion[request[q].key].state # "NONE"
    BY <2>1 DEF RequestInv
  <2>3. QED
    BY <1>4, <2>2
<1>7. SoleInv'
  BY <1>2, <1>3, <1>4 DEF SoleInv, RequestInv, Active, At
<1>8. KeyInv'
  BY <1>4, <1>5 DEF KeyInv
<1>9. OneInvoicePerFile' /\ PreservedOnce' /\ SourceIsPreserved'
  BY <1>4, <1>5 DEF OneInvoicePerFile, PreservedOnce, SourceIsPreserved, Invoices
<1>10. AnswerIsOwnFile'
  BY <1>4, <1>5 DEF AnswerIsOwnFile, Invoices
<1>11. QED
  BY <1>1, <1>6, <1>7, <1>8, <1>9, <1>10

\* find_invoice_by_sha.
LEMMA LookupIInv ==
  ASSUME IInv, NEW r \in Request, Lookup(r)
  PROVE  IInv'
<1> USE DEF IInv, TypeOK, IngestionRow, InvoiceRow, RequestState
<1>1. TypeOK'
  <2>1. CASE \E j \in Key :
               request' = [request EXCEPT ![r].at = "link", ![r].duplicate = j]
    <3>1. PICK j \in Key :
            request' = [request EXCEPT ![r] =
                          [request[r] EXCEPT !.at = "link", !.duplicate = j]]
      BY <2>1
    <3>2. request[r] \in RequestState
      OBVIOUS
    <3>3. [request[r] EXCEPT !.at = "link", !.duplicate = j] \in RequestState
      BY ONLY <3>2, j \in Key DEF RequestState
    <3>4. request' \in [Request -> RequestState]
      BY <3>1, <3>3
    <3>5. QED
      BY <3>4 DEF Lookup
  <2>2. CASE \E place \in {"preserve", "finalize"} :
               request' = [request EXCEPT ![r].at = place]
    <3>1. request' \in [Request -> RequestState]
      BY <2>2
    <3>2. QED
      BY <3>1 DEF Lookup
  <2>3. QED
    BY <2>1, <2>2 DEF Lookup
<1>2. \A q \in Request : q # r => request'[q] = request[q]
  BY DEF Lookup
<1>3. /\ request[r].at = "lookup" /\ request'[r].at \in {"link", "preserve", "finalize"}
      /\ request'[r].key = request[r].key /\ request'[r].body = request[r].body
      /\ request'[r].source = request[r].source
      /\ request'[r].at = "link" =>
           /\ request'[r].duplicate \in Key
           /\ invoice[request'[r].duplicate].sha256 = request[r].body
      /\ request'[r].at = "preserve" => request[r].source = NoVersion
      /\ request'[r].at = "finalize" => request[r].source # NoVersion
  BY DEF Lookup, At
<1>4. UNCHANGED <<ingestion, invoice, stored>>
  BY DEF Lookup
<1>5. RequestInv'
  BY <1>2, <1>3, <1>4 DEF RequestInv, Active, At
<1>6. SoleInv'
  BY <1>2, <1>3, <1>4 DEF SoleInv, Active, At
<1>7. QED
  BY <1>1, <1>4, <1>5, <1>6, TablesKept

\* A request that ends without writing anything.
LEMMA AbandonIInv ==
  ASSUME IInv, NEW r \in Request, Abandon(r)
  PROVE  IInv'
<1> USE DEF IInv, TypeOK, IngestionRow, InvoiceRow, RequestState, Idle
<1>1. TypeOK'
  BY DEF Abandon, Ends
<1>2. /\ \A q \in Request : q # r => request'[q] = request[q]
      /\ request'[r].at = "idle"
      /\ UNCHANGED <<ingestion, invoice, stored>>
  BY DEF Abandon, Ends
<1>3. RequestInv'
  BY <1>2 DEF RequestInv, Active, At
<1>4. SoleInv'
  BY <1>2 DEF SoleInv, Active, At
<1>5. QED
  BY <1>1, <1>2, <1>3, <1>4, TablesKept

\* complete_duplicate_ingestion: the key is answered with the invoice found.
LEMMA LinkIInv ==
  ASSUME IInv, NEW r \in Request, Link(r)
  PROVE  IInv'
<1> DEFINE k == request[r].key
           d == request[r].duplicate
<1> USE DEF IInv, TypeOK, IngestionRow, InvoiceRow, RequestState, Idle
<1>1. /\ k \in Key /\ d \in Key
      /\ ingestion[k].body = request[r].body /\ request[r].body \in Body
      /\ invoice[d].sha256 = request[r].body
      /\ ingestion[k].state # "NONE"
  BY DEF Link, RequestInv, Active, At
<1>2. TypeOK'
  <2>1. ingestion' \in [Key -> IngestionRow]
    BY <1>1 DEF Link
  <2>2. request' \in [Request -> RequestState]
    BY DEF Link, Ends
  <2>3. QED
    BY <2>1, <2>2 DEF Link
<1>3. /\ \A q \in Request : q # r => request'[q] = request[q]
      /\ request'[r].at = "idle"
      /\ UNCHANGED <<invoice, stored>>
  BY DEF Link, Ends
<1>4. /\ \A j \in Key : j # k => ingestion'[j] = ingestion[j]
      /\ ingestion'[k].body = ingestion[k].body
      /\ ingestion'[k].source = ingestion[k].source
      /\ ingestion'[k].state = "COMPLETED"
      /\ ingestion[k].state = "COMPLETED" => ingestion'[k] = ingestion[k]
      /\ ingestion[k].state # "COMPLETED" => ingestion'[k].answer = d
  BY <1>1 DEF Link
<1>5. \A q \in Request : Active(q) /\ q # r /\ request[q].key = k
                           => ingestion[k].state # "RESERVED"
  BY DEF SoleInv, Active, At, Link
<1>6. RequestInv'
  BY <1>3, <1>4, <1>5 DEF RequestInv, Active, At
<1>7. SoleInv'
  BY <1>3, <1>4 DEF SoleInv, RequestInv, Active, At
<1>8. KeyInv'
  BY <1>1, <1>3, <1>4 DEF KeyInv
<1>9. OneInvoicePerFile' /\ PreservedOnce' /\ SourceIsPreserved'
  BY <1>1, <1>3, <1>4 DEF OneInvoicePerFile, PreservedOnce, SourceIsPreserved, Invoices
<1>10. AnswerIsOwnFile'
  BY <1>1, <1>3, <1>4 DEF AnswerIsOwnFile, Invoices
<1>11. QED
  BY <1>2, <1>6, <1>7, <1>8, <1>9, <1>10

\* The S3 write: the first and only version under the source of the key.
LEMMA PreserveIInv ==
  ASSUME IInv, NEW r \in Request, Preserve(r)
  PROVE  IInv'
<1> DEFINE k == request[r].key
<1> USE DEF IInv, TypeOK, IngestionRow, InvoiceRow, RequestState
<1>1. /\ k \in Key /\ request[r].source = NoVersion
      /\ stored[k] = 0 /\ ingestion[k].state = "RESERVED"
      /\ ingestion[k].body = request[r].body /\ request[r].body \in Body
  BY DEF Preserve, RequestInv, Active, At
<1>2. stored' \in [Key -> Nat] /\ request' \in [Request -> RequestState]
  BY <1>1 DEF Preserve
<1>3. TypeOK'
  BY <1>2 DEF Preserve
<1>4. /\ \A q \in Request : q # r => request'[q] = request[q]
      /\ request'[r].at = "record" /\ request'[r].source = 1
      /\ request'[r].key = k /\ request'[r].body = request[r].body
      /\ \A j \in Key : j # k => stored'[j] = stored[j]
      /\ stored'[k] = 1
      /\ UNCHANGED <<ingestion, invoice>>
  BY <1>1 DEF Preserve
<1>5. \A q \in Request : Active(q) /\ request[q].key = k => q = r
  BY <1>1 DEF SoleInv, Active, At, Preserve
<1>6. RequestInv'
  <2>1. SUFFICES ASSUME NEW q \in Request, Active(q)', q # r
                 PROVE  request[q].key # k
    BY <1>1, <1>4 DEF RequestInv, Active, At
  <2>2. QED
    BY <1>4, <1>5, <2>1 DEF Active, At
<1>7. SoleInv'
  BY <1>1, <1>4, <1>5 DEF SoleInv, Active, At
<1>8. KeyInv'
  BY <1>1, <1>4 DEF KeyInv
<1>9. OneInvoicePerFile' /\ AnswerIsOwnFile'
  BY <1>4 DEF OneInvoicePerFile, AnswerIsOwnFile, Invoices
<1>10. Invoices' = Invoices /\ k \notin Invoices
  BY <1>1, <1>4 DEF AnswerIsOwnFile, Invoices
<1>11. SourceIsPreserved'
  BY <1>4, <1>10 DEF SourceIsPreserved, Invoices
<1>12. PreservedOnce'
  BY <1>4 DEF PreservedOnce
<1>13. QED
  BY <1>3, <1>6, <1>7, <1>8, <1>9, <1>11, <1>12

\* record_source_stored.
LEMMA RecordStoredIInv ==
  ASSUME IInv, NEW r \in Request, RecordStored(r)
  PROVE  IInv'
<1> DEFINE k == request[r].key
<1> USE DEF IInv, TypeOK, IngestionRow, InvoiceRow, RequestState
<1>1. /\ k \in Key /\ ingestion[k].state = "RESERVED"
      /\ ingestion[k].body = request[r].body /\ request[r].body \in Body
      /\ request[r].source # NoVersion /\ request[r].source \in 1 .. stored[k]
  BY DEF RecordStored, RequestInv, Active, At
<1>2. ingestion' = [ingestion EXCEPT ![k] =
        [ingestion[k] EXCEPT !.state = "SOURCE_STORED_DB_PENDING",
                             !.source = request[r].source]]
  BY <1>1 DEF RecordStored
<1>3. TypeOK'
  <2>1. ingestion[k] \in IngestionRow /\ request[r].source \in Nat
    BY <1>1
  <2>2. [ingestion[k] EXCEPT !.state = "SOURCE_STORED_DB_PENDING",
                             !.source = request[r].source] \in IngestionRow
    BY ONLY <2>1 DEF IngestionRow
  <2>3. request' = [request EXCEPT ![r].at = "finalize"]
    BY DEF RecordStored
  <2>4. request' \in [Request -> RequestState]
    BY <2>3
  <2>5. QED
    BY <1>2, <2>2, <2>4 DEF RecordStored
<1>4. /\ \A q \in Request : q # r => request'[q] = request[q]
      /\ request'[r].at = "finalize" /\ request'[r].source = request[r].source
      /\ request'[r].key = k /\ request'[r].body = request[r].body
      /\ \A j \in Key : j # k => ingestion'[j] = ingestion[j]
      /\ ingestion'[k].state = "SOURCE_STORED_DB_PENDING"
      /\ ingestion'[k].source = request[r].source
      /\ ingestion'[k].body = ingestion[k].body
      /\ UNCHANGED <<stored, invoice>>
  BY <1>1, <1>2 DEF RecordStored
<1>5. \A q \in Request : Active(q) /\ request[q].key = k => q = r
  BY <1>1 DEF SoleInv, Active, At, RecordStored
<1>6. RequestInv'
  BY <1>1, <1>4, <1>5 DEF RequestInv, Active, At
<1>7. SoleInv'
  BY <1>1, <1>4, <1>5 DEF SoleInv, RequestInv, Active, At
<1>8. KeyInv'
  BY <1>1, <1>4 DEF KeyInv
<1>9. OneInvoicePerFile' /\ PreservedOnce'
  BY <1>4 DEF OneInvoicePerFile, PreservedOnce, Invoices
<1>10. Invoices' = Invoices /\ k \notin Invoices
  BY <1>1, <1>4 DEF AnswerIsOwnFile, Invoices
<1>11. SourceIsPreserved'
  BY <1>4, <1>10 DEF SourceIsPreserved, Invoices
<1>12. AnswerIsOwnFile'
  BY <1>4, <1>10 DEF AnswerIsOwnFile, Invoices
<1>13. QED
  BY <1>3, <1>6, <1>7, <1>8, <1>9, <1>11, <1>12

\* finalize_received_invoice: the unique index keeps the file's invoice single,
\* however long ago the lookup was.
LEMMA FinalizeIInv ==
  ASSUME IInv, NEW r \in Request, Finalize(r)
  PROVE  IInv'
<1> DEFINE k == request[r].key
<1> USE DEF IInv, TypeOK, IngestionRow, InvoiceRow, RequestState, Idle
<1>1. /\ k \in Key /\ ingestion[k].state = "SOURCE_STORED_DB_PENDING"
      /\ ingestion[k].body = request[r].body /\ request[r].body \in Body
      /\ ingestion[k].source = request[r].source
      /\ request[r].source \in 1 .. stored[k]
  BY DEF Finalize, RequestInv, KeyInv, Active, At
<1>2. ingestion' = [ingestion EXCEPT ![k] =
        [ingestion[k] EXCEPT !.state = "COMPLETED", !.answer = k]]
  BY <1>1 DEF Finalize
<1>3. TypeOK'
  <2>1. ingestion[k] \in IngestionRow
    BY <1>1
  <2>2. [ingestion[k] EXCEPT !.state = "COMPLETED", !.answer = k] \in IngestionRow
    BY ONLY <2>1, <1>1 DEF IngestionRow
  <2>3. request' \in [Request -> RequestState] /\ invoice' \in [Key -> InvoiceRow]
    BY <1>1 DEF Finalize, Ends
  <2>4. QED
    BY <1>2, <2>2, <2>3 DEF Finalize
<1>4. /\ \A q \in Request : q # r => request'[q] = request[q]
      /\ request'[r].at = "idle"
      /\ \A j \in Key : j # k => ingestion'[j] = ingestion[j] /\ invoice'[j] = invoice[j]
      /\ ingestion'[k].state = "COMPLETED" /\ ingestion'[k].answer = k
      /\ ingestion'[k].source = ingestion[k].source
      /\ ingestion'[k].body = ingestion[k].body
      /\ invoice'[k].sha256 = request[r].body
      /\ invoice'[k].source = request[r].source
      /\ stored' = stored
  BY <1>1, <1>2 DEF Finalize, Ends
<1>5. /\ invoice[k].sha256 = None
      /\ \A j \in Key : invoice[j].sha256 # request[r].body
  BY <1>1 DEF Finalize, AnswerIsOwnFile, Invoices
<1>6. RequestInv'
  <2>1. \A q \in Request : At(q, "link") => request[q].duplicate # k
    BY <1>1, <1>5 DEF RequestInv, Active, At
  <2>2. QED
    BY <1>1, <1>4, <2>1 DEF RequestInv, Active, At
<1>7. SoleInv'
  BY <1>1, <1>4 DEF SoleInv, RequestInv, Active, At
<1>8. KeyInv'
  BY <1>1, <1>4 DEF KeyInv
<1>9. OneInvoicePerFile' /\ PreservedOnce'
  BY <1>1, <1>4, <1>5 DEF OneInvoicePerFile, PreservedOnce, Invoices
<1>10. SourceIsPreserved'
  BY <1>1, <1>4 DEF SourceIsPreserved, Invoices
<1>11. Invoices' = Invoices \cup {k} /\ request[r].body # None
  BY <1>1, <1>4 DEF Invoices
<1>12. AnswerIsOwnFile'
  <2>1. SUFFICES ASSUME NEW j \in Key, j # k
                 PROVE  /\ ingestion'[j].state = "COMPLETED" =>
                             /\ ingestion'[j].answer \in Invoices'
                             /\ invoice'[ingestion'[j].answer].sha256 = ingestion'[j].body
                        /\ j \in Invoices' =>
                             ingestion'[j].state = "COMPLETED" /\ ingestion'[j].answer = j
    BY <1>1, <1>4, <1>11 DEF AnswerIsOwnFile
  <2>2. ingestion'[j] = ingestion[j] /\ (j \in Invoices' <=> j \in Invoices)
    BY <1>4, <1>11, <2>1
  <2>3. k \notin Invoices
    BY <1>5 DEF Invoices
  <2>4. \A i \in Invoices : i \in Key /\ invoice'[i] = invoice[i]
    BY <1>4, <2>3 DEF Invoices
  <2>5. QED
    BY <1>11, <2>2, <2>4 DEF AnswerIsOwnFile
<1>13. QED
  BY <1>3, <1>6, <1>7, <1>8, <1>9, <1>10, <1>12

-----------------------------------------------------------------------------
\* The strengthened invariant is inductive.
LEMMA NextIInv == IInv /\ [Next]_vars => IInv'
<1> SUFFICES ASSUME IInv, [Next]_vars PROVE IInv'
  OBVIOUS
<1>1. ASSUME NEW r \in Request, NEW k \in Key, NEW b \in Body, Reserve(r, k, b)
      PROVE  IInv'
  BY <1>1, ReserveIInv
<1>2. ASSUME NEW r \in Request, Lookup(r) \/ Link(r) \/ Preserve(r)
      PROVE  IInv'
  BY <1>2, LookupIInv, LinkIInv, PreserveIInv
<1>3. ASSUME NEW r \in Request, RecordStored(r) \/ Finalize(r) \/ Abandon(r)
      PROVE  IInv'
  BY <1>3, RecordStoredIInv, FinalizeIInv, AbandonIInv
<1>4. CASE UNCHANGED vars
  BY <1>4 DEF vars, IInv, TypeOK, RequestInv, SoleInv, KeyInv, OneInvoicePerFile,
              AnswerIsOwnFile, SourceIsPreserved, PreservedOnce, Invoices, Active, At
<1>5. QED
  BY <1>1, <1>2, <1>3, <1>4 DEF Next

\* It holds in every reachable state; the theorems below are its parts.
LEMMA Inductive == Spec => []IInv
  BY InitIInv, NextIInv, PTL DEF Spec

\* The ingestion tables and the requests are well typed.
THEOREM TypeCorrect == Spec => []TypeOK
<1>1. IInv => TypeOK
  BY DEF IInv
<1>2. QED
  BY <1>1, Inductive, PTL

\* Two keys under which one file was sent are answered with one invoice:
\* find_invoice_by_sha may miss, the index of the insert does not.
THEOREM FileHasOneAnswer == Spec => []SameFileSameInvoice
<1>1. IInv => SameFileSameInvoice
  BY DEF IInv, SameFileSameInvoice, AnswerIsOwnFile, OneInvoicePerFile
<1>2. QED
  BY <1>1, Inductive, PTL

\* The answer of receive_invoice is about the file of its own request.
THEOREM AnswerMatchesFile == Spec => []AnswerIsOwnFile
<1>1. IInv => AnswerIsOwnFile
  BY DEF IInv
<1>2. QED
  BY <1>1, Inductive, PTL

\* Every invoice has a source in S3, wherever requests died, and no request
\* writes it twice.
THEOREM SourceStoredOnce == Spec => [](SourceIsPreserved /\ PreservedOnce)
<1>1. IInv => SourceIsPreserved /\ PreservedOnce
  BY DEF IInv
<1>2. QED
  BY <1>1, Inductive, PTL

\* A key that was answered keeps its answer, an invoice its row.
THEOREM AnswersKept == Spec => AnswersFinal
<1>1. IInv /\ [Next]_vars =>
        [\A k \in Key :
           /\ ingestion[k].state = "COMPLETED" => ingestion'[k] = ingestion[k]
           /\ k \in Invoices => invoice'[k] = invoice[k]]_vars
  <2>1. SUFFICES ASSUME IInv, Next, NEW k \in Key
                 PROVE  /\ ingestion[k].state = "COMPLETED" => ingestion'[k] = ingestion[k]
                        /\ k \in Invoices => invoice'[k] = invoice[k]
    OBVIOUS
  <2> USE DEF IInv, TypeOK, IngestionRow, InvoiceRow, RequestState
  <2>2. CASE \E r \in Request, j \in Key, b \in Body : Reserve(r, j, b)
    BY <2>1, <2>2 DEF Reserve
  <2>3. CASE \E r \in Request : Lookup(r) \/ Preserve(r) \/ Abandon(r)
    BY <2>1, <2>3 DEF Lookup, Preserve, Abandon
  <2>4. ASSUME NEW r \in Request, Link(r) \/ RecordStored(r)
        PROVE  /\ ingestion[k].state = "COMPLETED" => ingestion'[k] = ingestion[k]
               /\ k \in Invoices => invoice'[k] = invoice[k]
    BY <2>1, <2>4 DEF Link, RecordStored
  <2>5. ASSUME NEW r \in Request, Finalize(r)
        PROVE  /\ ingestion[k].state = "COMPLETED" => ingestion'[k] = ingestion[k]
               /\ k \in Invoices => invoice'[k] = invoice[k]
    BY <2>1, <2>5 DEF Finalize, AnswerIsOwnFile
  <2>6. QED
    BY <2>1, <2>2, <2>3, <2>4, <2>5 DEF Next
<1>2. QED
  BY <1>1, Inductive, PTL DEF Spec, AnswersFinal

=============================================================================
