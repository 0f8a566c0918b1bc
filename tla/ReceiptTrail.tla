---------------------------- MODULE ReceiptTrail ----------------------------
(***************************************************************************)
(* The Gate 1 evidence receipt: a run reads a tariff clause out of retained *)
(* bytes, stores it beside the invoice and files a case (receipt_pipeline,  *)
(* clerk_pipeline); a person approves and seals it (seal); the carrier may  *)
(* contest it later (contest_workflow); and anybody may verify the sealed   *)
(* receipt or replay the case as of its seal (receipt_verifier,             *)
(* temporal_replay).                                                       *)
(*                                                                         *)
(* Every transaction is one action.  Runs may die between two of them, the  *)
(* answer of a committed one may be lost, and the verifier reads the case   *)
(* and the rows its manifest names at different times.  A hash stands for   *)
(* what was hashed, and a case keeps the versions its commits left, which   *)
(* is what AS OF SYSTEM TIME reads.                                         *)
(***************************************************************************)
EXTENDS Naturals, Sequences, SequencesExt

CONSTANTS
  Invoice,      \* retained invoice files
  Bare,         \* invoices of cases filed without evidence
  Capture,      \* retained tariff files, exact S3 versions
  CapturedAt,   \* when each was observed
  ReceivedAt,   \* when each invoice was received
  Text,         \* clause texts
  Printed,      \* the clause texts each capture contains
  Reading,      \* what the model may read out of a clause: a rate and its dates
  Stated,       \* the readings each clause text bears out
  Rate,         \* the rate of a reading
  Covered,      \* the invoices whose date a reading is effective on
  Claimed,      \* the rate each invoice claims
  Runner,       \* executions of the receipt run
  Approver,     \* people who press Approve
  Contest,      \* contest ids
  Claim,        \* what a contest says
  Null

ASSUME BareAssumption == Invoice \cap Bare = {}
ASSUME TimesAssumption ==
  CapturedAt \in [Capture -> Nat] /\ ReceivedAt \in [Invoice -> Nat]
ASSUME RatesAssumption == Rate \in [Reading -> Nat] /\ Claimed \in [Invoice -> Nat]
ASSUME ReadingsAssumption ==
  /\ Printed \in [Capture -> SUBSET Text]
  /\ Stated \in [Text -> SUBSET Reading]
  /\ Covered \in [Reading -> SUBSET Invoice]

VARIABLES
  snapshots,  \* tariff_snapshots: by captured_at, the capture stored
  clauses,    \* tariff_clauses: by snapshot and text, the reading stored
  invoices,   \* the invoices stored
  cases,      \* cases, with finding and evidence: the versions committed, oldest first
  ledger,     \* ledger_events of kind FILED per case
  contests,   \* contests by id
  clock,      \* the database's logical clock, advanced by the commits on cases
  run,        \* where each run is, what it works on and what it was answered
  pressed,    \* what each approver was last answered
  look        \* the verification under way, then its report

inputs == <<snapshots, clauses, invoices>>
trailVars == <<inputs, cases, ledger, contests, clock, run, pressed, look>>

Filed == Invoice \cup Bare
Moment == {CapturedAt[c] : c \in Capture}

\* build_receipt_evidence: what one receipt binds together.
Evidence == [invoice : Invoice, capture : Capture, text : Text, reading : Reading]

Manifest == [invoice : Filed, evidence : Evidence, approved_by : Approver]

\* A SQL NULL is no value of a column.
ASSUME NullAssumption ==
  /\ Null \notin Capture \cup Reading \cup Approver \cup Nat
  /\ Null \notin Evidence \cup Manifest

Case ==
  [at : Nat,                               \* the commit this version is of
   state : {"ANALYZED", "FILED", "CONTESTED"},
   evidence : Evidence \cup {Null},        \* case_evidence.content
   sealed : BOOLEAN,                       \* case_evidence.sealed
   approval : {"NOT_PRESSED", "APPROVED"}, \* findings.human_approval_state
   manifest : Manifest \cup {Null},
   hash : Manifest \cup {Null},
   sealed_by : Approver \cup {Null},
   sealed_txn_ts : Nat \cup {Null}]

Answer == {"filed", "already_filed", "conflict", "no_overcharge"}

Execution ==
  [at : {"idle", "stored", "file", "raced"} \cup Answer,
   evidence : Evidence \cup {Null}]

\* The type invariant of the tables, the runs and the people.
TrailTypeOK ==
  /\ snapshots \in [Moment -> Capture \cup {Null}]
  /\ clauses \in [Capture \X Text -> Reading \cup {Null}]
  /\ invoices \subseteq Filed
  /\ cases \in [Filed -> Seq(Case)]
  /\ ledger \in [Filed -> Nat]
  /\ contests \in [Contest -> [invoice : Filed, claim : Claim] \cup {Null}]
  /\ clock \in Nat
  /\ run \in [Runner -> Execution]
  /\ pressed \in [Approver ->
       [invoice : Filed, sealed_by : Approver, sealed_txn_ts : Nat] \cup {Null}]
  /\ look \in [invoice : Filed, case : Case] \cup [sealed : BOOLEAN, passed : BOOLEAN, fetched : BOOLEAN]
                \cup {Null}

Resting == [at |-> "idle", evidence |-> Null]

TrailInit ==
  /\ snapshots = [m \in Moment |-> Null]
  /\ clauses = [k \in Capture \X Text |-> Null]
  /\ invoices = {}
  /\ cases = [i \in Filed |-> <<>>]
  /\ ledger = [i \in Filed |-> 0]
  /\ contests = [k \in Contest |-> Null]
  /\ clock = 0
  /\ run = [r \in Runner |-> Resting]
  /\ pressed = [a \in Approver |-> Null]
  /\ look = Null

HasCase(i) == cases[i] # <<>>
Current(i) == Last(cases[i])

\* A transaction commits a version of the case of i.
Commit(i, case) ==
  /\ cases' = [cases EXCEPT ![i] = Append(@, [case EXCEPT !.at = clock + 1])]
  /\ clock' = clock + 1

Answered(r, answer) == run' = [run EXCEPT ![r].at = answer]

-----------------------------------------------------------------------------
\* The receipt run.

\* verify_tariff_extraction: the clause is in the bytes, the reading in the clause.
Eligible(e) == e.text \in Printed[e.capture] /\ e.reading \in Stated[e.text]

\* validate_receipt_chronology.
InOrder(e) ==
  /\ e.invoice \in Covered[e.reading]
  /\ CapturedAt[e.capture] <= ReceivedAt[e.invoice]

\* A stored row is used again only when it is the row that would have been stored.
Reusable(row, value) == row \in {Null, value}

\* persist_verified_inputs: one transaction, of which a conflict leaves nothing.
Persist(r, e) ==
  /\ run[r].at \in {"idle"} \cup Answer
  /\ Eligible(e) /\ InOrder(e)
  /\ Reusable(snapshots[CapturedAt[e.capture]], e.capture)
  /\ Reusable(clauses[<<e.capture, e.text>>], e.reading)
  /\ snapshots' = [snapshots EXCEPT ![CapturedAt[e.capture]] = e.capture]
  /\ clauses' = [clauses EXCEPT ![<<e.capture, e.text>>] = e.reading]
  /\ invoices' = invoices \cup {e.invoice}
  /\ run' = [run EXCEPT ![r] = [at |-> "stored", evidence |-> e]]
  /\ UNCHANGED <<cases, ledger, contests, clock, pressed, look>>

Overcharge(e) == Claimed[e.invoice] > Rate[e.reading]

\* The clause text alone decides whether a case is the same receipt.
SameClauseText(case, e) == case.evidence # Null /\ case.evidence.text = e.text

\* A case that exists is the answer only if it binds the same evidence.
BindingMatches(case, e) == case.evidence = e

ExistingCase(r) ==
  LET e == run[r].evidence
  IN Answered(r, IF BindingMatches(Current(e.invoice), e)
                   THEN "already_filed" ELSE "conflict")

\* file_gate1_case up to its transaction: the calculation and the preflight read.
Preflight(r) ==
  LET e == run[r].evidence
  IN /\ run[r].at = "stored"
     /\ IF ~Overcharge(e) THEN Answered(r, "no_overcharge")
        ELSE IF HasCase(e.invoice) THEN ExistingCase(r)
        ELSE Answered(r, "file")
     /\ UNCHANGED <<inputs, cases, ledger, contests, clock, pressed, look>>

Analyzed(e) ==
  [at |-> 0, state |-> "ANALYZED", evidence |-> e, sealed |-> FALSE,
   approval |-> "NOT_PRESSED", manifest |-> Null, hash |-> Null,
   sealed_by |-> Null, sealed_txn_ts |-> Null]

\* file_case commits finding, case and evidence, unless the unique index on the
\* invoice shows that another run was first.
File(r) ==
  LET e == run[r].evidence
  IN /\ run[r].at = "file"
     /\ IF HasCase(e.invoice)
          THEN /\ Answered(r, "raced")
               /\ UNCHANGED <<cases, clock>>
          ELSE /\ Commit(e.invoice, Analyzed(e))
               /\ Answered(r, "filed")
     /\ UNCHANGED <<inputs, ledger, contests, pressed, look>>

\* After the unique violation the case is read back.
ReadBack(r) ==
  /\ run[r].at = "raced"
  /\ ExistingCase(r)
  /\ UNCHANGED <<inputs, cases, ledger, contests, clock, pressed, look>>

\* The run dies, or its connection does as file_case commits.
RunDies(r) ==
  /\ run[r].at \in {"stored", "file", "raced"}
  /\ run' = [run EXCEPT ![r] = Resting]
  /\ \/ UNCHANGED <<cases, clock>>
     \/ /\ run[r].at = "file"
        /\ ~HasCase(run[r].evidence.invoice)
        /\ Commit(run[r].evidence.invoice, Analyzed(run[r].evidence))
  /\ UNCHANGED <<inputs, ledger, contests, pressed, look>>

\* The preparation of the negative fixture files a case that has no evidence.
FileBare(i) ==
  /\ i \in Bare
  /\ ~HasCase(i)
  /\ invoices' = invoices \cup {i}
  /\ Commit(i, Analyzed(Null))
  /\ UNCHANGED <<snapshots, clauses, ledger, contests, run, pressed, look>>

-----------------------------------------------------------------------------
\* The seal and the contest.

\* A second press seals anew.
SealableAgain == {"ANALYZED", "FILED"}

FreshSealable == {"ANALYZED"}
AlreadySealed == {"FILED"}

ManifestOf(i, case, approver) ==
  [invoice |-> i, evidence |-> case.evidence, approved_by |-> approver]

\* The answer reaches the approver, or is lost on its way.
Replies(a, i, case, at) ==
  pressed' \in {pressed,
                [pressed EXCEPT ![a] = [invoice |-> i, sealed_by |-> case.sealed_by,
                                        sealed_txn_ts |-> at]]}

\* seal_case on an ANALYZED case.
Seal(a, i) ==
  LET case == Current(i)
      manifest == ManifestOf(i, case, a)
      sealed == [case EXCEPT !.state = "FILED", !.sealed = TRUE,
                             !.approval = "APPROVED", !.manifest = manifest,
                             !.hash = manifest, !.sealed_by = a,
                             !.sealed_txn_ts = clock + 1]
  IN /\ HasCase(i)
     /\ case.state \in FreshSealable
     /\ case.evidence # Null
     /\ Commit(i, sealed)
     /\ ledger' = [ledger EXCEPT ![i] = @ + 1]
     /\ Replies(a, i, sealed, clock + 1)
     /\ UNCHANGED <<inputs, contests, run, look>>

\* _validate_existing_seal: what a second press compares before it answers.
SealIntact(i, case) ==
  /\ case.evidence # Null /\ case.sealed
  /\ case.sealed_by # Null /\ case.sealed_txn_ts # Null
  /\ case.approval = "APPROVED"
  /\ case.manifest = ManifestOf(i, case, case.sealed_by)
  /\ case.hash = case.manifest

\* seal_case on a FILED case: the first approval is the answer.
PressAgain(a, i) ==
  LET case == Current(i)
  IN /\ HasCase(i)
     /\ case.state \in AlreadySealed
     /\ SealIntact(i, case)
     /\ Replies(a, i, case, case.sealed_txn_ts)
     /\ UNCHANGED <<inputs, cases, ledger, contests, clock, run, look>>

\* record_later_contest: sealed cases only, and an id means one contest for good.
RecordContest(k, i, claim) ==
  LET case == Current(i)
      row == [invoice |-> i, claim |-> claim]
  IN /\ HasCase(i)
     /\ case.state \in {"FILED", "CONTESTED"}
     /\ Reusable(contests[k], row)
     /\ contests' = [contests EXCEPT ![k] = row]
     /\ IF case.state = "FILED" THEN Commit(i, [case EXCEPT !.state = "CONTESTED"])
        ELSE UNCHANGED <<cases, clock>>
     /\ UNCHANGED <<inputs, ledger, run, pressed, look>>

-----------------------------------------------------------------------------
\* Verification and replay.

\* The verifier knows no contest.
FiledOnly == {"FILED"}

SealedCaseStates == {"FILED", "CONTESTED"}

\* The checks on the case row that was read.
CaseChecks(i, case) ==
  /\ case.manifest # Null /\ case.hash = case.manifest
  /\ case.state \in SealedCaseStates
  /\ case.manifest.invoice = i
  /\ case.sealed_by # Null /\ case.sealed_by = case.manifest.approved_by
  /\ case.sealed_txn_ts # Null

\* The checks on the evidence row the manifest names, on the capture and clause
\* rows and on the exact tariff bytes.
EvidenceChecks(manifest, stored) ==
  LET e == manifest.evidence
  IN /\ stored.sealed /\ stored.evidence = e
     /\ snapshots[CapturedAt[e.capture]] = e.capture
     /\ clauses[<<e.capture, e.text>>] = e.reading
     /\ Eligible(e)

\* The checks on the invoice row and its exact bytes, and the recalculation.
InvoiceChecks(manifest) ==
  LET e == manifest.evidence
  IN /\ manifest.invoice = e.invoice
     /\ e.invoice \in invoices
     /\ Overcharge(e)

\* The checks on the finding.
FindingChecks(stored) == stored.approval = "APPROVED"

\* verify_sealed_receipt on a case read earlier and the rows stored now.
Verified(i, case, stored, fetched) ==
  /\ CaseChecks(i, case)
  /\ fetched
  /\ EvidenceChecks(case.manifest, stored)
  /\ InvoiceChecks(case.manifest)
  /\ FindingChecks(stored)

\* verify_case_receipt reads the case ...
LoadCase(i) ==
  /\ HasCase(i)
  /\ look' = [invoice |-> i, case |-> Current(i)]
  /\ UNCHANGED <<inputs, cases, ledger, contests, clock, run, pressed>>

\* ... and then the rows and the S3 versions the manifest names, which S3 may refuse.
Report(fetched) ==
  /\ look # Null /\ "case" \in DOMAIN look
  /\ look' = [sealed |-> look.case.state # "ANALYZED", fetched |-> fetched,
              passed |-> Verified(look.invoice, look.case, Current(look.invoice), fetched)]
  /\ UNCHANGED <<inputs, cases, ledger, contests, clock, run, pressed>>

\* AS OF SYSTEM TIME t: the last version committed by then.
AsOf(i, t) ==
  cases[i][Max({n \in DOMAIN cases[i] : cases[i][n].at <= t})]

\* validate_replay_rows: the rows of one read bear each other out.
Intact(case) ==
  /\ case.manifest # Null /\ case.hash = case.manifest
  /\ case.sealed /\ case.manifest.evidence = case.evidence
  /\ clauses[<<case.evidence.capture, case.evidence.text>>] = case.evidence.reading

\* replay_case and its tamper check: the case as it was filed, against now.
ReplayMatches(i) ==
  LET now == Current(i)
      then == AsOf(i, now.sealed_txn_ts)
  IN /\ Intact(now)
     /\ then.state = "FILED" /\ then.sealed_txn_ts = now.sealed_txn_ts
     /\ Intact(then)
     /\ then.hash = now.manifest /\ then.evidence = now.evidence

-----------------------------------------------------------------------------
TrailNext ==
  \/ \E r \in Runner :
       \/ \E e \in Evidence : Persist(r, e)
       \/ Preflight(r)
       \/ File(r)
       \/ ReadBack(r)
       \/ RunDies(r)
  \/ \E i \in Filed :
       \/ FileBare(i)
       \/ \E a \in Approver : Seal(a, i) \/ PressAgain(a, i)
       \/ \E k \in Contest, claim \in Claim : RecordContest(k, i, claim)
       \/ LoadCase(i)
  \/ \E fetched \in BOOLEAN : Report(fetched)

TrailSpec == TrailInit /\ [][TrailNext]_trailVars

-----------------------------------------------------------------------------
Sealed(i) == HasCase(i) /\ Current(i).state # "ANALYZED"

\* A run that is told its receipt is filed, by itself or by whoever won the race
\* or ran before it, finds the evidence it presented in the one case of the
\* invoice (file_gate1_case, binding_matches).
AnswersAreBound ==
  \A r \in Runner :
    run[r].at \in {"filed", "already_filed"} =>
      /\ HasCase(run[r].evidence.invoice)
      /\ Current(run[r].evidence.invoice).evidence = run[r].evidence

\* However many people press and whatever is contested later, a case has one
\* approval: one ledger event, and nothing a step does to a sealed case touches
\* what was sealed (seal_case, record_later_contest).
SealedOnce ==
  [][\A i \in Filed :
       Sealed(i) =>
         /\ ledger[i] = 1 /\ ledger'[i] = 1
         /\ \A field \in {"evidence", "sealed", "approval", "manifest", "hash",
                          "sealed_by", "sealed_txn_ts"} :
              Current(i)'[field] = Current(i)[field]]_trailVars

\* A sealed case verifies and replays for good: from the tables, by the report of
\* a verifier that read the case before and the rows after other steps, and as of
\* its seal.  No report passes a case that was read unsealed; and every answer to
\* a press names the approval on file (verify_case_receipt, replay_case).
SealsVerify ==
  /\ \A i \in Filed :
       Sealed(i) => /\ Verified(i, Current(i), Current(i), TRUE)
                    /\ ReplayMatches(i)
  /\ look # Null /\ "passed" \in DOMAIN look =>
       (look.passed <=> look.sealed /\ look.fetched)
  /\ \A a \in Approver :
       pressed[a] # Null =>
         LET case == Current(pressed[a].invoice)
         IN /\ pressed[a].sealed_by = case.sealed_by
            /\ pressed[a].sealed_txn_ts = case.sealed_txn_ts
=============================================================================
