-------------------------- MODULE InvoicePipeline --------------------------
(***************************************************************************)
(* The invoice pipeline: extraction, reconstruction, rule search and        *)
(* judgment of carrier invoices, the release and binding of withheld        *)
(* terminal-access evidence, the operator's retry and the human seal.       *)
(*                                                                          *)
(* Each handler is one transaction on the durable task (TaskQueue), the     *)
(* invoice row with its event sequence, and the immutable evidence rows.    *)
(* Only the MCP retrieval of retained memory happens between transactions   *)
(* and reads rows that others may change; it is an action of its own.       *)
(***************************************************************************)
EXTENDS Integers, Sequences, FiniteSets

CONSTANTS
  Invoice,
  Container,
  InvoiceContainer,      \* the container an invoice bills
  Billed,                \* the charge dates of an invoice
  Snapshot,              \* retained terminal-access snapshots of the tenant
  ContainerOf, DayOf,    \* container_ref and effective_from of a snapshot
  Retained,              \* snapshots VERIFIED from the start; the rest PENDING
  ExtractVersions,       \* bound on the operator's retries of an extraction
  Worker, NoWorker, NoLease, MaxAutomaticAttempts, AttemptBound,
  NoView

ASSUME SnapshotAssumption ==
  /\ Snapshot \subseteq Nat \ {0} /\ IsFiniteSet(Snapshot)
  /\ Retained \subseteq Snapshot
  /\ ContainerOf \in [Snapshot -> Container]
  /\ DayOf \in [Snapshot -> Nat]

ASSUME InvoiceAssumption ==
  /\ InvoiceContainer \in [Invoice -> Container]
  /\ Billed \in [Invoice -> SUBSET Nat]

ASSUME ExtractAssumption == ExtractVersions \in Nat \ {0}

\* Revisions of a reconstruction: the first and one per bound snapshot.
Version == 1 .. Cardinality(Snapshot) + 1

\* workflow_tasks by identity: type, invoice, and what tells inputs apart.
Extract(i, n) == [kind |-> "EXTRACT", inv |-> i, key |-> n]   \* task_version
Recon(i, s) == [kind |-> "RECON", inv |-> i, key |-> s]       \* 0 or access_binding
Rule(i, v) == [kind |-> "RULE", inv |-> i, key |-> v]
Judge(i, v) == [kind |-> "JUDGE", inv |-> i, key |-> v]
Bind(i, s) == [kind |-> "BIND", inv |-> i, key |-> s]

ExtractTask == {Extract(i, n) : i \in Invoice, n \in 1 .. ExtractVersions}
ReconTask == {Recon(i, s) : i \in Invoice, s \in Snapshot \cup {0}}
RuleTask == {Rule(i, v) : i \in Invoice, v \in Version}
JudgeTask == {Judge(i, v) : i \in Invoice, v \in Version}
BindTask == {Bind(i, s) : i \in Invoice, s \in Snapshot}
Task == ExtractTask \cup ReconTask \cup RuleTask \cup JudgeTask \cup BindTask

VARIABLES
  state, attempt, owner, due, row, lease, commits,   \* TaskQueue
  status,      \* invoices.aggregate_status
  seq,         \* invoices.status_sequence
  events,      \* sequences of the rows of invoice_events
  claimSets,   \* number of claim_sets
  recon,       \* reconstructions, by version
  rule,        \* verdict of the rule search for each version
  rec,         \* recommendation_type for each version
  sealed,      \* versions whose recommendation has a decision_seals row
  snap,        \* shipment_event_memory.source_version_state of the snapshots
  view         \* what the MCP retrieval of each worker returned

queueVars == <<state, attempt, owner, due, row, lease, commits>>
invoiceVars == <<status, seq, events>>
evidenceVars == <<claimSets, recon, rule, rec, snap>>
vars == <<queueVars, invoiceVars, evidenceVars, sealed, view>>

Queue == INSTANCE TaskQueue

-----------------------------------------------------------------------------
Status ==
  {"ABSENT", "RECEIVED", "INITIAL_PROCESSING", "RECONSTRUCTING",
   "NEEDS_EVIDENCE", "BLOCKED", "READY_FOR_REVIEW", "DISPUTED",
   "APPROVED_FOR_PAYMENT", "READY_TO_SEND"}

\* A reconstruction: the charged days without a terminal-access snapshot of their
\* own, and whether some day lacks another source or lies outside the chargeable
\* window.
Revision ==
  [key : Snapshot \cup {0}, lacking : SUBSET Nat,
   other : {"none", "missing", "excluded"}]

RecType == {"REQUEST_EVIDENCE", "DISPUTE", "APPROVE_FOR_PAYMENT"}

\* The type invariant of the invoice, its evidence rows and the workers' reads.
TypeOK ==
  /\ Queue!TypeOK
  /\ status \in [Invoice -> Status]
  /\ seq \in [Invoice -> Nat]
  /\ events \in [Invoice -> SUBSET Nat]
  /\ claimSets \in [Invoice -> Nat]
  /\ recon \in [Invoice -> Seq(Revision)]
  /\ rule \in [Invoice -> [Version -> {"NONE", "VERIFIED", "REJECTED"}]]
  /\ rec \in [Invoice -> [Version -> RecType \cup {"NONE"}]]
  /\ sealed \in [Invoice -> SUBSET Version]
  /\ snap \in [Snapshot -> {"PENDING", "VERIFIED"}]
  /\ view \in [Worker -> (SUBSET Snapshot) \cup {NoView}]

Init ==
  /\ Queue!Init
  /\ status = [i \in Invoice |-> "ABSENT"]
  /\ seq = [i \in Invoice |-> 0]
  /\ events = [i \in Invoice |-> {}]
  /\ claimSets = [i \in Invoice |-> 0]
  /\ recon = [i \in Invoice |-> <<>>]
  /\ rule = [i \in Invoice |-> [v \in Version |-> "NONE"]]
  /\ rec = [i \in Invoice |-> [v \in Version |-> "NONE"]]
  /\ sealed = [i \in Invoice |-> {}]
  /\ snap = [s \in Snapshot |-> IF s \in Retained THEN "VERIFIED" ELSE "PENDING"]
  /\ view = [w \in Worker |-> NoView]

\* _lock_invoice_and_advance with increment inc, followed by n event inserts
\* numbered from the first sequence it returned.
Publish(i, st, inc, n) ==
  /\ status' = [status EXCEPT ![i] = st]
  /\ seq' = [seq EXCEPT ![i] = @ + inc]
  /\ events' = [events EXCEPT ![i] = @ \cup (seq[i] + 1 .. seq[i] + n)]

\* The task of worker w, when it is of the given kind.
On(w, kind) == lease[w] # NoLease /\ lease[w].task.kind = kind

Inv(w) == lease[w].task.inv
Key(w) == lease[w].task.key

-----------------------------------------------------------------------------
\* finalize_received_invoice: the invoice, its first event, its first task.
Receive(i) ==
  /\ status[i] = "ABSENT"
  /\ Queue!Insert(Extract(i, 1))
  /\ Publish(i, "RECEIVED", 1, 1)
  /\ UNCHANGED <<evidenceVars, sealed, view>>

\* claim_next_*_task.  Only judgment and binding leave the invoice alone.
Claim(w, t) ==
  /\ Queue!Claim(w, t)
  /\ CASE t.kind = "EXTRACT" -> Publish(t.inv, "INITIAL_PROCESSING", 1, 1)
       [] t.kind \in {"RECON", "RULE"} -> Publish(t.inv, "RECONSTRUCTING", 1, 1)
       [] OTHER -> UNCHANGED invoiceVars
  /\ UNCHANGED <<evidenceVars, sealed, view>>

\* The operator retries an extraction that was completed.
RetryWhenCompleted(i) ==
  \E n \in 1 .. ExtractVersions - 1 :
    /\ state[Extract(i, n)] \in {"FAILED", "COMPLETED"}
    /\ Queue!Insert(Extract(i, n + 1))
    /\ Publish(i, "RECEIVED", 1, 1)
    /\ UNCHANGED <<evidenceVars, sealed, view>>

\* retry_extraction_task: the newest extraction must have FAILED.  A repeated
\* key or a stale row_version is answered without a change.
RetryExtraction(i) ==
  \E n \in 1 .. ExtractVersions - 1 :
    /\ state[Extract(i, n)] = "FAILED"
    /\ Queue!Insert(Extract(i, n + 1))
    /\ Publish(i, "RECEIVED", 1, 1)
    /\ UNCHANGED <<evidenceVars, sealed, view>>

\* complete_extraction: a new claim set; validated claims go on.
CompleteExtraction(w, passed) ==
  /\ On(w, "EXTRACT")
  /\ Queue!Complete(w, IF passed THEN {Recon(Inv(w), 0)} ELSE {})
  /\ claimSets' = [claimSets EXCEPT ![Inv(w)] = @ + 1]
  /\ IF passed THEN Publish(Inv(w), "RECONSTRUCTING", 2, 2)
     ELSE Publish(Inv(w), "NEEDS_EVIDENCE", 1, 1)
  /\ UNCHANGED <<recon, rule, rec, snap, sealed, view>>

FailExtraction(w, retryable) ==
  /\ On(w, "EXTRACT")
  /\ Queue!Fail(w, retryable)
  /\ Publish(Inv(w), IF Queue!WillRetry(w, retryable) THEN "INITIAL_PROCESSING"
                     ELSE "BLOCKED", 1, 1)
  /\ UNCHANGED <<evidenceVars, sealed, view>>

-----------------------------------------------------------------------------
\* The snapshots of the invoice's container that memory shows.
Visible(i) ==
  {s \in Snapshot : ContainerOf[s] = InvoiceContainer[i] /\ snap[s] = "VERIFIED"}

\* read_reconstruction_memory, over MCP or its driver fallback: the VERIFIED
\* snapshots of the invoice's container at the time of the read.
RetrieveMemory(w) ==
  /\ On(w, "RECON")
  /\ view[w] = NoView
  /\ view' = [view EXCEPT ![w] = Visible(Inv(w))]
  /\ UNCHANGED <<queueVars, invoiceVars, evidenceVars, sealed>>

\* adjudicate_charged_days(): TERMINAL_ACCESS is missing on every charged day
\* without its own snapshot, whether one was retained or not, as soon as memory
\* shows a snapshot of any day; with none visible, access is not required.
Lacking(i, seen) ==
  IF seen = {} THEN {} ELSE {d \in Billed[i] : ~\E s \in seen : DayOf[s] = d}

CompleteRevision(r) == r.lacking = {} /\ r.other = "none"

\* complete_reconstruction: one immutable version per input fingerprint, then
\* the hand-off to the rule search, complete or not, and two events.
CompleteReconstruction(w, other) ==
  LET i == Inv(w)
      r == [key |-> Key(w), lacking |-> Lacking(i, view[w]), other |-> other]
      exists == \E v \in 1 .. Len(recon[i]) : recon[i][v].key = Key(w)
  IN  /\ On(w, "RECON")
      /\ view[w] # NoView
      /\ Queue!Complete(w, IF exists THEN {} ELSE {Rule(i, Len(recon[i]) + 1)})
      /\ IF exists THEN UNCHANGED <<recon, invoiceVars>>
         ELSE /\ recon' = [recon EXCEPT ![i] = Append(@, r)]
              /\ Publish(i, IF CompleteRevision(r) THEN "RECONSTRUCTING"
                            ELSE "NEEDS_EVIDENCE", 2, 2)
      /\ view' = [view EXCEPT ![w] = NoView]
      /\ UNCHANGED <<claimSets, rule, rec, snap, sealed>>

\* fail_reconstruction: BLOCKED unless it retries, whatever terminal_state says.
FailReconstruction(w, retryable) ==
  /\ On(w, "RECON")
  /\ Queue!Fail(w, retryable)
  /\ Publish(Inv(w), IF Queue!WillRetry(w, retryable) THEN "RECONSTRUCTING"
                     ELSE "BLOCKED", 1, 1)
  /\ view' = [view EXCEPT ![w] = NoView]
  /\ UNCHANGED <<evidenceVars, sealed>>

\* An incomplete reconstruction is never judged, its rule verified or not.
CompleteRuleOnlyComplete(w, verified) ==
  LET i == Inv(w)
      v == Key(w)
  IN  /\ On(w, "RULE")
      /\ Queue!Complete(w, IF CompleteRevision(recon[i][v]) THEN {Judge(i, v)} ELSE {})
      /\ rule' = [rule EXCEPT ![i][v] = IF verified THEN "VERIFIED" ELSE "REJECTED"]
      /\ Publish(i, IF verified THEN "RECONSTRUCTING" ELSE "NEEDS_EVIDENCE", 1, 1)
      /\ UNCHANGED <<claimSets, recon, rec, snap, sealed, view>>

\* complete_rule judges a verified rule, and a missing one only when the
\* reconstruction covered every day.
CompleteRule(w, verified) ==
  LET i == Inv(w)
      v == Key(w)
  IN  /\ On(w, "RULE")
      /\ Queue!Complete(w, IF verified \/ CompleteRevision(recon[i][v])
                           THEN {Judge(i, v)} ELSE {})
      /\ rule' = [rule EXCEPT ![i][v] = IF verified THEN "VERIFIED" ELSE "REJECTED"]
      /\ Publish(i, IF verified THEN "RECONSTRUCTING" ELSE "NEEDS_EVIDENCE", 1, 1)
      /\ UNCHANGED <<claimSets, recon, rec, snap, sealed, view>>

\* The rule search that is given up leaves the invoice as it was while running.
FailRuleKeepsStatus(w, retryable) ==
  /\ On(w, "RULE")
  /\ Queue!Fail(w, retryable)
  /\ Publish(Inv(w), "RECONSTRUCTING", 1, 1)
  /\ UNCHANGED <<evidenceVars, sealed, view>>

FailRule(w, retryable) ==
  /\ On(w, "RULE")
  /\ Queue!Fail(w, retryable)
  /\ Publish(Inv(w), IF Queue!WillRetry(w, retryable) THEN "RECONSTRUCTING"
                     ELSE "NEEDS_EVIDENCE", 1, 1)
  /\ UNCHANGED <<evidenceVars, sealed, view>>

\* Days without a source are left out of the verdict.
VerdictsOfTheRest(i, v) ==
  IF rule[i][v] # "VERIFIED" THEN {"REQUEST_EVIDENCE"}
  ELSE {"DISPUTE", "APPROVE_FOR_PAYMENT"}

\* resolve_recommendation: evidence is requested when a chargeable day lacks a
\* source or a rate, or when no day is chargeable.
Verdicts(i, v) ==
  LET r == recon[i][v]
  IN  IF rule[i][v] # "VERIFIED" \/ r.lacking # {} \/ r.other = "missing"
      THEN {"REQUEST_EVIDENCE"}
      ELSE {"DISPUTE", "APPROVE_FOR_PAYMENT"} \cup
           IF r.other = "excluded" THEN {"REQUEST_EVIDENCE"} ELSE {}

\* The binding of each PENDING snapshot, not of the earliest one.
HeldBindingAll(i, v) ==
  LET pending == {s \in Snapshot : snap[s] = "PENDING"}
  IN  IF recon[i][v].lacking = {} THEN {{}} ELSE {{Bind(i, s) : s \in pending}}

\* The earliest snapshot, PENDING or not.
HeldBindingVerified(i, v) ==
  IF recon[i][v].lacking = {} THEN {{}}
  ELSE {{Bind(i, s)} : s \in {p \in Snapshot : \A q \in Snapshot : DayOf[p] <= DayOf[q]}}

\* _enqueue_held_access_binding, for MISSING_DAY_ACCESS_EVIDENCE: the tasks it may
\* insert, none or the binding of the earliest PENDING snapshot of the tenant,
\* of whichever container and day; the order of equal days is not given.
HeldBinding(i, v) ==
  LET pending == {s \in Snapshot : snap[s] = "PENDING"}
  IN  IF recon[i][v].lacking = {} \/ pending = {} THEN {{}}
      ELSE {{Bind(i, s)} : s \in {p \in pending : \A q \in pending : DayOf[p] <= DayOf[q]}}

\* complete_judgment: READY_FOR_REVIEW unless evidence is requested, and the
\* HELD binding task when a day lacks its access snapshot.
CompleteJudgment(w, verdict) ==
  LET i == Inv(w)
      v == Key(w)
  IN  /\ On(w, "JUDGE")
      /\ verdict \in Verdicts(i, v)
      /\ \E held \in HeldBinding(i, v) : Queue!Complete(w, held)
      /\ rec' = [rec EXCEPT ![i][v] = verdict]
      /\ Publish(i, IF verdict = "REQUEST_EVIDENCE" THEN "NEEDS_EVIDENCE"
                    ELSE "READY_FOR_REVIEW", 1, 1)
      /\ UNCHANGED <<claimSets, recon, rule, snap, sealed, view>>

\* fail_judgment retries any failure and never touches the invoice.
FailJudgment(w) ==
  /\ On(w, "JUDGE")
  /\ Queue!Fail(w, TRUE)
  /\ UNCHANGED <<invoiceVars, evidenceVars, sealed, view>>

\* The update of the binding task forgets the HELD condition.
ReleaseInAnyState(i) ==
  \E s \in Snapshot :
    /\ state[Bind(i, s)] # "ABSENT"
    /\ state' = [state EXCEPT ![Bind(i, s)] = "PENDING"]
    /\ UNCHANGED <<attempt, owner, due, row, lease, commits>>
    /\ UNCHANGED <<invoiceVars, evidenceVars, sealed, view>>

\* release_access_evidence, for the invoice's held task.
ReleaseAccessEvidence(i) ==
  /\ \E s \in Snapshot : Queue!Release(Bind(i, s))
  /\ UNCHANGED <<invoiceVars, evidenceVars, sealed, view>>

\* The snapshot is left PENDING.
CompleteBindingUnverified(w, passed) ==
  LET i == Inv(w)
      s == Key(w)
  IN  /\ On(w, "BIND")
      /\ Queue!Complete(w, IF passed THEN {Recon(i, s)} ELSE {})
      /\ IF passed THEN Publish(i, "RECONSTRUCTING", 1, 1) ELSE UNCHANGED invoiceVars
      /\ UNCHANGED <<evidenceVars, sealed, view>>

\* complete_access_binding: on a passing verdict the snapshot becomes VERIFIED
\* and a reconstruction is queued; a refusal only finishes the task.
CompleteAccessBinding(w, passed) ==
  LET i == Inv(w)
      s == Key(w)
  IN  /\ On(w, "BIND")
      /\ Queue!Complete(w, IF passed THEN {Recon(i, s)} ELSE {})
      /\ IF passed
         THEN snap' = [snap EXCEPT ![s] = "VERIFIED"] /\ Publish(i, "RECONSTRUCTING", 1, 1)
         ELSE UNCHANGED <<snap, invoiceVars>>
      /\ UNCHANGED <<claimSets, recon, rule, rec, sealed, view>>

-----------------------------------------------------------------------------
\* Everything but an approval is sealed as a dispute.
OutcomeNoRefusal(type) ==
  IF type = "APPROVE_FOR_PAYMENT" THEN "APPROVED_FOR_PAYMENT" ELSE "DISPUTED"

\* The outcome a seal gives the invoice.
Outcome(type) ==
  CASE type = "DISPUTE" -> "DISPUTED"
    [] type = "APPROVE_FOR_PAYMENT" -> "APPROVED_FOR_PAYMENT"
    [] OTHER -> "READY_TO_SEND"

\* approve_and_seal, of any frozen recommendation without an approval: the
\* expected version and digest are compared with that same recommendation.
ApproveAndSeal(i, v) ==
  /\ rec[i][v] # "NONE"
  /\ v \notin sealed[i]
  /\ sealed' = [sealed EXCEPT ![i] = @ \cup {v}]
  /\ Publish(i, Outcome(rec[i][v]), 1, 1)
  /\ UNCHANGED <<queueVars, evidenceVars, view>>

\* The worker's iteration ends without a trace outside its own memory.
Forget(w) ==
  /\ view' = [view EXCEPT ![w] = NoView]
  /\ UNCHANGED <<invoiceVars, evidenceVars, sealed>>

LoseLease(w) == Queue!LoseLease(w) /\ Forget(w)

Crash(w) == Queue!Crash(w) /\ Forget(w)

ClockPasses(t) ==
  Queue!ClockPasses(t) /\ UNCHANGED <<invoiceVars, evidenceVars, sealed, view>>

Handle(w) ==
  \/ \E passed \in BOOLEAN : CompleteExtraction(w, passed)
  \/ \E retryable \in BOOLEAN : FailExtraction(w, retryable)
  \/ RetrieveMemory(w)
  \/ \E other \in {"none", "missing", "excluded"} : CompleteReconstruction(w, other)
  \/ \E retryable \in BOOLEAN : FailReconstruction(w, retryable)
  \/ \E verified \in BOOLEAN : CompleteRule(w, verified)
  \/ \E retryable \in BOOLEAN : FailRule(w, retryable)
  \/ \E verdict \in RecType : CompleteJudgment(w, verdict)
  \/ FailJudgment(w)
  \/ \E passed \in BOOLEAN : CompleteAccessBinding(w, passed)

Next ==
  \/ \E i \in Invoice :
       \/ Receive(i)
       \/ RetryExtraction(i)
       \/ ReleaseAccessEvidence(i)
       \/ \E v \in Version : ApproveAndSeal(i, v)
  \/ \E w \in Worker :
       Handle(w) \/ LoseLease(w) \/ Crash(w) \/ \E t \in Task : Claim(w, t)
  \/ \E t \in Task : ClockPasses(t)

Spec == Init /\ [][Next]_vars

\* The runtime polls, an iteration that holds a lease goes on, time passes.
\* Nothing makes the humans retry, release or seal.
Fairness ==
  /\ \A t \in Task : WF_vars(\E w \in Worker : Claim(w, t))
  /\ \A w \in Worker : WF_vars(Handle(w) \/ LoseLease(w))
  /\ \A t \in Task : WF_vars(ClockPasses(t))

FairSpec == Spec /\ Fairness

-----------------------------------------------------------------------------
\* Properties.

TasksOf(i) == {t \in Task : t.inv = i}

\* Tasks the workers will still act on; HELD ones wait for a human.
Busy(i) == \E t \in TasksOf(i) : state[t] \in {"PENDING", "RUNNING", "RETRY_WAIT"}

Settled ==
  {"NEEDS_EVIDENCE", "BLOCKED", "READY_FOR_REVIEW", "DISPUTED",
   "APPROVED_FOR_PAYMENT", "READY_TO_SEND"}

\* fail_judgment gave up: the one failure that is not shown on the invoice.
JudgmentBlocked(i) == \E v \in Version : state[Judge(i, v)] = "BLOCKED"

Latest(i) == recon[i][Len(recon[i])]

\* The event stream of an invoice has no gap and no duplicate: the sequence
\* advanced by a handler is exactly the number of events it inserted.
EventsGapless == \A i \in Invoice : events[i] = 1 .. seq[i]

\* An invoice gets at most one claim set, whatever leases expire and however
\* often an operator retries: complete_extraction has no replay check and
\* the uniqueness of the claim set version rests on the task protocol.
OneClaimSet == \A i \in Invoice : claimSets[i] <= 1

\* A decision up for review rests on the newest reconstruction: its rule is
\* verified, no charged day of it lacks a source, and it is not a refusal.
ReviewIsBacked ==
  \A i \in Invoice : status[i] = "READY_FOR_REVIEW" =>
    LET v == Len(recon[i])
    IN  /\ rule[i][v] = "VERIFIED"
        /\ Latest(i).lacking = {} /\ Latest(i).other # "missing"
        /\ rec[i][v] \in {"DISPUTE", "APPROVE_FOR_PAYMENT"}

\* When no task of an invoice is left to run its status says how it ended, so
\* no invoice is shown as being worked on for ever; the exception is a
\* judgment that was given up.
IdleIsSettled ==
  \A i \in Invoice : ~Busy(i) =>
    status[i] \in Settled \cup {"ABSENT"} \/ JudgmentBlocked(i)

\* A decision under review or sealed with an outcome has no work running that
\* could replace its evidence or its status.
DecisionIsQuiet ==
  \A i \in Invoice :
    status[i] \in {"READY_FOR_REVIEW", "DISPUTED", "APPROVED_FOR_PAYMENT"} => ~Busy(i)

\* An invoice never has two bindings outstanding, so release_access_evidence,
\* which updates every HELD row, lets exactly one verification run.
OneBindingAtATime ==
  \A i \in Invoice : \A s, u \in Snapshot :
    /\ state[Bind(i, s)] \notin {"ABSENT", "COMPLETED"}
    /\ state[Bind(i, u)] \notin {"ABSENT", "COMPLETED"}
    => s = u

\* "lifts coverage in a NEW immutable reconstruction revision"
\* (access_evidence_repository.py): though memory is read outside the transaction
\* that writes the revision, and the bound snapshot may be another container's, no
\* day covered before is lost and the day of an own snapshot is covered.
BindingLiftsCoverage ==
  \A i \in Invoice : \A v \in 2 .. Len(recon[i]) :
    LET s == recon[i][v].key
    IN  /\ recon[i][v].lacking \subseteq recon[i][v - 1].lacking
        /\ ContainerOf[s] = InvoiceContainer[i] => DayOf[s] \notin recon[i][v].lacking

\* "nothing to release ... a real gap" (judgment_repository.py) is said of no gap
\* that could still be worked on: when an invoice with a judged gap has come to
\* rest, a binding waits for its release, or one was refused, or the
\* reconstruction after one was given up, or nothing of the tenant is withheld.
GapHasWayOut ==
  \A i \in Invoice : LET v == Len(recon[i]) IN
    v # 0 /\ rec[i][v] # "NONE" /\ recon[i][v].lacking # {} /\ ~Busy(i) =>
      \/ \E s \in Snapshot :
           \/ state[Bind(i, s)] = "HELD"
           \/ /\ state[Bind(i, s)] = "COMPLETED"
              /\ state[Recon(i, s)] # "COMPLETED"
      \/ \A s \in Snapshot : snap[s] = "VERIFIED"

\* The pipeline uses the task table only through the lease protocol.
QueueSpec == Queue!Spec

\* An invoice that is shown as being worked on, for the first time or after a
\* binding, reaches a conclusion, unless its judgment is given up.
EveryInvoiceConcludes ==
  \A i \in Invoice :
    status[i] \in {"RECEIVED", "INITIAL_PROCESSING", "RECONSTRUCTING"}
      ~> status[i] \in Settled \/ JudgmentBlocked(i)

\* reconstruction_repository.py: "The incomplete 6/7 revision MUST still
\* produce a persisted REQUEST_EVIDENCE recommendation".
WithheldIsJudged ==
  \A i \in Invoice : \A v \in 1 .. Len(recon[i]) :
    ~CompleteRevision(recon[i][v]) /\ state[Rule(i, v)] = "COMPLETED"
      => state[Judge(i, v)] # "ABSENT"

\* judgment_repository.py: the PENDING terminal-access row "for this invoice's
\* shipment/container".
HeldSnapshotIsOwn ==
  \A i \in Invoice, s \in Snapshot :
    state[Bind(i, s)] = "HELD" => ContainerOf[s] = InvoiceContainer[i]

\* authority_seal_repository.py: "stale-recommendation rejection".
StaleNeverSealed ==
  [][\A i \in Invoice : \A v \in sealed'[i] \ sealed[i] :
       \A u \in Version : u > v => rec[i][u] = "NONE"]_vars

=============================================================================
