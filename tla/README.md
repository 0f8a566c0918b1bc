# Verification of Tally's durable memory

TLA+ specifications of Tally, a back office that audits demurrage invoices with durable
memory. TLC checks each part on small instances; TLAPS proves the safety properties of all
of them for every size. Paths are relative to the repository; `src/platform/` and the like
stand below its top-level `src/`.

1. [The system](#1-the-system) — inventory: state, operations, interactions, hazards
2. [Plan](#2-plan) — modules, composition, abstract specifications
3. [The modules](#3-the-modules) — how state and actions correspond to the code
4. [The runs](#4-the-runs) — what is checked, the bounds, the fairness
5. [The proofs](#5-the-proofs)
6. [Findings](#6-findings)
7. [What is not modelled](#7-what-is-not-modelled)

## 1. The system

A FastAPI process (`src/platform/app.py`) serves the operators' routes and runs one
background loop, `_run_intake_runtime`, which calls `run_runtime_iteration` for ever.
Several processes may run at once (a rolling deployment, a second instance), so
iterations overlap. All durable state is in CockroachDB; every repository function is one
SERIALIZABLE transaction under `run_with_retry`, which runs the function again on
SQLSTATE 40001. Bedrock, Managed MCP, S3 and the mail provider are reached between — in
one case inside — those transactions. Beside it run a daily Lambda that records tariff
pages, a canary that keeps the MCP token alive, and operators' scripts.

**Durable task queue** (`workflow_tasks`, `workflow_task_attempts`; the claim, complete and
fail functions of the five task repositories).
*State*: task state, current attempt, lease owner and expiry, not_before; one row per
attempt; in each worker a lease object. *Operations*: insert (ON CONFLICT DO NOTHING),
claim (SKIP LOCKED, expired leases included), complete, fail, release of a HELD task.
*Hard*: leases expire while a worker waits for a model; the COMMIT succeeds and its answer
is lost; the process dies. *Correct when*: the effect of a task is committed once, only
the newest claim can write, attempt rows tell the true history, every task is settled.

**Invoice pipeline** (the five workers and their repositories). *State*: the invoice's
status and event sequence, its claim sets, immutable reconstructions, rules,
recommendations, seals, and the retained terminal-access snapshots of the tenant.
*Operations*: extraction → reconstruction → rule search → judgment; a refusal for want of
access evidence holds a binding task; an operator releases it; the binding verifies the
snapshot and queues the next reconstruction. *Interactions*: a completion commits its
effect, its events and its follow-up task together; the memory read over MCP happens
before. *Correct when*: one claim set, a decision under review rests on the newest
evidence, work that stops leaves a settled status, no revision loses coverage, and a gap
is left alone only when nothing more can be done about it.

**Reconstruction, rule and judgment cores** (`core/reconstruction.py`,
`core/applicable_rule.py`, `core/judgment.py`): which charged days the retained events
source, which clause sets the rate, what is recommended. *Hard*: events learned after the
invoice, zones and day boundaries, duplicates, sums by different filters. *Correct when*:
a recommendation can be recomputed, rests on every day in the window, and balances.

**Approval and seal** (`authority_seal_repository.py`), **correspondence and gated send**
(`correspondence_repository.py`, `send_gates.py`, `controlled_mail.py`). *State*: approvals
by idempotency key, numbered seals, one draft per seal, send attempts; at the provider,
what was delivered. *Hard*: the provider is called inside a transaction. *Correct when*:
one approval per seal, what is mailed was sealed, drafted and validated, no record is
rewritten, a send is recorded only on complete memory.

**Ingestion** (`intake_api.receive_invoice`, `intake_repository.py`,
`invoice_source_store.py`). *State*: `ingestion_requests` by idempotency key, invoices,
S3 versions, the position of each request in flight. *Hard*: five steps in different
stores, death between any two, one file under several keys. *Correct when*: one invoice
per file, a key's answer is about its own file and final, an invoice's source exists.

**Event stream and outbox** (`intake_events.py`, the browser's `liveProvider.js`).
*State*: `invoice_events`, `event_outbox`, the cursor a browser reconnects with. *Hard*:
events become visible in another order than the cursor's, relays skip each other's locked
rows, connections drop inside a page, a reset deletes events. *Correct when*: nothing is
sent twice, nothing is skipped but for the one reason the order admits, all arrives.

**OAuth token rotation** (`oauth_tokens.py`, the canary, the public replay). *State*: a
bundle in SSM whose refresh token is spent by each use, a 60 second DynamoDB lease. *Hard*:
the lease expires under its holder, answers and saves are lost, three kinds of callers.
*Correct when*: no spent token is presented and the stored one works, unless its successor
was lost.

**Daily recording** (`capture/handler.py`, `recording/commit.py`, `restore_live.py`,
`capture/verifier.py`). *State*: body, manifest and latest pointer in S3, snapshot and
recording rows. *Hard*: each S3 call may fail before or after its effect, runs overlap,
midnight passes. *Correct when*: a day is committed whole, a manifest's bytes exist,
"unchanged" is true, the verdict on a day stands.

**Gate 1 evidence receipts** (`receipt_pipeline.py`, `clerk_pipeline.py`), **case seal,
contest and temporal replay** (`seal.py`, `contest_workflow.py`, `temporal_replay.py`) and
their **verifier** (`receipt_verifier.py`). *State*: snapshots, clauses, invoices, the
versions of a case, ledger, contests. *Hard*: two runs file one invoice, two people press
Approve, the carrier contests meanwhile, the verifier reads at different times. *Correct
when*: an answer is bound to its own evidence, a case is sealed once, a seal verifies for
good.

**Vector retrieval** (`vector_seed.py`, `gate2_vector_search.py`,
`applicable_rule_worker.py`, `vector_receipt_pipeline.py`). *State*: the clause library,
the hits of a search. *Hard*: the search over-fetches a fixed multiple, then filters;
clauses are added between search and decision; what is picked is verified only then.
*Correct when*: a rule is what all clauses that pass say, the receipt's clause is the
nearest that passes.

**Demo restore** deletes and reseeds an invoice while workers run; of it, the deletion of
events is modelled. **Managed MCP, database access, model providers, status reports, clerk
rules, public replay** are modelled as the parts above use them. **Authentication, user
interface, evaluation scripts, deployment**: section 7. `PROJECT.json` lists every
component with its status, and every hazard at the line where it bites with the
properties that would notice it.

## 2. Plan

| order | module | role | proofs |
|---|---|---|---|
| 1 | `TaskOnce` | abstract: a task is done exactly once or given up | |
| 2 | `TaskQueue` | the lease protocol; implements `TaskOnce` | `TaskQueueProofs` |
| 3 | `InvoicePipeline` | the handlers of the five task types; implements `TaskQueue` | `PipelineProofs` |
| 4 | `SealAndSend` | approval, draft, gates and send | `SealAndSendProofs` |
| 5 | `Ingestion` | the upload request | `EvidenceProofs` |
| 6 | `EventStream` | writers, relays, stream, browser | `EventStreamProofs` |
| 7 | `TokenRotation` | lease, rotation, save, three kinds of callers | `TokenRotationProofs` |
| 8 | `DailyRecording` | capture, commit, replay and verdict of a day | `DailyRecordingProofs` |
| 9 | `Determination` | from retained events to a frozen recommendation | `DecisionProofs` |
| 10 | `ReceiptTrail` | receipt, case, seal, contest, verifier, replay | `EvidenceProofs` |
| 11 | `ClauseRetrieval` | the clause library, the search, its two consumers | `DecisionProofs` |

All are done. Composition: `InvoicePipeline` instantiates `TaskQueue` with the five task
types as its tasks, and `TaskQueue` instantiates `TaskOnce` under the mapping `Outcome`.
Approval occurs twice: as a step that changes the invoice under the pipeline, and with its
keys and numbers in `SealAndSend`, where the pipeline is reduced to what the gates read.
A reconstruction occurs twice as well: the pipeline knows which days lack their snapshot and
leaves the verdict open within a class, `Determination` computes days, rate and amounts.

Worth doing next: the demo restore against running leases (rows that vanish under the
pipeline).

## 3. The modules

A transaction is one action. What happens between transactions — a model call, the MCP
read, an S3 write — is the gap between two actions. Mutated forms of a definition stand
directly before it (`ClaimKeepsOwner` before `Claim`); they are part of no specification
and only show that each property can fail.

### TaskQueue

| variable | code |
|---|---|
| `state`, `attempt`, `owner` | `workflow_tasks.state`, `current_attempt`, `lease_owner` |
| `due` | `lease_expires_at < now()` of a RUNNING row, `not_before <= now()` of a RETRY_WAIT one |
| `row` | `workflow_task_attempts.state` by attempt number |
| `lease` | the `*TaskLease` object in the worker's memory |
| `commits` | history: how often a completion of the task was committed |

`Claim` is any of the `claim_next_*_task` functions, `Complete` and `Fail` the completions
and failures, `LeaseCurrent` the `_assert_*_lease` checks with their difference: the one of
BIND_ACCESS_EVIDENCE does not compare the attempt. `AfterCommit` is nondeterministic: the
lease object is dropped, or the answer to the COMMIT was lost and the worker goes on to its
failure path. `LoseLease` is `TaskLeaseLostError`, `Crash` a process or iteration that ends
without a trace. The binding worker never fails a task and never closes its attempt row,
and neither does the model. `LEASED` appears in the WHERE clauses but no statement writes
it. The clock is abstracted to the one question the code asks of it.

### InvoicePipeline

Tasks are identified as in `workflow_tasks_identity_idx`, by type, invoice and what tells
the inputs apart: the extraction by `task_version`, a reconstruction by the bound snapshot
(0 for the first), rule search and judgment by revision, a binding by snapshot. Each handler
is the queue action conjoined with the rest of the transaction: `Publish` is
`_lock_invoice_and_advance` plus the event inserts. `RetrieveMemory` is the MCP read (or its
driver fallback), outside any transaction; it returns the VERIFIED snapshots of the
invoice's container (`Visible`). Of the charged days a revision keeps those without a
snapshot of their own (`lacking`) and whether some day lacks another source or lies outside
the chargeable window (`other`). `Lacking` keeps two peculiarities of
`adjudicate_charged_days`: a day counts as lacking whether or not a snapshot of it was ever
retained, and when no snapshot at all is visible access is not asked for. `HeldBinding` is
as wide as the query of `_enqueue_held_access_binding`: the tenant's earliest PENDING
snapshot, of whichever container and day. `Verdicts` is the set of recommendations that
inputs of a class admit.

### SealAndSend

`revs` holds what the gates of `send_gates.py` read: completeness, rule, judgment per
revision. `Approve`, `Draft`, `SendBlocked` and `SendRefused` are whole transactions; the
successful send is split at the provider call (`ProviderDelivers`, then `CommitSend` or
`RollbackSend`), because the call is the one thing a rollback does not undo. Its commit
requires the rows the gates read to be unchanged, which is what SERIALIZABLE gives: the
gates run on the transaction's own connection. `mail` is history. A replay or a refused
request changes nothing and is therefore no action.

### Ingestion

`request[r].at` is the place an HTTP request has reached in `receive_invoice`; `Reserve`,
`Link`, `RecordStored` and `Finalize` are transactions, `Lookup` the unlocked search for
the same file, `Preserve` the S3 write, `Abandon` any error or death between two steps.
The unique index over the source hash and the checks of the request hash are guards.

### EventStream

An event is (time, invoice, sequence), where the time is that of its transaction's begin
(`Open`) and not of its commit (`Publish`). `LockBatch` is the relay's SELECT under SKIP
LOCKED with its limit, `Deliver` its UPDATE and COMMIT; a relay that dies releases its
rows. The generator of `sse_stream` is `up`, `checked` and `page`: `PollUnknown` the
unknown-cursor test of its first poll, `Poll` a page of delivered events beyond the
cursor, `Yield` one event out. The browser reconnects with the last id it received
(`Connect`), or is reloaded and starts from nothing. `Reset` deletes the events of the hero
invoice. `missed` is history: events that were marked DELIVERED when a stream had already
read past their time — the one skip the order (occurred_at, invoice, sequence) admits.

### TokenRotation

Bundles are numbered as the provider issues them; `stored` is the SSM parameter, `next` the
provider's own knowledge of what a refresh token was rotated into. `call[c].at` is a
caller's place in `OAuthTokenManager`: load, acquire the lease, load again under it, POST,
put, read back, release, and then the MCP session, its one retry after a 401 (public
replay) or the driver (worker). `AcquireLost` is a conditional put whose answer is lost,
`LeaseExpires` the 60 seconds, also under its holder; `dropped` and `overrun` are history and
name the two things no client can avoid. `Remint` is the operator's bootstrap.

### DailyRecording

`run[r].at` is the place in `capture_one_source` and in the phases of `lambda_handler`;
every S3 call is an action, with the failure before or after its effect. `Look` and the
conditional put in `WriteManifest` are separate, which is the race. `CommitDay` is the
transaction per source, of the Lambda or of `restore_live` (`Replay`). `ManifestStatus` is
the verifier's verdict. A page is its digest; `Midnight` moves the date on under runs that
keep theirs.

### Determination

`retained` says whether memory recorded an event before or after the invoice arrived,
`verified` whether its source is VERIFIED. The read, `Accepted` (duplicates of a type and
instant), the charge window in calendar days of the scenario's zone, the day by day
`Chargeability`, the candidate clauses, the judgment of each day and `Recommendation`, with
its three sums, are operators; `Judge` freezes the result and `BindSnapshot` adds a binding, of
any snapshot that is not VERIFIED yet and passes `verify_access_snapshot`, since which one a
refusal holds depends on what else the tenant withholds.
Instants are half days, so that an instant's UTC day and its local day may differ.

### ReceiptTrail

A case keeps the versions its commits left, which is what AS OF SYSTEM TIME reads. `Persist`,
`Preflight`, `File` and `ReadBack` are the steps of a receipt run: it stores its inputs,
looks for a case, files one and, if the unique index refuses, reads who won. `Seal` and
`PressAgain` are the two paths of `seal_case`, `RecordContest` the contest. `LoadCase` and
`Report` are the verifier's two reads, `ReplayMatches` the replay as of the seal. A hash
stands for what was hashed. `Intact` leaves out the source-hash check of
`core/temporal_replay.py:237-251`, and reads clauses as they are now rather than as of the
seal: stored clauses are never changed.

### ClauseRetrieval

A clause is a record of what the two consumers look at. `Seed` and `Store` add clauses, with
and without an embedding. `Search` is one statement: the vector index returns
`Limit * Multiplier` embedded rows (`Pool`), of which the VERIFIED ones are ordered by
distance and cut to `Limit`. The index is approximate: it fills its limit, with any rows.
Both consumers act on hits that may be older than the library:

- `DecideRule` is `decide_applicable_rule`. `CandidateAccepted` has the check that the text
  quotes the expected rate (`quoted`), which the worker fixes to "$250", the parsed amount and
  the unit CALENDAR_DAY. `Decision` is REJECTED, CONFLICTED or VERIFIED with a rate.
- `Retrieve` is the receipt's. `Passes` looks at metadata, source and dates, neither at the
  amount nor at its unit. `FirstPassing` is the first that passes; `Selected` gives it up if
  `verify_tariff_extraction` (`Eligible`, unit per_day) refuses it, and tries no other.

## 4. The runs

| run | question | instance | states |
|---|---|---|---|
| `queue` | is the lease protocol right, does it implement `TaskOnce`, does every task settle? | 3 tasks (extraction, ordinary, binding), 2 workers, 2 automatic attempts | |
| `pipeline_overlap` | claim sets, decisions and final status under overlapping iterations and an operator's retry | 1 invoice, 2 workers, 1 withheld snapshot | |
| `pipeline_live` | is there one binding at a time; is the queue used by its protocol; is every invoice concluded? | 1 invoice, 2 withheld snapshots, the earlier of another container, a day without any, 1 worker whose reconstructions and bindings may be interrupted | 122 000 |
| `pipeline_two` | is coverage never lost; does a gap rest only with a way out or a reason? | 2 invoices of a tenant, 2 workers, a withheld snapshot of each container, a day without any | 341 000 |
| `seal_and_send` | are authority, drafts, attempts and deliveries consistent? | 3 revisions, 2 + 2 keys, 2 rollbacks | |
| `ingestion` | one invoice per file and one answer per key under overlapping, dying uploads | 3 keys, 2 files, 3 requests | |
| `event_stream` | is an event skipped, sent twice or left behind? | 2 invoices, 3 events, 2 writers, 2 relays, 1 browser | 134 000 |
| `token_rotation` | is a spent token presented, does the chain of bundles break, is a rotation called for? | one caller of each kind, 3 bundles | 3 330 000 |
| `daily_recording` | are days whole, bytes kept, "unchanged" true, verdicts lasting? | 1 page, 2 overlapping runs, 2 contents, 2 days | 172 000 |
| `decision` | can a recommendation be recomputed, is it sourced, does it balance? is a rule what all passing clauses say, is a receipt's clause the nearest that passes, and does it abstain for a reason? | 7 retained rows, 2 clauses, 2 billed sets, rates 1 and 3; a library of 7 clauses, limit 2, multiplier 2 | 324 000 |
| `receipt_trail` | are answers bound to their evidence, is a case sealed once, does its seal verify? | 1 filed and 1 bare case, 3 captures, 2 runs, 2 approvers, 1 contest | 580 000 |
| `send_twice` | a claim of the code's comments that the code does not keep | section 6 | |

What each property says, and the code it is about, is in the comment above it. Deadlock is
checked in `receipt_trail`, whose report can always be asked for. The other systems may
stop: all tasks are settled, all keys used, or the humans do nothing.

### Bounds

- `AttemptBound[t]`: attempts of task t before this number may be interrupted, lose
  their lease by time or crash; the one with this number is let finish. It bounds the
  otherwise endless reclaiming. Two suffices for an old and a new lease to coexist, three
  for two old ones; the extraction in `queue` has three.
- `MaxAutomaticAttempts` is 3 in the code and 2 or 1 here: a retry that is scheduled and a
  last attempt that is not are both reached. The proofs have any value.
- `ExtractVersions`: the operator's retries plus one. Two are enough for a retry that meets
  an old lease.
- `OneSecondAttempt` is the state constraint of `pipeline_overlap`: in one behaviour one
  task, of any kind, needs a second attempt. The handlers interact through follow-up tasks
  that exist only after the first commit, so a second interrupted task repeats the
  situation; and what that run checks is proved without the constraint. No liveness property
  is checked under a constraint.
- `pipeline_two`: no attempt is interrupted, and by the constraint `AccessOnly` nothing is
  sealed and no day lacks anything but its snapshot: what is left is how two invoices take,
  release, bind and refuse each other's snapshots under reads outside the transactions. Each
  invoice bills a day whose snapshot is withheld, one of them also a day without any. The
  theorems hold without the constraint.
- `MaxRevisions = 3` lets a sealed revision be followed by an incomplete and again by a
  complete one; `MaxRollbacks = 2` lets both sends, or one send twice, be rolled back.
- `MaxVersions = 2` S3 versions per source; the second is never reached.
- `MaxClock = 1` gives two transactions either order of time and of commit; `MaxFaults = 1`
  a dying relay or a dropped connection, `MaxResets = 1` a reset under an open stream.
  `PageLimit = 1` makes each page a full one, `RelayBatch = 2` leaves a row for the other
  relay. The proofs have no such limits.
- `MaxBundles = 3` lets a bundle be rotated by one caller, be lost, and be replaced by a
  re-mint which is rotated in turn.
- `LastDay = 1` is one midnight, which is all a run can straddle; `MaxRows = 1` bounds
  repeated FAILED rows of one day.
- `decision` checks `Determination` and `ClauseRetrieval`, which have no variable in common,
  each while the other is where it began (`MCDecision`). In the first, the rows of `MCRow`
  hold free time ending twice, a gate-out of another container, and two access snapshots,
  one dated by its claim and one by its instant, which falls on another day in UTC than in
  the scenario's zone. Any of them is known before or after the arrival. The invoice bills
  days in and out of the window, on which a clause is in effect or not, at a rate below, at
  or above that of one of the two clauses.
- `decision`, in the retrieval: with a limit of 2 and a multiplier of 2, six embedded
  clauses overflow both the search's pool and its answer; among them are an expired and a
  rejected one, two that contradict each other in part of the time, one that does not quote
  the expected rate, some of the other consumer's unit that rank before the receipt's own,
  and one that its source does not bear out.
- Symmetry: the keys, files and requests of `ingestion`, the keys of `seal_and_send`, the
  contents of the page in `daily_recording`, and the runs and approvers of `receipt_trail`
  are interchangeable: nothing orders or names them. No liveness
  property is checked under symmetry.

### Fairness

`app.py:66-75` polls for ever and sleeps at most a little between iterations, each stage
claims if it finds a claimable row, and an iteration with a lease finishes or dies. Hence
weak fairness of claiming each task, of each worker's own step and of the clock. Claims
take the oldest row first, so a row cannot be overtaken for ever. Nothing is assumed about
humans: releases, retries, approvals and sends may never come, and no crash is ever
required. `EveryTaskSettles` and `EveryInvoiceConcludes` also rest on `AttemptBound`: a task
that kills every worker is reclaimed for ever (`RetriesBounded`, section 6).

In `EventStream`, `LockBatch` and `Deliver` of each relay are weakly fair, since every
iteration relays (`intake_runtime.py:95-117`), and so is the stream's own step: the
generator polls until it is closed, and an EventSource reconnects by itself. Connections
that drop, relays that die and writers that never commit are not required of anybody;
`EveryEventArrives` speaks of events that were published.

## 5. The proofs

Eight modules carry theorems; each holds for any value of the constants that the named
assumptions of its module admit. `EvidenceProofs` and `DecisionProofs` are each about two
components that share no state. In all of them the proof that a step keeps the inductive
invariant has one part per action, and under it one per conjunct the action can disturb.

**`TaskQueueProofs`** (`TaskKinds`, `NullAssumption`, `AttemptAssumption`)

| theorem | statement |
|---|---|
| `TypeCorrect` | `Spec => []TypeOK` |
| `EffectCommittedOnce` | `Spec => []EffectOnce` |
| `LeasesFenced` | `Spec => [](LeaseUnique /\ CurrentLeaseIsNewest)` |
| `AttemptHistory` | `Spec => []RowsTellHistory` |
| `EndedAttemptsKept` | `Spec => AttemptRowsFinal` |
| `QueueImplementsOnce` | `Spec => OnceSpec` |

`LeaseUnique` and `CurrentLeaseIsNewest` are not inductive: a claim hands out
`attempt + 1`, so one must know that no lease in some worker's memory already carries that
number. `FenceInv` adds `LeaseInv`: every lease has an attempt no greater than its task's,
and the lease with the newest attempt of a running task belongs to the row's owner. The
second half is what makes the weaker lease check of BIND_ACCESS_EVIDENCE sufficient: with
only the owner compared, an old lease of the *same* worker would pass, and the proof needs
that a worker holds one lease at a time and takes a fresh one with each claim, as the fresh
`worker_id` of each iteration guarantees. `RowsTellHistory` is inductive given `FenceInv`,
and `AttemptRowsFinal` follows from it. The refinement maps `Complete` to `Commit`, a final
`Fail` to `GiveUp`, `Insert` to `Create` and every other step to a stutter.

**`PipelineProofs`** (`SnapshotAssumption`, `ExtractAssumption`)

| theorem | statement |
|---|---|
| `PipelineUsesQueue` | `Spec => QueueSpec` |
| `ClaimedOnce` | `Spec => []OneClaimSet` |
| `OneBinding` | `Spec => []OneBindingAtATime` |
| `IdleSettled` | `Spec => []IdleIsSettled` |
| `QuietDecision` | `Spec => []DecisionIsQuiet` |
| `BackedReview` | `Spec => []ReviewIsBacked` |
| `BindInvariance` | `Spec => []BindInv` |
| `BindingLifts` | `Spec => []BindingLiftsCoverage` |
| `GapOffered` | `Spec => []GapHasWayOut` |

The five properties are about what is left behind by handlers that hand over to one
another, so the invariant says where the work of an invoice is. `TokenInv`: one of its
tasks at most can still run, whatever its kind. `OrderInv`: each task has a completed
predecessor, and the rule search and judgment that can run are those of the newest
revision. `StandingInv`: what the status is when no task can run, while a binding can, and
after a decision. They rest on `RevisionInv` — revisions of an invoice differ in the
snapshot that triggered them, so by counting there is always a version left for the next
one — and on `ExtractInv`: an extraction is retried only after the one before FAILED, so a
second claim set has no task to come from. `PipelineUsesQueue` is the composition: every
handler is a step of the queue or leaves it alone. What `TaskQueueProofs` shows of
`TaskQueue!Spec` is thereby about the pipeline's tasks, by substitution.

The two theorems on the withheld evidence have no hypothesis about what the tenant
withholds: the binding that a refusal holds may name another container's snapshot and then
lifts nothing, but no binding loses anything either. `BindInv` stands on the invariant
above. `MemoryInv`: what a worker with a current lease has read outside any transaction is
still visible, and covers every day that the newest revision covers, and the bound
snapshot's if that is an own one, for as long as the worker may write. `GapInv`: memory shows
at least what the newest revision saw; bindings, and the reconstructions after them, are
about a revision with a gap, and such a reconstruction about a snapshot that is VERIFIED.
`CoverInv` and `OfferInv` are the two properties for one invoice. They rest on snapshots
being VERIFIED for good, by any invoice's binding (`VisibleGrows`, `LackingShrinks`), and on
there being one reconstruction at a time (`GapStays`).

**`SealAndSendProofs`** (`RevisionAssumption`, `RollbackAssumption`, `NoDraftAssumption`)

| theorem | statement |
|---|---|
| `TypeCorrect` | `Spec => []TypeOK` |
| `SealsFollowApprovals` | `Spec => []SealsMatchApprovals` |
| `MailIsAuthorized` | `Spec => []DeliveryIsAuthorized` |
| `RecordsKept` | `Spec => RecordsFinal` |
| `SentOnComplete` | `Spec => SentOnCompleteMemory` |

`SealsMatchApprovals` carries itself: the guard of `Approve` is that no approval of the
version exists, and the correspondence turns it into "no seal exists", hence the next
number is new. The others need two facts about what is not committed yet. `DraftInv`: only
sealed versions are drafted. `CallInv`: while a send is between the provider and its
COMMIT, its key has no record, its draft is valid, the mail is out, and the memory that was
read is complete. With the commit's condition that what was read still holds, the last
conjunct gives `SentOnComplete`; the first gives that the commit overwrites nothing.
`Monotone` collects what no step withdraws and is used by every part.

**`EvidenceProofs`** (of `Ingestion`: `NoneAssumption`; of `ReceiptTrail`:
`TimesAssumption`, `NullAssumption`)

| theorem | statement |
|---|---|
| `TypeCorrect` | `Spec => []TypeOK` |
| `FileHasOneAnswer` | `Spec => []SameFileSameInvoice` |
| `AnswerMatchesFile` | `Spec => []AnswerIsOwnFile` |
| `SourceStoredOnce` | `Spec => [](SourceIsPreserved /\ PreservedOnce)` |
| `AnswersKept` | `Spec => AnswersFinal` |
| `TrailTypeCorrect` | `TrailSpec => []TrailTypeOK` |
| `ReceiptIsOwn` | `TrailSpec => []AnswersAreBound` |
| `SealsStand` | `TrailSpec => []SealsVerify` |
| `SealIsFinal` | `TrailSpec => SealedOnce` |

`SameFileSameInvoice` says nothing about the requests between two steps, and those write
the answers. `RequestInv` says of each what it may rely on: a request past its reservation
holds its key's file, one that found a duplicate holds an invoice of the same file.
`SoleInv`: a RESERVED key is served by at most one request. `KeyInv`: how far the row of a
key has come tells whether its file and its source are known. `OneInvoicePerFile` is what
the unique index gives, and closes the gap of the unlocked lookup.

`TrailInv` is the invariant of the receipt trail. `CasesInv`: a case has three versions at
most, as filed, as sealed and as contested, each with the evidence of the first and the
last two with one seal; that is why a replay as of the seal and a report of today agree.
`RunsInv` says of a run between its transactions that its evidence is on file, that it
files an overcharge only, and that it reads back a case only where one exists: the loser of
the race needs it. `PeopleInv` says that the answer to a press names the sealed version,
and that a verifier between its two reads holds a version that was once committed. Rows
that evidence rests on are never replaced (`RowsKept`), so it still verifies.

**`EventStreamProofs`** (`InvoiceAssumption`, `LimitAssumption`, `BoundAssumption`,
`NoneAssumption`)

| theorem | statement |
|---|---|
| `TypeCorrect` | `Spec => []TypeOK` |
| `SentOnce` | `Spec => []NeverTwice` |
| `NothingElseLost` | `Spec => []NothingElseSkipped` |

`NumberInv`: an event carries a number its invoice has given out, so a new one was never
seen. `LockInv`: two relays hold disjoint rows, all of them pending. `CursorInv`: the cursor
is the greatest event received. `PageInv` closes the gap between a poll and the last event
of its page: between the cursor and an event of the page lies nothing but the page, and
what became DELIVERED meanwhile is in `missed`.

**`TokenRotationProofs`** (`CallerKinds`, `BundleAssumption`, `NoneAssumption`)

| theorem | statement |
|---|---|
| `TypeCorrect` | `Spec => []TypeOK` |
| `NoReuse` | `Spec => []SpentNeverPresented` |
| `ParameterAlive` | `Spec => []ChainAlive` |
| `RotationJustified` | `Spec => []RotationHasCause` |

`LeaseInv`: as long as no lease has run out under its holder, only its holder is between
acquiring and releasing. `FreshInv`: the bundle a caller has got and not yet written is known to it
alone and unspent, hence its put never brings back an old one. `PostInv` is the property
one step earlier, for a caller that has read and not yet presented. `CauseInv` relates the
401 a reader remembers to the token it is about to replace.

**`DailyRecordingProofs`** (`RunKinds`, `CalendarAssumption`, `RowsAssumption`,
`NoneAssumption`)

| theorem | statement |
|---|---|
| `TypeCorrect` | `Spec => []TypeOK` |
| `DaysAreWhole` | `Spec => []DayIsWhole` |
| `BytesLanded` | `Spec => []BytesKept` |
| `UnchangedTraced` | `Spec => []UnchangedHasOrigin` |
| `VerdictKept` | `Spec => VerdictStands` |

`BytesInv` says the bytes are there as soon as a run has passed the step that stores them,
so a manifest written later can rely on it. `PointerInv` follows the digest: what the
rolling pointer holds, what a run has read from it and what a run is about to write to it is
a digest that some recorded day introduced as "changed". A manifest is never replaced, so
the origin stays, and a run that writes "unchanged" passes on the origin of what it read.
`FailedInv` is what `DayIsWhole` needs of the days that were recorded as failed.

**`DecisionProofs`** (of `Determination`: `RowAssumption`, `ClauseAssumption`,
`InvoiceAssumption`; of `ClauseRetrieval`: `TariffClauseAssumption`, `LimitAssumption`,
`PeriodAssumption`)

| theorem | statement |
|---|---|
| `Reproducible` | `Spec => []FrozenReproduces` |
| `AmountsAddUp` | `Spec => []AmountsBalance` |
| `SourcedDecision` | `Spec => []DecisionIsSourced` |
| `UnanimousRule` | `RetrievalSpec => []RuleIsUnanimous` |
| `NearestSelection` | `RetrievalSpec => []SelectionIsNearest` |

`RecommendationDepends` shows the recommendation to be a function of what may be read, and
`MemoryInv` that nothing learned after the arrival enters what is read except through a
binding, which a frozen revision does not use. The balance is arithmetic over the
cardinalities of the days billed and sourced.

`RetrievalInv` says that a rule and a choice rest on the hits of one search, and those on
the library as it was then. What the properties say of the library is in the lemmas:
`AllWithinLimit` (an approximate search of no more clauses than its limit misses none),
`HitsAre` (what the two cuts together may miss) and `FirstIs` (of the clauses that pass, the
pick is the nearest). The last rests on ids being unique, the
primary key of `tariff_clauses`, which breaks the ties of the distance.

**Only model-checked**: liveness (`EveryTaskSettles`, `EveryInvoiceConcludes`,
`EveryEventArrives`), since the prover handles neither liveness under fairness nor ENABLED.
Every safety property of a passing run is a theorem. No module declares a RECURSIVE
operator, so nothing computed by recursion over data had to be left out.

## 6. Findings

One run is expected to violate its property, and TLC prints the counterexample:

- **A send can be delivered twice** (`send_twice`): the provider is called inside the
  function `run_with_retry` runs again, under a key made from an id drawn inside it.

The other disagreements are kept as configurations to be run by hand (`tlc -config X.cfg M`):

| configuration (module) | property violated | the code against |
|---|---|---|
| `MCTaskQueueRetries` (`MCTaskQueue`) | `RetriesBounded` | the claim takes any RUNNING row whose lease expired, only `fail_*` looks at MAX_AUTOMATIC_ATTEMPTS; README.md:151, "bounded retries" |
| `MCWithheldJudged` (`MCInvoicePipeline`) | `WithheldIsJudged` | an incomplete reconstruction without a verified rule is never judged; `reconstruction_repository.py:454-456`. A later comment, `applicable_rule_repository.py:307-308`, says the opposite |
| `MCHeldSnapshot` (`MCInvoicePipeline`) | `HeldSnapshotIsOwn` | the held binding may name another invoice's snapshot: the query joins on the tenant alone; `judgment_repository.py:248-250` |
| `MCStaleSeal` (`MCInvoicePipeline`) | `StaleNeverSealed` | a replaced recommendation can still be sealed: the expected version is compared with the requested row, never with the newest; `authority_seal_repository.py:8-9` |
| `MCStaleCursor` (`MCEventStream`) | `UnknownCursorReported` | only the first poll of a connection reports a cursor whose event is gone; one deleted later leaves the stream silent; `intake_events.py:136-142` |
| `MCApprovedAsClaimed` (`MCDetermination`) | `ApprovedAsClaimed` | opposite rate differences cancel in the sum; the reason text of `judgment.py`, "rates match" |
| `MCSnapshotIsLocal` (`MCDetermination`) | `SnapshotIsLocal` | a snapshot is matched by UTC date where days are the scenario's local ones; `core/reconstruction.py:248-252` against 338 |
| `MCRunTwice` (`MCDailyRecording`) | `RunTwiceSameRows` | a failed day gets a further FAILED row; `commit.py`, "produces the same rows" |
| `MCSameBytes` (`MCDailyRecording`) | `SameBytes` | a racing run's body of another content replaces the one whose digest the manifest records; `handler.py:509-510`, "same bytes" |

Observed in passing, without a configuration:

- The gates look at the newest reconstruction rather than at the sealed one; a
  SEND_FAILED_RETRYABLE attempt replays its failure for ever under its key; a SENT after
  SEND_FAILED leaves the status SEND_FAILED.
- An upload that dies while RESERVED blocks its key for good.
- `fail_judgment` leaves the invoice RECONSTRUCTING, the exception named in `IdleIsSettled`.
- A held binding takes the tenant's earliest PENDING snapshot. If that one is refused, it stays
  the earliest, and later snapshots of the invoice's own container are never bound for it.
  With two invoices in flight, a snapshot that one of them needs may be bound by the other,
  which verifies it but queues no reconstruction for its owner. These are the exceptions in
  `GapHasWayOut`; a day whose snapshot was never retained is a gap for good.
- `reconstruction_mcp.py:5-9` promises that there is no fallback to the database, the
  pipeline falls back to the driver.
- The docstring of `lambda_handler` promises an explicit "failed" manifest when time is
  short; none is written. The failed manifest of the first scheduled run keeps its retry from
  recording the day.
- The browser never forwards `stream.reconcile_required`.
- "Unchanged" may be justified by a later day: a run that straddles midnight reads a pointer
  that the next day's run has moved.
- The rule worker fixes the phrase a clause must quote to "$250"
  (`applicable_rule_worker.py:40`, `:95`): an in-scope, verified clause of another rate is
  rejected for its text and does not make a conflict, as `test_applicable_rule_core.py:159-172`
  notes. The conflict that `RuleIsUnanimous` speaks of is one among clauses that quote it.
- The worker accepts the unit CALENDAR_DAY, the receipt per_day: no clause serves both. The
  receipt's filter does not look at the unit, so a nearer clause of the other unit, or one whose
  text does not state its rate, makes the receipt abstain where a farther one would do.
- The search's cut to its five best hits may hide a clause that applies, or one that
  contradicts. A receipt's clause without an embedding makes a later seed of it conflict.

## 7. What is not modelled

- **Demo restore**: the reseeding of rows, and a restore against running leases. Its reset
  of the event stream is in `EventStream`.
- **Authentication, user interface, evaluation scripts, deployment**: stateless checks,
  presentation, reports.
- The order of the stages inside one iteration, and that one iteration runs them one after
  the other: every worker may claim any kind of task, which allows more behaviours.
- In `TokenRotation`: providers that do not rotate refresh tokens, a grant that lapses when
  idle, the revocation after a bootstrap whose save failed. Of the public replay, its retention
  check.
- In `Determination`: the chronology of pinned dates, the decimal text of amounts, reason
  codes. In `ReceiptTrail`: the fixture of an adversarial contest and the clerk's other
  rules, the source-hash check of the replay. In `ClauseRetrieval`: embeddings beyond their
  distance to the query, the single checks behind `fits`, `intact` and `sound`. Digests are
  identities.
- The text of events, prompts and correspondence; the query log of `DAL`; the status report
  of the captures beyond its verdict.
- Model, MCP and vector answers are arbitrary choices among the outcomes the handlers tell
  apart, failures included.
