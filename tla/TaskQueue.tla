----------------------------- MODULE TaskQueue -----------------------------
(***************************************************************************)
(* The lease protocol of workflow_tasks / workflow_task_attempts that the  *)
(* five workers of src/platform share: intake_tasks, the reconstruction,   *)
(* applicable_rule, judgment and access_evidence repositories.             *)
(*                                                                         *)
(* A repository function is one SERIALIZABLE transaction (run_with_retry), *)
(* so it is one action.  What lies between the claim and the completion -- *)
(* Bedrock, Managed MCP, S3 -- is the time in which the lease may expire,  *)
(* the task be claimed again, or the worker die.                           *)
(***************************************************************************)
EXTENDS Integers, Sequences

CONSTANTS
  Task,                  \* rows of workflow_tasks that can come to exist
  ExtractTask,           \* those of type EXTRACT_INVOICE_CLAIMS
  BindTask,              \* those of type BIND_ACCESS_EVIDENCE
  Worker,                \* runtime iterations in flight, each a fresh worker_id
  NoWorker,              \* lease_owner IS NULL
  NoLease,               \* the worker has no TaskLease object
  MaxAutomaticAttempts,  \* MAX_AUTOMATIC_ATTEMPTS, 3 in the code
  AttemptBound           \* bound: attempt AttemptBound[t] of t is never interrupted

ASSUME TaskKinds ==
  /\ ExtractTask \subseteq Task
  /\ BindTask \subseteq Task
  /\ ExtractTask \cap BindTask = {}

Lease == [task : Task, attempt : Nat \ {0}]

ASSUME NullAssumption == NoWorker \notin Worker /\ NoLease \notin Lease

ASSUME AttemptAssumption == MaxAutomaticAttempts \in Nat \ {0}

ASSUME BoundAssumption == AttemptBound \in [Task -> Nat \ {0}]

VARIABLES
  state,     \* workflow_tasks.state; "ABSENT" while the row does not exist
  attempt,   \* workflow_tasks.current_attempt
  owner,     \* workflow_tasks.lease_owner
  due,       \* lease_expires_at < now() (RUNNING), not_before <= now() (RETRY_WAIT)
  row,       \* workflow_task_attempts.state of attempts 1, 2, ... of each task
  lease,     \* the TaskLease object each worker has in memory
  commits    \* history: transactions that committed the task's effect

vars == <<state, attempt, owner, due, row, lease, commits>>

-----------------------------------------------------------------------------
Terminal == {"COMPLETED", "FAILED", "BLOCKED"}

TaskState == {"ABSENT", "HELD", "PENDING", "RUNNING", "RETRY_WAIT"} \cup Terminal

RowState == {"RUNNING", "COMPLETED", "RETRY_WAIT", "FAILED", "BLOCKED"}

\* The type invariant of the task rows, the attempt rows and the leases.
TypeOK ==
  /\ state \in [Task -> TaskState]
  /\ attempt \in [Task -> Nat]
  /\ owner \in [Task -> Worker \cup {NoWorker}]
  /\ due \in [Task -> BOOLEAN]
  /\ row \in [Task -> Seq(RowState)]
  /\ lease \in [Worker -> Lease \cup {NoLease}]
  /\ commits \in [Task -> Nat]

Init ==
  /\ state = [t \in Task |-> "ABSENT"]
  /\ attempt = [t \in Task |-> 0]
  /\ owner = [t \in Task |-> NoWorker]
  /\ due = [t \in Task |-> FALSE]
  /\ row = [t \in Task |-> <<>>]
  /\ lease = [w \in Worker |-> NoLease]
  /\ commits = [t \in Task |-> 0]

-----------------------------------------------------------------------------
\* A gap-driven binding task is created HELD, every other task PENDING.
Created(t) == IF t \in BindTask THEN "HELD" ELSE "PENDING"

\* A task row is inserted with ON CONFLICT DO NOTHING: once per identity.
Insert(t) ==
  /\ state[t] = "ABSENT"
  /\ state' = [state EXCEPT ![t] = Created(t)]
  /\ UNCHANGED <<attempt, owner, due, row, lease, commits>>

\* release_access_evidence: an authenticated user lets the held task run.
Release(t) ==
  /\ t \in BindTask
  /\ state[t] = "HELD"
  /\ state' = [state EXCEPT ![t] = "PENDING"]
  /\ UNCHANGED <<attempt, owner, due, row, lease, commits>>

\* An expired lease is never taken over.
ClaimableNoReclaim(t) ==
  state[t] = "PENDING" \/ (state[t] = "RETRY_WAIT" /\ due[t])

\* The WHERE clause of the claim.  A lease that expired is claimable however
\* many attempts were made.
Claimable(t) ==
  \/ state[t] = "PENDING"
  \/ state[t] \in {"RETRY_WAIT", "RUNNING"} /\ due[t]

\* The claim leaves lease_owner alone when it takes over an expired lease.
ClaimKeepsOwner(w, t) ==
  /\ lease[w] = NoLease
  /\ Claimable(t)
  /\ state' = [state EXCEPT ![t] = "RUNNING"]
  /\ attempt' = [attempt EXCEPT ![t] = @ + 1]
  /\ owner' = [owner EXCEPT ![t] = IF @ = NoWorker THEN w ELSE @]
  /\ due' = [due EXCEPT ![t] = FALSE]
  /\ row' = [row EXCEPT ![t] = Append(@, "RUNNING")]
  /\ lease' = [lease EXCEPT ![w] = [task |-> t, attempt |-> attempt[t] + 1]]
  /\ UNCHANGED commits

\* claim_next_*_task: SELECT ... FOR UPDATE SKIP LOCKED LIMIT 1.  The oldest
\* claimable row is taken, but rows locked by another claim are skipped, so
\* any claimable row may be the one.
Claim(w, t) ==
  /\ lease[w] = NoLease
  /\ Claimable(t)
  /\ state' = [state EXCEPT ![t] = "RUNNING"]
  /\ attempt' = [attempt EXCEPT ![t] = @ + 1]
  /\ owner' = [owner EXCEPT ![t] = w]
  /\ due' = [due EXCEPT ![t] = FALSE]
  /\ row' = [row EXCEPT ![t] = Append(@, "RUNNING")]
  /\ lease' = [lease EXCEPT ![w] = [task |-> t, attempt |-> attempt[t] + 1]]
  /\ UNCHANGED commits

\* The lease check does not look at the state of the task.
LeaseIgnoresState(w) ==
  /\ lease[w] # NoLease
  /\ LET t == lease[w].task IN attempt[t] = lease[w].attempt

\* _assert_current_lease and its siblings.  The expiry time is read but not
\* compared: a worker that outlived its lease may still complete, as long as
\* nobody claimed the task in the meantime.  The access-evidence variant does
\* not compare the attempt.
LeaseCurrent(w) ==
  /\ lease[w] # NoLease
  /\ LET t == lease[w].task
     IN  /\ state[t] = "RUNNING"
         /\ t \in BindTask \/ attempt[t] = lease[w].attempt
         /\ owner[t] = w

\* What a transaction leaves in the worker: the lease is used up, or the
\* answer to the COMMIT is lost and the worker goes on to its failure path.
AfterCommit(w) ==
  \/ lease' = [lease EXCEPT ![w] = NoLease]
  \/ UNCHANGED lease

\* The UPDATE of workflow_task_attempts, by task and attempt number.
SetRow(w, s) ==
  LET t == lease[w].task
  IN  row' = [row EXCEPT ![t][lease[w].attempt] = s]

\* The tasks a completion may hand over to: none or one.
FollowUps == {{}} \cup {{t} : t \in Task}

\* complete_extraction, complete_reconstruction, complete_rule,
\* complete_judgment, complete_access_binding: the effect, the task row, the
\* attempt row and the follow-up tasks new commit together.  The
\* access-evidence _finish_task leaves the attempt row RUNNING.
Complete(w, new) ==
  LET t == lease[w].task
  IN  /\ LeaseCurrent(w)
      /\ state' = [u \in Task |->
                    IF u = t THEN "COMPLETED"
                    ELSE IF u \in new /\ state[u] = "ABSENT" THEN Created(u)
                    ELSE state[u]]
      /\ owner' = [owner EXCEPT ![t] = NoWorker]
      /\ due' = [due EXCEPT ![t] = FALSE]
      /\ IF t \in BindTask THEN UNCHANGED row ELSE SetRow(w, "COMPLETED")
      /\ commits' = [commits EXCEPT ![t] = @ + 1]
      /\ AfterCommit(w)
      /\ UNCHANGED attempt

\* The off-by-one in the retry budget.
WillRetryOneMore(w, retryable) ==
  retryable /\ lease[w].attempt <= MaxAutomaticAttempts

WillRetry(w, retryable) ==
  retryable /\ lease[w].attempt < MaxAutomaticAttempts

\* The terminal state of a task whose last attempt failed.
DeadState(t) == IF t \in ExtractTask THEN "FAILED" ELSE "BLOCKED"

\* fail_extraction, fail_reconstruction, fail_rule, fail_judgment.  The
\* access-evidence worker has no failure path.
Fail(w, retryable) ==
  LET t == lease[w].task
      s == IF WillRetry(w, retryable) THEN "RETRY_WAIT" ELSE DeadState(t)
  IN  /\ LeaseCurrent(w)
      /\ t \notin BindTask
      /\ state' = [state EXCEPT ![t] = s]
      /\ owner' = [owner EXCEPT ![t] = NoWorker]
      /\ due' = [due EXCEPT ![t] = FALSE]
      /\ SetRow(w, s)
      /\ AfterCommit(w)
      /\ UNCHANGED <<attempt, commits>>

\* TaskLeaseLostError: the transaction rolled back, the iteration ends.
LoseLease(w) ==
  /\ lease[w] # NoLease
  /\ ~LeaseCurrent(w)
  /\ lease' = [lease EXCEPT ![w] = NoLease]
  /\ UNCHANGED <<state, attempt, owner, due, row, commits>>

\* The process dies, or an exception outside the worker's try block ends the
\* iteration: nothing is recorded and the row stays RUNNING.
Crash(w) ==
  /\ lease[w] # NoLease
  /\ lease[w].attempt < AttemptBound[lease[w].task]
  /\ lease' = [lease EXCEPT ![w] = NoLease]
  /\ UNCHANGED <<state, attempt, owner, due, row, commits>>

\* now() passes lease_expires_at or not_before.
ClockPasses(t) ==
  /\ ~due[t]
  /\ \/ state[t] = "RETRY_WAIT"
     \/ state[t] = "RUNNING" /\ attempt[t] < AttemptBound[t]
  /\ due' = [due EXCEPT ![t] = TRUE]
  /\ UNCHANGED <<state, attempt, owner, row, lease, commits>>

WorkerStep(w) ==
  \/ \E new \in FollowUps : Complete(w, new)
  \/ \E retryable \in BOOLEAN : Fail(w, retryable)
  \/ LoseLease(w)

Next ==
  \/ \E t \in Task : Insert(t) \/ Release(t) \/ ClockPasses(t)
  \/ \E w \in Worker, t \in Task : Claim(w, t)
  \/ \E w \in Worker : WorkerStep(w) \/ Crash(w)

Spec == Init /\ [][Next]_vars

\* The runtime loop polls for ever, a poll that finds a claimable row claims
\* one, an iteration that claimed ends, and the database clock advances.
Fairness ==
  /\ \A t \in Task : WF_vars(\E w \in Worker : Claim(w, t))
  /\ \A w \in Worker : WF_vars(WorkerStep(w))
  /\ \A t \in Task : WF_vars(ClockPasses(t))

FairSpec == Spec /\ Fairness

-----------------------------------------------------------------------------
\* Properties.

\* The effect of a task is committed at most once, and exactly when the row
\* ends COMPLETED: expired leases, repeated claims and lost COMMIT answers
\* never apply a completion twice, and no failure follows a completion.
EffectOnce ==
  \A t \in Task : commits[t] = IF state[t] = "COMPLETED" THEN 1 ELSE 0

\* The attempt number is a fencing token: no two workers ever hold leases of
\* one task with the same attempt, so the attempt rows they write differ.
LeaseUnique ==
  \A v, w \in Worker :
    /\ v # w
    /\ lease[v] # NoLease
    /\ lease[w] # NoLease
    /\ lease[v].task = lease[w].task
    => lease[v].attempt # lease[w].attempt

\* A worker whose task was claimed again can no longer complete or fail it.
\* For BIND_ACCESS_EVIDENCE this rests on the owner alone: its _assert_lease
\* does not compare the attempt.
CurrentLeaseIsNewest ==
  \A w \in Worker :
    LeaseCurrent(w) => lease[w].attempt = attempt[lease[w].task]

\* The attempt rows tell the task's history: one row per claim; the earlier
\* ones were abandoned (RUNNING) or scheduled a retry; a retry was scheduled
\* only within the budget; the last one agrees with the task, except that the
\* binding task never closes its row.
RowsTellHistory ==
  \A t \in Task :
    /\ Len(row[t]) = attempt[t]
    /\ \A n \in 1 .. attempt[t] :
         /\ n < attempt[t] => row[t][n] \in {"RUNNING", "RETRY_WAIT"}
         /\ n = attempt[t] =>
              row[t][n] = IF t \in BindTask THEN "RUNNING" ELSE state[t]
         /\ row[t][n] = "RETRY_WAIT" => n < MaxAutomaticAttempts

\* What was recorded of an attempt that ended is never rewritten, whatever a
\* worker that lost its lease or the answer to its COMMIT does afterwards.
AttemptRowsFinal ==
  [][\A t \in Task : \A n \in 1 .. Len(row[t]) :
        row[t][n] # "RUNNING" => row'[t][n] = row[t][n]]_vars

\* The queue implements TaskOnce: claims, leases, expiries and retries are
\* invisible, and every task is done once or given up.
Outcome ==
  [t \in Task |->
     IF state[t] = "ABSENT" THEN "none"
     ELSE IF state[t] = "COMPLETED" THEN "done"
     ELSE IF state[t] \in Terminal THEN "dead" ELSE "open"]

Once == INSTANCE TaskOnce WITH outcome <- Outcome, effects <- commits

OnceSpec == Once!Spec

\* A task that may run is settled in the end, even when its workers die: the
\* next poll after the lease expired takes it over.
EveryTaskSettles ==
  \A t \in Task : state[t] = "PENDING" ~> state[t] \in Terminal

\* README.md: "durable workflow_tasks (leases, bounded retries)".
RetriesBounded == \A t \in Task : attempt[t] <= MaxAutomaticAttempts

=============================================================================
