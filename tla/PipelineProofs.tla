--------------------------- MODULE PipelineProofs ---------------------------
(***************************************************************************)
(* Proofs about InvoicePipeline, for any invoices, snapshots, retries and   *)
(* workers: every handler uses the task table by the lease protocol of     *)
(* TaskQueue, an invoice gets one claim set, one of its tasks at a time    *)
(* can run, its status tells how the last one ended, and a decision rests  *)
(* on the newest evidence.  A binding loses no day that was covered, and a  *)
(* gap that was judged has a way out as long as a snapshot is withheld.     *)
(***************************************************************************)
EXTENDS InvoicePipeline, FiniteSetTheorems, SequenceTheorems, TLAPS

\* The rows and leases that a handler takes its task from.
RowInv ==
  /\ state \in [Task -> Queue!TaskState]
  /\ attempt \in [Task -> Nat]
  /\ owner \in [Task -> Worker \cup {NoWorker}]
  /\ lease \in [Worker -> Queue!Lease \cup {NoLease}]

\* The revisions of an invoice differ in what triggered them, so there are no more
\* of them than snapshots, and the first.
RevisionInv ==
  /\ recon \in [Invoice -> Seq(Revision)]
  /\ view \in [Worker -> (SUBSET Snapshot) \cup {NoView}]
  /\ \A i \in Invoice : \A u, v \in 1 .. Len(recon[i]) :
       recon[i][u].key = recon[i][v].key => u = v

\* An extraction is retried only after it FAILED, and a claim set comes with an
\* extraction that COMPLETED.
ExtractInv ==
  /\ claimSets \in [Invoice -> Nat]
  /\ \A i \in Invoice : \A m, n \in 1 .. ExtractVersions :
       m < n /\ state[Extract(i, n)] # "ABSENT" => state[Extract(i, m)] = "FAILED"
  /\ \A i \in Invoice :
       \/ claimSets[i] = 0
       \/ claimSets[i] = 1 /\ \E n \in 1 .. ExtractVersions : state[Extract(i, n)] = "COMPLETED"

-----------------------------------------------------------------------------
\* Tasks.

\* The identity of a task tells its kind, its invoice and its key.
LEMMA TaskFields ==
  ASSUME NEW t \in Task
  PROVE  /\ t.inv \in Invoice
         /\ t.kind \in {"EXTRACT", "RECON", "RULE", "JUDGE", "BIND"}
         /\ t.kind = "EXTRACT" => t.key \in 1 .. ExtractVersions /\ t = Extract(t.inv, t.key)
         /\ t.kind = "RECON" => t.key \in Snapshot \cup {0}
         /\ t.kind \in {"RULE", "JUDGE"} => t.key \in Version
         /\ t.kind = "BIND" => t.key \in Snapshot
<1>1. CASE t \in ExtractTask
  BY <1>1 DEF ExtractTask, Extract
<1>2. CASE t \in ReconTask
  BY <1>2 DEF ReconTask, Recon
<1>3. CASE t \in RuleTask
  BY <1>3 DEF RuleTask, Rule
<1>4. CASE t \in JudgeTask
  BY <1>4 DEF JudgeTask, Judge
<1>5. CASE t \in BindTask
  BY <1>5 DEF BindTask, Bind
<1>6. QED
  BY <1>1, <1>2, <1>3, <1>4, <1>5 DEF Task

\* An extraction, as a task, is of no other kind.
LEMMA ExtractTasks ==
  /\ \A i \in Invoice, n \in 1 .. ExtractVersions :
       Extract(i, n) \in Task /\ Extract(i, n).kind = "EXTRACT"
  /\ \A i, j, m, n : Extract(i, m) = Extract(j, n) => i = j /\ m = n
  /\ \A t \in Task : t.kind = "EXTRACT" => t \notin BindTask
<1>1. \A i \in Invoice, n \in 1 .. ExtractVersions :
        Extract(i, n) \in Task /\ Extract(i, n).kind = "EXTRACT"
  BY DEF Extract, ExtractTask, Task
<1>2. ASSUME NEW i, NEW j, NEW m, NEW n, Extract(i, m) = Extract(j, n) PROVE i = j /\ m = n
  <2>1. Extract(i, m).inv = Extract(j, n).inv /\ Extract(i, m).key = Extract(j, n).key
    BY <1>2
  <2>2. QED
    BY <2>1 DEF Extract
<1>3. \A t \in Task : t.kind = "EXTRACT" => t \notin BindTask
  BY DEF BindTask, Bind
<1>4. QED
  BY <1>1, <1>2, <1>3

\* The tasks that completions hand over to.
LEMMA NextTasks ==
  ASSUME NEW i \in Invoice
  PROVE  /\ \A s \in Snapshot \cup {0} : Recon(i, s) \in Task /\ Recon(i, s).kind = "RECON"
         /\ \A v \in Version : Rule(i, v) \in Task /\ Rule(i, v).kind = "RULE"
         /\ \A v \in Version : Judge(i, v) \in Task /\ Judge(i, v).kind = "JUDGE"
         /\ \A s \in Snapshot : Bind(i, s) \in BindTask /\ Bind(i, s) \in Task /\ Bind(i, s).kind = "BIND"
<1>1. \A s \in Snapshot \cup {0} : Recon(i, s) \in ReconTask /\ Recon(i, s).kind = "RECON"
  BY DEF Recon, ReconTask
<1>2. \A v \in Version : Rule(i, v) \in RuleTask /\ Rule(i, v).kind = "RULE"
  BY DEF Rule, RuleTask
<1>3. \A v \in Version : Judge(i, v) \in JudgeTask /\ Judge(i, v).kind = "JUDGE"
  BY DEF Judge, JudgeTask
<1>4. \A s \in Snapshot : Bind(i, s) \in BindTask /\ Bind(i, s).kind = "BIND"
  BY DEF Bind, BindTask
<1>5. QED
  BY <1>1, <1>2, <1>3, <1>4 DEF Task

\* The task that a worker is on.
LEMMA TaskOn ==
  ASSUME RowInv, NEW w \in Worker, NEW kind, On(w, kind)
  PROVE  lease[w].task \in Task /\ lease[w].task.kind = kind /\ Inv(w) \in Invoice
<1>1. lease[w] \in Queue!Lease
  BY DEF RowInv, On
<1>2. lease[w].task \in Task /\ lease[w].task.kind = kind
  BY <1>1 DEF Queue!Lease, On
<1>3. QED
  BY <1>2, TaskFields DEF Inv

-----------------------------------------------------------------------------
\* Revisions.

\* With a new trigger there is a version left.
LEMMA VersionLeft ==
  ASSUME NEW i \in Invoice, RevisionInv, NEW k \in Snapshot \cup {0},
         \A v \in 1 .. Len(recon[i]) : recon[i][v].key # k
  PROVE  Len(recon[i]) + 1 \in Version
<1> DEFINE n == Len(recon[i])
           T == (Snapshot \cup {0}) \ {k}
           f == [v \in 1 .. n |-> recon[i][v].key]
<1>1. n \in Nat /\ \A v \in 1 .. n : recon[i][v] \in Revision
  BY LenProperties, ElementOfSeq DEF RevisionInv
<1>2. \A v \in 1 .. n : recon[i][v].key \in T
  BY <1>1 DEF Revision
<1>3. f \in Injection(1 .. n, T)
  BY <1>2 DEF Injection, IsInjective, RevisionInv
<1>4. IsFiniteSet(Snapshot \cup {0}) /\ Cardinality(Snapshot \cup {0}) = Cardinality(Snapshot) + 1
  BY SnapshotAssumption, FS_AddElement
<1>5. IsFiniteSet(T) /\ Cardinality(T) = Cardinality(Snapshot)
  <2>1. Cardinality(Snapshot) \in Nat
    BY SnapshotAssumption, FS_CardinalityType
  <2>2. IsFiniteSet(T) /\ Cardinality(T) = Cardinality(Snapshot \cup {0}) - 1
    <3>1. \A S : IsFiniteSet(S) /\ k \in S =>
            IsFiniteSet(S \ {k}) /\ Cardinality(S \ {k}) = Cardinality(S) - 1
      BY FS_RemoveElement, Zenon
    <3>2. QED
      BY <1>4, <3>1, Zenon
  <2>3. QED
    BY <1>4, <2>1, <2>2
<1>6. Cardinality(1 .. n) <= Cardinality(T)
  BY <1>3, <1>5, FS_Injection
<1>7. Cardinality(1 .. n) = n
  BY <1>1, FS_Interval
<1>8. QED
  BY <1>1, <1>5, <1>6, <1>7, SnapshotAssumption, FS_CardinalityType DEF Version

\* What a reconstruction lacks are charged days.
LEMMA BilledDays ==
  ASSUME NEW i \in Invoice, NEW seen
  PROVE  Lacking(i, seen) \subseteq Nat
BY InvoiceAssumption DEF Lacking

\* A judgment holds no binding, or that of a snapshot that is still withheld.
LEMMA HeldBindings ==
  ASSUME NEW i, NEW v, NEW held \in HeldBinding(i, v)
  PROVE  \/ /\ held = {}
            /\ recon[i][v].lacking = {} \/ \A s \in Snapshot : snap[s] # "PENDING"
         \/ /\ recon[i][v].lacking # {}
            /\ \E s \in Snapshot : snap[s] = "PENDING" /\ held = {Bind(i, s)}
BY DEF HeldBinding

-----------------------------------------------------------------------------
\* Every step is a step of the queue, or leaves it alone.

\* What the pipeline hands to Complete is no task or one.
LEMMA CompleteRefines ==
  ASSUME NEW w \in Worker, NEW new, new = {} \/ \E t \in Task : new = {t}, Queue!Complete(w, new)
  PROVE  Queue!Next
<1>1. new \in Queue!FollowUps
  BY DEF Queue!FollowUps
<1>2. QED
  BY <1>1 DEF Queue!Next, Queue!WorkerStep

\* A failure goes through the retry budget.
LEMMA FailRefines ==
  ASSUME NEW w \in Worker, NEW retryable \in BOOLEAN, Queue!Fail(w, retryable)
  PROVE  Queue!Next
BY DEF Queue!Next, Queue!WorkerStep

\* The steps of a handler.
LEMMA HandleRefines ==
  ASSUME RowInv, RevisionInv, NEW w \in Worker, Handle(w)
  PROVE  Queue!Next \/ UNCHANGED queueVars
<1>1. ASSUME NEW passed \in BOOLEAN, CompleteExtraction(w, passed) PROVE Queue!Next
  <2>1. Inv(w) \in Invoice
    BY <1>1, TaskOn DEF CompleteExtraction
  <2>2. Recon(Inv(w), 0) \in Task
    BY <2>1, NextTasks
  <2>3. QED
    BY <1>1, <2>2, CompleteRefines DEF CompleteExtraction
<1>2. ASSUME NEW retryable \in BOOLEAN, FailExtraction(w, retryable) PROVE Queue!Next
  BY <1>2, FailRefines DEF FailExtraction
<1>3. ASSUME RetrieveMemory(w) PROVE UNCHANGED queueVars
  BY <1>3 DEF RetrieveMemory
<1>4. ASSUME NEW other \in {"none", "missing", "excluded"}, CompleteReconstruction(w, other)
      PROVE  Queue!Next
  <2> DEFINE i == Inv(w)
             exists == \E v \in 1 .. Len(recon[i]) : recon[i][v].key = Key(w)
  <2>1. i \in Invoice /\ Key(w) \in Snapshot \cup {0}
    BY <1>4, TaskOn, TaskFields DEF CompleteReconstruction, Key
  <2>2. Queue!Complete(w, IF exists THEN {} ELSE {Rule(i, Len(recon[i]) + 1)})
    BY <1>4 DEF CompleteReconstruction
  <2>3. ~exists => Rule(i, Len(recon[i]) + 1) \in Task
    BY <2>1, VersionLeft, NextTasks
  <2>4. QED
    BY <2>2, <2>3, CompleteRefines
<1>5. ASSUME NEW retryable \in BOOLEAN, FailReconstruction(w, retryable) PROVE Queue!Next
  BY <1>5, FailRefines DEF FailReconstruction
<1>6. ASSUME NEW verified \in BOOLEAN, CompleteRule(w, verified) PROVE Queue!Next
  <2>1. Inv(w) \in Invoice /\ Key(w) \in Version
    BY <1>6, TaskOn, TaskFields DEF CompleteRule, Key
  <2>2. Judge(Inv(w), Key(w)) \in Task
    BY <2>1, NextTasks
  <2>3. QED
    BY <1>6, <2>2, CompleteRefines DEF CompleteRule
<1>7. ASSUME NEW retryable \in BOOLEAN, FailRule(w, retryable) PROVE Queue!Next
  BY <1>7, FailRefines DEF FailRule
<1>8. ASSUME NEW verdict \in RecType, CompleteJudgment(w, verdict) PROVE Queue!Next
  <2>1. Inv(w) \in Invoice
    BY <1>8, TaskOn DEF CompleteJudgment
  <2>2. PICK held \in HeldBinding(Inv(w), Key(w)) : Queue!Complete(w, held)
    BY <1>8 DEF CompleteJudgment
  <2>3. held = {} \/ \E t \in Task : held = {t}
    BY <2>1, <2>2, HeldBindings, NextTasks
  <2>4. QED
    BY <2>2, <2>3, CompleteRefines
<1>9. ASSUME FailJudgment(w) PROVE Queue!Next
  BY <1>9, FailRefines DEF FailJudgment
<1>10. ASSUME NEW passed \in BOOLEAN, CompleteAccessBinding(w, passed) PROVE Queue!Next
  <2>1. Inv(w) \in Invoice /\ Key(w) \in Snapshot
    BY <1>10, TaskOn, TaskFields DEF CompleteAccessBinding, Key
  <2>2. Recon(Inv(w), Key(w)) \in Task
    BY <2>1, NextTasks
  <2>3. QED
    BY <1>10, <2>2, CompleteRefines DEF CompleteAccessBinding
<1>11. QED
  BY <1>1, <1>2, <1>3, <1>4, <1>5, <1>6, <1>7, <1>8, <1>9, <1>10 DEF Handle

\* All steps.
LEMMA StepRefines ==
  ASSUME RowInv, RevisionInv, [Next]_vars
  PROVE  [Queue!Next]_(Queue!vars)
<1>1. ASSUME NEW i \in Invoice, Receive(i) \/ RetryExtraction(i)
      PROVE  Queue!Next
  <2>1. \E n \in 1 .. ExtractVersions : Queue!Insert(Extract(i, n))
    BY <1>1, ExtractAssumption DEF Receive, RetryExtraction
  <2>2. QED
    BY <2>1, ExtractTasks DEF Queue!Next
<1>2. ASSUME NEW i \in Invoice, ReleaseAccessEvidence(i) PROVE Queue!Next
  BY <1>2, NextTasks DEF ReleaseAccessEvidence, Queue!Next
<1>3. ASSUME NEW i \in Invoice, NEW v \in Version, ApproveAndSeal(i, v) PROVE UNCHANGED queueVars
  BY <1>3 DEF ApproveAndSeal
<1>4. ASSUME NEW w \in Worker, Handle(w) PROVE Queue!Next \/ UNCHANGED queueVars
  BY <1>4, HandleRefines
<1>5. ASSUME NEW w \in Worker, LoseLease(w) \/ Crash(w) PROVE Queue!Next
  BY <1>5 DEF LoseLease, Crash, Queue!Next, Queue!WorkerStep
<1>6. ASSUME NEW w \in Worker, NEW t \in Task, Claim(w, t) PROVE Queue!Next
  BY <1>6 DEF Claim, Queue!Next
<1>7. ASSUME NEW t \in Task, ClockPasses(t) PROVE Queue!Next
  BY <1>7 DEF ClockPasses, Queue!Next
<1>8. ASSUME UNCHANGED vars PROVE UNCHANGED queueVars
  BY <1>8 DEF vars
<1>9. Queue!Next \/ UNCHANGED queueVars
  BY <1>1, <1>2, <1>3, <1>4, <1>5, <1>6, <1>7, <1>8 DEF Next
<1>10. QED
  BY <1>9 DEF queueVars, Queue!vars

\* A step of the queue keeps the types of its rows.
LEMMA RowStep ==
  ASSUME RowInv, [Queue!Next]_(Queue!vars)
  PROVE  RowInv'
<1> USE DEF RowInv, Queue!TaskState, Queue!Terminal
<1>1. ASSUME NEW t \in Task, Queue!Insert(t) PROVE RowInv'
  BY <1>1 DEF Queue!Insert, Queue!Created
<1>2. ASSUME NEW t \in Task, Queue!Release(t) PROVE RowInv'
  BY <1>2 DEF Queue!Release
<1>3. ASSUME NEW t \in Task, Queue!ClockPasses(t) PROVE RowInv'
  BY <1>3 DEF Queue!ClockPasses
<1>4. ASSUME NEW w \in Worker, NEW t \in Task, Queue!Claim(w, t) PROVE RowInv'
  <2>1. [task |-> t, attempt |-> attempt[t] + 1] \in Queue!Lease
    BY DEF Queue!Lease
  <2>2. QED
    BY <1>4, <2>1 DEF Queue!Claim
<1>5. ASSUME NEW w \in Worker, NEW new, Queue!Complete(w, new) PROVE RowInv'
  <2>1. state' \in [Task -> Queue!TaskState]
    BY <1>5 DEF Queue!Complete, Queue!Created
  <2>2. lease' \in [Worker -> Queue!Lease \cup {NoLease}] /\ attempt' = attempt
    BY <1>5 DEF Queue!Complete, Queue!AfterCommit
  <2>3. owner' \in [Task -> Worker \cup {NoWorker}]
    BY <1>5 DEF Queue!Complete
  <2>4. QED
    BY <2>1, <2>2, <2>3
<1>6. ASSUME NEW w \in Worker, NEW retryable, Queue!Fail(w, retryable) PROVE RowInv'
  <2>1. state' \in [Task -> Queue!TaskState]
    BY <1>6 DEF Queue!Fail, Queue!DeadState
  <2>2. lease' \in [Worker -> Queue!Lease \cup {NoLease}] /\ attempt' = attempt
    BY <1>6 DEF Queue!Fail, Queue!AfterCommit
  <2>3. owner' \in [Task -> Worker \cup {NoWorker}]
    BY <1>6 DEF Queue!Fail
  <2>4. QED
    BY <2>1, <2>2, <2>3
<1>7. ASSUME NEW w \in Worker, Queue!LoseLease(w) \/ Queue!Crash(w) PROVE RowInv'
  BY <1>7 DEF Queue!LoseLease, Queue!Crash
<1>8. CASE UNCHANGED Queue!vars
  BY <1>8 DEF Queue!vars
<1>9. QED
  BY <1>1, <1>2, <1>3, <1>4, <1>5, <1>6, <1>7, <1>8 DEF Queue!Next, Queue!WorkerStep

-----------------------------------------------------------------------------
\* The invariants of the evidence.

\* Revisions are only appended, each with a key of its own.
LEMMA RevisionStep ==
  ASSUME RowInv, RevisionInv, [Next]_vars
  PROVE  RevisionInv'
<1>1. ASSUME UNCHANGED recon, view' \in [Worker -> (SUBSET Snapshot) \cup {NoView}]
      PROVE  RevisionInv'
  BY <1>1 DEF RevisionInv
<1>2. ASSUME NEW w \in Worker, NEW other \in {"none", "missing", "excluded"},
             CompleteReconstruction(w, other)
      PROVE  RevisionInv'
  <2> DEFINE i == Inv(w)
             r == [key |-> Key(w), lacking |-> Lacking(i, view[w]), other |-> other]
             exists == \E v \in 1 .. Len(recon[i]) : recon[i][v].key = Key(w)
  <2>1. i \in Invoice /\ Key(w) \in Snapshot \cup {0}
    BY <1>2, TaskOn, TaskFields DEF CompleteReconstruction, Key
  <2>2. view' \in [Worker -> (SUBSET Snapshot) \cup {NoView}]
    <3>1. view' = [view EXCEPT ![w] = NoView]
      BY <1>2 DEF CompleteReconstruction
    <3>2. QED
      BY <3>1 DEF RevisionInv
  <2>3. CASE exists
    BY <1>1, <1>2, <2>2, <2>3 DEF CompleteReconstruction
  <2>4. CASE ~exists
    <3>1. Lacking(i, view[w]) \subseteq Nat
      BY <2>1, BilledDays
    <3>2. r \in Revision /\ r.key = Key(w)
      BY <2>1, <3>1 DEF Revision
    <3>3. recon' = [recon EXCEPT ![i] = Append(@, r)]
      BY <1>2, <2>4 DEF CompleteReconstruction
    <3> HIDE DEF r
    <3>4. recon[i] \in Seq(Revision) /\ \A j \in Invoice : j # i => recon'[j] = recon[j]
      BY <2>1, <3>3 DEF RevisionInv
    <3>5. recon'[i] = Append(recon[i], r)
      BY <2>1, <3>3 DEF RevisionInv
    <3>6. /\ Append(recon[i], r) \in Seq(Revision)
          /\ Len(Append(recon[i], r)) = Len(recon[i]) + 1
          /\ \A v \in 1 .. Len(recon[i]) : Append(recon[i], r)[v] = recon[i][v]
          /\ Append(recon[i], r)[Len(recon[i]) + 1] = r
          /\ Len(recon[i]) \in Nat
      BY <3>2, <3>4, AppendProperties, LenProperties
    <3>7. recon' \in [Invoice -> Seq(Revision)]
      BY <3>2, <3>3, <3>6 DEF RevisionInv
    <3>8. ASSUME NEW u \in 1 .. Len(recon'[i]), NEW v \in 1 .. Len(recon'[i]),
                 recon'[i][u].key = recon'[i][v].key
          PROVE  u = v
      <4>1. CASE u \in 1 .. Len(recon[i]) /\ v \in 1 .. Len(recon[i])
        BY <2>1, <3>5, <3>6, <3>8, <4>1 DEF RevisionInv
      <4>2. CASE u = Len(recon[i]) + 1 /\ v \in 1 .. Len(recon[i])
        BY <2>4, <3>2, <3>5, <3>6, <3>8, <4>2
      <4>3. CASE v = Len(recon[i]) + 1 /\ u \in 1 .. Len(recon[i])
        BY <2>4, <3>2, <3>5, <3>6, <3>8, <4>3
      <4>4. QED
        BY <3>5, <3>6, <4>1, <4>2, <4>3
    <3>9. QED
      BY <2>1, <2>2, <3>4, <3>7, <3>8 DEF RevisionInv
  <2>5. QED
    BY <2>3, <2>4
<1>3. ASSUME NEW w \in Worker, RetrieveMemory(w) PROVE RevisionInv'
  <2>1. Visible(Inv(w)) \subseteq Snapshot
    BY DEF Visible
  <2>2. QED
    BY <1>1, <1>3, <2>1 DEF RetrieveMemory, RevisionInv, evidenceVars
<1>4. ASSUME NEW w \in Worker, Handle(w) PROVE RevisionInv'
  <2>1. ASSUME NEW passed \in BOOLEAN, CompleteExtraction(w, passed) \/ CompleteAccessBinding(w, passed)
        PROVE  RevisionInv'
    BY <1>1, <2>1 DEF CompleteExtraction, CompleteAccessBinding, RevisionInv
  <2>2. ASSUME NEW retryable \in BOOLEAN,
               FailExtraction(w, retryable) \/ FailReconstruction(w, retryable) \/ FailRule(w, retryable)
        PROVE  RevisionInv'
    <3>1. /\ recon' = recon
          /\ view' = view \/ view' = [view EXCEPT ![w] = NoView]
      BY <2>2 DEF FailExtraction, FailReconstruction, FailRule, evidenceVars
    <3>2. QED
      BY <1>1, <3>1 DEF RevisionInv
  <2>3. ASSUME NEW verified \in BOOLEAN, CompleteRule(w, verified) PROVE RevisionInv'
    BY <1>1, <2>3 DEF CompleteRule, RevisionInv
  <2>4. ASSUME NEW verdict \in RecType, CompleteJudgment(w, verdict) PROVE RevisionInv'
    BY <1>1, <2>4 DEF CompleteJudgment, RevisionInv
  <2>5. ASSUME FailJudgment(w) PROVE RevisionInv'
    BY <1>1, <2>5 DEF FailJudgment, RevisionInv, evidenceVars
  <2>6. QED
    BY <1>2, <1>3, <1>4, <2>1, <2>2, <2>3, <2>4, <2>5 DEF Handle
<1>5. ASSUME NEW i \in Invoice,
             Receive(i) \/ RetryExtraction(i) \/ ReleaseAccessEvidence(i)
               \/ \E v \in Version : ApproveAndSeal(i, v)
      PROVE  RevisionInv'
  BY <1>1, <1>5 DEF Receive, RetryExtraction, ReleaseAccessEvidence, ApproveAndSeal, RevisionInv,
                    evidenceVars
<1>6. ASSUME NEW w \in Worker, LoseLease(w) \/ Crash(w) \/ \E t \in Task : Claim(w, t)
      PROVE  RevisionInv'
  <2>1. /\ recon' = recon
        /\ view' = view \/ view' = [view EXCEPT ![w] = NoView]
    BY <1>6 DEF LoseLease, Crash, Forget, Claim, evidenceVars
  <2>2. QED
    BY <1>1, <2>1 DEF RevisionInv
<1>7. ASSUME NEW t \in Task, ClockPasses(t) PROVE RevisionInv'
  BY <1>1, <1>7 DEF ClockPasses, RevisionInv, evidenceVars
<1>8. CASE UNCHANGED vars
  BY <1>1, <1>8 DEF vars, RevisionInv, evidenceVars
<1>9. QED
  BY <1>4, <1>5, <1>6, <1>7, <1>8 DEF Next

\* The step inserts no extraction and does not touch one that ended.
ExtractsKept ==
  \A i \in Invoice : \A n \in 1 .. ExtractVersions :
    /\ state[Extract(i, n)] = "ABSENT" => state'[Extract(i, n)] = "ABSENT"
    /\ state[Extract(i, n)] \in {"FAILED", "COMPLETED"} =>
         state'[Extract(i, n)] = state[Extract(i, n)]

LEMMA ExtractsKeptInv ==
  ASSUME ExtractInv, ExtractsKept, UNCHANGED claimSets
  PROVE  ExtractInv'
BY DEF ExtractInv, ExtractsKept

\* No completion inserts an extraction.
LEMMA CompleteKeepsExtracts ==
  ASSUME RowInv, NEW w \in Worker, NEW new, \A t \in new : t.kind # "EXTRACT",
         Queue!Complete(w, new)
  PROVE  ExtractsKept
<1>1. \A x \in Task : x.kind = "EXTRACT" =>
        state'[x] = IF x = lease[w].task THEN "COMPLETED" ELSE state[x]
  BY DEF Queue!Complete
<1>2. state[lease[w].task] = "RUNNING"
  BY DEF Queue!Complete, Queue!LeaseCurrent
<1>3. QED
  BY <1>1, <1>2, ExtractTasks DEF ExtractsKept

\* The other steps on a task that exists.
LEMMA QueueKeepsExtracts ==
  ASSUME RowInv,
         \/ \E w \in Worker, retryable \in BOOLEAN : Queue!Fail(w, retryable)
         \/ \E w \in Worker, t \in Task : Queue!Claim(w, t)
         \/ \E w \in Worker : Queue!LoseLease(w) \/ Queue!Crash(w)
         \/ \E t \in Task : Queue!ClockPasses(t) \/ Queue!Release(t)
         \/ UNCHANGED queueVars
  PROVE  ExtractsKept
<1>1. ASSUME NEW t \in Task, NEW s, state' = [state EXCEPT ![t] = s],
             state[t] \notin {"ABSENT", "FAILED", "COMPLETED"}
      PROVE  ExtractsKept
  BY <1>1, ExtractTasks DEF ExtractsKept, RowInv
<1>2. ASSUME UNCHANGED state PROVE ExtractsKept
  BY <1>2 DEF ExtractsKept
<1>3. ASSUME NEW w \in Worker, NEW retryable \in BOOLEAN, Queue!Fail(w, retryable)
      PROVE  ExtractsKept
  <2>1. lease[w].task \in Task /\ state[lease[w].task] = "RUNNING"
    BY <1>3 DEF Queue!Fail, Queue!LeaseCurrent, RowInv, Queue!Lease
  <2>2. \E s : state' = [state EXCEPT ![lease[w].task] = s]
    BY <1>3 DEF Queue!Fail
  <2>3. QED
    BY <1>1, <2>1, <2>2
<1>4. ASSUME NEW w \in Worker, NEW t \in Task, Queue!Claim(w, t) PROVE ExtractsKept
  BY <1>1, <1>4 DEF Queue!Claim, Queue!Claimable
<1>5. ASSUME NEW t \in Task, Queue!Release(t) PROVE ExtractsKept
  BY <1>1, <1>5 DEF Queue!Release
<1>6. QED
  BY <1>2, <1>3, <1>4, <1>5 DEF Queue!LoseLease, Queue!Crash, Queue!ClockPasses, queueVars

\* An extraction that completes is the first one to do so.
LEMMA ClaimSetStep ==
  ASSUME RowInv, ExtractInv, NEW w \in Worker, NEW passed \in BOOLEAN,
         CompleteExtraction(w, passed)
  PROVE  ExtractInv'
<1> DEFINE i == Inv(w)
           n == Key(w)
           new == IF passed THEN {Recon(i, 0)} ELSE {}
<1>1. i \in Invoice /\ n \in 1 .. ExtractVersions /\ lease[w].task = Extract(i, n)
  BY TaskOn, TaskFields DEF CompleteExtraction, Inv, Key
<1>2. Queue!Complete(w, new) /\ claimSets' = [claimSets EXCEPT ![i] = @ + 1]
  BY DEF CompleteExtraction
<1>3. \A t \in new : t.kind # "EXTRACT"
  BY DEF Recon
<1>4. ExtractsKept
  BY <1>2, <1>3, CompleteKeepsExtracts
<1>5. state[Extract(i, n)] = "RUNNING" /\ state'[Extract(i, n)] = "COMPLETED"
  BY <1>1, <1>2, ExtractTasks DEF Queue!Complete, Queue!LeaseCurrent
<1>6. claimSets[i] = 0
  <2>1. ASSUME NEW m \in 1 .. ExtractVersions, state[Extract(i, m)] = "COMPLETED" PROVE FALSE
    BY <1>1, <1>5, <2>1 DEF ExtractInv
  <2>2. QED
    BY <1>1, <2>1 DEF ExtractInv
<1>7. claimSets' \in [Invoice -> Nat] /\ claimSets'[i] = 1
  BY <1>1, <1>2, <1>6 DEF ExtractInv
<1>8. ASSUME NEW j \in Invoice, NEW k \in 1 .. ExtractVersions, NEW m \in 1 .. ExtractVersions,
             k < m, state'[Extract(j, m)] # "ABSENT"
      PROVE  state'[Extract(j, k)] = "FAILED"
  BY <1>4, <1>8 DEF ExtractsKept, ExtractInv
<1>9. ASSUME NEW j \in Invoice
      PROVE  \/ claimSets'[j] = 0
             \/ claimSets'[j] = 1
                  /\ \E m \in 1 .. ExtractVersions : state'[Extract(j, m)] = "COMPLETED"
  <2>1. CASE j = i
    BY <1>1, <1>5, <1>7, <2>1
  <2>2. CASE j # i
    <3>1. claimSets'[j] = claimSets[j]
      BY <1>2, <2>2 DEF ExtractInv
    <3>2. QED
      BY <1>4, <3>1 DEF ExtractsKept, ExtractInv
  <2>3. QED
    BY <2>1, <2>2
<1>10. QED
  BY <1>7, <1>8, <1>9 DEF ExtractInv

\* A new extraction follows one that FAILED, and none follows it.
LEMMA InsertStep ==
  ASSUME RowInv, ExtractInv, NEW i \in Invoice, Receive(i) \/ RetryExtraction(i)
  PROVE  ExtractInv'
<1>1. PICK n \in 1 .. ExtractVersions :
        /\ Queue!Insert(Extract(i, n))
        /\ n = 1 \/ (n - 1 \in 1 .. ExtractVersions /\ state[Extract(i, n - 1)] = "FAILED")
  <2>1. CASE Receive(i)
    <3>1. Queue!Insert(Extract(i, 1))
      BY <2>1 DEF Receive
    <3>2. 1 \in 1 .. ExtractVersions
      BY ExtractAssumption
    <3>3. QED
      BY <3>1, <3>2
  <2>2. CASE RetryExtraction(i)
    <3>1. PICK m \in 1 .. ExtractVersions - 1 :
            state[Extract(i, m)] = "FAILED" /\ Queue!Insert(Extract(i, m + 1))
      BY <2>2 DEF RetryExtraction
    <3>2. m \in 1 .. ExtractVersions /\ m + 1 \in 1 .. ExtractVersions /\ (m + 1) - 1 = m
      BY ExtractAssumption
    <3>3. QED
      BY <3>1, <3>2
  <2>3. QED
    BY <2>1, <2>2
<1>2. claimSets' = claimSets
  BY DEF Receive, RetryExtraction, evidenceVars
<1>3. state[Extract(i, n)] = "ABSENT" /\ state' = [state EXCEPT ![Extract(i, n)] = Queue!Created(Extract(i, n))]
  BY <1>1 DEF Queue!Insert
<1>4. \A j \in Invoice, m \in 1 .. ExtractVersions :
        Extract(j, m) # Extract(i, n) => state'[Extract(j, m)] = state[Extract(j, m)]
  BY <1>3, ExtractTasks DEF RowInv
<1>5. ASSUME NEW m \in 1 .. ExtractVersions, m < n PROVE state[Extract(i, m)] = "FAILED"
  BY <1>1, <1>5, ExtractAssumption DEF ExtractInv
<1>6. ASSUME NEW m \in 1 .. ExtractVersions, n < m PROVE state[Extract(i, m)] = "ABSENT"
  BY <1>3, <1>6 DEF ExtractInv
<1>7. ASSUME NEW j \in Invoice, NEW k \in 1 .. ExtractVersions, NEW m \in 1 .. ExtractVersions,
             k < m, state'[Extract(j, m)] # "ABSENT"
      PROVE  state'[Extract(j, k)] = "FAILED"
  <2>1. CASE j # i
    BY <1>4, <1>7, <2>1, ExtractTasks DEF ExtractInv
  <2>2. CASE j = i
    <3>1. m <= n
      BY <1>4, <1>6, <1>7, <2>2, ExtractTasks
    <3>2. k < n
      BY <1>7, <3>1
    <3>3. QED
      BY <1>4, <1>5, <2>2, <3>2, ExtractTasks
  <2>3. QED
    BY <2>1, <2>2
<1>8. \A j \in Invoice, m \in 1 .. ExtractVersions :
        state[Extract(j, m)] = "COMPLETED" => state'[Extract(j, m)] = "COMPLETED"
  BY <1>3, <1>4
<1>9. QED
  BY <1>2, <1>7, <1>8 DEF ExtractInv

\* All steps.
LEMMA ExtractStep ==
  ASSUME RowInv, ExtractInv, [Next]_vars
  PROVE  ExtractInv'
<1>1. ASSUME NEW w \in Worker, NEW new, \A t \in new : t.kind # "EXTRACT",
             Queue!Complete(w, new), UNCHANGED claimSets
      PROVE  ExtractInv'
  BY <1>1, CompleteKeepsExtracts, ExtractsKeptInv
<1>2. ASSUME NEW w \in Worker, Handle(w) PROVE ExtractInv'
  <2>1. ASSUME NEW passed \in BOOLEAN, CompleteExtraction(w, passed) PROVE ExtractInv'
    BY <2>1, ClaimSetStep
  <2>2. ASSUME NEW other \in {"none", "missing", "excluded"}, CompleteReconstruction(w, other)
        PROVE  ExtractInv'
    <3> DEFINE exists == \E v \in 1 .. Len(recon[Inv(w)]) : recon[Inv(w)][v].key = Key(w)
               new == IF exists THEN {} ELSE {Rule(Inv(w), Len(recon[Inv(w)]) + 1)}
    <3>1. Queue!Complete(w, new) /\ UNCHANGED claimSets
      BY <2>2 DEF CompleteReconstruction
    <3>2. \A t \in new : t.kind # "EXTRACT"
      BY DEF Rule
    <3>3. QED
      BY <1>1, <3>1, <3>2
  <2>3. ASSUME NEW verified \in BOOLEAN, CompleteRule(w, verified) PROVE ExtractInv'
    <3> DEFINE new == IF verified \/ CompleteRevision(recon[Inv(w)][Key(w)])
                      THEN {Judge(Inv(w), Key(w))} ELSE {}
    <3>1. Queue!Complete(w, new) /\ UNCHANGED claimSets
      BY <2>3 DEF CompleteRule
    <3>2. \A t \in new : t.kind # "EXTRACT"
      BY DEF Judge
    <3>3. QED
      BY <1>1, <3>1, <3>2
  <2>4. ASSUME NEW verdict \in RecType, CompleteJudgment(w, verdict) PROVE ExtractInv'
    <3>1. UNCHANGED claimSets /\ \E held \in HeldBinding(Inv(w), Key(w)) : Queue!Complete(w, held)
      BY <2>4 DEF CompleteJudgment
    <3>2. \A held \in HeldBinding(Inv(w), Key(w)) : \A t \in held : t.kind # "EXTRACT"
      BY HeldBindings DEF Bind
    <3>3. QED
      BY <1>1, <3>1, <3>2
  <2>5. ASSUME NEW passed \in BOOLEAN, CompleteAccessBinding(w, passed) PROVE ExtractInv'
    <3> DEFINE new == IF passed THEN {Recon(Inv(w), Key(w))} ELSE {}
    <3>1. Queue!Complete(w, new) /\ UNCHANGED claimSets
      BY <2>5 DEF CompleteAccessBinding
    <3>2. \A t \in new : t.kind # "EXTRACT"
      BY DEF Recon
    <3>3. QED
      BY <1>1, <3>1, <3>2
  <2>6. ASSUME \/ \E retryable \in BOOLEAN :
                    FailExtraction(w, retryable) \/ FailReconstruction(w, retryable) \/ FailRule(w, retryable)
               \/ FailJudgment(w)
        PROVE  ExtractInv'
    <3>1. (\E retryable \in BOOLEAN : Queue!Fail(w, retryable)) /\ UNCHANGED claimSets
      BY <2>6 DEF FailExtraction, FailReconstruction, FailRule, FailJudgment, evidenceVars
    <3>2. QED
      BY <3>1, QueueKeepsExtracts, ExtractsKeptInv
  <2>7. ASSUME RetrieveMemory(w) PROVE ExtractInv'
    <3>1. UNCHANGED queueVars /\ UNCHANGED claimSets
      BY <2>7 DEF RetrieveMemory, evidenceVars
    <3>2. QED
      BY <3>1, QueueKeepsExtracts, ExtractsKeptInv
  <2>8. QED
    BY <1>2, <2>1, <2>2, <2>3, <2>4, <2>5, <2>6, <2>7 DEF Handle
<1>3. ASSUME NEW i \in Invoice, Receive(i) \/ RetryExtraction(i) PROVE ExtractInv'
  BY <1>3, InsertStep
<1>4. ASSUME NEW i \in Invoice,
             ReleaseAccessEvidence(i) \/ \E v \in Version : ApproveAndSeal(i, v)
      PROVE  ExtractInv'
  <2>1. UNCHANGED claimSets /\ ((\E t \in Task : Queue!Release(t)) \/ UNCHANGED queueVars)
    BY <1>4, NextTasks DEF ReleaseAccessEvidence, ApproveAndSeal, evidenceVars
  <2>2. QED
    BY <2>1, QueueKeepsExtracts, ExtractsKeptInv
<1>5. ASSUME \/ \E w \in Worker : LoseLease(w) \/ Crash(w) \/ \E t \in Task : Claim(w, t)
             \/ \E t \in Task : ClockPasses(t)
      PROVE  ExtractInv'
  <2>1. /\ UNCHANGED claimSets
        /\ \/ \E w \in Worker : \/ Queue!LoseLease(w) \/ Queue!Crash(w)
                                \/ \E t \in Task : Queue!Claim(w, t)
           \/ \E t \in Task : Queue!ClockPasses(t)
    BY <1>5 DEF LoseLease, Crash, Forget, Claim, ClockPasses, evidenceVars
  <2>2. QED
    BY <2>1, QueueKeepsExtracts, ExtractsKeptInv
<1>6. CASE UNCHANGED vars
  <2>1. UNCHANGED queueVars /\ UNCHANGED claimSets
    BY <1>6 DEF vars, evidenceVars
  <2>2. QED
    BY <2>1, QueueKeepsExtracts, ExtractsKeptInv
<1>7. QED
  BY <1>2, <1>3, <1>4, <1>5, <1>6 DEF Next

-----------------------------------------------------------------------------
\* The order of the tasks of an invoice.

Live(t) == state[t] \in {"HELD", "PENDING", "RUNNING", "RETRY_WAIT"}

\* One task of an invoice at a time can still run, and but for extractions there is
\* none before an extraction COMPLETED.  Bindings alone are held, and never given up.
TokenInv(i) ==
  /\ \A t, u \in TasksOf(i) : Live(t) /\ Live(u) => t = u
  /\ \A t \in TasksOf(i) : t.kind # "EXTRACT" /\ state[t] # "ABSENT" =>
       \E n \in 1 .. ExtractVersions : state[Extract(i, n)] = "COMPLETED"
  /\ \A t \in TasksOf(i) : t.kind # "BIND" => state[t] # "HELD"
  /\ \A t \in TasksOf(i) : t.kind = "BIND" => state[t] \notin {"FAILED", "BLOCKED"}

\* Each task comes after the one that handed over to it, and the rule search and the
\* judgment that can still run are those of the newest revision.
OrderInv(i) ==
  /\ \A v \in 1 .. Len(recon[i]) : state[Recon(i, recon[i][v].key)] = "COMPLETED"
  /\ \A v \in Version : state[Rule(i, v)] # "ABSENT" => v <= Len(recon[i])
  /\ \A v \in Version : state[Judge(i, v)] # "ABSENT" => state[Rule(i, v)] = "COMPLETED"
  /\ \A s \in Snapshot : state[Recon(i, s)] # "ABSENT" => state[Bind(i, s)] = "COMPLETED"
  /\ \A v \in Version : rec[i][v] # "NONE" => state[Judge(i, v)] = "COMPLETED"
  /\ \A v \in Version : Live(Rule(i, v)) \/ Live(Judge(i, v)) => v = Len(recon[i])

Decisive == {"DISPUTE", "APPROVE_FOR_PAYMENT"}

\* What the status says once no task can run, while a binding can, and after a
\* decision.
StandingInv(i) ==
  /\ (\A t \in TasksOf(i) : ~Live(t)) => status[i] \in Settled \cup {"ABSENT"} \/ JudgmentBlocked(i)
  /\ \A s \in Snapshot : Live(Bind(i, s)) => status[i] \in Settled
  /\ \A v \in Version : rec[i][v] \in Decisive => \A t \in TasksOf(i) : ~Live(t)
  /\ status[i] \in {"READY_FOR_REVIEW", "DISPUTED", "APPROVED_FOR_PAYMENT"} =>
       \E v \in Version : rec[i][v] \in Decisive
  /\ status[i] = "READY_FOR_REVIEW" =>
       /\ rule[i][Len(recon[i])] = "VERIFIED"
       /\ Latest(i).lacking = {} /\ Latest(i).other # "missing"
       /\ rec[i][Len(recon[i])] \in Decisive

Trail(i) == TokenInv(i) /\ OrderInv(i) /\ StandingInv(i)

\* The evidence has a row for each version, written at one place at a time.
EvidenceInv ==
  /\ status \in [Invoice -> Status]
  /\ rule \in [Invoice -> [Version -> {"NONE", "VERIFIED", "REJECTED"}]]
  /\ rec \in [Invoice -> [Version -> RecType \cup {"NONE"}]]

\* The inductive invariant.
IInv == RowInv /\ RevisionInv /\ ExtractInv /\ EvidenceInv /\ \A i \in Invoice : Trail(i)

\* A step on behalf of invoice i leaves the others alone.
Elsewhere(i) ==
  \A j \in Invoice \ {i} :
    /\ \A t \in TasksOf(j) : state'[t] = state[t]
    /\ recon'[j] = recon[j] /\ rule'[j] = rule[j] /\ rec'[j] = rec[j] /\ status'[j] = status[j]

\* The constructors of tasks, by their fields.
LEMMA TaskParts ==
  /\ \A i, k : Extract(i, k).kind = "EXTRACT" /\ Extract(i, k).inv = i /\ Extract(i, k).key = k
  /\ \A i, k : Recon(i, k).kind = "RECON" /\ Recon(i, k).inv = i /\ Recon(i, k).key = k
  /\ \A i, k : Rule(i, k).kind = "RULE" /\ Rule(i, k).inv = i /\ Rule(i, k).key = k
  /\ \A i, k : Judge(i, k).kind = "JUDGE" /\ Judge(i, k).inv = i /\ Judge(i, k).key = k
  /\ \A i, k : Bind(i, k).kind = "BIND" /\ Bind(i, k).inv = i /\ Bind(i, k).key = k
BY DEF Extract, Recon, Rule, Judge, Bind

\* And the tasks by their constructors.
LEMMA TaskForms ==
  ASSUME NEW t \in Task
  PROVE  /\ t.kind = "EXTRACT" => t = Extract(t.inv, t.key)
         /\ t.kind = "RECON" => t = Recon(t.inv, t.key)
         /\ t.kind = "RULE" => t = Rule(t.inv, t.key)
         /\ t.kind = "JUDGE" => t = Judge(t.inv, t.key)
         /\ t.kind = "BIND" => t = Bind(t.inv, t.key)
         /\ t \in BindTask <=> t.kind = "BIND"
<1>1. CASE t \in ExtractTask
  BY <1>1 DEF ExtractTask, Extract, BindTask, Bind
<1>2. CASE t \in ReconTask
  BY <1>2 DEF ReconTask, Recon, BindTask, Bind
<1>3. CASE t \in RuleTask
  BY <1>3 DEF RuleTask, Rule, BindTask, Bind
<1>4. CASE t \in JudgeTask
  BY <1>4 DEF JudgeTask, Judge, BindTask, Bind
<1>5. CASE t \in BindTask
  BY <1>5 DEF BindTask, Bind
<1>6. QED
  BY <1>1, <1>2, <1>3, <1>4, <1>5 DEF Task

\* The tasks of an invoice that an invariant names.
LEMMA TasksOfInvoice ==
  ASSUME NEW i \in Invoice
  PROVE  /\ \A n \in 1 .. ExtractVersions : Extract(i, n) \in TasksOf(i)
         /\ \A s \in Snapshot \cup {0} : Recon(i, s) \in TasksOf(i)
         /\ \A v \in Version : Rule(i, v) \in TasksOf(i) /\ Judge(i, v) \in TasksOf(i)
         /\ \A s \in Snapshot : Bind(i, s) \in TasksOf(i)
BY ExtractTasks, NextTasks, TaskParts DEF TasksOf

\* The keys of the revisions of an invoice.
LEMMA RevisionKeys ==
  ASSUME RevisionInv, NEW i \in Invoice
  PROVE  Len(recon[i]) \in Nat /\ \A v \in 1 .. Len(recon[i]) : recon[i][v].key \in Snapshot \cup {0}
<1>1. recon[i] \in Seq(Revision)
  BY DEF RevisionInv
<1>2. \A v \in 1 .. Len(recon[i]) : recon[i][v] \in Revision
  BY <1>1, ElementOfSeq
<1>3. QED
  BY <1>1, <1>2, LenProperties DEF Revision

\* An invoice that a step leaves alone is as it was.
LEMMA ElsewhereTrail ==
  ASSUME RevisionInv, NEW j \in Invoice, Trail(j), \A t \in TasksOf(j) : state'[t] = state[t],
         recon'[j] = recon[j], rule'[j] = rule[j], rec'[j] = rec[j], status'[j] = status[j]
  PROVE  Trail(j)'
<1>1. \A n \in 1 .. ExtractVersions : state'[Extract(j, n)] = state[Extract(j, n)]
  BY TasksOfInvoice
<1>2. \A t \in TasksOf(j) : Live(t)' <=> Live(t)
  BY DEF Live
<1>3. TokenInv(j)'
  BY <1>1, <1>2 DEF Trail, TokenInv
<1>4. OrderInv(j)'
  BY <1>2, TasksOfInvoice, RevisionKeys DEF Trail, OrderInv
<1>5. JudgmentBlocked(j)' <=> JudgmentBlocked(j)
  BY TasksOfInvoice DEF JudgmentBlocked
<1>6. StandingInv(j)'
  BY <1>2, <1>5, TasksOfInvoice DEF Trail, StandingInv, Latest
<1>7. QED
  BY <1>3, <1>4, <1>6 DEF Trail

-----------------------------------------------------------------------------
\* What a step does to the tasks of its invoice.

\* A task goes on: it is claimed, released or put back to be retried.
LEMMA GoOn ==
  ASSUME RowInv, RevisionInv, NEW i \in Invoice, Trail(i), NEW t \in TasksOf(i), Live(t),
         NEW s \in {"PENDING", "RUNNING", "RETRY_WAIT"}, state' = [state EXCEPT ![t] = s],
         recon'[i] = recon[i], rule'[i] = rule[i], rec'[i] = rec[i],
         \/ status'[i] = status[i]
         \/ t.kind # "BIND" /\ status'[i] \in {"INITIAL_PROCESSING", "RECONSTRUCTING"}
  PROVE  Trail(i)'
<1>1. state'[t] = s /\ \A u \in TasksOf(i) : u # t => state'[u] = state[u]
  BY DEF RowInv, TasksOf
<1>2. \A u \in TasksOf(i) :
        /\ Live(u)' <=> Live(u)
        /\ state'[u] = "ABSENT" <=> state[u] = "ABSENT"
        /\ state'[u] = "COMPLETED" <=> state[u] = "COMPLETED"
        /\ state'[u] = "HELD" => state[u] = "HELD"
        /\ state'[u] \in {"FAILED", "BLOCKED"} <=> state[u] \in {"FAILED", "BLOCKED"}
  BY <1>1 DEF Live
<1>3. TokenInv(i)'
  BY <1>2, TasksOfInvoice DEF Trail, TokenInv
<1>4. OrderInv(i)'
  BY <1>2, TasksOfInvoice, RevisionKeys DEF Trail, OrderInv
<1>5. StandingInv(i)'
  <2>1. CASE status'[i] = status[i]
    BY <1>2, <2>1, TasksOfInvoice DEF Trail, StandingInv, Latest
  <2>2. CASE t.kind # "BIND" /\ status'[i] \in {"INITIAL_PROCESSING", "RECONSTRUCTING"}
    <3>1. \A q \in Snapshot : ~Live(Bind(i, q))
      BY <2>2, TasksOfInvoice, TaskParts DEF Trail, TokenInv
    <3>2. QED
      BY <1>2, <2>2, <3>1, TasksOfInvoice DEF Trail, StandingInv
  <2>3. QED
    BY <2>1, <2>2
<1>6. QED
  BY <1>3, <1>4, <1>5 DEF Trail

\* A task ends, and hands over to one new task at most: no other can run.
LEMMA Finish ==
  ASSUME RowInv, NEW i \in Invoice, Trail(i), NEW t \in TasksOf(i), Live(t),
         NEW s \in {"COMPLETED", "FAILED", "BLOCKED"}, t.kind = "BIND" => s = "COMPLETED",
         NEW new, new = {} \/ (s = "COMPLETED" /\ \E c \in TasksOf(i) : new = {c}),
         \A c \in new : c.kind \notin {"EXTRACT", t.kind} /\ state[c] = "ABSENT",
         \A u \in Task :
           state'[u] = IF u = t THEN s ELSE IF u \in new THEN Queue!Created(u) ELSE state[u]
  PROVE  /\ TokenInv(i)'
         /\ \A u \in TasksOf(i) : Live(u)' <=> u \in new
<1>1. \A u \in TasksOf(i) : u \in Task
  BY DEF TasksOf
<1>2. \A u \in TasksOf(i) : u # t => ~Live(u)
  BY DEF Trail, TokenInv
<1>3. \A u \in new : u # t /\ u \in TasksOf(i)
  OBVIOUS
<1>4. \A u \in TasksOf(i) : Live(u)' <=> u \in new
  BY <1>1, <1>2, <1>3 DEF Live, Queue!Created
<1>5. ASSUME NEW u \in TasksOf(i), u.kind # "EXTRACT", state'[u] # "ABSENT"
      PROVE  \E n \in 1 .. ExtractVersions : state'[Extract(i, n)] = "COMPLETED"
  <2>1. CASE t.kind = "EXTRACT" /\ u \in new
    <3>1. t = Extract(i, t.key) /\ t.key \in 1 .. ExtractVersions
      BY <2>1, <1>1, TaskFields DEF TasksOf
    <3>2. state'[t] = "COMPLETED"
      BY <1>1, <2>1
    <3>3. QED
      BY <3>1, <3>2
  <2>2. CASE t.kind # "EXTRACT" \/ u \notin new
    <3>1. PICK x \in TasksOf(i) : x.kind # "EXTRACT" /\ state[x] # "ABSENT"
      <4>1. CASE u \in new
        BY <2>2, <4>1 DEF Live
      <4>2. CASE u \notin new
        BY <1>1, <1>5, <4>2 DEF Live
      <4>3. QED
        BY <4>1, <4>2
    <3>2. PICK n \in 1 .. ExtractVersions : state[Extract(i, n)] = "COMPLETED"
      BY <3>1 DEF Trail, TokenInv
    <3>3. Extract(i, n) # t /\ Extract(i, n) \notin new /\ Extract(i, n) \in Task
      BY <1>1, <3>2, TasksOfInvoice, TaskParts DEF Live
    <3>4. QED
      BY <3>2, <3>3
  <2>3. QED
    BY <2>1, <2>2
<1>6. \A u \in TasksOf(i) : u.kind # "BIND" => state'[u] # "HELD"
  BY <1>1, TaskForms DEF Trail, TokenInv, Queue!Created
<1>7. \A u \in TasksOf(i) : u.kind = "BIND" => state'[u] \notin {"FAILED", "BLOCKED"}
  BY <1>1 DEF Trail, TokenInv, Queue!Created
<1>8. QED
  BY <1>3, <1>4, <1>5, <1>6, <1>7 DEF TokenInv

\* The task of a worker that may write is live, and a task of its invoice.
LEMMA CurrentTask ==
  ASSUME RowInv, NEW w \in Worker, NEW kind, On(w, kind), Queue!LeaseCurrent(w)
  PROVE  /\ Inv(w) \in Invoice /\ lease[w].task \in TasksOf(Inv(w))
         /\ lease[w].task.kind = kind /\ Live(lease[w].task)
         /\ state[lease[w].task] = "RUNNING"
BY TaskOn DEF TasksOf, Inv, Queue!LeaseCurrent, Live

\* A completion, by the state of each task.
LEMMA CompleteStates ==
  ASSUME RowInv, NEW w \in Worker, NEW new, Queue!Complete(w, new)
  PROVE  /\ Queue!LeaseCurrent(w)
         /\ \A u \in Task :
              state'[u] = IF u = lease[w].task THEN "COMPLETED"
                          ELSE IF u \in {c \in new : state[c] = "ABSENT"} THEN Queue!Created(u)
                          ELSE state[u]
BY DEF Queue!Complete

\* A step that inserts none of the ordered tasks, undoes no completion and writes no
\* evidence keeps their order.
LEMMA OrderKept ==
  ASSUME RevisionInv, NEW i \in Invoice, OrderInv(i),
         \A u \in TasksOf(i) : state[u] = "COMPLETED" => state'[u] = "COMPLETED",
         recon'[i] = recon[i], rec'[i] = rec[i],
         \A u \in TasksOf(i) : u.kind \in {"RULE", "JUDGE", "RECON"} =>
           /\ state'[u] # "ABSENT" => state[u] # "ABSENT"
           /\ Live(u)' => Live(u)
  PROVE  OrderInv(i)'
BY TasksOfInvoice, TaskParts, RevisionKeys DEF OrderInv

-----------------------------------------------------------------------------
\* The completions, one by one.

\* The running task t of invoice i completes, and of the tasks of i only those in
\* new can run, if they did not exist.
HandsOver(i, t, new) ==
  /\ t \in TasksOf(i) /\ Live(t) /\ state[t] = "RUNNING"
  /\ \A u \in TasksOf(i) : u # t => ~Live(u)
  /\ \A u \in Task :
       state'[u] = IF u = t THEN "COMPLETED"
                   ELSE IF u \in new /\ state[u] = "ABSENT" THEN Queue!Created(u)
                   ELSE state[u]
  /\ TokenInv(i)'
  /\ \A u \in TasksOf(i) : Live(u)' <=> u \in new /\ state[u] = "ABSENT"
  /\ \A j \in Invoice \ {i} : \A u \in TasksOf(j) : state'[u] = state[u]

\* A completion ends task t of invoice i and hands over to the tasks new that do not
\* exist yet: everything but the order and the standing of i follows.
LEMMA CompleteTrail ==
  ASSUME RowInv, NEW w \in Worker, NEW kind, On(w, kind), NEW i, i = Inv(w), Trail(i),
         NEW new, new = {} \/ \E c \in TasksOf(i) : new = {c},
         \A c \in new : c.kind \notin {"EXTRACT", kind},
         Queue!Complete(w, new)
  PROVE  \E t \in TasksOf(i) : t = lease[w].task /\ t.kind = kind /\ HandsOver(i, t, new)
<1>1. Queue!LeaseCurrent(w)
  BY CompleteStates
<1>2. PICK t \in TasksOf(i) : t = lease[w].task
  BY <1>1, CurrentTask
<1>3. i \in Invoice /\ t.kind = kind /\ Live(t) /\ state[t] = "RUNNING" /\ t \in Task
  BY <1>1, <1>2, CurrentTask DEF TasksOf
<1> DEFINE fresh == {c \in new : state[c] = "ABSENT"}
<1>4. \A u \in Task :
        state'[u] = IF u = t THEN "COMPLETED"
                    ELSE IF u \in fresh THEN Queue!Created(u) ELSE state[u]
  BY <1>2, CompleteStates
<1>5. fresh = {} \/ \E c \in TasksOf(i) : fresh = {c}
  OBVIOUS
<1>6. \A c \in fresh : c.kind \notin {"EXTRACT", t.kind} /\ state[c] = "ABSENT"
  BY <1>3
<1>7. \A u : u \in fresh <=> u \in new /\ state[u] = "ABSENT"
  OBVIOUS
<1> HIDE DEF fresh
<1>8. TokenInv(i)' /\ \A u \in TasksOf(i) : Live(u)' <=> u \in fresh
  BY <1>3, <1>4, <1>5, <1>6, Finish
<1>9. \A u \in TasksOf(i) : u # t => ~Live(u)
  BY <1>3 DEF Trail, TokenInv
<1>10. \A j \in Invoice \ {i} : \A u \in TasksOf(j) : state'[u] = state[u]
  BY <1>4, <1>5 DEF TasksOf
<1>11. QED
  BY <1>2, <1>3, <1>4, <1>7, <1>8, <1>9, <1>10 DEF HandsOver

\* complete_extraction, whose reconstruction is new.
LEMMA ExtractionTrail ==
  ASSUME RowInv, RevisionInv, ExtractInv, EvidenceInv, NEW w \in Worker, NEW passed \in BOOLEAN,
         CompleteExtraction(w, passed), NEW i \in Invoice, i = Inv(w), Trail(i)
  PROVE  Trail(i)' /\ Elsewhere(i)
<1> DEFINE new == IF passed THEN {Recon(i, 0)} ELSE {}
<1>1. /\ recon' = recon /\ rule' = rule /\ rec' = rec
      /\ status' = [status EXCEPT ![i] = IF passed THEN "RECONSTRUCTING" ELSE "NEEDS_EVIDENCE"]
      /\ On(w, "EXTRACT") /\ Queue!Complete(w, new)
  BY DEF CompleteExtraction, Publish
<1>2. \A c \in new : c \in TasksOf(i) /\ c.kind = "RECON" /\ c.key = 0
  BY TasksOfInvoice, TaskParts
<1>3. (new = {} \/ \E c \in TasksOf(i) : new = {c}) /\ (passed => new # {})
  BY TasksOfInvoice
<1> HIDE DEF new
<1>4. PICK t \in TasksOf(i) : t = lease[w].task /\ t.kind = "EXTRACT" /\ HandsOver(i, t, new)
  BY <1>1, <1>2, <1>3, CompleteTrail
<1>5. \A n \in 1 .. ExtractVersions : state[Extract(i, n)] # "COMPLETED"
  <2>1. t = Extract(i, t.key) /\ t.key \in 1 .. ExtractVersions
    BY <1>4, TaskFields DEF TasksOf
  <2>2. QED
    BY <1>4, <2>1 DEF ExtractInv, HandsOver
<1>6. \A u \in TasksOf(i) : u.kind # "EXTRACT" => state[u] = "ABSENT"
  BY <1>5 DEF Trail, TokenInv
<1>7. /\ status'[i] = IF passed THEN "RECONSTRUCTING" ELSE "NEEDS_EVIDENCE"
      /\ \A j \in Invoice \ {i} : status'[j] = status[j]
  BY <1>1 DEF EvidenceInv
<1>8. \A v \in Version : rec[i][v] = "NONE"
  BY <1>6, TasksOfInvoice, TaskParts DEF Trail, OrderInv
<1>9. OrderInv(i)'
  <2>1. \A v \in 1 .. Len(recon[i]) : FALSE
    BY <1>6, TasksOfInvoice, TaskParts, RevisionKeys DEF Trail, OrderInv
  <2>2. \A u \in TasksOf(i) : u.kind \in {"RULE", "JUDGE"} => state'[u] = "ABSENT" /\ ~Live(u)'
    BY <1>2, <1>4, <1>6 DEF TasksOf, HandsOver
  <2>3. \A u \in TasksOf(i) : u.kind = "RECON" /\ u.key \in Snapshot => state'[u] = "ABSENT"
    BY <1>2, <1>4, <1>6, SnapshotAssumption DEF TasksOf, HandsOver
  <2>4. QED
    BY <1>1, <1>8, <2>1, <2>2, <2>3, TasksOfInvoice, TaskParts DEF OrderInv
<1>10. StandingInv(i)'
  <2>1. \A s \in Snapshot : ~Live(Bind(i, s))'
    BY <1>2, <1>4, TasksOfInvoice, TaskParts DEF HandsOver
  <2>2. (\A u \in TasksOf(i) : ~Live(u)') => status'[i] = "NEEDS_EVIDENCE"
    BY <1>2, <1>3, <1>4, <1>6, <1>7 DEF HandsOver
  <2>3. QED
    BY <1>1, <1>7, <1>8, <2>1, <2>2 DEF StandingInv, Settled, Decisive
<1>11. Elsewhere(i)
  BY <1>1, <1>4, <1>7 DEF Elsewhere, HandsOver
<1>12. QED
  BY <1>4, <1>9, <1>10, <1>11 DEF Trail, HandsOver

\* complete_reconstruction, whose revision is new, and its rule search.
LEMMA ReconstructionTrail ==
  ASSUME RowInv, RevisionInv, EvidenceInv, NEW w \in Worker,
         NEW other \in {"none", "missing", "excluded"}, CompleteReconstruction(w, other),
         NEW i \in Invoice, i = Inv(w), Trail(i)
  PROVE  Trail(i)' /\ Elsewhere(i)
<1> DEFINE exists == \E v \in 1 .. Len(recon[i]) : recon[i][v].key = Key(w)
           r == [key |-> Key(w), lacking |-> Lacking(i, view[w]), other |-> other]
<1>1. /\ On(w, "RECON")
      /\ Queue!Complete(w, IF exists THEN {} ELSE {Rule(i, Len(recon[i]) + 1)})
      /\ ~exists => /\ recon' = [recon EXCEPT ![i] = Append(@, r)]
                    /\ \E st \in {"RECONSTRUCTING", "NEEDS_EVIDENCE"} :
                         status' = [status EXCEPT ![i] = st]
      /\ rule' = rule /\ rec' = rec
  BY DEF CompleteReconstruction, Publish
<1>2. PICK k, n : k = Key(w) /\ n = Len(recon[i])
  OBVIOUS
<1>3. r.key = k
  BY <1>2
<1> HIDE DEF r
<1>4. k \in Snapshot \cup {0} /\ lease[w].task = Recon(i, k)
  <2>1. lease[w].task \in Task /\ lease[w].task.kind = "RECON"
    BY <1>1, TaskOn
  <2>2. QED
    BY <1>2, <2>1, TaskFields, TaskForms DEF Inv, Key
<1>5. state[Recon(i, k)] = "RUNNING"
  BY <1>1, <1>4, CompleteStates, CurrentTask
<1>6. \A v \in 1 .. n : recon[i][v].key # k
  BY <1>2, <1>5 DEF Trail, OrderInv
<1>7. ~exists
  BY <1>2, <1>6
<1>8. n \in Nat /\ n + 1 \in Version
  BY <1>2, <1>4, <1>6, VersionLeft, RevisionKeys
<1>9. Rule(i, n + 1) \in TasksOf(i) /\ Rule(i, n + 1).kind = "RULE" /\ Rule(i, n + 1).key = n + 1
  BY <1>8, TasksOfInvoice, TaskParts
<1>10. state[Rule(i, n + 1)] = "ABSENT"
  BY <1>2, <1>8 DEF Trail, OrderInv
<1>11. PICK t \in TasksOf(i) :
         t = lease[w].task /\ t.kind = "RECON" /\ HandsOver(i, t, {Rule(i, n + 1)})
  BY <1>1, <1>2, <1>7, <1>9, CompleteTrail
<1>12. \A u \in TasksOf(i) : Live(u)' <=> u = Rule(i, n + 1)
  BY <1>10, <1>11 DEF HandsOver
<1>13. PICK st \in {"RECONSTRUCTING", "NEEDS_EVIDENCE"} : status' = [status EXCEPT ![i] = st]
  BY <1>1, <1>7
<1>14. status'[i] = st /\ \A j \in Invoice \ {i} : status'[j] = status[j]
  BY <1>13 DEF EvidenceInv
<1>15. /\ recon'[i] = Append(recon[i], r) /\ \A j \in Invoice \ {i} : recon'[j] = recon[j]
       /\ recon[i] \in Seq(Revision)
  BY <1>1, <1>7 DEF RevisionInv
<1>16. /\ Len(recon'[i]) = n + 1 /\ recon'[i][n + 1] = r
       /\ \A v \in 1 .. n : recon'[i][v] = recon[i][v]
  <2>1. r \in Revision
    BY <1>2, <1>4, BilledDays DEF r, Revision
  <2>2. QED
    BY <1>2, <1>15, <2>1, AppendProperties
<1>17. /\ \A u \in TasksOf(i) : state[u] = "COMPLETED" => state'[u] = "COMPLETED"
       /\ \A u \in TasksOf(i) : u # Rule(i, n + 1) /\ state'[u] # "ABSENT" => state[u] # "ABSENT"
       /\ state'[Recon(i, k)] = "COMPLETED"
  BY <1>4, <1>10, <1>11 DEF HandsOver, TasksOf
<1>18. OrderInv(i)'
  <2>1. \A v \in 1 .. Len(recon'[i]) : state'[Recon(i, recon'[i][v].key)] = "COMPLETED"
    <3>1. ASSUME NEW v \in 1 .. n PROVE state'[Recon(i, recon'[i][v].key)] = "COMPLETED"
      BY <1>2, <1>16, <1>17, TasksOfInvoice, RevisionKeys DEF Trail, OrderInv
    <3>2. \A v \in 1 .. n + 1 : v \in 1 .. n \/ v = n + 1
      BY <1>8
    <3>3. QED
      BY <1>3, <1>16, <1>17, <3>1, <3>2
  <2>2. \A v \in Version : state'[Rule(i, v)] # "ABSENT" => v <= Len(recon'[i])
    <3>1. ASSUME NEW v \in Version, state'[Rule(i, v)] # "ABSENT" PROVE v <= n + 1
      <4>1. CASE v = n + 1
        BY <1>8, <4>1
      <4>2. CASE v # n + 1
        <5>1. v <= n
          BY <1>2, <1>17, <3>1, <4>2, TasksOfInvoice, TaskParts DEF Trail, OrderInv
        <5>2. QED
          BY <1>8, <5>1 DEF Version
      <4>3. QED
        BY <4>1, <4>2
    <3>2. QED
      BY <1>16, <3>1
  <2>3. \A v \in Version : state'[Judge(i, v)] # "ABSENT" => state'[Rule(i, v)] = "COMPLETED"
    BY <1>9, <1>17, TasksOfInvoice, TaskParts DEF Trail, OrderInv
  <2>4. \A s \in Snapshot : state'[Recon(i, s)] # "ABSENT" => state'[Bind(i, s)] = "COMPLETED"
    BY <1>9, <1>17, TasksOfInvoice, TaskParts DEF Trail, OrderInv
  <2>5. \A v \in Version : rec'[i][v] # "NONE" => state'[Judge(i, v)] = "COMPLETED"
    BY <1>1, <1>17, TasksOfInvoice DEF Trail, OrderInv
  <2>6. \A v \in Version : Live(Rule(i, v))' \/ Live(Judge(i, v))' => v = Len(recon'[i])
    BY <1>12, <1>16, TasksOfInvoice, TaskParts
  <2>7. QED
    BY <2>1, <2>2, <2>3, <2>4, <2>5, <2>6 DEF OrderInv
<1>19. StandingInv(i)'
  <2>1. \A s \in Snapshot : ~Live(Bind(i, s))'
    BY <1>9, <1>12, TasksOfInvoice, TaskParts
  <2>2. \A v \in Version : rec'[i][v] \notin Decisive
    BY <1>1, <1>11 DEF Trail, StandingInv, HandsOver
  <2>3. QED
    BY <1>9, <1>12, <1>14, <2>1, <2>2 DEF StandingInv
<1>20. Elsewhere(i)
  BY <1>1, <1>11, <1>14, <1>15 DEF Elsewhere, HandsOver
<1>21. QED
  BY <1>11, <1>18, <1>19, <1>20 DEF Trail, HandsOver

\* complete_rule, whose judgment is new.
LEMMA RuleTrail ==
  ASSUME RowInv, RevisionInv, EvidenceInv, NEW w \in Worker, NEW verified \in BOOLEAN,
         CompleteRule(w, verified), NEW i \in Invoice, i = Inv(w), Trail(i)
  PROVE  Trail(i)' /\ Elsewhere(i)
<1>1. PICK v : v = Key(w)
  OBVIOUS
<1> DEFINE new == IF verified \/ CompleteRevision(recon[i][v]) THEN {Judge(i, v)} ELSE {}
<1>2. /\ On(w, "RULE") /\ Queue!Complete(w, new)
      /\ recon' = recon /\ rec' = rec
      /\ rule' = [rule EXCEPT ![i][v] = IF verified THEN "VERIFIED" ELSE "REJECTED"]
      /\ status' = [status EXCEPT ![i] = IF verified THEN "RECONSTRUCTING" ELSE "NEEDS_EVIDENCE"]
  BY <1>1 DEF CompleteRule, Publish
<1>3. v \in Version /\ lease[w].task = Rule(i, v)
  <2>1. lease[w].task \in Task /\ lease[w].task.kind = "RULE"
    BY <1>2, TaskOn
  <2>2. QED
    BY <1>1, <2>1, TaskFields, TaskForms DEF Inv, Key
<1>4. Judge(i, v) \in TasksOf(i) /\ Judge(i, v).kind = "JUDGE" /\ Judge(i, v).key = v
  BY <1>3, TasksOfInvoice, TaskParts
<1>5. new \in {{}, {Judge(i, v)}} /\ (verified => new # {})
  OBVIOUS
<1> HIDE DEF new
<1>6. PICK t \in TasksOf(i) : t = lease[w].task /\ t.kind = "RULE" /\ HandsOver(i, t, new)
  BY <1>2, <1>4, <1>5, CompleteTrail
<1>7. state[Judge(i, v)] = "ABSENT" /\ v = Len(recon[i])
  BY <1>3, <1>6 DEF Trail, OrderInv, HandsOver
<1>8. \A u \in TasksOf(i) : Live(u)' <=> u \in new
  BY <1>5, <1>6, <1>7 DEF HandsOver
<1>9. /\ \A u \in TasksOf(i) : state[u] = "COMPLETED" => state'[u] = "COMPLETED"
      /\ \A u \in TasksOf(i) : u # Judge(i, v) /\ state'[u] # "ABSENT" => state[u] # "ABSENT"
      /\ state'[Rule(i, v)] = "COMPLETED"
  BY <1>3, <1>5, <1>6 DEF HandsOver, TasksOf
<1>10. /\ status'[i] = IF verified THEN "RECONSTRUCTING" ELSE "NEEDS_EVIDENCE"
       /\ \A j \in Invoice \ {i} : status'[j] = status[j] /\ rule'[j] = rule[j]
  BY <1>2 DEF EvidenceInv
<1>11. OrderInv(i)'
  <2>1. \A x \in 1 .. Len(recon'[i]) : state'[Recon(i, recon'[i][x].key)] = "COMPLETED"
    BY <1>2, <1>9, TasksOfInvoice, RevisionKeys DEF Trail, OrderInv
  <2>2. \A x \in Version : state'[Rule(i, x)] # "ABSENT" => x <= Len(recon'[i])
    BY <1>2, <1>4, <1>9, TasksOfInvoice, TaskParts DEF Trail, OrderInv
  <2>3. \A x \in Version : state'[Judge(i, x)] # "ABSENT" => state'[Rule(i, x)] = "COMPLETED"
    BY <1>4, <1>9, TasksOfInvoice, TaskParts DEF Trail, OrderInv
  <2>4. \A s \in Snapshot : state'[Recon(i, s)] # "ABSENT" => state'[Bind(i, s)] = "COMPLETED"
    BY <1>4, <1>9, TasksOfInvoice, TaskParts DEF Trail, OrderInv
  <2>5. \A x \in Version : rec'[i][x] # "NONE" => state'[Judge(i, x)] = "COMPLETED"
    BY <1>2, <1>9, TasksOfInvoice DEF Trail, OrderInv
  <2>6. \A x \in Version : Live(Rule(i, x))' \/ Live(Judge(i, x))' => x = Len(recon'[i])
    BY <1>2, <1>5, <1>7, <1>8, TasksOfInvoice, TaskParts
  <2>7. QED
    BY <2>1, <2>2, <2>3, <2>4, <2>5, <2>6 DEF OrderInv
<1>12. StandingInv(i)'
  <2>1. \A s \in Snapshot : ~Live(Bind(i, s))'
    BY <1>4, <1>5, <1>8, TasksOfInvoice, TaskParts
  <2>2. \A x \in Version : rec'[i][x] \notin Decisive
    BY <1>2, <1>6 DEF Trail, StandingInv, HandsOver
  <2>3. (\A u \in TasksOf(i) : ~Live(u)') => status'[i] = "NEEDS_EVIDENCE"
    BY <1>4, <1>5, <1>8, <1>10
  <2>4. QED
    BY <1>10, <2>1, <2>2, <2>3 DEF StandingInv, Settled
<1>13. Elsewhere(i)
  BY <1>2, <1>6, <1>10 DEF Elsewhere, HandsOver
<1>14. QED
  BY <1>6, <1>11, <1>12, <1>13 DEF Trail, HandsOver

\* complete_judgment: a decision hands over to nothing.
LEMMA JudgmentTrail ==
  ASSUME RowInv, RevisionInv, EvidenceInv, NEW w \in Worker, NEW verdict \in RecType,
         CompleteJudgment(w, verdict), NEW i \in Invoice, i = Inv(w), Trail(i)
  PROVE  Trail(i)' /\ Elsewhere(i)
<1>1. PICK v : v = Key(w)
  OBVIOUS
<1>2. PICK new \in HeldBinding(i, v) : Queue!Complete(w, new)
  BY <1>1 DEF CompleteJudgment
<1>3. /\ On(w, "JUDGE") /\ Queue!Complete(w, new) /\ verdict \in Verdicts(i, v)
      /\ recon' = recon /\ rule' = rule
      /\ rec' = [rec EXCEPT ![i][v] = verdict]
      /\ status' = [status EXCEPT ![i] = IF verdict = "REQUEST_EVIDENCE" THEN "NEEDS_EVIDENCE"
                                         ELSE "READY_FOR_REVIEW"]
  BY <1>1, <1>2 DEF CompleteJudgment, Publish
<1>4. v \in Version /\ lease[w].task = Judge(i, v)
  <2>1. lease[w].task \in Task /\ lease[w].task.kind = "JUDGE"
    BY <1>3, TaskOn
  <2>2. QED
    BY <1>1, <2>1, TaskFields, TaskForms DEF Inv, Key
<1>5. (new = {} \/ \E c \in TasksOf(i) : new = {c}) /\ \A c \in new : c \in TasksOf(i) /\ c.kind = "BIND"
  <2>1. new = {} \/ \E s \in Snapshot : new = {Bind(i, s)}
    BY <1>2, HeldBindings
  <2>2. QED
    BY <2>1, TasksOfInvoice, TaskParts
<1>6. PICK t \in TasksOf(i) : t = lease[w].task /\ t.kind = "JUDGE" /\ HandsOver(i, t, new)
  BY <1>3, <1>5, CompleteTrail
<1>7. v = Len(recon[i])
  BY <1>4, <1>6 DEF Trail, OrderInv, HandsOver
<1>8. /\ \A u \in TasksOf(i) : state[u] = "COMPLETED" => state'[u] = "COMPLETED"
      /\ \A u \in TasksOf(i) : u.kind # "BIND" /\ state'[u] # "ABSENT" => state[u] # "ABSENT"
      /\ \A u \in TasksOf(i) : u.kind # "BIND" => ~Live(u)'
      /\ state'[Judge(i, v)] = "COMPLETED"
  BY <1>4, <1>5, <1>6 DEF HandsOver, TasksOf
<1>9. /\ status'[i] = IF verdict = "REQUEST_EVIDENCE" THEN "NEEDS_EVIDENCE" ELSE "READY_FOR_REVIEW"
      /\ \A j \in Invoice \ {i} : status'[j] = status[j]
  BY <1>3 DEF EvidenceInv
<1>10. /\ rec'[i][v] = verdict /\ \A x \in Version : x # v => rec'[i][x] = rec[i][x]
       /\ \A j \in Invoice \ {i} : rec'[j] = rec[j]
  BY <1>3, <1>4 DEF EvidenceInv
<1>11. OrderInv(i)'
  <2>1. \A x \in 1 .. Len(recon'[i]) : state'[Recon(i, recon'[i][x].key)] = "COMPLETED"
    BY <1>3, <1>8, TasksOfInvoice, RevisionKeys DEF Trail, OrderInv
  <2>2. \A x \in Version : state'[Rule(i, x)] # "ABSENT" => x <= Len(recon'[i])
    BY <1>3, <1>8, TasksOfInvoice, TaskParts DEF Trail, OrderInv
  <2>3. \A x \in Version : state'[Judge(i, x)] # "ABSENT" => state'[Rule(i, x)] = "COMPLETED"
    BY <1>8, TasksOfInvoice, TaskParts DEF Trail, OrderInv
  <2>4. \A s \in Snapshot : state'[Recon(i, s)] # "ABSENT" => state'[Bind(i, s)] = "COMPLETED"
    BY <1>8, TasksOfInvoice, TaskParts DEF Trail, OrderInv
  <2>5. \A x \in Version : rec'[i][x] # "NONE" => state'[Judge(i, x)] = "COMPLETED"
    BY <1>8, <1>10, TasksOfInvoice DEF Trail, OrderInv
  <2>6. \A x \in Version : Live(Rule(i, x))' \/ Live(Judge(i, x))' => x = Len(recon'[i])
    BY <1>8, TasksOfInvoice, TaskParts
  <2>7. QED
    BY <2>1, <2>2, <2>3, <2>4, <2>5, <2>6 DEF OrderInv
<1>12. verdict \in Decisive =>
         /\ rule[i][v] = "VERIFIED" /\ recon[i][v].lacking = {} /\ recon[i][v].other # "missing"
         /\ new = {}
  BY <1>2, <1>3, HeldBindings DEF Verdicts, Decisive
<1>13. verdict = "REQUEST_EVIDENCE" \/ verdict \in Decisive
  BY DEF RecType, Decisive
<1>14. StandingInv(i)'
  <2>1. \A x \in Version : x # v => rec'[i][x] \notin Decisive
    BY <1>6, <1>10 DEF Trail, StandingInv, HandsOver
  <2>2. \A x \in Version : rec'[i][x] \in Decisive => \A u \in TasksOf(i) : ~Live(u)'
    BY <1>6, <1>10, <1>12, <2>1 DEF HandsOver
  <2>3. status'[i] \in {"READY_FOR_REVIEW", "DISPUTED", "APPROVED_FOR_PAYMENT"} =>
          \E x \in Version : rec'[i][x] \in Decisive
    BY <1>4, <1>9, <1>10, <1>13
  <2>4. status'[i] = "READY_FOR_REVIEW" =>
          /\ rule'[i][Len(recon'[i])] = "VERIFIED"
          /\ recon'[i][Len(recon'[i])].lacking = {} /\ recon'[i][Len(recon'[i])].other # "missing"
          /\ rec'[i][Len(recon'[i])] \in Decisive
    BY <1>3, <1>7, <1>9, <1>10, <1>12, <1>13
  <2>5. QED
    BY <1>9, <2>2, <2>3, <2>4 DEF StandingInv, Settled, Latest
<1>15. Elsewhere(i)
  BY <1>3, <1>6, <1>9, <1>10 DEF Elsewhere, HandsOver
<1>16. QED
  BY <1>6, <1>11, <1>14, <1>15 DEF Trail, HandsOver

\* complete_access_binding, whose reconstruction is new.
LEMMA BindingTrail ==
  ASSUME RowInv, RevisionInv, EvidenceInv, NEW w \in Worker, NEW passed \in BOOLEAN,
         CompleteAccessBinding(w, passed), NEW i \in Invoice, i = Inv(w), Trail(i)
  PROVE  Trail(i)' /\ Elsewhere(i)
<1>1. PICK s : s = Key(w)
  OBVIOUS
<1> DEFINE new == IF passed THEN {Recon(i, s)} ELSE {}
<1>2. /\ On(w, "BIND") /\ Queue!Complete(w, new)
      /\ recon' = recon /\ rule' = rule /\ rec' = rec
      /\ status' = IF passed THEN [status EXCEPT ![i] = "RECONSTRUCTING"] ELSE status
  BY <1>1 DEF CompleteAccessBinding, Publish, invoiceVars
<1>3. s \in Snapshot /\ lease[w].task = Bind(i, s)
  <2>1. lease[w].task \in Task /\ lease[w].task.kind = "BIND"
    BY <1>2, TaskOn
  <2>2. QED
    BY <1>1, <2>1, TaskFields, TaskForms DEF Inv, Key
<1>4. Recon(i, s) \in TasksOf(i) /\ Recon(i, s).kind = "RECON" /\ Recon(i, s).key = s
  BY <1>3, TasksOfInvoice, TaskParts
<1>5. new \in {{}, {Recon(i, s)}} /\ (passed <=> new # {})
  OBVIOUS
<1> HIDE DEF new
<1>6. PICK t \in TasksOf(i) : t = lease[w].task /\ t.kind = "BIND" /\ HandsOver(i, t, new)
  BY <1>2, <1>4, <1>5, CompleteTrail
<1>7. state[Recon(i, s)] = "ABSENT"
  BY <1>3, <1>6 DEF Trail, OrderInv, HandsOver
<1>8. \A u \in TasksOf(i) : Live(u)' <=> u \in new
  BY <1>5, <1>6, <1>7 DEF HandsOver
<1>9. /\ \A u \in TasksOf(i) : state[u] = "COMPLETED" => state'[u] = "COMPLETED"
      /\ \A u \in TasksOf(i) : u # Recon(i, s) /\ state'[u] # "ABSENT" => state[u] # "ABSENT"
      /\ state'[Bind(i, s)] = "COMPLETED"
      /\ \A u \in TasksOf(i) : state[u] = "BLOCKED" => state'[u] = "BLOCKED"
  BY <1>3, <1>5, <1>6 DEF HandsOver, TasksOf
<1>10. /\ status'[i] = IF passed THEN "RECONSTRUCTING" ELSE status[i]
       /\ \A j \in Invoice \ {i} : status'[j] = status[j]
  BY <1>2 DEF EvidenceInv
<1>11. OrderInv(i)'
  <2>1. \A x \in 1 .. Len(recon'[i]) : state'[Recon(i, recon'[i][x].key)] = "COMPLETED"
    BY <1>2, <1>9, TasksOfInvoice, RevisionKeys DEF Trail, OrderInv
  <2>2. \A x \in Version : state'[Rule(i, x)] # "ABSENT" => x <= Len(recon'[i])
    BY <1>2, <1>4, <1>9, TasksOfInvoice, TaskParts DEF Trail, OrderInv
  <2>3. \A x \in Version : state'[Judge(i, x)] # "ABSENT" => state'[Rule(i, x)] = "COMPLETED"
    BY <1>4, <1>9, TasksOfInvoice, TaskParts DEF Trail, OrderInv
  <2>4. \A q \in Snapshot : state'[Recon(i, q)] # "ABSENT" => state'[Bind(i, q)] = "COMPLETED"
    BY <1>4, <1>9, TasksOfInvoice, TaskParts DEF Trail, OrderInv
  <2>5. \A x \in Version : rec'[i][x] # "NONE" => state'[Judge(i, x)] = "COMPLETED"
    BY <1>2, <1>9, TasksOfInvoice DEF Trail, OrderInv
  <2>6. \A x \in Version : ~Live(Rule(i, x))' /\ ~Live(Judge(i, x))'
    BY <1>4, <1>5, <1>8, TasksOfInvoice, TaskParts
  <2>7. QED
    BY <2>1, <2>2, <2>3, <2>4, <2>5, <2>6 DEF OrderInv
<1>12. StandingInv(i)'
  <2>1. \A q \in Snapshot : ~Live(Bind(i, q))'
    BY <1>4, <1>5, <1>8, TasksOfInvoice, TaskParts
  <2>2. \A x \in Version : rec'[i][x] \notin Decisive
    BY <1>2, <1>6 DEF Trail, StandingInv, HandsOver
  <2>3. status[i] \in Settled
    BY <1>3, <1>6 DEF Trail, StandingInv, HandsOver
  <2>4. (\A u \in TasksOf(i) : ~Live(u)') => status'[i] \in Settled
    BY <1>4, <1>5, <1>8, <1>10, <2>3
  <2>5. status[i] \notin {"READY_FOR_REVIEW", "DISPUTED", "APPROVED_FOR_PAYMENT"}
    BY <1>2, <2>2 DEF Trail, StandingInv
  <2>6. QED
    BY <1>10, <2>1, <2>2, <2>4, <2>5 DEF StandingInv
<1>13. Elsewhere(i)
  BY <1>2, <1>6, <1>10 DEF Elsewhere, HandsOver
<1>14. QED
  BY <1>6, <1>11, <1>12, <1>13 DEF Trail, HandsOver

-----------------------------------------------------------------------------
\* The other steps.

\* A task that is given up, and the invoice's last word on it.
LEMMA GiveUp ==
  ASSUME RowInv, RevisionInv, NEW i \in Invoice, Trail(i), NEW t \in TasksOf(i), Live(t),
         t.kind # "BIND", NEW s \in {"FAILED", "BLOCKED"}, state' = [state EXCEPT ![t] = s],
         recon'[i] = recon[i], rule'[i] = rule[i], rec'[i] = rec[i],
         \/ status'[i] \in {"BLOCKED", "NEEDS_EVIDENCE"}
         \/ t.kind = "JUDGE" /\ s = "BLOCKED" /\ status'[i] = status[i]
  PROVE  Trail(i)'
<1>1. t \in Task /\ \A u \in Task : state'[u] = IF u = t THEN s ELSE state[u]
  BY DEF RowInv, TasksOf
<1>2. TokenInv(i)' /\ \A u \in TasksOf(i) : ~Live(u)'
  <2>1. \A u \in TasksOf(i) : ~Live(u)'
    BY <1>1 DEF Live, TasksOf, Trail, TokenInv
  <2>2. ASSUME NEW u \in TasksOf(i), u.kind # "EXTRACT", state'[u] # "ABSENT"
        PROVE  \E n \in 1 .. ExtractVersions : state'[Extract(i, n)] = "COMPLETED"
    <3>1. PICK n \in 1 .. ExtractVersions : state[Extract(i, n)] = "COMPLETED"
      BY <1>1, <2>2 DEF Live, TasksOf, Trail, TokenInv
    <3>2. Extract(i, n) \in Task /\ Extract(i, n) # t
      BY <3>1, TasksOfInvoice DEF Live, TasksOf
    <3>3. QED
      BY <1>1, <3>1, <3>2
  <2>3. \A u \in TasksOf(i) :
          /\ u.kind # "BIND" => state'[u] # "HELD"
          /\ u.kind = "BIND" => state'[u] \notin {"FAILED", "BLOCKED"}
    BY <1>1 DEF TasksOf, Trail, TokenInv
  <2>4. QED
    BY <2>1, <2>2, <2>3 DEF TokenInv
<1>3. /\ \A u \in TasksOf(i) : state[u] = "COMPLETED" => state'[u] = "COMPLETED"
      /\ \A u \in TasksOf(i) : state'[u] # "ABSENT" => state[u] # "ABSENT"
  BY <1>1 DEF Live, TasksOf
<1>4. OrderInv(i)'
  BY <1>2, <1>3, OrderKept DEF Trail
<1>5. \A v \in Version : rec'[i][v] \notin Decisive
  BY DEF Trail, StandingInv
<1>6. status[i] \notin {"READY_FOR_REVIEW", "DISPUTED", "APPROVED_FOR_PAYMENT"}
  BY <1>5 DEF Trail, StandingInv
<1>7. status'[i] \in Settled \cup {"ABSENT"} \/ JudgmentBlocked(i)'
  <2>1. CASE status'[i] \in {"BLOCKED", "NEEDS_EVIDENCE"}
    BY <2>1 DEF Settled
  <2>2. CASE t.kind = "JUDGE" /\ s = "BLOCKED"
    <3>1. t.key \in Version /\ t = Judge(i, t.key)
      BY <1>1, <2>2, TaskFields, TaskForms DEF TasksOf
    <3>2. QED
      BY <1>1, <2>2, <3>1 DEF JudgmentBlocked
  <2>3. QED
    BY <2>1, <2>2
<1>8. StandingInv(i)'
  BY <1>2, <1>5, <1>6, <1>7, TasksOfInvoice DEF StandingInv
<1>9. QED
  BY <1>2, <1>4, <1>8 DEF Trail

\* A step on one task of an invoice leaves the others alone.
LEMMA OneTaskElsewhere ==
  ASSUME RowInv, EvidenceInv, NEW i \in Invoice, NEW t \in TasksOf(i), NEW s,
         state' = [state EXCEPT ![t] = s], recon' = recon, rule' = rule, rec' = rec,
         status' = status \/ \E st : status' = [status EXCEPT ![i] = st]
  PROVE  Elsewhere(i)
<1>1. \A j \in Invoice \ {i} : \A u \in TasksOf(j) : state'[u] = state[u]
  BY DEF RowInv, TasksOf
<1>2. \A j \in Invoice \ {i} : status'[j] = status[j]
  BY DEF EvidenceInv
<1>3. QED
  BY <1>1, <1>2 DEF Elsewhere

\* fail_extraction, fail_reconstruction, fail_rule and fail_judgment.
LEMMA FailTrail ==
  ASSUME RowInv, RevisionInv, EvidenceInv, NEW w \in Worker, NEW retryable \in BOOLEAN,
         \/ FailExtraction(w, retryable)
         \/ FailReconstruction(w, retryable)
         \/ FailRule(w, retryable)
         \/ FailJudgment(w),
         NEW i \in Invoice, i = Inv(w), Trail(i)
  PROVE  Trail(i)' /\ Elsewhere(i)
<1>1. PICK kind \in {"EXTRACT", "RECON", "RULE", "JUDGE"}, retried \in BOOLEAN :
        /\ On(w, kind) /\ Queue!Fail(w, retried)
        /\ recon' = recon /\ rule' = rule /\ rec' = rec
        /\ \/ kind = "JUDGE" /\ status' = status
           \/ /\ Queue!WillRetry(w, retried)
              /\ \E st \in {"INITIAL_PROCESSING", "RECONSTRUCTING"} : status' = [status EXCEPT ![i] = st]
           \/ /\ ~Queue!WillRetry(w, retried)
              /\ \E st \in {"BLOCKED", "NEEDS_EVIDENCE"} : status' = [status EXCEPT ![i] = st]
  <2>1. CASE FailExtraction(w, retryable)
    BY <2>1 DEF FailExtraction, Publish, evidenceVars
  <2>2. CASE FailReconstruction(w, retryable)
    BY <2>2 DEF FailReconstruction, Publish, evidenceVars
  <2>3. CASE FailRule(w, retryable)
    BY <2>3 DEF FailRule, Publish, evidenceVars
  <2>4. CASE FailJudgment(w)
    BY <2>4 DEF FailJudgment, invoiceVars, evidenceVars, On
  <2>5. QED
    BY <2>1, <2>2, <2>3, <2>4
<1>2. PICK t \in TasksOf(i) : t = lease[w].task /\ t.kind = kind /\ Live(t) /\ t \in Task
  BY <1>1, CurrentTask DEF Queue!Fail, TasksOf
<1>3. PICK s : /\ state' = [state EXCEPT ![t] = s]
               /\ s = IF Queue!WillRetry(w, retried) THEN "RETRY_WAIT" ELSE Queue!DeadState(t)
  BY <1>1, <1>2 DEF Queue!Fail
<1>4. Elsewhere(i)
  BY <1>1, <1>2, <1>3, OneTaskElsewhere
<1>5. \A st : status' = [status EXCEPT ![i] = st] => status'[i] = st
  BY DEF EvidenceInv
<1>6. CASE Queue!WillRetry(w, retried)
  <2>1. s = "RETRY_WAIT"
    BY <1>3, <1>6
  <2>2. status'[i] = status[i] \/ status'[i] \in {"INITIAL_PROCESSING", "RECONSTRUCTING"}
    BY <1>1, <1>5, <1>6
  <2>3. Trail(i)'
    BY <1>1, <1>2, <1>3, <2>1, <2>2, GoOn
  <2>4. QED
    BY <1>4, <2>3
<1>7. CASE ~Queue!WillRetry(w, retried)
  <2>1. s \in {"FAILED", "BLOCKED"} /\ (kind = "JUDGE" => s = "BLOCKED")
    <3>1. t.kind = "JUDGE" => t \notin ExtractTask
      BY DEF ExtractTask, Extract
    <3>2. QED
      BY <1>2, <1>3, <1>7, <3>1 DEF Queue!DeadState
  <2>2. \/ kind = "JUDGE" /\ status'[i] = status[i]
        \/ status'[i] \in {"BLOCKED", "NEEDS_EVIDENCE"}
    BY <1>1, <1>5, <1>7
  <2>3. Trail(i)'
    BY <1>1, <1>2, <1>3, <2>1, <2>2, GiveUp
  <2>4. QED
    BY <1>4, <2>3
<1>8. QED
  BY <1>6, <1>7

\* finalize_received_invoice and retry_extraction_task: nothing of the invoice could
\* run, and nothing but extractions was there.
LEMMA InsertTrail ==
  ASSUME RowInv, RevisionInv, ExtractInv, EvidenceInv, NEW i \in Invoice,
         Receive(i) \/ RetryExtraction(i), Trail(i)
  PROVE  Trail(i)' /\ Elsewhere(i)
<1>1. PICK n \in 1 .. ExtractVersions :
        /\ Queue!Insert(Extract(i, n))
        /\ n = 1 \/ (n - 1 \in 1 .. ExtractVersions /\ state[Extract(i, n - 1)] = "FAILED")
  <2>1. CASE Receive(i)
    <3>1. Queue!Insert(Extract(i, 1))
      BY <2>1 DEF Receive
    <3>2. 1 \in 1 .. ExtractVersions
      BY ExtractAssumption
    <3>3. QED
      BY <3>1, <3>2
  <2>2. CASE RetryExtraction(i)
    <3>1. PICK m \in 1 .. ExtractVersions - 1 :
            state[Extract(i, m)] = "FAILED" /\ Queue!Insert(Extract(i, m + 1))
      BY <2>2 DEF RetryExtraction
    <3>2. m \in 1 .. ExtractVersions /\ m + 1 \in 1 .. ExtractVersions /\ (m + 1) - 1 = m
      BY ExtractAssumption
    <3>3. QED
      BY <3>1, <3>2
  <2>3. QED
    BY <2>1, <2>2
<1>2. /\ recon' = recon /\ rule' = rule /\ rec' = rec
      /\ status' = [status EXCEPT ![i] = "RECEIVED"]
  BY DEF Receive, RetryExtraction, Publish, evidenceVars
<1>3. PICK t \in TasksOf(i) : t = Extract(i, n)
  BY TasksOfInvoice
<1>4. /\ t \in Task /\ t.kind = "EXTRACT" /\ state[t] = "ABSENT"
      /\ state' = [state EXCEPT ![t] = "PENDING"]
  BY <1>1, <1>3, ExtractTasks DEF Queue!Insert, Queue!Created
<1>5. \A m \in 1 .. ExtractVersions : state[Extract(i, m)] \in {"FAILED", "ABSENT"}
  <2>1. ASSUME NEW m \in 1 .. ExtractVersions, m < n PROVE state[Extract(i, m)] = "FAILED"
    BY <1>1, <2>1, ExtractAssumption DEF ExtractInv
  <2>2. ASSUME NEW m \in 1 .. ExtractVersions, n < m PROVE state[Extract(i, m)] = "ABSENT"
    BY <1>3, <1>4, <2>2 DEF ExtractInv
  <2>3. \A m \in 1 .. ExtractVersions : m < n \/ n < m \/ m = n
    BY ExtractAssumption
  <2>4. QED
    BY <1>3, <1>4, <2>1, <2>2, <2>3
<1>6. \A u \in TasksOf(i) : u.kind # "EXTRACT" => state[u] = "ABSENT"
  BY <1>5 DEF Trail, TokenInv
<1>7. \A u \in TasksOf(i) : ~Live(u)
  <2>1. ASSUME NEW u \in TasksOf(i), u.kind = "EXTRACT" PROVE state[u] \in {"FAILED", "ABSENT"}
    BY <1>5, <2>1, TaskFields DEF TasksOf
  <2>2. QED
    BY <1>6, <2>1 DEF Live
<1>8. state'[t] = "PENDING" /\ \A u \in TasksOf(i) : u # t => state'[u] = state[u]
  BY <1>4 DEF RowInv, TasksOf
<1>9. \A u \in TasksOf(i) : Live(u)' <=> u = t
  BY <1>7, <1>8 DEF Live
<1>10. TokenInv(i)'
  BY <1>4, <1>6, <1>8, <1>9 DEF Trail, TokenInv
<1>11. OrderInv(i)'
  <2>1. \A u \in TasksOf(i) : state[u] = "COMPLETED" => state'[u] = "COMPLETED"
    BY <1>4, <1>8
  <2>2. \A u \in TasksOf(i) : u.kind \in {"RULE", "JUDGE", "RECON"} =>
          (state'[u] # "ABSENT" => state[u] # "ABSENT") /\ (Live(u)' => Live(u))
    BY <1>4, <1>8, <1>9
  <2>3. QED
    BY <1>2, <2>1, <2>2, OrderKept DEF Trail
<1>12. /\ status'[i] = "RECEIVED"
       /\ \A j \in Invoice \ {i} : status'[j] = status[j]
  BY <1>2 DEF EvidenceInv
<1>13. \A v \in Version : rec'[i][v] \notin Decisive
  <2>1. \A v \in Version : state[Judge(i, v)] = "ABSENT"
    BY <1>6, TasksOfInvoice, TaskParts
  <2>2. QED
    BY <1>2, <2>1 DEF Trail, OrderInv, Decisive
<1>14. \A s \in Snapshot : ~Live(Bind(i, s))'
  BY <1>4, <1>9, TasksOfInvoice, TaskParts
<1>15. StandingInv(i)'
  BY <1>9, <1>12, <1>13, <1>14 DEF StandingInv
<1>16. Elsewhere(i)
  <2>1. \A j \in Invoice \ {i} : \A u \in TasksOf(j) : state'[u] = state[u]
    BY <1>4 DEF RowInv, TasksOf
  <2>2. QED
    BY <1>2, <1>12, <2>1 DEF Elsewhere
<1>17. QED
  BY <1>10, <1>11, <1>15, <1>16 DEF Trail

\* The claim of a task: extraction, reconstruction and rule search show it.
LEMMA ClaimTrail ==
  ASSUME RowInv, RevisionInv, EvidenceInv, NEW w \in Worker, NEW t \in Task, Claim(w, t),
         NEW i \in Invoice, i = t.inv, Trail(i)
  PROVE  Trail(i)' /\ Elsewhere(i)
<1>1. /\ t \in TasksOf(i) /\ Live(t)
      /\ state' = [state EXCEPT ![t] = "RUNNING"]
      /\ recon' = recon /\ rule' = rule /\ rec' = rec
  BY DEF Claim, Queue!Claim, Queue!Claimable, Live, TasksOf, evidenceVars
<1>2. CASE t.kind = "EXTRACT"
  <2>1. status' = [status EXCEPT ![i] = "INITIAL_PROCESSING"]
    BY <1>2 DEF Claim, Publish
  <2>2. status'[i] = "INITIAL_PROCESSING"
    BY <2>1 DEF EvidenceInv
  <2>3. QED
    BY <1>1, <1>2, <2>1, <2>2, GoOn, OneTaskElsewhere
<1>3. CASE t.kind \in {"RECON", "RULE"}
  <2>1. status' = [status EXCEPT ![i] = "RECONSTRUCTING"]
    BY <1>3 DEF Claim, Publish
  <2>2. status'[i] = "RECONSTRUCTING" /\ t.kind # "BIND"
    BY <1>3, <2>1 DEF EvidenceInv
  <2>3. QED
    BY <1>1, <2>1, <2>2, GoOn, OneTaskElsewhere
<1>4. CASE t.kind \in {"JUDGE", "BIND"}
  <2>1. status' = status
    BY <1>4 DEF Claim, invoiceVars
  <2>2. QED
    BY <1>1, <2>1, GoOn, OneTaskElsewhere
<1>5. QED
  BY <1>2, <1>3, <1>4, TaskFields

\* release_access_evidence: the status stays what it was.
LEMMA ReleaseTrail ==
  ASSUME RowInv, RevisionInv, EvidenceInv, NEW i \in Invoice, ReleaseAccessEvidence(i), Trail(i)
  PROVE  Trail(i)' /\ Elsewhere(i)
<1>1. PICK s \in Snapshot : Queue!Release(Bind(i, s))
  BY DEF ReleaseAccessEvidence
<1>2. PICK t \in TasksOf(i) : t = Bind(i, s)
  BY TasksOfInvoice
<1>3. /\ Live(t) /\ state' = [state EXCEPT ![t] = "PENDING"]
      /\ recon' = recon /\ rule' = rule /\ rec' = rec /\ status' = status
  BY <1>1, <1>2 DEF Queue!Release, Live, ReleaseAccessEvidence, invoiceVars, evidenceVars
<1>4. QED
  BY <1>3, GoOn, OneTaskElsewhere

\* approve_and_seal: the status tells the recommendation that was sealed.
LEMMA SealTrail ==
  ASSUME RevisionInv, EvidenceInv, NEW i \in Invoice, NEW v \in Version, ApproveAndSeal(i, v),
         Trail(i)
  PROVE  Trail(i)' /\ Elsewhere(i)
<1>1. PICK st : st = Outcome(rec[i][v])
  OBVIOUS
<1>2. /\ state' = state /\ recon' = recon /\ rule' = rule /\ rec' = rec /\ rec[i][v] # "NONE"
      /\ status' = [status EXCEPT ![i] = st]
  BY <1>1 DEF ApproveAndSeal, Publish, queueVars, evidenceVars
<1>3. status'[i] = st /\ \A j \in Invoice \ {i} : status'[j] = status[j]
  BY <1>2 DEF EvidenceInv
<1>4. /\ st \in {"DISPUTED", "APPROVED_FOR_PAYMENT", "READY_TO_SEND"}
      /\ st \in {"DISPUTED", "APPROVED_FOR_PAYMENT"} => rec[i][v] \in Decisive
  BY <1>1 DEF Outcome, Decisive
<1>5. \A u : Live(u)' <=> Live(u)
  BY <1>2 DEF Live
<1>6. TokenInv(i)'
  BY <1>2, <1>5 DEF Trail, TokenInv
<1>7. OrderInv(i)'
  BY <1>2, <1>5, OrderKept DEF Trail
<1>8. StandingInv(i)'
  <2>1. status'[i] \in Settled /\ status'[i] # "READY_FOR_REVIEW"
    BY <1>3, <1>4 DEF Settled
  <2>2. status'[i] \in {"READY_FOR_REVIEW", "DISPUTED", "APPROVED_FOR_PAYMENT"} =>
          \E x \in Version : rec'[i][x] \in Decisive
    BY <1>2, <1>3, <1>4
  <2>3. QED
    BY <1>2, <1>5, <2>1, <2>2 DEF Trail, StandingInv
<1>9. Elsewhere(i)
  BY <1>2, <1>3 DEF Elsewhere
<1>10. QED
  BY <1>6, <1>7, <1>8, <1>9 DEF Trail

-----------------------------------------------------------------------------
\* All steps.

\* The evidence keeps its types.
LEMMA EvidenceStep ==
  ASSUME RowInv, EvidenceInv, [Next]_vars
  PROVE  EvidenceInv'
<1>1. ASSUME rule' = rule, rec' = rec,
             status' = status \/ \E i, st : st \in Status /\ status' = [status EXCEPT ![i] = st]
      PROVE  EvidenceInv'
  BY <1>1 DEF EvidenceInv
<1>2. ASSUME NEW w \in Worker, Handle(w) PROVE EvidenceInv'
  <2>1. ASSUME NEW passed \in BOOLEAN, CompleteExtraction(w, passed) PROVE EvidenceInv'
    BY <1>1, <2>1 DEF CompleteExtraction, Publish, Status
  <2>2. ASSUME NEW retryable \in BOOLEAN, FailExtraction(w, retryable) PROVE EvidenceInv'
    BY <1>1, <2>2 DEF FailExtraction, Publish, Status, evidenceVars
  <2>3. ASSUME RetrieveMemory(w) PROVE EvidenceInv'
    BY <1>1, <2>3 DEF RetrieveMemory, invoiceVars, evidenceVars
  <2>4. ASSUME NEW other \in {"none", "missing", "excluded"}, CompleteReconstruction(w, other)
        PROVE  EvidenceInv'
    <3>1. /\ rule' = rule /\ rec' = rec
          /\ \/ status' = status
             \/ \E st \in {"RECONSTRUCTING", "NEEDS_EVIDENCE"} :
                  status' = [status EXCEPT ![Inv(w)] = st]
      BY <2>4 DEF CompleteReconstruction, Publish, invoiceVars
    <3>2. QED
      BY <1>1, <3>1 DEF Status
  <2>5. ASSUME NEW retryable \in BOOLEAN, FailReconstruction(w, retryable) PROVE EvidenceInv'
    BY <1>1, <2>5 DEF FailReconstruction, Publish, Status, evidenceVars
  <2>6. ASSUME NEW verified \in BOOLEAN, CompleteRule(w, verified) PROVE EvidenceInv'
    <3>1. PICK x \in {"VERIFIED", "REJECTED"}, st \in {"RECONSTRUCTING", "NEEDS_EVIDENCE"} :
            /\ rec' = rec /\ rule' = [rule EXCEPT ![Inv(w)][Key(w)] = x]
            /\ status' = [status EXCEPT ![Inv(w)] = st]
      <4>1. /\ rec' = rec
            /\ rule' = [rule EXCEPT ![Inv(w)][Key(w)] = IF verified THEN "VERIFIED" ELSE "REJECTED"]
            /\ status' = [status EXCEPT ![Inv(w)] = IF verified THEN "RECONSTRUCTING"
                                                    ELSE "NEEDS_EVIDENCE"]
        BY <2>6 DEF CompleteRule, Publish
      <4>2. QED
        BY <4>1
    <3>2. QED
      BY <3>1 DEF EvidenceInv, Status
  <2>7. ASSUME NEW retryable \in BOOLEAN, FailRule(w, retryable) PROVE EvidenceInv'
    BY <1>1, <2>7 DEF FailRule, Publish, Status, evidenceVars
  <2>8. ASSUME NEW verdict \in RecType, CompleteJudgment(w, verdict) PROVE EvidenceInv'
    <3>1. PICK st \in {"NEEDS_EVIDENCE", "READY_FOR_REVIEW"} :
            /\ rule' = rule /\ rec' = [rec EXCEPT ![Inv(w)][Key(w)] = verdict]
            /\ status' = [status EXCEPT ![Inv(w)] = st]
      <4>1. /\ rule' = rule /\ rec' = [rec EXCEPT ![Inv(w)][Key(w)] = verdict]
            /\ status' = [status EXCEPT ![Inv(w)] = IF verdict = "REQUEST_EVIDENCE"
                                                    THEN "NEEDS_EVIDENCE" ELSE "READY_FOR_REVIEW"]
        BY <2>8 DEF CompleteJudgment, Publish
      <4>2. QED
        BY <4>1
    <3>2. QED
      BY <3>1 DEF EvidenceInv, Status
  <2>9. ASSUME FailJudgment(w) PROVE EvidenceInv'
    BY <1>1, <2>9 DEF FailJudgment, invoiceVars, evidenceVars
  <2>10. ASSUME NEW passed \in BOOLEAN, CompleteAccessBinding(w, passed) PROVE EvidenceInv'
    BY <1>1, <2>10 DEF CompleteAccessBinding, Publish, Status, invoiceVars
  <2>11. QED
    BY <1>2, <2>1, <2>2, <2>3, <2>4, <2>5, <2>6, <2>7, <2>8, <2>9, <2>10 DEF Handle
<1>3. ASSUME NEW i \in Invoice, Receive(i) \/ RetryExtraction(i) PROVE EvidenceInv'
  BY <1>1, <1>3 DEF Receive, RetryExtraction, Publish, Status, evidenceVars
<1>4. ASSUME NEW i \in Invoice, ReleaseAccessEvidence(i) PROVE EvidenceInv'
  BY <1>1, <1>4 DEF ReleaseAccessEvidence, invoiceVars, evidenceVars
<1>5. ASSUME NEW i \in Invoice, NEW v \in Version, ApproveAndSeal(i, v) PROVE EvidenceInv'
  <2>1. Outcome(rec[i][v]) \in Status
    BY DEF Outcome, Status
  <2>2. QED
    BY <1>1, <1>5, <2>1 DEF ApproveAndSeal, Publish, evidenceVars
<1>6. ASSUME NEW w \in Worker, NEW t \in Task, Claim(w, t) PROVE EvidenceInv'
  <2>1. /\ rule' = rule /\ rec' = rec
        /\ \/ status' = status
           \/ \E st \in {"INITIAL_PROCESSING", "RECONSTRUCTING"} :
                status' = [status EXCEPT ![t.inv] = st]
    BY <1>6 DEF Claim, Publish, invoiceVars, evidenceVars
  <2>2. QED
    BY <1>1, <2>1 DEF Status
<1>7. ASSUME \/ \E w \in Worker : LoseLease(w) \/ Crash(w)
             \/ \E t \in Task : ClockPasses(t)
             \/ UNCHANGED vars
      PROVE  EvidenceInv'
  BY <1>1, <1>7 DEF LoseLease, Crash, Forget, ClockPasses, vars, invoiceVars, evidenceVars
<1>8. QED
  BY <1>2, <1>3, <1>4, <1>5, <1>6, <1>7 DEF Next

\* A step is on behalf of one invoice, and keeps its tasks in order, or of none.
LEMMA TrailStep ==
  ASSUME RowInv, RevisionInv, ExtractInv, EvidenceInv, \A j \in Invoice : Trail(j), [Next]_vars
  PROVE  \A j \in Invoice : Trail(j)'
<1>1. ASSUME NEW i \in Invoice, Trail(i)' /\ Elsewhere(i)
      PROVE  \A j \in Invoice : Trail(j)'
  <2>1. ASSUME NEW j \in Invoice, j # i PROVE Trail(j)'
    BY <1>1, <2>1, ElsewhereTrail DEF Elsewhere
  <2>2. QED
    BY <1>1, <2>1
<1>2. ASSUME state' = state, recon' = recon, rule' = rule, rec' = rec, status' = status
      PROVE  \A j \in Invoice : Trail(j)'
  BY <1>2, ElsewhereTrail
<1>3. ASSUME NEW w \in Worker, Handle(w) PROVE \A j \in Invoice : Trail(j)'
  <2>1. CASE RetrieveMemory(w)
    BY <1>2, <2>1 DEF RetrieveMemory, queueVars, invoiceVars, evidenceVars
  <2>2. CASE ~RetrieveMemory(w)
    <3>1. \E kind : On(w, kind)
      BY <1>3, <2>2 DEF Handle, CompleteExtraction, FailExtraction, CompleteReconstruction,
                        FailReconstruction, CompleteRule, FailRule, CompleteJudgment, FailJudgment,
                        CompleteAccessBinding
    <3>2. PICK i \in Invoice : i = Inv(w)
      BY <3>1, TaskOn
    <3>3. Trail(i)' /\ Elsewhere(i)
      <4>1. ASSUME NEW passed \in BOOLEAN, CompleteExtraction(w, passed) PROVE Trail(i)' /\ Elsewhere(i)
        BY <3>2, <4>1, ExtractionTrail
      <4>2. ASSUME NEW retryable \in BOOLEAN,
                   \/ FailExtraction(w, retryable)
                   \/ FailReconstruction(w, retryable)
                   \/ FailRule(w, retryable)
                   \/ FailJudgment(w)
            PROVE  Trail(i)' /\ Elsewhere(i)
        BY <3>2, <4>2, FailTrail
      <4>3. ASSUME NEW other \in {"none", "missing", "excluded"}, CompleteReconstruction(w, other)
            PROVE  Trail(i)' /\ Elsewhere(i)
        BY <3>2, <4>3, ReconstructionTrail
      <4>4. ASSUME NEW verified \in BOOLEAN, CompleteRule(w, verified) PROVE Trail(i)' /\ Elsewhere(i)
        BY <3>2, <4>4, RuleTrail
      <4>5. ASSUME NEW verdict \in RecType, CompleteJudgment(w, verdict)
            PROVE  Trail(i)' /\ Elsewhere(i)
        BY <3>2, <4>5, JudgmentTrail
      <4>6. ASSUME NEW passed \in BOOLEAN, CompleteAccessBinding(w, passed)
            PROVE  Trail(i)' /\ Elsewhere(i)
        BY <3>2, <4>6, BindingTrail
      <4>7. QED
        BY <1>3, <2>2, <4>1, <4>2, <4>3, <4>4, <4>5, <4>6 DEF Handle
    <3>4. QED
      BY <1>1, <3>3
  <2>3. QED
    BY <2>1, <2>2
<1>4. ASSUME NEW i \in Invoice,
             \/ Receive(i) \/ RetryExtraction(i)
             \/ ReleaseAccessEvidence(i)
             \/ \E v \in Version : ApproveAndSeal(i, v)
      PROVE  \A j \in Invoice : Trail(j)'
  <2>1. Trail(i)' /\ Elsewhere(i)
    BY <1>4, InsertTrail, ReleaseTrail, SealTrail
  <2>2. QED
    BY <1>1, <2>1
<1>5. ASSUME NEW w \in Worker, NEW t \in Task, Claim(w, t) PROVE \A j \in Invoice : Trail(j)'
  <2>1. PICK i \in Invoice : i = t.inv
    BY TaskFields
  <2>2. Trail(i)' /\ Elsewhere(i)
    BY <1>5, <2>1, ClaimTrail
  <2>3. QED
    BY <1>1, <2>2
<1>6. ASSUME \/ \E w \in Worker : LoseLease(w) \/ Crash(w)
             \/ \E t \in Task : ClockPasses(t)
             \/ UNCHANGED vars
      PROVE  \A j \in Invoice : Trail(j)'
  <2>1. state' = state
    BY <1>6 DEF LoseLease, Crash, ClockPasses, Queue!LoseLease, Queue!Crash, Queue!ClockPasses,
                vars, queueVars
  <2>2. recon' = recon /\ rule' = rule /\ rec' = rec /\ status' = status
    BY <1>6 DEF LoseLease, Crash, Forget, ClockPasses, vars, invoiceVars, evidenceVars
  <2>3. QED
    BY <1>2, <2>1, <2>2
<1>7. QED
  BY <1>3, <1>4, <1>5, <1>6 DEF Next

-----------------------------------------------------------------------------
\* In the beginning nothing was received.
LEMMA InitIInv == Init => IInv
<1> SUFFICES ASSUME Init PROVE IInv
  OBVIOUS
<1>1. RowInv
  BY DEF Init, RowInv, Queue!Init, Queue!TaskState
<1>2. RevisionInv
  BY DEF Init, RevisionInv
<1>3. ExtractInv
  <2>1. \A i \in Invoice, n \in 1 .. ExtractVersions : state[Extract(i, n)] = "ABSENT"
    BY ExtractTasks DEF Init, Queue!Init
  <2>2. claimSets = [i \in Invoice |-> 0]
    BY DEF Init
  <2>3. QED
    BY <2>1, <2>2 DEF ExtractInv
<1>4. EvidenceInv
  BY DEF Init, EvidenceInv, Status
<1>5. ASSUME NEW i \in Invoice PROVE Trail(i)
  <2>1. /\ \A t \in TasksOf(i) : state[t] = "ABSENT"
        /\ \A t \in TasksOf(i) : ~Live(t)
    BY DEF Init, Queue!Init, TasksOf, Live
  <2>2. recon[i] = <<>> /\ status[i] = "ABSENT" /\ \A v \in Version : rec[i][v] = "NONE"
    BY DEF Init
  <2>3. TokenInv(i)
    BY <2>1 DEF TokenInv
  <2>4. OrderInv(i)
    BY <2>1, <2>2, TasksOfInvoice DEF OrderInv
  <2>5. StandingInv(i)
    BY <2>1, <2>2, TasksOfInvoice DEF StandingInv, Decisive
  <2>6. QED
    BY <2>3, <2>4, <2>5 DEF Trail
<1>6. QED
  BY <1>1, <1>2, <1>3, <1>4, <1>5 DEF IInv

LEMMA NextIInv == IInv /\ [Next]_vars => IInv'
<1> SUFFICES ASSUME IInv, [Next]_vars PROVE IInv'
  OBVIOUS
<1>1. RowInv' /\ RevisionInv' /\ ExtractInv' /\ EvidenceInv'
  BY StepRefines, RowStep, RevisionStep, ExtractStep, EvidenceStep DEF IInv
<1>2. \A i \in Invoice : Trail(i)'
  BY TrailStep DEF IInv
<1>3. QED
  BY <1>1, <1>2 DEF IInv

\* The handlers of all workers and the humans preserve the inductive invariant.
THEOREM Invariance == Spec => []IInv
BY InitIInv, NextIInv, PTL DEF Spec

\* Every claim, completion, failure and release of the pipeline is one of the task
\* table's: _assert_current_lease guards each, and each hands over to one new task
\* at most.
THEOREM PipelineUsesQueue == Spec => QueueSpec
<1>1. Init => Queue!Init
  BY DEF Init
<1>2. IInv /\ [Next]_vars => [Queue!Next]_(Queue!vars)
  BY StepRefines DEF IInv
<1>3. QED
  BY <1>1, <1>2, Invariance, PTL DEF Spec, QueueSpec, Queue!Spec

\* complete_extraction commits one claim set for an invoice, however often an
\* operator retries and leases are taken over.
THEOREM ClaimedOnce == Spec => []OneClaimSet
<1>1. IInv => OneClaimSet
  BY DEF IInv, ExtractInv, OneClaimSet
<1>2. QED
  BY <1>1, Invariance, PTL

\* HeldBinding inserts a binding only when its judgment completes, and the judgment
\* of another revision comes after the binding before it: release_access_evidence,
\* which updates every HELD row of the invoice, releases one.
THEOREM OneBinding == Spec => []OneBindingAtATime
<1>1. IInv => OneBindingAtATime
  <2> SUFFICES ASSUME IInv, NEW i \in Invoice, NEW s \in Snapshot, NEW u \in Snapshot,
                      state[Bind(i, s)] \notin {"ABSENT", "COMPLETED"},
                      state[Bind(i, u)] \notin {"ABSENT", "COMPLETED"}
               PROVE  s = u
    BY DEF OneBindingAtATime
  <2>1. Trail(i) /\ RowInv
    BY DEF IInv
  <2>2. \A q \in Snapshot :
          state[Bind(i, q)] \notin {"ABSENT", "COMPLETED"} => Live(Bind(i, q))
    <3>1. ASSUME NEW q \in Snapshot, state[Bind(i, q)] \notin {"ABSENT", "COMPLETED"}
          PROVE  Live(Bind(i, q))
      <4>1. Bind(i, q) \in Task /\ Bind(i, q) \in TasksOf(i) /\ Bind(i, q).kind = "BIND"
        BY NextTasks, TasksOfInvoice
      <4>2. state[Bind(i, q)] \notin {"FAILED", "BLOCKED"}
        BY <2>1, <4>1 DEF Trail, TokenInv
      <4>3. QED
        BY <2>1, <3>1, <4>1, <4>2 DEF RowInv, Queue!TaskState, Queue!Terminal, Live
    <3>2. QED
      BY <3>1
  <2>3. Bind(i, s) = Bind(i, u)
    BY <2>1, <2>2, TasksOfInvoice DEF Trail, TokenInv
  <2>4. QED
    BY <2>3, TaskParts
<1>2. QED
  BY <1>1, Invariance, PTL

\* The handler that ends the last task of an invoice also writes how it ended, but
\* for fail_judgment, which leaves the invoice alone.
THEOREM IdleSettled == Spec => []IdleIsSettled
<1>1. IInv => IdleIsSettled
  <2> SUFFICES ASSUME IInv, NEW i \in Invoice, ~Busy(i)
               PROVE  status[i] \in Settled \cup {"ABSENT"} \/ JudgmentBlocked(i)
    BY DEF IdleIsSettled
  <2>1. Trail(i)
    BY DEF IInv
  <2>2. CASE \A t \in TasksOf(i) : ~Live(t)
    BY <2>1, <2>2 DEF Trail, StandingInv
  <2>3. CASE \E t \in TasksOf(i) : Live(t)
    <3>1. PICK t \in TasksOf(i) : state[t] = "HELD"
      BY <2>3 DEF Live, Busy
    <3>2. t.kind = "BIND" /\ t \in Task /\ Live(t)
      BY <2>1, <3>1 DEF Trail, TokenInv, TasksOf, Live
    <3>3. t = Bind(i, t.key) /\ t.key \in Snapshot
      BY <3>2, TaskFields, TaskForms DEF TasksOf
    <3>4. QED
      BY <2>1, <3>2, <3>3 DEF Trail, StandingInv
  <2>4. QED
    BY <2>2, <2>3
<1>2. QED
  BY <1>1, Invariance, PTL

\* complete_judgment hands a decision over to no further task, and nothing is
\* inserted for an invoice whose extraction completed: no worker replaces the
\* evidence under a review or a seal.
THEOREM QuietDecision == Spec => []DecisionIsQuiet
<1>1. IInv => DecisionIsQuiet
  <2> SUFFICES ASSUME IInv, NEW i \in Invoice,
                      status[i] \in {"READY_FOR_REVIEW", "DISPUTED", "APPROVED_FOR_PAYMENT"}
               PROVE  ~Busy(i)
    BY DEF DecisionIsQuiet
  <2>1. Trail(i)
    BY DEF IInv
  <2>2. PICK v \in Version : rec[i][v] \in Decisive
    BY <2>1 DEF Trail, StandingInv
  <2>3. \A t \in TasksOf(i) : ~Live(t)
    BY <2>1, <2>2 DEF Trail, StandingInv
  <2>4. QED
    BY <2>3 DEF Busy, Live
<1>2. QED
  BY <1>1, Invariance, PTL

\* The judgment that can run is that of the newest revision, so what
\* complete_judgment puts up for review rests on the newest evidence.
THEOREM BackedReview == Spec => []ReviewIsBacked
<1>1. IInv => ReviewIsBacked
  BY DEF IInv, Trail, StandingInv, ReviewIsBacked, Decisive
<1>2. QED
  BY <1>1, Invariance, PTL

-----------------------------------------------------------------------------
\* The withheld evidence.

\* What the newest revision of an invoice lacks.
Gap(i) == IF Len(recon[i]) = 0 THEN {} ELSE Latest(i).lacking

\* A read that a binding led to, of snapshot s for invoice i, lacks no day that the
\* newest revision covers, and has what was bound.
Covers(i, s, seen) ==
  /\ Lacking(i, seen) \subseteq Gap(i)
  /\ ContainerOf[s] = InvoiceContainer[i] => s \in seen

\* What a worker has read stays visible, and covers for as long as it may write.
MemoryInv ==
  /\ snap \in [Snapshot -> {"PENDING", "VERIFIED"}]
  /\ \A w \in Worker : view[w] # NoView =>
       /\ On(w, "RECON")
       /\ view[w] \subseteq Visible(Inv(w))
       /\ Queue!LeaseCurrent(w) /\ Key(w) # 0 => Covers(Inv(w), Key(w), view[w])

\* Memory shows at least what the newest revision saw; bindings and the reconstructions
\* after them are about a gap, and such a reconstruction about a snapshot verified.
GapInv(i) ==
  /\ Gap(i) # {} => Visible(i) # {} /\ Lacking(i, Visible(i)) \subseteq Gap(i)
  /\ \A s \in Snapshot : Live(Bind(i, s)) \/ Live(Recon(i, s)) => Gap(i) # {}
  /\ \A s \in Snapshot : state[Recon(i, s)] # "ABSENT" => snap[s] = "VERIFIED"

\* The two properties of the bindings, for one invoice.
CoverInv(i) ==
  /\ Len(recon[i]) # 0 => recon[i][1].key = 0
  /\ \A v \in 2 .. Len(recon[i]) :
       /\ recon[i][v].lacking \subseteq recon[i][v - 1].lacking
       /\ ContainerOf[recon[i][v].key] = InvoiceContainer[i] =>
            DayOf[recon[i][v].key] \notin recon[i][v].lacking

OfferInv(i) ==
  Len(recon[i]) # 0 /\ rec[i][Len(recon[i])] # "NONE" /\ Gap(i) # {} =>
    \/ \E s \in Snapshot : state[Bind(i, s)] # "ABSENT" /\ state[Recon(i, s)] # "COMPLETED"
    \/ \A s \in Snapshot : snap[s] = "VERIFIED"

Covered(i) == GapInv(i) /\ CoverInv(i) /\ OfferInv(i)

\* The inductive invariant of the bindings, on top of IInv.
BindInv == MemoryInv /\ \A i \in Invoice : Covered(i)

\* More memory lacks less.
LEMMA LackingShrinks ==
  ASSUME NEW i, NEW few, NEW more, few \subseteq more, few # {}
  PROVE  Lacking(i, more) \subseteq Lacking(i, few)
BY DEF Lacking

\* A snapshot that is verified stays so: memory only grows.
LEMMA VisibleGrows ==
  ASSUME \A s \in Snapshot : snap[s] = "VERIFIED" => snap'[s] = "VERIFIED"
  PROVE  \A i : Visible(i) \subseteq Visible(i)'
BY DEF Visible

\* The bindings of an invoice, and the reconstructions after them.
Bound(i) == {Bind(i, s) : s \in Snapshot} \cup {Recon(i, s) : s \in Snapshot}

LEMMA BoundTasks ==
  ASSUME NEW i \in Invoice
  PROVE  /\ Bound(i) \subseteq TasksOf(i)
         /\ \A u \in Bound(i) : u.kind \in {"BIND", "RECON"} /\ u.key # 0
         /\ \A s \in Snapshot : Bind(i, s) \in Bound(i) /\ Recon(i, s) \in Bound(i)
BY TasksOfInvoice, TaskParts, SnapshotAssumption DEF Bound

\* A task that a step neither inserts, nor revives, nor completes.
Steady(u) ==
  /\ state'[u] = "ABSENT" <=> state[u] = "ABSENT"
  /\ Live(u)' => Live(u)
  /\ state'[u] = "COMPLETED" => state[u] = "COMPLETED"

\* An invoice stays covered when its evidence stays, memory grows and these tasks are
\* steady.
LEMMA CoveredKept ==
  ASSUME NEW i \in Invoice, Covered(i), recon'[i] = recon[i], rec'[i] = rec[i],
         \A s \in Snapshot : snap[s] = "VERIFIED" => snap'[s] = "VERIFIED",
         \A u \in Bound(i) : Steady(u)
  PROVE  Covered(i)'
<1>1. Gap(i)' = Gap(i)
  BY DEF Gap, Latest
<1>2. \A s \in Snapshot : Steady(Bind(i, s)) /\ Steady(Recon(i, s))
  BY BoundTasks
<1>3. GapInv(i)'
  <2>1. Gap(i)' # {} => Visible(i)' # {} /\ Lacking(i, Visible(i)') \subseteq Gap(i)'
    <3>1. ASSUME Gap(i) # {} PROVE Visible(i)' # {} /\ Lacking(i, Visible(i)') \subseteq Gap(i)
      <4>1. Visible(i) # {} /\ Lacking(i, Visible(i)) \subseteq Gap(i)
        BY <3>1 DEF Covered, GapInv
      <4>2. Visible(i) \subseteq Visible(i)'
        BY VisibleGrows
      <4>3. Lacking(i, Visible(i)') \subseteq Lacking(i, Visible(i))
        BY <4>1, <4>2, LackingShrinks
      <4>4. QED
        BY <4>1, <4>2, <4>3
    <3>2. QED
      BY <1>1, <3>1
  <2>2. Lacking(i, Visible(i))' = Lacking(i, Visible(i)')
    BY DEF Lacking
  <2>3. \A s \in Snapshot : Live(Bind(i, s))' \/ Live(Recon(i, s))' => Gap(i)' # {}
    BY <1>1, <1>2 DEF Steady, Covered, GapInv
  <2>4. \A s \in Snapshot : state'[Recon(i, s)] # "ABSENT" => snap'[s] = "VERIFIED"
    BY <1>2 DEF Steady, Covered, GapInv
  <2>5. QED
    BY <2>1, <2>2, <2>3, <2>4 DEF GapInv
<1>4. CoverInv(i)'
  BY DEF Covered, CoverInv
<1>5. OfferInv(i)'
  BY <1>1, <1>2 DEF Steady, Covered, OfferInv
<1>6. QED
  BY <1>3, <1>4, <1>5 DEF Covered

\* The steps that leave the evidence and these tasks alone.
Quiet ==
  /\ snap' = snap /\ recon' = recon /\ rec' = rec
  /\ \A i \in Invoice : \A u \in Bound(i) : Steady(u)

\* A step on one task that neither inserts nor revives nor completes it.
LEMMA OneTaskQuiet ==
  ASSUME RowInv, NEW t \in Task, NEW s, s \notin {"ABSENT", "COMPLETED"},
         Live(t) \/ t.kind = "EXTRACT",
         state' = [state EXCEPT ![t] = s], snap' = snap, recon' = recon, rec' = rec
  PROVE  Quiet
<1>1. \A u \in Task : state'[u] = IF u = t THEN s ELSE state[u]
  BY DEF RowInv
<1>2. ASSUME NEW i \in Invoice, NEW u \in Bound(i) PROVE Steady(u)
  <2>1. u \in Task /\ u.kind # "EXTRACT"
    BY BoundTasks DEF TasksOf
  <2>2. CASE u = t
    BY <1>1, <2>1, <2>2 DEF Steady, Live
  <2>3. CASE u # t
    BY <1>1, <2>1, <2>3 DEF Steady, Live
  <2>4. QED
    BY <2>2, <2>3
<1>3. QED
  BY <1>2 DEF Quiet

\* A completion of a task of another kind.
LEMMA CompleteQuiet ==
  ASSUME RowInv, NEW w \in Worker, NEW kind \in {"EXTRACT", "RULE"}, On(w, kind), NEW new,
         \A c \in new : c.kind \in {"RECON", "JUDGE"} /\ (c.kind = "RECON" => c.key = 0),
         Queue!Complete(w, new), snap' = snap, recon' = recon, rec' = rec
  PROVE  Quiet
<1>1. ASSUME NEW i \in Invoice, NEW u \in Bound(i) PROVE Steady(u)
  <2>1. u \in Task /\ u.kind \in {"BIND", "RECON"} /\ u.key # 0
    BY BoundTasks DEF TasksOf
  <2>2. u # lease[w].task /\ u \notin new
    BY <2>1 DEF On
  <2>3. state'[u] = state[u]
    BY <2>1, <2>2, CompleteStates
  <2>4. QED
    BY <2>3 DEF Steady, Live
<1>2. QED
  BY <1>1 DEF Quiet

LEMMA QuietSteps ==
  ASSUME RowInv, RevisionInv,
         \/ \E w \in Worker :
              \/ \E passed \in BOOLEAN : CompleteExtraction(w, passed)
              \/ \E retryable \in BOOLEAN : FailExtraction(w, retryable)
              \/ RetrieveMemory(w)
              \/ \E retryable \in BOOLEAN : FailReconstruction(w, retryable)
              \/ \E verified \in BOOLEAN : CompleteRule(w, verified)
              \/ \E retryable \in BOOLEAN : FailRule(w, retryable)
              \/ FailJudgment(w)
              \/ LoseLease(w) \/ Crash(w) \/ \E t \in Task : Claim(w, t)
         \/ \E i \in Invoice :
              \/ Receive(i) \/ RetryExtraction(i) \/ ReleaseAccessEvidence(i)
              \/ \E v \in Version : ApproveAndSeal(i, v)
         \/ \E t \in Task : ClockPasses(t)
         \/ UNCHANGED vars
  PROVE  Quiet
<1>1. ASSUME state' = state, snap' = snap, recon' = recon, rec' = rec PROVE Quiet
  BY <1>1 DEF Quiet, Steady, Live
<1>2. ASSUME NEW w \in Worker, NEW passed \in BOOLEAN, CompleteExtraction(w, passed) PROVE Quiet
  <2> DEFINE new == IF passed THEN {Recon(Inv(w), 0)} ELSE {}
  <2>1. /\ On(w, "EXTRACT") /\ Queue!Complete(w, new)
        /\ snap' = snap /\ recon' = recon /\ rec' = rec
    BY <1>2 DEF CompleteExtraction
  <2>2. \A c \in new : c.kind = "RECON" /\ c.key = 0
    BY TaskParts
  <2> HIDE DEF new
  <2>3. QED
    BY <2>1, <2>2, CompleteQuiet
<1>3. ASSUME NEW w \in Worker, NEW retryable \in BOOLEAN, Queue!Fail(w, retryable),
             \E kind : On(w, kind), snap' = snap, recon' = recon, rec' = rec
      PROVE  Quiet
  <2>1. lease[w].task \in Task /\ Live(lease[w].task)
    BY <1>3, CurrentTask DEF Queue!Fail, TasksOf
  <2>2. PICK s : s \notin {"ABSENT", "COMPLETED"} /\ state' = [state EXCEPT ![lease[w].task] = s]
    BY <1>3 DEF Queue!Fail, Queue!DeadState
  <2>3. QED
    BY <1>3, <2>1, <2>2, OneTaskQuiet
<1>4. ASSUME NEW w \in Worker, NEW retryable \in BOOLEAN,
             FailExtraction(w, retryable) \/ FailReconstruction(w, retryable)
               \/ FailRule(w, retryable) \/ FailJudgment(w)
      PROVE  Quiet
  <2>1. /\ \E r \in BOOLEAN : Queue!Fail(w, r)
        /\ \E kind : On(w, kind)
        /\ snap' = snap /\ recon' = recon /\ rec' = rec
    BY <1>4 DEF FailExtraction, FailReconstruction, FailRule, FailJudgment, evidenceVars
  <2>2. QED
    BY <1>3, <2>1
<1>5. ASSUME \/ \E w \in Worker : RetrieveMemory(w) \/ LoseLease(w) \/ Crash(w)
             \/ \E i \in Invoice, v \in Version : ApproveAndSeal(i, v)
             \/ \E t \in Task : ClockPasses(t)
             \/ UNCHANGED vars
      PROVE  Quiet
  <2>1. snap' = snap /\ recon' = recon /\ rec' = rec
    BY <1>5 DEF RetrieveMemory, LoseLease, Crash, Forget, ApproveAndSeal, ClockPasses, vars,
                evidenceVars
  <2>2. state' = state
    BY <1>5 DEF RetrieveMemory, LoseLease, Crash, ApproveAndSeal, ClockPasses, vars, queueVars,
                Queue!LoseLease, Queue!Crash, Queue!ClockPasses
  <2>3. QED
    BY <1>1, <2>1, <2>2
<1>6. ASSUME NEW w \in Worker, NEW t \in Task, Claim(w, t) PROVE Quiet
  <2>1. /\ Live(t) /\ state' = [state EXCEPT ![t] = "RUNNING"]
        /\ snap' = snap /\ recon' = recon /\ rec' = rec
    BY <1>6 DEF Claim, Queue!Claim, Queue!Claimable, Live, evidenceVars
  <2>2. QED
    BY <2>1, OneTaskQuiet
<1>7. ASSUME NEW i \in Invoice, Receive(i) \/ RetryExtraction(i) PROVE Quiet
  <2>1. \E n \in 1 .. ExtractVersions : Queue!Insert(Extract(i, n))
    BY <1>7, ExtractAssumption DEF Receive, RetryExtraction
  <2>2. PICK t \in Task :
          t.kind = "EXTRACT" /\ \E s : s \notin {"ABSENT", "COMPLETED"} /\ state' = [state EXCEPT ![t] = s]
    BY <2>1, ExtractTasks DEF Queue!Insert, Queue!Created
  <2>3. snap' = snap /\ recon' = recon /\ rec' = rec
    BY <1>7 DEF Receive, RetryExtraction, evidenceVars
  <2>4. QED
    BY <2>2, <2>3, OneTaskQuiet
<1>8. ASSUME NEW i \in Invoice, ReleaseAccessEvidence(i) PROVE Quiet
  <2>1. PICK s \in Snapshot : Queue!Release(Bind(i, s))
    BY <1>8 DEF ReleaseAccessEvidence
  <2>2. /\ Bind(i, s) \in Task /\ Live(Bind(i, s))
        /\ state' = [state EXCEPT ![Bind(i, s)] = "PENDING"]
    BY <2>1, NextTasks DEF Queue!Release, Live
  <2>3. snap' = snap /\ recon' = recon /\ rec' = rec
    BY <1>8 DEF ReleaseAccessEvidence, evidenceVars
  <2>4. QED
    BY <2>2, <2>3, OneTaskQuiet
<1>9. ASSUME NEW w \in Worker, NEW verified \in BOOLEAN, CompleteRule(w, verified) PROVE Quiet
  <2> DEFINE new == IF verified \/ CompleteRevision(recon[Inv(w)][Key(w)])
                    THEN {Judge(Inv(w), Key(w))} ELSE {}
  <2>1. /\ On(w, "RULE") /\ Queue!Complete(w, new)
        /\ snap' = snap /\ recon' = recon /\ rec' = rec
    BY <1>9 DEF CompleteRule
  <2>2. \A c \in new : c.kind = "JUDGE"
    BY TaskParts
  <2> HIDE DEF new
  <2>3. QED
    BY <2>1, <2>2, CompleteQuiet
<1>10. QED
  BY <1>2, <1>4, <1>5, <1>6, <1>7, <1>8, <1>9

\* A step leaves an invoice covered that it is not about, or about only quietly.
LEMMA QuietCovered ==
  ASSUME Quiet, NEW i \in Invoice, Covered(i)
  PROVE  Covered(i)'
BY CoveredKept DEF Quiet

LEMMA OthersCovered ==
  ASSUME NEW i \in Invoice, NEW j \in Invoice, j # i, Covered(j), Elsewhere(i),
         \A s \in Snapshot : snap[s] = "VERIFIED" => snap'[s] = "VERIFIED"
  PROVE  Covered(j)'
<1>1. \A u \in Bound(j) : state'[u] = state[u]
  BY BoundTasks DEF Elsewhere
<1>2. \A u \in Bound(j) : Steady(u)
  BY <1>1 DEF Steady, Live
<1>3. QED
  BY <1>2, CoveredKept DEF Elsewhere

\* complete_judgment: whatever is withheld first is held for the gap it judged.
LEMMA JudgmentCovered ==
  ASSUME RowInv, RevisionInv, EvidenceInv, MemoryInv, NEW w \in Worker, NEW verdict \in RecType,
         CompleteJudgment(w, verdict), NEW i \in Invoice, i = Inv(w), Trail(i), Covered(i)
  PROVE  Covered(i)'
<1>1. PICK v : v = Key(w)
  OBVIOUS
<1>2. PICK new \in HeldBinding(i, v) : Queue!Complete(w, new)
  BY <1>1 DEF CompleteJudgment
<1>3. /\ On(w, "JUDGE")
      /\ recon' = recon /\ snap' = snap
      /\ rec' = [rec EXCEPT ![i][v] = verdict]
  BY <1>1 DEF CompleteJudgment
<1>4. v \in Version /\ lease[w].task = Judge(i, v)
  <2>1. lease[w].task \in Task /\ lease[w].task.kind = "JUDGE"
    BY <1>3, TaskOn
  <2>2. QED
    BY <1>1, <2>1, TaskFields, TaskForms DEF Inv, Key
<1>5. Live(Judge(i, v))
  BY <1>2, <1>3, <1>4, CompleteStates, CurrentTask
<1>6. v = Len(recon[i]) /\ v # 0 /\ Gap(i) = recon[i][v].lacking
  BY <1>4, <1>5 DEF Trail, OrderInv, Version, Gap, Latest
<1>7. \/ new = {} /\ (Gap(i) = {} \/ \A s \in Snapshot : snap[s] = "VERIFIED")
      \/ Gap(i) # {} /\ \E s \in Snapshot : snap[s] = "PENDING" /\ new = {Bind(i, s)}
  BY <1>2, <1>6, HeldBindings DEF MemoryInv
<1>8. \A c \in new : \E s \in Snapshot : c = Bind(i, s) /\ c.kind = "BIND"
  BY <1>7, TaskParts
<1>9. new = {} \/ \E c \in TasksOf(i) : new = {c}
  BY <1>7, TasksOfInvoice
<1>10. PICK t \in TasksOf(i) : t = lease[w].task /\ t.kind = "JUDGE" /\ HandsOver(i, t, new)
  BY <1>2, <1>3, <1>8, <1>9, CompleteTrail
<1>11. \A u \in TasksOf(i) : Live(u)' => u \in new
  BY <1>10 DEF HandsOver
<1>12. /\ \A u \in TasksOf(i) : state[u] # "ABSENT" => state'[u] # "ABSENT"
       /\ \A u \in TasksOf(i) : u \in new => state'[u] # "ABSENT"
       /\ \A s \in Snapshot : state'[Recon(i, s)] = state[Recon(i, s)]
  <2>1. \A s \in Snapshot : Recon(i, s) \in TasksOf(i) /\ Recon(i, s).kind = "RECON"
    BY TasksOfInvoice, TaskParts
  <2>2. QED
    BY <1>8, <1>10, <2>1 DEF HandsOver, TasksOf, Queue!Created
<1>13. Gap(i)' = Gap(i) /\ Visible(i)' = Visible(i)
  BY <1>3 DEF Gap, Latest, Visible
<1>14. GapInv(i)'
  <2>1. \A s \in Snapshot : Live(Bind(i, s))' \/ Live(Recon(i, s))' => Gap(i) # {}
    BY <1>7, <1>11, TasksOfInvoice
  <2>2. \A s \in Snapshot : state'[Recon(i, s)] # "ABSENT" => snap'[s] = "VERIFIED"
    BY <1>3, <1>12 DEF Covered, GapInv
  <2>3. Lacking(i, Visible(i))' = Lacking(i, Visible(i))
    BY <1>13 DEF Lacking
  <2>4. QED
    BY <1>13, <2>1, <2>2, <2>3 DEF Covered, GapInv
<1>15. CoverInv(i)'
  BY <1>3 DEF Covered, CoverInv
<1>16. OfferInv(i)'
  <2>1. CASE Gap(i) = {} \/ \A s \in Snapshot : snap[s] = "VERIFIED"
    BY <1>3, <1>13, <2>1 DEF OfferInv
  <2>2. CASE \E s \in Snapshot : snap[s] = "PENDING" /\ new = {Bind(i, s)}
    <3>1. PICK s \in Snapshot : snap[s] = "PENDING" /\ new = {Bind(i, s)}
      BY <2>2
    <3>2. state'[Bind(i, s)] # "ABSENT"
      BY <1>12, <3>1, TasksOfInvoice
    <3>3. state'[Recon(i, s)] = "ABSENT"
      BY <1>12, <3>1 DEF Covered, GapInv
    <3>4. QED
      BY <3>2, <3>3 DEF OfferInv
  <2>3. QED
    BY <1>7, <2>1, <2>2
<1>17. QED
  BY <1>14, <1>15, <1>16 DEF Covered

\* complete_access_binding: what it verifies is there for the reconstruction it queues,
\* whichever container that is about.
LEMMA BindingCovered ==
  ASSUME RowInv, RevisionInv, EvidenceInv, MemoryInv,
         NEW w \in Worker, NEW passed \in BOOLEAN, CompleteAccessBinding(w, passed),
         NEW i \in Invoice, i = Inv(w), Trail(i), Covered(i)
  PROVE  Covered(i)'
<1>1. PICK s : s = Key(w)
  OBVIOUS
<1> DEFINE new == IF passed THEN {Recon(i, s)} ELSE {}
<1>2. /\ On(w, "BIND") /\ Queue!Complete(w, new)
      /\ recon' = recon /\ rec' = rec
      /\ snap' = IF passed THEN [snap EXCEPT ![s] = "VERIFIED"] ELSE snap
  BY <1>1 DEF CompleteAccessBinding
<1>3. s \in Snapshot /\ lease[w].task = Bind(i, s)
  <2>1. lease[w].task \in Task /\ lease[w].task.kind = "BIND"
    BY <1>2, TaskOn
  <2>2. QED
    BY <1>1, <2>1, TaskFields, TaskForms DEF Inv, Key
<1>4. new = {} \/ (passed /\ new = {Recon(i, s)})
  OBVIOUS
<1> HIDE DEF new
<1>5. PICK t \in TasksOf(i) : t = lease[w].task /\ t.kind = "BIND" /\ HandsOver(i, t, new)
  BY <1>2, <1>3, <1>4, TasksOfInvoice, TaskParts, CompleteTrail
<1>6. Gap(i) # {}
  BY <1>3, <1>5 DEF Covered, GapInv, HandsOver
<1>7. /\ \A q \in Snapshot : snap[q] = "VERIFIED" => snap'[q] = "VERIFIED"
      /\ passed => snap'[s] = "VERIFIED"
  BY <1>2, <1>3 DEF MemoryInv
<1>8. \A u \in TasksOf(i) : state[u] # "ABSENT" => state'[u] # "ABSENT"
  BY <1>5 DEF HandsOver, TasksOf
<1>9. \A q \in Snapshot :
        state'[Recon(i, q)] = state[Recon(i, q)] \/ (q = s /\ passed /\ state'[Recon(i, q)] = "PENDING")
  <2>1. ASSUME NEW q \in Snapshot
        PROVE  state'[Recon(i, q)] = state[Recon(i, q)]
                 \/ (q = s /\ passed /\ state'[Recon(i, q)] = "PENDING")
    <3>1. Recon(i, q) \in Task /\ Recon(i, q).kind = "RECON" /\ Recon(i, q) \notin BindTask
      BY NextTasks, TaskForms
    <3>2. Recon(i, q) # t
      BY <1>5, <3>1
    <3>3. CASE Recon(i, q) \in new
      <4>1. passed /\ q = s
        BY <1>4, <3>3, TaskParts
      <4>2. QED
        BY <1>5, <3>1, <3>2, <3>3, <4>1 DEF HandsOver, Queue!Created
    <3>4. CASE Recon(i, q) \notin new
      BY <1>5, <3>1, <3>2, <3>4 DEF HandsOver
    <3>5. QED
      BY <3>3, <3>4
  <2>2. QED
    BY <2>1
<1>10. Gap(i)' = Gap(i)
  BY <1>2 DEF Gap, Latest
<1>11. GapInv(i)'
  <2>1. Visible(i) # {} /\ Lacking(i, Visible(i)) \subseteq Gap(i) /\ Visible(i) \subseteq Visible(i)'
    BY <1>6, <1>7, VisibleGrows DEF Covered, GapInv
  <2>2. Visible(i)' # {} /\ Lacking(i, Visible(i)') \subseteq Gap(i)
    BY <2>1, LackingShrinks
  <2>3. Lacking(i, Visible(i))' = Lacking(i, Visible(i)')
    BY DEF Lacking
  <2>4. \A q \in Snapshot : state'[Recon(i, q)] # "ABSENT" => snap'[q] = "VERIFIED"
    BY <1>7, <1>9 DEF Covered, GapInv
  <2>5. QED
    BY <1>6, <1>10, <2>2, <2>3, <2>4 DEF GapInv
<1>12. CoverInv(i)'
  BY <1>2 DEF Covered, CoverInv
<1>13. OfferInv(i)'
  <2>1. \A q \in Snapshot :
          /\ state[Bind(i, q)] # "ABSENT" => state'[Bind(i, q)] # "ABSENT"
          /\ state[Recon(i, q)] # "COMPLETED" => state'[Recon(i, q)] # "COMPLETED"
    BY <1>8, <1>9, TasksOfInvoice
  <2>2. QED
    BY <1>2, <1>7, <1>10, <2>1 DEF Covered, OfferInv
<1>14. QED
  BY <1>11, <1>12, <1>13 DEF Covered

\* complete_reconstruction: what its worker read covers all that was covered before, and
\* the new revision is not judged yet.
LEMMA ReconstructionCovered ==
  ASSUME RowInv, RevisionInv, EvidenceInv, MemoryInv,
         NEW w \in Worker, NEW other \in {"none", "missing", "excluded"},
         CompleteReconstruction(w, other), NEW i \in Invoice, i = Inv(w), Trail(i), Covered(i)
  PROVE  Covered(i)'
<1> DEFINE exists == \E v \in 1 .. Len(recon[i]) : recon[i][v].key = Key(w)
           r == [key |-> Key(w), lacking |-> Lacking(i, view[w]), other |-> other]
<1>1. /\ On(w, "RECON") /\ view[w] # NoView
      /\ Queue!Complete(w, IF exists THEN {} ELSE {Rule(i, Len(recon[i]) + 1)})
      /\ ~exists => recon' = [recon EXCEPT ![i] = Append(@, r)]
      /\ rec' = rec /\ snap' = snap
  BY DEF CompleteReconstruction
<1>2. PICK k, n, seen : k = Key(w) /\ n = Len(recon[i]) /\ seen = view[w]
  OBVIOUS
<1>3. r.key = k /\ r.lacking = Lacking(i, seen)
  BY <1>2
<1> HIDE DEF r
<1>4. k \in Snapshot \cup {0} /\ lease[w].task = Recon(i, k)
  <2>1. lease[w].task \in Task /\ lease[w].task.kind = "RECON"
    BY <1>1, TaskOn
  <2>2. QED
    BY <1>2, <2>1, TaskFields, TaskForms DEF Inv, Key
<1>5. Queue!LeaseCurrent(w) /\ state[Recon(i, k)] = "RUNNING" /\ Live(Recon(i, k))
  BY <1>1, <1>4, CompleteStates, CurrentTask
<1>6. \A v \in 1 .. n : recon[i][v].key # k
  BY <1>2, <1>5 DEF Trail, OrderInv
<1>7. ~exists
  BY <1>2, <1>6
<1>8. n \in Nat /\ n + 1 \in Version
  BY <1>2, <1>4, <1>6, VersionLeft, RevisionKeys
<1>9. rec[i][n + 1] = "NONE"
  BY <1>2, <1>8 DEF Trail, OrderInv
<1>10. PICK t \in TasksOf(i) :
         t = lease[w].task /\ t.kind = "RECON" /\ HandsOver(i, t, {Rule(i, n + 1)})
  BY <1>1, <1>2, <1>7, <1>8, TasksOfInvoice, TaskParts, CompleteTrail
<1>11. \A s \in Snapshot :
         /\ ~Live(Bind(i, s))' /\ ~Live(Recon(i, s))'
         /\ state'[Recon(i, s)] # "ABSENT" => state[Recon(i, s)] # "ABSENT"
  <2>1. \A s \in Snapshot : Bind(i, s) # Rule(i, n + 1) /\ Recon(i, s) # Rule(i, n + 1)
    BY TaskParts
  <2>2. QED
    BY <1>10, <2>1, TasksOfInvoice DEF HandsOver, TasksOf
<1>12. recon'[i] = Append(recon[i], r) /\ recon[i] \in Seq(Revision)
  BY <1>1, <1>7 DEF RevisionInv
<1>13. /\ Len(recon'[i]) = n + 1 /\ recon'[i][n + 1] = r
       /\ \A v \in 1 .. n : recon'[i][v] = recon[i][v]
  <2>1. r \in Revision
    BY <1>2, <1>4, BilledDays DEF r, Revision
  <2>2. QED
    BY <1>2, <1>12, <2>1, AppendProperties
<1>14. Gap(i)' = Lacking(i, seen) /\ Visible(i)' = Visible(i)
  BY <1>1, <1>3, <1>8, <1>13 DEF Gap, Latest, Visible
<1>15. seen \subseteq Visible(i) /\ (k # 0 => Covers(i, k, seen))
  BY <1>1, <1>2, <1>5 DEF MemoryInv
<1>16. GapInv(i)'
  <2>1. ASSUME Lacking(i, seen) # {}
        PROVE  Visible(i) # {} /\ Lacking(i, Visible(i)) \subseteq Lacking(i, seen)
    <3>1. seen # {}
      BY <2>1 DEF Lacking
    <3>2. QED
      BY <1>15, <3>1, LackingShrinks
  <2>2. Lacking(i, Visible(i))' = Lacking(i, Visible(i))
    BY <1>14 DEF Lacking
  <2>3. \A s \in Snapshot : state'[Recon(i, s)] # "ABSENT" => snap'[s] = "VERIFIED"
    BY <1>1, <1>11 DEF Covered, GapInv
  <2>4. QED
    BY <1>11, <1>14, <2>1, <2>2, <2>3 DEF GapInv
<1>17. CoverInv(i)'
  <2>1. CASE n = 0
    <3>1. k = 0
      BY <1>2, <1>4, <1>5, <2>1 DEF Covered, GapInv, Gap
    <3>2. QED
      BY <1>3, <1>13, <2>1, <3>1 DEF CoverInv
  <2>2. CASE n # 0
    <3>1. recon[i][1].key = 0 /\ 1 \in 1 .. n /\ n \in 1 .. n
      BY <1>2, <1>8, <2>2 DEF Covered, CoverInv
    <3>2. k \in Snapshot /\ k # 0 /\ Gap(i) = recon[i][n].lacking
      BY <1>2, <1>4, <1>6, <2>2, <3>1, SnapshotAssumption DEF Gap, Latest
    <3>3. /\ r.lacking \subseteq recon[i][n].lacking
          /\ ContainerOf[k] = InvoiceContainer[i] => DayOf[k] \notin r.lacking
      BY <1>3, <1>15, <3>2 DEF Covers, Lacking
    <3>4. ASSUME NEW v \in 2 .. n + 1
          PROVE  /\ recon'[i][v].lacking \subseteq recon'[i][v - 1].lacking
                 /\ ContainerOf[recon'[i][v].key] = InvoiceContainer[i] =>
                      DayOf[recon'[i][v].key] \notin recon'[i][v].lacking
      <4>1. v - 1 \in 1 .. n /\ (v \in 1 .. n \/ (v = n + 1 /\ v - 1 = n))
        BY <1>8, SMTT(30)
      <4>2. CASE v = n + 1
        <5>1. v - 1 = n
          BY <1>8, <4>2
        <5>2. recon'[i][v] = r /\ recon'[i][v - 1] = recon[i][n]
          BY <1>13, <3>1, <4>2, <5>1
        <5>3. QED
          BY <1>3, <3>3, <5>2
      <4>3. CASE v \in 1 .. n
        <5>1. v \in 2 .. Len(recon[i])
          BY <1>2, <4>3
        <5>2. QED
          BY <1>13, <4>1, <4>3, <5>1 DEF Covered, CoverInv
      <4>4. QED
        BY <4>1, <4>2, <4>3
    <3>5. QED
      BY <1>13, <3>1, <3>4 DEF CoverInv
  <2>3. QED
    BY <2>1, <2>2
<1>18. OfferInv(i)'
  BY <1>1, <1>9, <1>13 DEF OfferInv
<1>19. QED
  BY <1>16, <1>17, <1>18 DEF Covered

\* What a step leaves verified.
LEMMA SnapshotsKept ==
  ASSUME MemoryInv, RowInv, RevisionInv, [Next]_vars
  PROVE  /\ snap' \in [Snapshot -> {"PENDING", "VERIFIED"}]
         /\ \A s \in Snapshot : snap[s] = "VERIFIED" => snap'[s] = "VERIFIED"
<1>1. CASE \E w \in Worker, passed \in BOOLEAN : CompleteAccessBinding(w, passed)
  BY <1>1 DEF CompleteAccessBinding, MemoryInv
<1>2. CASE \E w \in Worker :
             \/ \E other \in {"none", "missing", "excluded"} : CompleteReconstruction(w, other)
             \/ \E verdict \in RecType : CompleteJudgment(w, verdict)
  BY <1>2 DEF CompleteReconstruction, CompleteJudgment, MemoryInv
<1>3. Quiet => snap' = snap
  BY DEF Quiet
<1>4. QED
  BY <1>1, <1>2, <1>3, QuietSteps DEF Next, Handle, MemoryInv

\* All steps.
LEMMA CoveredStep ==
  ASSUME IInv, BindInv, [Next]_vars
  PROVE  \A j \in Invoice : Covered(j)'
<1>1. ASSUME Quiet PROVE \A j \in Invoice : Covered(j)'
  BY <1>1, QuietCovered DEF BindInv
<1>2. RowInv /\ RevisionInv /\ EvidenceInv /\ MemoryInv /\ \A i \in Invoice : Trail(i) /\ Covered(i)
  BY DEF IInv, BindInv
<1>3. ASSUME NEW i \in Invoice, Covered(i)', Elsewhere(i)
      PROVE  \A j \in Invoice : Covered(j)'
  <2>1. \A j \in Invoice : j # i => Covered(j)'
    BY <1>2, <1>3, OthersCovered, SnapshotsKept
  <2>2. QED
    BY <1>3, <2>1
<1>4. ASSUME NEW w \in Worker, NEW verdict \in RecType, CompleteJudgment(w, verdict)
      PROVE  \A j \in Invoice : Covered(j)'
  <2>1. PICK i \in Invoice : i = Inv(w)
    BY <1>2, <1>4, TaskOn DEF CompleteJudgment
  <2>2. QED
    BY <1>2, <1>3, <1>4, <2>1, JudgmentCovered, JudgmentTrail
<1>5. ASSUME NEW w \in Worker, NEW other \in {"none", "missing", "excluded"},
             CompleteReconstruction(w, other)
      PROVE  \A j \in Invoice : Covered(j)'
  <2>1. PICK i \in Invoice : i = Inv(w)
    BY <1>2, <1>5, TaskOn DEF CompleteReconstruction
  <2>2. QED
    BY <1>2, <1>3, <1>5, <2>1, ReconstructionCovered, ReconstructionTrail
<1>6. ASSUME NEW w \in Worker, NEW passed \in BOOLEAN, CompleteAccessBinding(w, passed)
      PROVE  \A j \in Invoice : Covered(j)'
  <2>1. PICK i \in Invoice : i = Inv(w)
    BY <1>2, <1>6, TaskOn DEF CompleteAccessBinding
  <2>2. QED
    BY <1>2, <1>3, <1>6, <2>1, BindingCovered, BindingTrail
<1>7. QED
  BY <1>1, <1>2, <1>4, <1>5, <1>6, QuietSteps DEF Next, Handle

\* A worker that may write in the next state, and keeps its task, may write in this
\* one: a claim by another worker or a completion ends that.
LEMMA LeaseStays ==
  ASSUME RowInv, [Queue!Next]_(Queue!vars), NEW x \in Worker,
         lease'[x] = lease[x], On(x, "RECON"), Queue!LeaseCurrent(x)'
  PROVE  Queue!LeaseCurrent(x)
<1>1. PICK t \in Task : t = lease[x].task /\ t \notin BindTask
  BY TaskOn, TaskForms
<1>2. state'[t] = "RUNNING" /\ attempt'[t] = lease[x].attempt /\ owner'[t] = x
  BY <1>1 DEF Queue!LeaseCurrent
<1>3. ASSUME state[t] = "RUNNING", attempt[t] = attempt'[t], owner[t] = x PROVE Queue!LeaseCurrent(x)
  BY <1>1, <1>2, <1>3 DEF Queue!LeaseCurrent, On
<1>4. ASSUME NEW u \in Task, Queue!Insert(u) \/ Queue!Release(u) \/ Queue!ClockPasses(u)
      PROVE  Queue!LeaseCurrent(x)
  BY <1>2, <1>3, <1>4 DEF Queue!Insert, Queue!Created, Queue!Release, Queue!ClockPasses, RowInv
<1>5. ASSUME NEW w \in Worker, NEW u \in Task, Queue!Claim(w, u) PROVE Queue!LeaseCurrent(x)
  <2>1. w # x
    BY <1>5 DEF Queue!Claim, RowInv, On
  <2>2. u # t
    BY <1>2, <1>5, <2>1 DEF Queue!Claim, RowInv
  <2>3. QED
    BY <1>2, <1>3, <1>5, <2>2 DEF Queue!Claim, RowInv
<1>6. ASSUME NEW w \in Worker, NEW new, Queue!Complete(w, new) PROVE Queue!LeaseCurrent(x)
  <2>1. lease[w].task # t
    BY <1>2, <1>6 DEF Queue!Complete
  <2>2. state[t] = "RUNNING"
    BY <1>2, <1>6, <2>1 DEF Queue!Complete, Queue!Created
  <2>3. QED
    BY <1>2, <1>3, <1>6, <2>1, <2>2 DEF Queue!Complete, RowInv
<1>7. ASSUME NEW w \in Worker, NEW retryable, Queue!Fail(w, retryable) PROVE Queue!LeaseCurrent(x)
  <2>1. lease[w].task # t
    BY <1>2, <1>7 DEF Queue!Fail, Queue!DeadState, RowInv
  <2>2. QED
    BY <1>2, <1>3, <1>7, <2>1 DEF Queue!Fail, RowInv
<1>8. ASSUME NEW w \in Worker, Queue!LoseLease(w) \/ Queue!Crash(w) PROVE Queue!LeaseCurrent(x)
  BY <1>2, <1>3, <1>8 DEF Queue!LoseLease, Queue!Crash
<1>9. CASE UNCHANGED Queue!vars
  BY <1>2, <1>3, <1>9 DEF Queue!vars
<1>10. QED
  BY <1>4, <1>5, <1>6, <1>7, <1>8, <1>9 DEF Queue!Next, Queue!WorkerStep

\* The reads of the workers, as a step leaves them: forgotten, or kept with the task
\* they are for.
ReadsKept ==
  /\ view' \in [Worker -> (SUBSET Snapshot) \cup {NoView}]
  /\ \A x \in Worker : view'[x] # NoView => view'[x] = view[x] /\ lease'[x] = lease[x]

\* What a step of worker w leaves of the reads.
LEMMA WorkerReads ==
  ASSUME RowInv, RevisionInv, MemoryInv, NEW w \in Worker,
         \A x \in Worker : x # w => lease'[x] = lease[x],
         \/ view' = [view EXCEPT ![w] = NoView]
         \/ view' = view /\ (~On(w, "RECON") \/ lease'[w] = lease[w])
  PROVE  ReadsKept
BY DEF ReadsKept, MemoryInv, RevisionInv

LEMMA KeepsReads ==
  ASSUME RowInv, RevisionInv, MemoryInv, [Next]_vars, ~ \E w \in Worker : RetrieveMemory(w)
  PROVE  ReadsKept
<1>1. ASSUME NEW w \in Worker, NEW new, Queue!Complete(w, new)
      PROVE  \A x \in Worker : x # w => lease'[x] = lease[x]
  BY <1>1 DEF Queue!Complete, Queue!AfterCommit, RowInv
<1>2. ASSUME NEW w \in Worker, NEW retryable, Queue!Fail(w, retryable)
      PROVE  \A x \in Worker : x # w => lease'[x] = lease[x]
  BY <1>2 DEF Queue!Fail, Queue!AfterCommit, RowInv
<1>3. ASSUME NEW w \in Worker, Handle(w) PROVE ReadsKept
  <2>1. ASSUME NEW passed \in BOOLEAN, CompleteExtraction(w, passed) \/ CompleteAccessBinding(w, passed)
        PROVE  ReadsKept
    BY <1>1, <2>1, WorkerReads DEF CompleteExtraction, CompleteAccessBinding, On
  <2>2. ASSUME NEW retryable \in BOOLEAN,
               FailExtraction(w, retryable) \/ FailReconstruction(w, retryable) \/ FailRule(w, retryable)
        PROVE  ReadsKept
    BY <1>2, <2>2, WorkerReads DEF FailExtraction, FailReconstruction, FailRule, On
  <2>3. ASSUME FailJudgment(w) PROVE ReadsKept
    BY <1>2, <2>3, WorkerReads DEF FailJudgment, On
  <2>4. ASSUME NEW other \in {"none", "missing", "excluded"}, CompleteReconstruction(w, other)
        PROVE  ReadsKept
    <3>1. view' = [view EXCEPT ![w] = NoView] /\ \E new : Queue!Complete(w, new)
      BY <2>4 DEF CompleteReconstruction
    <3>2. QED
      BY <1>1, <3>1, WorkerReads
  <2>5. ASSUME NEW verified \in BOOLEAN, CompleteRule(w, verified) PROVE ReadsKept
    <3>1. view' = view /\ ~On(w, "RECON") /\ \E new : Queue!Complete(w, new)
      BY <2>5 DEF CompleteRule, On
    <3>2. QED
      BY <1>1, <3>1, WorkerReads
  <2>6. ASSUME NEW verdict \in RecType, CompleteJudgment(w, verdict) PROVE ReadsKept
    <3>1. view' = view /\ ~On(w, "RECON") /\ \E new : Queue!Complete(w, new)
      BY <2>6 DEF CompleteJudgment, On
    <3>2. QED
      BY <1>1, <3>1, WorkerReads
  <2>7. QED
    BY <1>3, <2>1, <2>2, <2>3, <2>4, <2>5, <2>6 DEF Handle
<1>4. ASSUME NEW w \in Worker, LoseLease(w) \/ Crash(w) PROVE ReadsKept
  <2>1. lease' = [lease EXCEPT ![w] = NoLease] /\ view' = [view EXCEPT ![w] = NoView]
    BY <1>4 DEF LoseLease, Crash, Forget, Queue!LoseLease, Queue!Crash
  <2>2. QED
    BY <2>1, WorkerReads DEF RowInv
<1>5. ASSUME NEW w \in Worker, NEW t \in Task, Claim(w, t) PROVE ReadsKept
  <2>1. ~On(w, "RECON") /\ view' = view
    BY <1>5 DEF Claim, Queue!Claim, On
  <2>2. \A x \in Worker : x # w => lease'[x] = lease[x]
    BY <1>5 DEF Claim, Queue!Claim, RowInv
  <2>3. QED
    BY <2>1, <2>2, WorkerReads
<1>6. ASSUME \/ \E i \in Invoice :
                  \/ Receive(i) \/ RetryExtraction(i) \/ ReleaseAccessEvidence(i)
                  \/ \E v \in Version : ApproveAndSeal(i, v)
             \/ \E t \in Task : ClockPasses(t)
             \/ UNCHANGED vars
      PROVE  ReadsKept
  <2>1. view' = view
    BY <1>6 DEF Receive, RetryExtraction, ReleaseAccessEvidence, ApproveAndSeal, ClockPasses, vars
  <2>2. lease' = lease
    BY <1>6 DEF Receive, RetryExtraction, ReleaseAccessEvidence, ApproveAndSeal, ClockPasses, vars,
                queueVars, Queue!Insert, Queue!Release, Queue!ClockPasses
  <2>3. QED
    BY <2>1, <2>2 DEF ReadsKept, RevisionInv
<1>7. QED
  BY <1>3, <1>4, <1>5, <1>6 DEF Next

\* While a worker may write a reconstruction, no other one of that invoice is written.
LEMMA GapStays ==
  ASSUME IInv, [Next]_vars, NEW x \in Worker, On(x, "RECON"), Queue!LeaseCurrent(x),
         lease'[x] = lease[x], Queue!LeaseCurrent(x)', view'[x] # NoView
  PROVE  Gap(Inv(x))' = Gap(Inv(x))
<1>1. RowInv /\ RevisionInv /\ \A i \in Invoice : TokenInv(i)
  BY DEF IInv, Trail
<1>2. PICK i \in Invoice : i = Inv(x) /\ i = Inv(x)'
  BY <1>1, TaskOn DEF Inv
<1>3. recon'[i] = recon[i]
  <2>1. ASSUME NEW w \in Worker, NEW other \in {"none", "missing", "excluded"},
               CompleteReconstruction(w, other)
        PROVE  recon'[i] = recon[i]
    <3>1. PICK new : /\ On(w, "RECON") /\ Queue!Complete(w, new)
                     /\ view' = [view EXCEPT ![w] = NoView]
      BY <2>1 DEF CompleteReconstruction
    <3>2. PICK j \in Invoice : j = Inv(w)
      BY <1>1, <3>1, TaskOn
    <3>3. j # i
      <4>1. ASSUME j = i PROVE FALSE
        <5>1. /\ lease[w].task \in TasksOf(i) /\ Live(lease[w].task)
              /\ lease[x].task \in TasksOf(i) /\ Live(lease[x].task)
          BY <1>1, <1>2, <3>1, <3>2, <4>1, CurrentTask, CompleteStates
        <5>2. lease[w].task = lease[x].task
          BY <1>1, <5>1 DEF TokenInv
        <5>3. state'[lease[x].task] = "COMPLETED"
          BY <1>1, <3>1, <5>1, <5>2, CompleteStates DEF TasksOf
        <5>4. QED
          BY <5>3 DEF Queue!LeaseCurrent
      <4>2. QED
        BY <4>1
    <3>4. recon' = recon \/ \E r : recon' = [recon EXCEPT ![j] = Append(@, r)]
      BY <2>1, <3>2 DEF CompleteReconstruction
    <3>5. QED
      BY <1>1, <3>3, <3>4 DEF RevisionInv
  <2>2. ASSUME NEW w \in Worker,
               \/ \E verdict \in RecType : CompleteJudgment(w, verdict)
               \/ \E passed \in BOOLEAN : CompleteAccessBinding(w, passed)
        PROVE  recon' = recon
    BY <2>2 DEF CompleteJudgment, CompleteAccessBinding
  <2>3. Quiet => recon' = recon
    BY DEF Quiet
  <2>4. QED
    BY <1>1, <2>1, <2>2, <2>3, QuietSteps DEF Next, Handle
<1>4. Gap(i)' = Gap(i)
  BY <1>3 DEF Gap, Latest
<1>5. QED
  BY <1>2, <1>4

\* retrieve_memory reads what there is, and that only grows.
LEMMA MemoryStep ==
  ASSUME IInv, BindInv, [Next]_vars
  PROVE  MemoryInv'
<1>1. RowInv /\ RevisionInv /\ MemoryInv /\ \A i \in Invoice : Trail(i) /\ Covered(i)
  BY DEF IInv, BindInv
<1>2. [Queue!Next]_(Queue!vars)
  BY <1>1, StepRefines
<1>3. /\ snap' \in [Snapshot -> {"PENDING", "VERIFIED"}]
      /\ \A i : Visible(i) \subseteq Visible(i)'
  BY <1>1, SnapshotsKept, VisibleGrows
<1>4. ASSUME NEW w \in Worker, RetrieveMemory(w) PROVE MemoryInv'
  <2>1. /\ On(w, "RECON") /\ snap' = snap /\ lease' = lease /\ recon' = recon
        /\ view' = [view EXCEPT ![w] = Visible(Inv(w))]
        /\ UNCHANGED queueVars
    BY <1>4 DEF RetrieveMemory, queueVars, evidenceVars
  <2>2. Queue!LeaseCurrent(w) /\ Key(w) # 0 => Covers(Inv(w), Key(w), Visible(Inv(w)))
    <3>1. ASSUME Queue!LeaseCurrent(w), Key(w) # 0
          PROVE  Covers(Inv(w), Key(w), Visible(Inv(w)))
      <4>1. PICK i, s : i \in Invoice /\ i = Inv(w) /\ s = Key(w)
        BY <1>1, <2>1, TaskOn
      <4>2. s \in Snapshot /\ Live(Recon(i, s))
        <5>1. lease[w].task \in Task /\ lease[w].task.kind = "RECON" /\ Live(lease[w].task)
          BY <1>1, <2>1, <3>1, TaskOn, CurrentTask
        <5>2. QED
          BY <3>1, <4>1, <5>1, TaskFields, TaskForms DEF Inv, Key
      <4>3. Lacking(i, Visible(i)) \subseteq Gap(i) /\ snap[s] = "VERIFIED"
        BY <1>1, <4>1, <4>2 DEF Covered, GapInv, Live
      <4>4. ContainerOf[s] = InvoiceContainer[i] => s \in Visible(i)
        BY <4>2, <4>3 DEF Visible
      <4>5. QED
        BY <4>1, <4>3, <4>4 DEF Covers
    <3>2. QED
      BY <3>1
  <2>3. ASSUME NEW x \in Worker
        PROVE  /\ Queue!LeaseCurrent(x)' <=> Queue!LeaseCurrent(x)
               /\ On(x, "RECON")' <=> On(x, "RECON")
               /\ Inv(x)' = Inv(x) /\ Key(x)' = Key(x)
    BY <2>1 DEF Inv, Key, Queue!LeaseCurrent, On, queueVars
  <2>4. \A i : Gap(i)' = Gap(i) /\ Visible(i)' = Visible(i)
    BY <2>1 DEF Gap, Latest, Visible
  <2>5. ASSUME NEW i, NEW s, NEW seen, Covers(i, s, seen)
        PROVE  Lacking(i, seen) \subseteq Gap(i)' /\ (ContainerOf[s] = InvoiceContainer[i] => s \in seen)
    BY <2>4, <2>5 DEF Covers
  <2>6. \A x \in Worker : view'[x] = IF x = w THEN Visible(Inv(w)) ELSE view[x]
    BY <1>1, <2>1 DEF RevisionInv
  <2>7. ASSUME NEW x \in Worker, view'[x] # NoView
        PROVE  /\ On(x, "RECON")'
               /\ view'[x] \subseteq Visible(Inv(x))'
               /\ Queue!LeaseCurrent(x)' /\ Key(x)' # 0 =>
                    /\ Lacking(Inv(x), view'[x]) \subseteq Gap(Inv(x))'
                    /\ ContainerOf[Key(x)] = InvoiceContainer[Inv(x)] => Key(x) \in view'[x]
    <3>1. CASE x = w
      BY <2>1, <2>2, <2>3, <2>4, <2>5, <2>6, <3>1
    <3>2. CASE x # w
      <4>1. view'[x] = view[x]
        BY <2>6, <3>2
      <4>2. /\ On(x, "RECON") /\ view[x] \subseteq Visible(Inv(x))
            /\ Queue!LeaseCurrent(x) /\ Key(x) # 0 => Covers(Inv(x), Key(x), view[x])
        BY <1>1, <2>7, <4>1 DEF MemoryInv
      <4>3. QED
        BY <2>3, <2>4, <2>5, <4>1, <4>2
    <3>3. QED
      BY <3>1, <3>2
  <2>8. QED
    BY <1>3, <2>3, <2>7 DEF MemoryInv, Covers, Lacking
<1>5. CASE ~ \E w \in Worker : RetrieveMemory(w)
  <2>1. ReadsKept
    BY <1>1, <1>5, KeepsReads
  <2>2. ASSUME NEW x \in Worker, view'[x] # NoView
        PROVE  /\ On(x, "RECON")'
               /\ view'[x] \subseteq Visible(Inv(x))'
               /\ Queue!LeaseCurrent(x)' /\ Key(x)' # 0 =>
                    /\ Lacking(Inv(x), view'[x]) \subseteq Gap(Inv(x))'
                    /\ ContainerOf[Key(x)] = InvoiceContainer[Inv(x)] => Key(x) \in view'[x]
    <3>1. view'[x] = view[x] /\ lease'[x] = lease[x]
      BY <2>1, <2>2 DEF ReadsKept
    <3>2. /\ On(x, "RECON") /\ view[x] \subseteq Visible(Inv(x))
          /\ Queue!LeaseCurrent(x) /\ Key(x) # 0 => Covers(Inv(x), Key(x), view[x])
      BY <1>1, <2>2, <3>1 DEF MemoryInv
    <3>3. On(x, "RECON")' /\ Inv(x)' = Inv(x) /\ Key(x)' = Key(x)
      BY <3>1, <3>2 DEF On, Inv, Key
    <3>4. Visible(Inv(x)) \subseteq Visible(Inv(x))'
      <4>1. PICK i : i = Inv(x) /\ i = Inv(x)'
        BY <3>3
      <4>2. QED
        BY <1>3, <4>1
    <3>5. ASSUME Queue!LeaseCurrent(x)', Key(x)' # 0
          PROVE  /\ Lacking(Inv(x), view'[x]) \subseteq Gap(Inv(x))'
                 /\ ContainerOf[Key(x)] = InvoiceContainer[Inv(x)] => Key(x) \in view'[x]
      <4>1. Queue!LeaseCurrent(x)
        BY <1>1, <1>2, <3>1, <3>2, <3>5, LeaseStays
      <4>2. Gap(Inv(x))' = Gap(Inv(x))
        BY <2>2, <3>1, <3>2, <3>5, <4>1, GapStays
      <4>3. QED
        BY <3>1, <3>2, <3>3, <3>5, <4>1, <4>2 DEF Covers
    <3>6. QED
      BY <3>1, <3>2, <3>3, <3>4, <3>5
  <2>3. QED
    BY <1>3, <2>1, <2>2 DEF MemoryInv, Covers, Lacking, ReadsKept, Inv, Key
<1>6. QED
  BY <1>4, <1>5

\* In the beginning there is no revision.
LEMMA InitBind == Init => BindInv
<1> SUFFICES ASSUME Init PROVE BindInv
  OBVIOUS
<1>1. MemoryInv
  BY SnapshotAssumption DEF Init, MemoryInv
<1>2. ASSUME NEW i \in Invoice PROVE Covered(i)
  <2>1. /\ \A t \in TasksOf(i) : state[t] = "ABSENT"
        /\ recon[i] = <<>> /\ Len(recon[i]) = 0
    BY DEF Init, Queue!Init, TasksOf
  <2>2. Gap(i) = {}
    BY <2>1 DEF Gap
  <2>3. GapInv(i)
    BY <2>1, <2>2, TasksOfInvoice DEF GapInv, Live
  <2>4. CoverInv(i) /\ OfferInv(i)
    BY <2>1 DEF CoverInv, OfferInv
  <2>5. QED
    BY <2>3, <2>4 DEF Covered
<1>3. QED
  BY <1>1, <1>2 DEF BindInv

\* The handlers keep the bindings and what they led to in order.
THEOREM BindInvariance == Spec => []BindInv
<1>1. IInv /\ BindInv /\ [Next]_vars => BindInv'
  BY CoveredStep, MemoryStep DEF BindInv
<1>2. QED
  BY <1>1, InitBind, Invariance, PTL DEF Spec

\* A binding lifts the coverage: the revision that complete_reconstruction writes for
\* it covers what the one before covered and the day of the snapshot it verified,
\* unless that was another container's.
THEOREM BindingLifts == Spec => []BindingLiftsCoverage
<1>1. BindInv => BindingLiftsCoverage
  BY DEF BindInv, Covered, CoverInv, BindingLiftsCoverage
<1>2. QED
  BY <1>1, BindInvariance, PTL

\* A judged gap is left without a binding to release only if one was refused, or the
\* reconstruction after it was given up, or nothing is withheld.
THEOREM GapOffered == Spec => []GapHasWayOut
<1>1. IInv /\ BindInv => GapHasWayOut
  <2> SUFFICES ASSUME IInv, BindInv, NEW i \in Invoice,
                      Len(recon[i]) # 0, rec[i][Len(recon[i])] # "NONE",
                      recon[i][Len(recon[i])].lacking # {}, ~Busy(i),
                      ~ \A s \in Snapshot : snap[s] = "VERIFIED"
               PROVE  \E s \in Snapshot :
                        \/ state[Bind(i, s)] = "HELD"
                        \/ state[Bind(i, s)] = "COMPLETED" /\ state[Recon(i, s)] # "COMPLETED"
    BY DEF GapHasWayOut
  <2>1. Trail(i) /\ Covered(i) /\ RowInv
    BY DEF IInv, BindInv
  <2>2. PICK s \in Snapshot : state[Bind(i, s)] # "ABSENT" /\ state[Recon(i, s)] # "COMPLETED"
    BY <2>1 DEF Covered, OfferInv, Gap, Latest
  <2>3. Bind(i, s) \in TasksOf(i) /\ Bind(i, s) \in Task /\ Bind(i, s).kind = "BIND"
    BY TasksOfInvoice, TaskParts DEF TasksOf
  <2>4. state[Bind(i, s)] \in {"HELD", "COMPLETED"}
    BY <2>1, <2>2, <2>3 DEF Busy, Trail, TokenInv, RowInv, Queue!TaskState, Queue!Terminal
  <2>5. QED
    BY <2>2, <2>4
<1>2. QED
  BY <1>1, Invariance, BindInvariance, PTL

=============================================================================
