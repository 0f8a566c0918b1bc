-------------------------- MODULE TaskQueueProofs --------------------------
(***************************************************************************)
(* Proofs about TaskQueue, for any tasks, workers and retry budget: its    *)
(* type invariant, the fencing of leases, the history in the attempt rows, *)
(* the single commit of every task, and that it implements TaskOnce.       *)
(***************************************************************************)
EXTENDS TaskQueue, SequenceTheorems, TLAPS

USE TaskKinds, NullAssumption, AttemptAssumption

\* The attempt numbers grow with each claim, so a lease is never newer than
\* its task, and the newest lease of a running task is its owner's.
LeaseInv ==
  \A w \in Worker : lease[w] # NoLease =>
    /\ lease[w].attempt <= attempt[lease[w].task]
    /\ (state[lease[w].task] = "RUNNING"
          /\ lease[w].attempt = attempt[lease[w].task])
         => owner[lease[w].task] = w

\* LeaseUnique and CurrentLeaseIsNewest are inductive only together with the
\* bound on the attempt of every lease.
FenceInv == LeaseInv /\ LeaseUnique /\ CurrentLeaseIsNewest

-----------------------------------------------------------------------------
\* Writing one attempt row leaves a sequence of attempt rows of equal length.
LEMMA SetRowSeq ==
  ASSUME NEW s \in Seq(RowState), NEW n, NEW e \in RowState
  PROVE  /\ [s EXCEPT ![n] = e] \in Seq(RowState)
         /\ Len([s EXCEPT ![n] = e]) = Len(s)
<1> DEFINE r == [s EXCEPT ![n] = e]
<1>1. s \in [1 .. Len(s) -> RowState] /\ Len(s) \in Nat
  BY LenProperties
<1>2. r \in [1 .. Len(s) -> RowState]
  BY <1>1
<1>3. QED
  BY <1>1, <1>2, SeqDef

-----------------------------------------------------------------------------
\* The initial states: every row absent, every worker idle.
LEMMA InitTypeOK == Init => TypeOK
  BY DEF Init, TypeOK, TaskState

\* Every step of the queue keeps the tables and the leases well typed.
LEMMA NextTypeOK == TypeOK /\ [Next]_vars => TypeOK'
<1> SUFFICES ASSUME TypeOK, [Next]_vars PROVE TypeOK'
  OBVIOUS
<1> USE DEF TypeOK, TaskState, RowState, Terminal, Lease
<1>1. ASSUME NEW t \in Task, Insert(t) PROVE TypeOK'
  BY <1>1 DEF Insert, Created
<1>2. ASSUME NEW t \in Task, Release(t) PROVE TypeOK'
  BY <1>2 DEF Release
<1>3. ASSUME NEW t \in Task, ClockPasses(t) PROVE TypeOK'
  BY <1>3 DEF ClockPasses
<1>4. ASSUME NEW w \in Worker, NEW t \in Task, Claim(w, t) PROVE TypeOK'
  <2>1. row' \in [Task -> Seq(RowState)]
    BY <1>4 DEF Claim
  <2>2. lease' \in [Worker -> Lease \cup {NoLease}]
    BY <1>4 DEF Claim
  <2>3. QED
    BY <1>4, <2>1, <2>2 DEF Claim
<1>5. ASSUME NEW w \in Worker, NEW new \in FollowUps, Complete(w, new)
      PROVE  TypeOK'
  <2>1. lease[w] \in Lease
    BY <1>5 DEF Complete, LeaseCurrent
  <2>2. row' \in [Task -> Seq(RowState)]
    BY <1>5, <2>1, SetRowSeq DEF Complete, SetRow
  <2>3. lease' \in [Worker -> Lease \cup {NoLease}]
    BY <1>5 DEF Complete, AfterCommit
  <2>4. commits' \in [Task -> Nat]
    BY <1>5, <2>1 DEF Complete
  <2>5. state' \in [Task -> TaskState] /\ attempt' \in [Task -> Nat]
    BY <1>5, <2>1 DEF Complete, Created
  <2>6. owner' \in [Task -> Worker \cup {NoWorker}] /\ due' \in [Task -> BOOLEAN]
    BY <1>5, <2>1 DEF Complete
  <2>7. QED
    BY <2>2, <2>3, <2>4, <2>5, <2>6
<1>6. ASSUME NEW w \in Worker, NEW r \in BOOLEAN, Fail(w, r) PROVE TypeOK'
  <2>1. lease[w] \in Lease
    BY <1>6 DEF Fail, LeaseCurrent
  <2>2. row' \in [Task -> Seq(RowState)]
    BY <1>6, <2>1, SetRowSeq DEF Fail, SetRow, WillRetry, DeadState
  <2>3. lease' \in [Worker -> Lease \cup {NoLease}]
    BY <1>6 DEF Fail, AfterCommit
  <2>4. QED
    BY <1>6, <2>1, <2>2, <2>3 DEF Fail, WillRetry, DeadState
<1>7. ASSUME NEW w \in Worker, LoseLease(w) \/ Crash(w) PROVE TypeOK'
  BY <1>7 DEF LoseLease, Crash
<1>8. CASE UNCHANGED vars
  BY <1>8 DEF vars
<1>9. QED
  BY <1>1, <1>2, <1>3, <1>4, <1>5, <1>6, <1>7, <1>8 DEF Next, WorkerStep

\* The tables and the leases are well typed in every reachable state.
THEOREM TypeCorrect == Spec => []TypeOK
  BY InitTypeOK, NextTypeOK, PTL DEF Spec

-----------------------------------------------------------------------------
\* A completion is committed by the transaction that makes the row COMPLETED,
\* and nothing leads out of COMPLETED.
LEMMA NextEffectOnce == TypeOK /\ EffectOnce /\ [Next]_vars => EffectOnce'
<1> SUFFICES ASSUME TypeOK, EffectOnce, [Next]_vars,
                    NEW u \in Task
             PROVE  commits'[u] = IF state'[u] = "COMPLETED" THEN 1 ELSE 0
  BY DEF EffectOnce
<1> USE DEF TypeOK, EffectOnce
<1>1. CASE \E t \in Task : Insert(t) \/ Release(t) \/ ClockPasses(t)
  BY <1>1 DEF Insert, Created, Release, ClockPasses
<1>2. CASE \E w \in Worker, t \in Task : Claim(w, t)
  BY <1>2 DEF Claim, Claimable
<1>3. ASSUME NEW w \in Worker, NEW new \in FollowUps, Complete(w, new)
      PROVE  commits'[u] = IF state'[u] = "COMPLETED" THEN 1 ELSE 0
  <2>1. lease[w].task \in Task /\ state[lease[w].task] = "RUNNING"
    BY <1>3 DEF Complete, LeaseCurrent, Lease
  <2>2. commits[lease[w].task] = 0
    BY <2>1
  <2>3. CASE u = lease[w].task
    BY <1>3, <2>1, <2>2, <2>3 DEF Complete
  <2>4. CASE u # lease[w].task
    BY <1>3, <2>1, <2>4 DEF Complete, Created
  <2>5. QED
    BY <2>3, <2>4
<1>4. ASSUME NEW w \in Worker, NEW r \in BOOLEAN, Fail(w, r)
      PROVE  commits'[u] = IF state'[u] = "COMPLETED" THEN 1 ELSE 0
  <2>1. lease[w].task \in Task /\ state[lease[w].task] = "RUNNING"
    BY <1>4 DEF Fail, LeaseCurrent, Lease
  <2>2. QED
    BY <1>4, <2>1 DEF Fail, DeadState
<1>5. CASE \E w \in Worker : LoseLease(w) \/ Crash(w)
  BY <1>5 DEF LoseLease, Crash
<1>6. CASE UNCHANGED vars
  BY <1>6 DEF vars
<1>7. QED
  BY <1>1, <1>2, <1>3, <1>4, <1>5, <1>6 DEF Next, WorkerStep

\* The completion of a task is committed exactly once, and exactly when its
\* row is COMPLETED, whatever leases expire, workers die or answers get lost.
THEOREM EffectCommittedOnce == Spec => []EffectOnce
<1>1. Init => EffectOnce
  BY DEF Init, EffectOnce
<1>2. QED
  BY <1>1, TypeCorrect, NextEffectOnce, PTL DEF Spec

-----------------------------------------------------------------------------
\* A claim makes the one newest lease of its task; no other step makes one.
LEMMA NextFence == TypeOK /\ FenceInv /\ [Next]_vars => FenceInv'
<1> SUFFICES ASSUME TypeOK, FenceInv, [Next]_vars PROVE FenceInv'
  OBVIOUS
<1> USE DEF TypeOK, Lease, FenceInv, LeaseInv, LeaseUnique,
            CurrentLeaseIsNewest, LeaseCurrent
<1>1. CASE \E t \in Task : Insert(t) \/ Release(t) \/ ClockPasses(t)
  BY <1>1 DEF Insert, Created, Release, ClockPasses
<1>2. ASSUME NEW w \in Worker, NEW t \in Task, Claim(w, t) PROVE FenceInv'
  <2>1. /\ lease' = [lease EXCEPT ![w] = [task |-> t, attempt |-> attempt[t] + 1]]
        /\ attempt' = [attempt EXCEPT ![t] = @ + 1]
        /\ owner' = [owner EXCEPT ![t] = w]
        /\ state' = [state EXCEPT ![t] = "RUNNING"]
        /\ lease[w] = NoLease
    BY <1>2 DEF Claim
  <2>2. LeaseInv'
    BY <2>1
  <2>3. LeaseUnique'
    BY <2>1
  <2>4. CurrentLeaseIsNewest'
    BY <2>1
  <2>5. QED
    BY <2>2, <2>3, <2>4
<1>3. ASSUME NEW w \in Worker,
             (\E new \in FollowUps : Complete(w, new)) \/ \E r \in BOOLEAN : Fail(w, r)
      PROVE  FenceInv'
  <2>1. /\ lease[w] \in Lease
        /\ attempt' = attempt
        /\ \A v \in Worker : lease'[v] = lease[v] \/ lease'[v] = NoLease
    BY <1>3 DEF Complete, Fail, AfterCommit
  <2>2. /\ \A t \in Task :
             state'[t] = "RUNNING" => t # lease[w].task /\ state[t] = "RUNNING"
        /\ owner' = [owner EXCEPT ![lease[w].task] = NoWorker]
    <3>1. CASE \E new \in FollowUps : Complete(w, new)
      BY <2>1, <3>1 DEF Complete, Created
    <3>2. CASE \E r \in BOOLEAN : Fail(w, r)
      BY <2>1, <3>2 DEF Fail, DeadState
    <3>3. QED
      BY <1>3, <3>1, <3>2
  <2>3. LeaseInv'
    BY <2>1, <2>2
  <2>4. LeaseUnique'
    BY <2>1
  <2>5. CurrentLeaseIsNewest'
    BY <2>1, <2>2
  <2>6. QED
    BY <2>3, <2>4, <2>5
<1>4. ASSUME NEW w \in Worker, LoseLease(w) \/ Crash(w) PROVE FenceInv'
  <2>1. /\ lease' = [lease EXCEPT ![w] = NoLease]
        /\ UNCHANGED <<state, attempt, owner>>
    BY <1>4 DEF LoseLease, Crash
  <2>2. LeaseInv'
    BY <2>1
  <2>3. LeaseUnique'
    BY <2>1
  <2>4. CurrentLeaseIsNewest'
    BY <2>1
  <2>5. QED
    BY <2>2, <2>3, <2>4
<1>5. CASE UNCHANGED vars
  BY <1>5 DEF vars
<1>6. QED
  BY <1>1, <1>2, <1>3, <1>4, <1>5 DEF Next, WorkerStep

\* No two workers hold leases of one task with the same attempt, and a worker
\* whose task was claimed again can neither complete nor fail it.
THEOREM LeasesFenced == Spec => [](LeaseUnique /\ CurrentLeaseIsNewest)
<1>1. Init => FenceInv
  BY DEF Init, FenceInv, LeaseInv, LeaseUnique, CurrentLeaseIsNewest, LeaseCurrent
<1>2. FenceInv => LeaseUnique /\ CurrentLeaseIsNewest
  BY DEF FenceInv
<1>3. QED
  BY <1>1, <1>2, TypeCorrect, NextFence, PTL DEF Spec

-----------------------------------------------------------------------------
\* The rows of the attempts that were made are attempt rows.
LEMMA RowElement ==
  ASSUME TypeOK, RowsTellHistory, NEW t \in Task, NEW n \in 1 .. attempt[t]
  PROVE  row[t][n] \in RowState
<1>1. row[t] \in Seq(RowState) /\ n \in 1 .. Len(row[t])
  BY DEF TypeOK, RowsTellHistory
<1>2. QED
  BY <1>1, ElementOfSeq

\* Each claim appends the one open row; only the owner of the newest lease
\* closes it, as RETRY_WAIT only within the budget.
LEMMA NextRows ==
  TypeOK /\ CurrentLeaseIsNewest /\ RowsTellHistory /\ [Next]_vars
    => RowsTellHistory'
<1> SUFFICES ASSUME TypeOK, CurrentLeaseIsNewest, RowsTellHistory, [Next]_vars
             PROVE  RowsTellHistory'
  OBVIOUS
<1> USE DEF TypeOK, RowsTellHistory, RowState
<1>1. ASSUME NEW t \in Task, Insert(t) \/ Release(t) \/ ClockPasses(t)
      PROVE  RowsTellHistory'
  <2>1. attempt' = attempt /\ row' = row
    BY <1>1 DEF Insert, Created, Release, ClockPasses
  <2>2. ASSUME NEW u \in Task, u \notin BindTask, attempt[u] > 0
        PROVE  state'[u] = state[u]
    <3>1. attempt[u] \in 1 .. attempt[u]
      BY <2>2
    <3>2. row[u][attempt[u]] \in RowState
      BY <3>1, RowElement
    <3>3. state[u] \in RowState
      BY <2>2, <3>1, <3>2
    <3>4. QED
      BY <1>1, <2>2, <3>3 DEF Insert, Created, Release, ClockPasses
  <2>3. QED
    BY <2>1, <2>2
<1>2. ASSUME NEW w \in Worker, NEW t \in Task, Claim(w, t)
      PROVE  RowsTellHistory'
  <2>1. /\ state' = [state EXCEPT ![t] = "RUNNING"]
        /\ attempt' = [attempt EXCEPT ![t] = @ + 1]
        /\ row' = [row EXCEPT ![t] = Append(@, "RUNNING")]
        /\ state[t] \in {"PENDING", "RETRY_WAIT", "RUNNING"}
    BY <1>2 DEF Claim, Claimable
  <2>1a. \A u \in Task : Len(row'[u]) = attempt'[u]
    BY <2>1
  <2>2. SUFFICES ASSUME NEW u \in Task, NEW n \in 1 .. attempt'[u]
                 PROVE  /\ n < attempt'[u] => row'[u][n] \in {"RUNNING", "RETRY_WAIT"}
                        /\ n = attempt'[u] =>
                             row'[u][n] = IF u \in BindTask THEN "RUNNING" ELSE state'[u]
                        /\ row'[u][n] = "RETRY_WAIT" => n < MaxAutomaticAttempts
    BY <2>1a
  <2>3. CASE u # t
    BY <2>1, <2>3
  <2>4. CASE u = t /\ n = attempt[t] + 1
    BY <2>1, <2>4, AppendProperties
  <2>5. CASE u = t /\ n \in 1 .. attempt[t]
    <3>1. row'[t][n] = row[t][n]
      BY <2>1, <2>5, AppendProperties
    <3>2. row[t][n] \in RowState
      BY <2>5, RowElement
    <3>3. row[t][n] \in {"RUNNING", "RETRY_WAIT"}
      BY <2>1, <2>5, <3>2
    <3>4. row[t][n] = "RETRY_WAIT" => n < MaxAutomaticAttempts
      BY <2>5
    <3>5. n < attempt'[t] /\ n # attempt'[t]
      BY <2>1, <2>5
    <3> HIDE DEF TypeOK, RowsTellHistory
    <3>7. QED
      BY <2>5, <3>1, <3>3, <3>4, <3>5
  <2>6. QED
    BY <2>1, <2>3, <2>4, <2>5
<1>3. ASSUME NEW w \in Worker, NEW new \in FollowUps, Complete(w, new)
      PROVE  RowsTellHistory'
  <2> DEFINE t == lease[w].task
  <2>1. /\ t \in Task
        /\ lease[w].attempt = attempt[t]
        /\ attempt' = attempt
        /\ state'[t] = "COMPLETED"
        /\ \A u \in Task : u # t => \/ state'[u] = state[u]
                                   \/ state[u] = "ABSENT"
        /\ row' = IF t \in BindTask THEN row
                  ELSE [row EXCEPT ![t] = [@ EXCEPT ![attempt[t]] = "COMPLETED"]]
    <3>1. t \in Task /\ lease[w].attempt = attempt[t]
      BY <1>3 DEF Complete, CurrentLeaseIsNewest, LeaseCurrent, Lease
    <3>2. QED
      BY <1>3, <3>1 DEF Complete, SetRow
  <2>2. \A u \in Task : Len(row'[u]) = Len(row[u])
    BY <2>1, SetRowSeq
  <2>3. ASSUME NEW u \in Task, state[u] = "ABSENT", u \notin BindTask
        PROVE  attempt[u] = 0
    <3>1. ASSUME attempt[u] # 0 PROVE FALSE
      <4>1. attempt[u] \in 1 .. attempt[u]
        BY <3>1
      <4>2. QED
        BY <2>3, <4>1, RowElement
    <3>2. QED
      BY <3>1
  <2>4. QED
    BY <2>1, <2>2, <2>3
<1>4. ASSUME NEW w \in Worker, NEW r \in BOOLEAN, Fail(w, r)
      PROVE  RowsTellHistory'
  <2> DEFINE t == lease[w].task
  <2> DEFINE s == IF WillRetry(w, r) THEN "RETRY_WAIT" ELSE DeadState(t)
  <2>1. /\ t \in Task \ BindTask
        /\ lease[w].attempt = attempt[t]
        /\ attempt' = attempt
        /\ state' = [state EXCEPT ![t] = s]
        /\ row' = [row EXCEPT ![t] = [@ EXCEPT ![attempt[t]] = s]]
    <3>1. t \in Task \ BindTask /\ lease[w].attempt = attempt[t]
      BY <1>4 DEF Fail, CurrentLeaseIsNewest, LeaseCurrent, Lease
    <3>2. QED
      BY <1>4, <3>1 DEF Fail, SetRow
  <2>2. s \in RowState /\ (s = "RETRY_WAIT" => attempt[t] < MaxAutomaticAttempts)
    BY <2>1 DEF WillRetry, DeadState
  <2> HIDE DEF s
  <2>3. \A u \in Task : Len(row'[u]) = Len(row[u])
    BY <2>1, <2>2, SetRowSeq
  <2>4. QED
    BY <2>1, <2>2, <2>3
<1>5. CASE \E w \in Worker : LoseLease(w) \/ Crash(w)
  <2>1. UNCHANGED <<state, attempt, row>>
    BY <1>5 DEF LoseLease, Crash
  <2>2. QED
    BY <2>1
<1>6. CASE UNCHANGED vars
  <2>1. UNCHANGED <<state, attempt, row>>
    BY <1>6 DEF vars
  <2>2. QED
    BY <2>1
<1>7. QED
  BY <1>1, <1>2, <1>3, <1>4, <1>5, <1>6 DEF Next, WorkerStep

\* The attempt rows record one row per claim and tell how each ended.
THEOREM AttemptHistory == Spec => []RowsTellHistory
<1>1. ASSUME Init PROVE RowsTellHistory
  <2>1. \A t \in Task : attempt[t] = 0 /\ row[t] = <<>>
    BY <1>1 DEF Init
  <2>2. Len(<<>>) = 0
    OBVIOUS
  <2>3. \A t \in Task : Len(row[t]) = attempt[t]
    BY <2>1, <2>2
  <2>4. \A t \in Task : \A n \in 1 .. attempt[t] : FALSE
    BY <2>1
  <2>5. QED
    BY <2>3, <2>4 DEF RowsTellHistory
<1>2. QED
  BY <1>1, TypeCorrect, LeasesFenced, NextRows, PTL DEF Spec

-----------------------------------------------------------------------------
\* A step rewrites at most the row of the newest attempt of a running task,
\* and that row is still open.
LEMMA NextRowsFinal ==
  ASSUME TypeOK, CurrentLeaseIsNewest, RowsTellHistory, [Next]_vars,
         NEW t \in Task, NEW n \in 1 .. Len(row[t]), row[t][n] # "RUNNING"
  PROVE  row'[t][n] = row[t][n]
<1> USE DEF TypeOK
<1>1. n \in 1 .. attempt[t]
  BY DEF RowsTellHistory
<1>2. ASSUME NEW w \in Worker, NEW u \in Task, Claim(w, u)
      PROVE  row'[t][n] = row[t][n]
  <2>1. row' = [row EXCEPT ![u] = Append(@, "RUNNING")]
    BY <1>2 DEF Claim
  <2>2. QED
    BY <2>1, AppendProperties DEF RowState
<1>3. ASSUME NEW w \in Worker, NEW s,
             LeaseCurrent(w), lease[w].task \notin BindTask, SetRow(w, s)
      PROVE  row'[t][n] = row[t][n]
  <2>1. CASE lease[w].task # t
    BY <1>3, <2>1 DEF SetRow, LeaseCurrent, Lease
  <2>2. CASE lease[w].task = t
    <3>1. lease[w].attempt = attempt[t] /\ state[t] = "RUNNING"
      BY <1>3, <2>2 DEF LeaseCurrent, CurrentLeaseIsNewest
    <3>2. n # attempt[t]
      BY <1>1, <1>3, <2>2, <3>1 DEF RowsTellHistory
    <3>3. QED
      BY <1>3, <2>2, <3>1, <3>2 DEF SetRow
  <2>3. QED
    BY <2>1, <2>2
<1>4. ASSUME NEW w \in Worker,
             (\E new \in FollowUps : Complete(w, new)) \/ \E r \in BOOLEAN : Fail(w, r)
      PROVE  row'[t][n] = row[t][n]
  <2>1. \/ row' = row
        \/ /\ LeaseCurrent(w)
           /\ lease[w].task \notin BindTask
           /\ \E s \in RowState : SetRow(w, s)
    BY <1>4 DEF Complete, Fail, DeadState, RowState
  <2>2. QED
    BY <1>3, <2>1
<1>5. CASE UNCHANGED row
  BY <1>5
<1>6. QED
  BY <1>2, <1>4, <1>5
  DEF Next, WorkerStep, Insert, Release, ClockPasses, LoseLease, Crash, vars

\* The record of an attempt that ended is never rewritten.
THEOREM EndedAttemptsKept == Spec => AttemptRowsFinal
<1>1. TypeOK /\ CurrentLeaseIsNewest /\ RowsTellHistory /\ [Next]_vars
        => [\A t \in Task : \A n \in 1 .. Len(row[t]) :
              row[t][n] # "RUNNING" => row'[t][n] = row[t][n]]_vars
  BY NextRowsFinal
<1>2. QED
  BY <1>1, TypeCorrect, LeasesFenced, AttemptHistory, PTL
  DEF Spec, AttemptRowsFinal

-----------------------------------------------------------------------------
\* Initially no task of TaskOnce exists either.
LEMMA OnceInit == Init => Once!Init
  BY DEF Init, Once!Init, Outcome

\* Inserting creates, completing commits, the last failure gives up; all
\* other steps of the queue leave TaskOnce where it is.
LEMMA OnceNext == TypeOK /\ [Next]_vars => [Once!Next]_(Once!vars)
<1> SUFFICES ASSUME TypeOK, [Next]_vars PROVE [Once!Next]_(Once!vars)
  OBVIOUS
<1> USE DEF TypeOK, Outcome, Terminal
<1>1. ASSUME NEW t \in Task, Insert(t) PROVE Once!Create(t)
  BY <1>1 DEF Insert, Created, Once!Create
<1>2. ASSUME NEW t \in Task, Release(t) \/ ClockPasses(t)
      PROVE  UNCHANGED Once!vars
  BY <1>2 DEF Release, ClockPasses, Once!vars
<1>3. ASSUME NEW w \in Worker, NEW t \in Task, Claim(w, t)
      PROVE  UNCHANGED Once!vars
  BY <1>3 DEF Claim, Claimable, Once!vars
<1>4. ASSUME NEW w \in Worker, NEW new \in FollowUps, Complete(w, new)
      PROVE  lease[w].task \in Task /\ Once!Commit(lease[w].task, new)
  BY <1>4 DEF Complete, Created, LeaseCurrent, Lease, Once!Commit
<1>5. ASSUME NEW w \in Worker, NEW r \in BOOLEAN, Fail(w, r)
      PROVE  \/ lease[w].task \in Task /\ Once!GiveUp(lease[w].task)
             \/ UNCHANGED Once!vars
  <2>1. lease[w].task \in Task /\ state[lease[w].task] = "RUNNING"
    BY <1>5 DEF Fail, LeaseCurrent, Lease
  <2>2. CASE WillRetry(w, r)
    BY <1>5, <2>1, <2>2 DEF Fail, Once!vars
  <2>3. CASE ~WillRetry(w, r)
    BY <1>5, <2>1, <2>3 DEF Fail, DeadState, Once!GiveUp
  <2>4. QED
    BY <2>2, <2>3
<1>6. ASSUME NEW w \in Worker, LoseLease(w) \/ Crash(w)
      PROVE  UNCHANGED Once!vars
  BY <1>6 DEF LoseLease, Crash, Once!vars
<1>7. CASE UNCHANGED vars
  BY <1>7 DEF vars, Once!vars
<1> HIDE DEF TypeOK, Outcome, Terminal
<1>8. QED
  BY <1>1, <1>2, <1>3, <1>4, <1>5, <1>6, <1>7
  DEF Next, WorkerStep, FollowUps, Once!Next, Once!FollowUps

\* The lease protocol implements tasks whose effect is committed exactly once.
THEOREM QueueImplementsOnce == Spec => OnceSpec
  BY OnceInit, OnceNext, TypeCorrect, PTL DEF Spec, OnceSpec, Once!Spec

=============================================================================
