------------------------------ MODULE TaskOnce ------------------------------
(***************************************************************************)
(* What the durable task table promises to the pipeline, with no workers,  *)
(* leases or attempts: a task is created once, and from then on either its *)
(* effect is committed exactly once or it is given up without any effect.  *)
(* TaskQueue is shown to implement this module.                            *)
(***************************************************************************)
EXTENDS Naturals

CONSTANT Task       \* identities of the rows of workflow_tasks

VARIABLES
  outcome,          \* [Task -> {"none", "open", "done", "dead"}]
  effects           \* [Task -> Nat], how often the task's effect was committed

vars == <<outcome, effects>>

TypeOK ==
  /\ outcome \in [Task -> {"none", "open", "done", "dead"}]
  /\ effects \in [Task -> Nat]

Init ==
  /\ outcome = [t \in Task |-> "none"]
  /\ effects = [t \in Task |-> 0]

Create(t) ==
  /\ outcome[t] = "none"
  /\ outcome' = [outcome EXCEPT ![t] = "open"]
  /\ UNCHANGED effects

\* A committed effect hands over to at most one other task.
FollowUps == {{}} \cup {{t} : t \in Task}

Commit(t, new) ==
  /\ outcome[t] = "open"
  /\ outcome' = [u \in Task |->
                  IF u = t THEN "done"
                  ELSE IF u \in new /\ outcome[u] = "none" THEN "open"
                  ELSE outcome[u]]
  /\ effects' = [effects EXCEPT ![t] = @ + 1]

GiveUp(t) ==
  /\ outcome[t] = "open"
  /\ outcome' = [outcome EXCEPT ![t] = "dead"]
  /\ UNCHANGED effects

Next ==
  \E t \in Task :
    \/ Create(t)
    \/ \E new \in FollowUps : Commit(t, new)
    \/ GiveUp(t)

Spec == Init /\ [][Next]_vars

=============================================================================
