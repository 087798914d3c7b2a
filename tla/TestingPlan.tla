---------------------------- MODULE TestingPlan ----------------------------
(***************************************************************************)
(* What a Testing run knows before it writes anything: the plan's tasks,   *)
(* their authorized write requests, the batches they are scheduled in, and *)
(* which tasks a failed final check reopens.  Tasks are numbered in the    *)
(* order of their ids, which is the order every loop of the code visits    *)
(* them in.                                                                *)
(***************************************************************************)
EXTENDS Naturals, FiniteSets, Sequences, FiniteSetsExt

CONSTANTS
  Tasks,          \* number of the plan's tasks
  File,           \* the paths the operator granted
  Scope,          \* scope.likelyFiles of each task
  Source,         \* sourcePaths of the check bound to each task's command
  TaskGraph,      \* pairs <<from, to>>
  ConflictsWith,  \* declared conflicts, pairs of tasks
  Exclusive,      \* the tasks with an exclusive grant
  Parallel        \* authorization.maximumParallelTasks

Task == 1..Tasks

\* preflight: every task has a write scope and each path is covered by its check.
ASSUME PlanAssumption ==
  /\ Tasks \in Nat \ {0} /\ Parallel \in 1..16 /\ Exclusive \subseteq Task
  /\ TaskGraph \subseteq Task \X Task /\ ConflictsWith \subseteq Task \X Task
  /\ \A t \in Task : Scope[t] # {} /\ Scope[t] \subseteq File \cap Source[t]

----------------------------------------------------------------------------
\* WRITE_SCOPE_BUSY: acquire finds the lease of another task in the way.
Busy(t, active) ==
  \E u \in active : t \in Exclusive \/ u \in Exclusive \/ Scope[t] \cap Scope[u] # {}

DeclaredConflict(t, u) == <<t, u>> \in ConflictsWith \/ <<u, t>> \in ConflictsWith

Ready(t, completed) == t \notin completed /\ \A e \in TaskGraph : e[2] = t => e[1] \in completed

\* One pass over the tasks in id order: the batch as built from tasks 1..n.
BatchUpTo(completed) ==
  LET batch[n \in 0..Tasks] ==
        IF n = 0 THEN {}
        ELSE LET b == batch[n - 1] IN
             IF /\ Ready(n, completed) /\ Cardinality(b) < Parallel
                /\ \A u \in b : ~DeclaredConflict(n, u) /\ ~Busy(n, b)
             THEN b \cup {n} ELSE b
  IN batch[Tasks]

\* testingWriteSchedule: the batches, in order, as many as there are tasks left for.
Schedule ==
  LET done[n \in 0..Tasks] == IF n = 0 THEN {} ELSE done[n - 1] \cup BatchUpTo(done[n - 1])
  IN  [n \in 1..Cardinality({k \in 1..Tasks : done[k - 1] # Task}) |-> BatchUpTo(done[n - 1])]

\* TESTING_WRITE_SCHEDULE_DEADLOCK: a plan of which a task gets no batch is not executed.
ASSUME ScheduleAssumption == \A t \in Task : \E n \in DOMAIN Schedule : t \in Schedule[n]

----------------------------------------------------------------------------
\* testingRepairClosure: the failing tasks, and those whose declared conflict or
\* recorded writes reach a failing task's inputs, each with the failure that
\* reopened it.  Dependents and scope sharers are only marked stale.
Reaches(t, u, written) == DeclaredConflict(t, u) \/ written[u] \cap (Scope[t] \cup Source[t]) # {}

Reopened(failed, written) ==
  LET related(u) == {t \in failed : Reaches(t, u, written)}
  IN  [u \in Task |-> IF u \in failed THEN u
                      ELSE IF related(u) = {} THEN 0 ELSE Min(related(u))]

\* completeReopening visits the failing tasks first, then the related ones.
NextReopened(round, todo) ==
  LET own == {t \in todo : round[t] = t} IN IF own # {} THEN Min(own) ELSE Min(todo)
=============================================================================
