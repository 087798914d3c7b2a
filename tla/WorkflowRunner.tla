--------------------------- MODULE WorkflowRunner ---------------------------
(***************************************************************************)
(* One durable run of a workflow graph: WorkflowRunner and ActivityRuntime *)
(* (packages/core), writing through RunStore's journal port.               *)
(*                                                                         *)
(* The disk holds two append-only files.  journal.jsonl has the activity   *)
(* records a resume replays from; events.jsonl has the run's transitions   *)
(* and node events, and its writes are queued one behind the other.  Only  *)
(* an "expensive" append is fsynced, so a power loss may cut either file   *)
(* back to any record boundary at or after the last fsync (a torn record   *)
(* is dropped on load).  A process crash is the case that cuts nothing.    *)
(*                                                                         *)
(* The write and the fsync of one expensive append are one step: the only  *)
(* thing that can tell them apart is a crash, and a crash just before or   *)
(* just after the step leaves the two files it could have left between.    *)
(***************************************************************************)
EXTENDS Integers, Sequences, FiniteSetsExt

CONSTANTS
  Node,              \* the nodes the graph reaches from its entry
  Pred,              \* Pred[n]: the nodes with an edge into n
  Position,          \* Position[n]: where n stands in the plan's order
  Stage,             \* Stage[n]: the run state n's work puts the run in
  NoStage,           \* ... when stageState maps the node to none
  Run,               \* the run itself, as the sender of an append
  Stages,            \* the run states a stage can be
  Thrown,            \* the run states executors' errors lead to
  ConcurrencyLimit,
  MaxRestarts,       \* bound: resumes of the run
  MaxFaults,         \* bound: failing writes and unreadable artifacts
  MaxLosses          \* bound: artifact files deleted behind the run's back

Failures == {"FAILED", "BLOCKED", "SUSPENDED_BUDGET", "SUSPENDED_RATE_LIMIT"}
Finals == Failures \union {"CANCELLED", "COMPLETED"}
RunState == {"CREATED"} \union Stages \union Finals

ASSUME GraphAssumption ==
  /\ Pred \in [Node -> SUBSET Node]
  /\ Position \in [Node -> Nat]
  /\ \A m, n \in Node : Position[m] = Position[n] => m = n
  /\ Stage \in [Node -> Stages \union {NoStage}]
  /\ NoStage \notin RunState /\ Run \notin Node
  /\ Stages \intersect (Finals \union {"CREATED"}) = {}

ASSUME BoundAssumption ==
  /\ ConcurrencyLimit \in Nat \ {0} /\ Thrown \subseteq Failures
  /\ MaxRestarts \in Nat /\ MaxFaults \in Nat /\ MaxLosses \in Nat

VARIABLES
  \* on disk
  defined,        \* definition.json has been saved
  journal,        \* journal.jsonl, a sequence of activity records
  journalSynced,  \* how many of its records are known to survive a power loss
  events,         \* events.jsonl, a sequence of run events
  eventsSynced,
  artifacts,      \* stored outputs: pairs <<node, attempt that made it>>
  \* in the process that holds the run's handle
  phase,          \* where #createHandle's promise stands
  liveState,      \* the handle's state
  cancelled,      \* RunCancellation
  outputs,        \* nodes whose output is in hand (pending is the rest)
  batch,          \* the nodes started together, in plan order
  nodePhase,      \* where each node's async function stands
  nodeError,      \* what a rejected node threw: the run state it leads to
  completed,      \* ActivityRuntime.#completed: attempt of the output, 0: none
  attempts,       \* ActivityRuntime.#attempts
  eventQueue,     \* appends waiting in RunStore.#eventWrites
  \* bounds
  restarts, faults,
  lost            \* artifact files deleted so far

disk == <<defined, journal, journalSynced, events, eventsSynced, artifacts>>
bounds == <<restarts, faults, lost>>
vars == <<disk, phase, liveState, cancelled, outputs, batch, nodePhase,
          nodeError, completed, attempts, eventQueue, bounds>>

RunPhase == {"down", "saving", "loading", "creating", "executing",
             "finishing", "failing", "settled"}
NodePhase == {"idle", "staging", "dispatching", "lookup", "starting",
              "running", "returned", "stored", "completing", "erring",
              "done", "rejected"}

Record == [t : {"attempt_start", "end", "attempt_error"}, id : Node,
           attempt : Nat]
RunEvent == [t : {"run_transition"}, state : RunState]
            \union [t : {"node_dispatched", "node_completed"}, id : Node]

Transition(state) == [t |-> "run_transition", state |-> state]
Dispatched(n) == [t |-> "node_dispatched", id |-> n]
Completed(n) == [t |-> "node_completed", id |-> n]

\* An append waiting in the event queue, and whose it is: a node's or Run's.
Waiting(event, sender) == [event |-> event, sender |-> sender]
QueueEntry == [event : RunEvent, sender : Node \union {Run}]
-----------------------------------------------------------------------------
(* What a list of records projects to (state-projection.ts).               *)

\* The activities with an end record in the first k records.
EndedIn(k) == {n \in Node : \E i \in 1..k :
                 journal[i].t = "end" /\ journal[i].id = n}

EndsOf(n) == {i \in 1..Len(journal) :
                journal[i].t = "end" /\ journal[i].id = n}

\* Last end record wins.
ProjectCompleted(n) ==
  IF EndsOf(n) = {} THEN 0 ELSE journal[Max(EndsOf(n))].attempt

StartsOf(n) == {i \in 1..Len(journal) :
                  journal[i].t = "attempt_start" /\ journal[i].id = n}

\* The highest attempt number among n's attempt_start records.
ProjectAttempts(n) ==
  IF StartsOf(n) = {} THEN 0 ELSE Max({journal[i].attempt : i \in StartsOf(n)})

TransitionsIn(s) == {i \in 1..Len(s) : s[i].t = "run_transition"}

\* The state `status` reads from the events file of a run that is not live.
ProjectRunState ==
  IF TransitionsIn(events) = {} THEN "CREATED"
  ELSE events[Max(TransitionsIn(events))].state
-----------------------------------------------------------------------------
Pending == Node \ outputs

\* Mutant: the inputs are not waited for.
ReadyWithoutInputs == Pending

Ready == {n \in Pending : Pred[n] \subseteq outputs}
InBatch == {batch[i] : i \in 1..Len(batch)}
Rejected == {n \in InBatch : nodePhase[n] = "rejected"}

\* Mutant: only success counts as settled.
BatchFulfilled == \A n \in InBatch : nodePhase[n] = "done"

BatchSettled == \A n \in InBatch : nodePhase[n] \in {"done", "rejected"}

\* b is the first ConcurrencyLimit ready nodes, in plan order.
IsNextBatch(b) ==
  /\ \A i, j \in 1..Len(b) : i < j => Position[b[i]] < Position[b[j]]
  /\ \A n \in Ready \ {b[i] : i \in 1..Len(b)} :
       Len(b) = ConcurrencyLimit /\ Position[b[Len(b)]] < Position[n]

\* A node whose output an earlier process recorded starts without a stage.
StageOf(n) == IF completed[n] = 0 THEN Stage[n] ELSE NoStage

\* The handle's state once b[1] .. b[k] have begun: each runs synchronously up
\* to its first await, so it sees the transition an earlier one made.
StateAfter(b, k) ==
  LET staged == {j \in 1..k : StageOf(b[j]) # NoStage}
  IN  IF staged = {} THEN liveState ELSE StageOf(b[Max(staged)])

RecordsStage(b, i) == StageOf(b[i]) \notin {NoStage, StateAfter(b, i - 1)}

\* The first append of b[i]: its stage's transition, or its dispatch.
FirstAppend(b, i) ==
  Waiting(IF RecordsStage(b, i) THEN Transition(StageOf(b[i]))
          ELSE Dispatched(b[i]), b[i])
-----------------------------------------------------------------------------
Init ==
  /\ defined = FALSE
  /\ journal = <<>> /\ journalSynced = 0
  /\ events = <<>> /\ eventsSynced = 0
  /\ artifacts = {}
  /\ phase = "down" /\ liveState = "CREATED" /\ cancelled = FALSE
  /\ outputs = {} /\ batch = <<>>
  /\ nodePhase = [n \in Node |-> "idle"]
  /\ nodeError = [n \in Node |-> "FAILED"]
  /\ completed = [n \in Node |-> 0]
  /\ attempts = [n \in Node |-> 0]
  /\ eventQueue = <<>>
  /\ restarts = 0 /\ faults = 0 /\ lost = {}

memory == <<phase, liveState, cancelled, outputs, batch, nodePhase,
            nodeError, completed, attempts, eventQueue>>

\* A process with no handle on the run: what a new handle starts from.
Forget ==
  /\ liveState' = "CREATED" /\ cancelled' = FALSE
  /\ outputs' = {} /\ batch' = <<>>
  /\ nodePhase' = [n \in Node |-> "idle"]
  /\ nodeError' = [n \in Node |-> "FAILED"]
  /\ completed' = [n \in Node |-> 0]
  /\ attempts' = [n \in Node |-> 0]
  /\ eventQueue' = <<>>

(* start: the definition is saved before the records are read.             *)
Start ==
  /\ phase = "down" /\ ~defined /\ events = <<>>
  /\ phase' = "saving"
  /\ Forget
  /\ UNCHANGED <<disk, bounds>>

SaveDefinition ==
  /\ phase = "saving"
  /\ defined' = TRUE
  /\ phase' = "loading"
  /\ UNCHANGED <<journal, journalSynced, events, eventsSynced, artifacts,
                 liveState, cancelled, outputs, batch, nodePhase, nodeError,
                 completed, attempts, eventQueue, bounds>>

(* resume, as the orchestrator allows it: the run has recorded a           *)
(* transition, is not live, and is not COMPLETED.                          *)
Resume ==
  /\ phase \in {"down", "settled"} /\ defined
  /\ TransitionsIn(events) # {} /\ ProjectRunState # "COMPLETED"
  /\ restarts < MaxRestarts
  /\ restarts' = restarts + 1
  /\ phase' = "loading"
  /\ Forget
  /\ UNCHANGED <<disk, faults, lost>>

\* Replay the journal, then record CREATED.
Load ==
  /\ phase = "loading"
  /\ completed' = [n \in Node |-> ProjectCompleted(n)]
  /\ attempts' = [n \in Node |-> ProjectAttempts(n)]
  /\ liveState' = "CREATED"
  /\ eventQueue' = <<Waiting(Transition("CREATED"), Run)>>
  /\ phase' = "creating"
  /\ UNCHANGED <<disk, cancelled, outputs, batch, nodePhase, nodeError, bounds>>

-----------------------------------------------------------------------------
(* The transition that ends the run, and the catch block that chooses it.  *)

Conclude(state, next) ==
  /\ liveState' = state
  /\ eventQueue' = Append(eventQueue, Waiting(Transition(state), Run))
  /\ phase' = next

Catch(error) ==
  Conclude(IF cancelled THEN "CANCELLED" ELSE error, "failing")

\* A write or read that fails; what the caller gets is an ordinary Error.
Fault == faults < MaxFaults /\ faults' = faults + 1

InitialiseFails ==
  /\ phase \in {"saving", "loading"}
  /\ Fault
  /\ Catch("FAILED")
  /\ UNCHANGED <<disk, cancelled, outputs, batch, nodePhase, nodeError,
                 completed, attempts, restarts, lost>>

(* The head of the event queue is the run's own append: CREATED, or the    *)
(* transition that ends the run.  Both are expensive, hence synced.        *)
RunEventAtHead ==
  /\ eventQueue # <<>> /\ Head(eventQueue).sender = Run
  /\ phase \in {"creating", "finishing", "failing"}

WriteRunEvent ==
  /\ RunEventAtHead
  /\ events' = Append(events, Head(eventQueue).event)
  /\ eventsSynced' = Len(events) + 1
  /\ eventQueue' = Tail(eventQueue)
  /\ phase' = IF phase = "creating" THEN "executing" ELSE "settled"
  /\ UNCHANGED <<defined, journal, journalSynced, artifacts, liveState,
                 cancelled, outputs, batch, nodePhase, nodeError, completed,
                 attempts, bounds>>

\* The append is cut back.  Inside the try block the catch block records
\* another end; in the catch block itself the handle's result rejects.
RunEventFails ==
  /\ RunEventAtHead
  /\ Fault
  /\ IF phase = "failing"
     THEN phase' = "settled" /\ eventQueue' = Tail(eventQueue)
          /\ UNCHANGED liveState
     ELSE LET state == IF cancelled THEN "CANCELLED" ELSE "FAILED"
          IN  /\ phase' = "failing"
              /\ liveState' = state
              /\ eventQueue' = Append(Tail(eventQueue),
                                      Waiting(Transition(state), Run))
  /\ UNCHANGED <<disk, cancelled, outputs, batch, nodePhase, nodeError,
                 completed, attempts, restarts, lost>>
-----------------------------------------------------------------------------
(* #execute: the scheduling loop.                                          *)

StartBatch ==
  /\ phase = "executing" /\ BatchSettled /\ Rejected = {}
  /\ Pending # {} /\ ~cancelled
  /\ \E k \in 1..ConcurrencyLimit : \E b \in [1..k -> Ready] :
       /\ IsNextBatch(b)
       /\ batch' = b
       /\ nodePhase' = [n \in Node |->
            IF \E i \in 1..k : b[i] = n /\ RecordsStage(b, i) THEN "staging"
            ELSE IF \E i \in 1..k : b[i] = n THEN "dispatching"
            ELSE nodePhase[n]]
       /\ liveState' = StateAfter(b, k)
       /\ eventQueue' = eventQueue \o [i \in 1..k |-> FirstAppend(b, i)]
  /\ UNCHANGED <<disk, phase, cancelled, outputs, nodeError, completed,
                 attempts, bounds>>

\* Every node has settled and the loop is left: by a failure, by a
\* cancellation (which outranks one), or because nothing is pending.
FirstRejected ==
  CHOOSE n \in Rejected : \A m \in Rejected : Position[n] <= Position[m]

EndLoop ==
  /\ phase = "executing" /\ BatchSettled
  /\ \/ cancelled /\ Conclude("CANCELLED", "finishing")
     \/ ~cancelled /\ Rejected # {}
          /\ Conclude(nodeError[FirstRejected], "failing")
     \/ ~cancelled /\ Rejected = {} /\ Pending = {}
          /\ Conclude("COMPLETED", "finishing")
  /\ UNCHANGED <<disk, cancelled, outputs, batch, nodePhase, nodeError,
                 completed, attempts, bounds>>
-----------------------------------------------------------------------------
(* One node of the batch.                                                  *)

NodeEventAtHead(n, at) ==
  /\ eventQueue # <<>> /\ Head(eventQueue).sender = n
  /\ nodePhase[n] = at

Goto(n, at) == nodePhase' = [nodePhase EXCEPT ![n] = at]

Reject(n, at, error) ==
  /\ Goto(n, at)
  /\ nodeError' = [nodeError EXCEPT ![n] = error]

\* A node's events are cheap: written, not synced.
WriteNodeEvent(n) ==
  /\ events' = Append(events, Head(eventQueue).event)
  /\ UNCHANGED <<defined, journal, journalSynced, eventsSynced, artifacts,
                 phase, liveState, cancelled, outputs, batch, nodeError,
                 completed, attempts, bounds>>

WriteStage(n) ==
  /\ NodeEventAtHead(n, "staging")
  /\ WriteNodeEvent(n)
  /\ eventQueue' = Append(Tail(eventQueue), Waiting(Dispatched(n), n))
  /\ Goto(n, "dispatching")

WriteDispatched(n) ==
  /\ NodeEventAtHead(n, "dispatching")
  /\ WriteNodeEvent(n)
  /\ eventQueue' = Tail(eventQueue)
  /\ Goto(n, "lookup")

WriteCompleted(n) ==
  /\ NodeEventAtHead(n, "completing")
  /\ WriteNodeEvent(n)
  /\ eventQueue' = Tail(eventQueue)
  /\ Goto(n, "done")

NodeEventFails(n) ==
  /\ \E at \in {"staging", "dispatching", "completing"} : NodeEventAtHead(n, at)
  /\ Fault
  /\ eventQueue' = Tail(eventQueue)
  /\ Reject(n, "rejected", "FAILED")
  /\ UNCHANGED <<disk, phase, liveState, cancelled, outputs, batch, completed,
                 attempts, restarts, lost>>

-----------------------------------------------------------------------------
(* ActivityRuntime.activity, for the node's activity.                      *)

\* The node has its output: it is recorded, and its event queued.
Deliver(n) ==
  /\ outputs' = outputs \union {n}
  /\ eventQueue' = Append(eventQueue, Waiting(Completed(n), n))
  /\ Goto(n, "completing")

Stored(n) == <<n, completed[n]>> \in artifacts

\* Mutant: a recorded output is not consulted.
MustAlwaysRun(n) == TRUE

\* Not completed, or its artifact is gone (ENOENT).
MustRun(n) == completed[n] = 0 \/ ~Stored(n)

\* A completed activity is answered from its artifact.
Replay(n) ==
  /\ nodePhase[n] = "lookup" /\ ~MustRun(n)
  /\ Deliver(n)
  /\ UNCHANGED <<disk, phase, liveState, cancelled, batch, nodeError,
                 completed, attempts, bounds>>

BeginAttempt(n) ==
  /\ nodePhase[n] = "lookup" /\ MustRun(n)
  /\ completed' = [completed EXCEPT ![n] = 0]
  /\ attempts' = [attempts EXCEPT ![n] = @ + 1]
  /\ Goto(n, "starting")
  /\ UNCHANGED <<disk, phase, liveState, cancelled, outputs, batch, nodeError,
                 eventQueue, bounds>>

\* Any other error reading the artifact rejects the node.
LookupFails(n) ==
  /\ nodePhase[n] = "lookup" /\ completed[n] # 0
  /\ Fault
  /\ Reject(n, "rejected", "FAILED")
  /\ UNCHANGED <<disk, phase, liveState, cancelled, outputs, batch, completed,
                 attempts, eventQueue, restarts, lost>>

WriteRecord(t, n) ==
  journal' = Append(journal, [t |-> t, id |-> n, attempt |-> attempts[n]])

StartAttempt(n) ==
  /\ nodePhase[n] = "starting"
  /\ WriteRecord("attempt_start", n)
  /\ Goto(n, "running")
  /\ UNCHANGED <<defined, journalSynced, events, eventsSynced, artifacts, phase,
                 liveState, cancelled, outputs, batch, nodeError, completed,
                 attempts, eventQueue, bounds>>

\* The append of attempt_start is outside the try block.
StartAttemptFails(n) ==
  /\ nodePhase[n] = "starting"
  /\ Fault
  /\ Reject(n, "rejected", "FAILED")
  /\ UNCHANGED <<disk, phase, liveState, cancelled, outputs, batch, completed,
                 attempts, eventQueue, restarts, lost>>

ExecutorReturns(n) ==
  /\ nodePhase[n] = "running"
  /\ Goto(n, "returned")
  /\ UNCHANGED <<disk, phase, liveState, cancelled, outputs, batch, nodeError,
                 completed, attempts, eventQueue, bounds>>

ExecutorThrows(n) ==
  /\ nodePhase[n] = "running"
  /\ \E error \in Thrown : Reject(n, "erring", error)
  /\ UNCHANGED <<disk, phase, liveState, cancelled, outputs, batch, completed,
                 attempts, eventQueue, bounds>>

PutArtifact(n) ==
  /\ nodePhase[n] = "returned"
  /\ artifacts' = artifacts \union {<<n, attempts[n]>>}
  /\ Goto(n, "stored")
  /\ UNCHANGED <<defined, journal, journalSynced, events, eventsSynced, phase,
                 liveState, cancelled, outputs, batch, nodeError, completed,
                 attempts, eventQueue, bounds>>

\* Mutant: the end record is appended as a cheap one.
SyncedByCheapEnd == journalSynced

\* The end record is expensive: its fsync covers every record before it.
SyncedByEnd == Len(journal) + 1

\* Mutant: the end record does not wait for the artifact.
MayEndEarly(n) == nodePhase[n] \in {"returned", "stored"}

MayEnd(n) == nodePhase[n] = "stored"

EndActivity(n) ==
  /\ MayEnd(n)
  /\ WriteRecord("end", n)
  /\ journalSynced' = SyncedByEnd
  /\ completed' = [completed EXCEPT ![n] = attempts[n]]
  /\ Deliver(n)
  /\ UNCHANGED <<defined, events, eventsSynced, artifacts, phase, liveState,
                 cancelled, batch, nodeError, attempts, bounds>>

\* Storing the artifact or appending its end record fails.
StoreFails(n) ==
  /\ nodePhase[n] \in {"returned", "stored"}
  /\ Fault
  /\ Reject(n, "erring", "FAILED")
  /\ UNCHANGED <<disk, phase, liveState, cancelled, outputs, batch, completed,
                 attempts, eventQueue, restarts, lost>>

AttemptError(n) ==
  /\ nodePhase[n] = "erring"
  /\ WriteRecord("attempt_error", n)
  /\ Goto(n, "rejected")
  /\ UNCHANGED <<defined, journalSynced, events, eventsSynced, artifacts, phase,
                 liveState, cancelled, outputs, batch, nodeError, completed,
                 attempts, eventQueue, bounds>>

\* The append's own error replaces the one being recorded.
AttemptErrorFails(n) ==
  /\ nodePhase[n] = "erring"
  /\ Fault
  /\ Reject(n, "rejected", "FAILED")
  /\ UNCHANGED <<disk, phase, liveState, cancelled, outputs, batch, completed,
                 attempts, eventQueue, restarts, lost>>
-----------------------------------------------------------------------------
(* The environment.                                                        *)

Cancel ==
  /\ phase \notin {"down", "settled"} /\ ~cancelled
  /\ cancelled' = TRUE
  /\ UNCHANGED <<disk, phase, liveState, outputs, batch, nodePhase, nodeError,
                 completed, attempts, eventQueue, bounds>>

\* loadJournal keeps the k whole records it finds.
Retained(k) == k

\* The process dies; a power loss also takes a suffix nobody synced.
Crash ==
  /\ phase # "down"
  /\ phase' = "down"
  /\ Forget
  /\ \E k \in journalSynced..Len(journal) : 
       journal' = SubSeq(journal, 1, Retained(k))
  /\ \E k \in eventsSynced..Len(events) : events' = SubSeq(events, 1, k)
  /\ UNCHANGED <<defined, journalSynced, eventsSynced, artifacts, bounds>>

LoseArtifact ==
  /\ Cardinality(lost) < MaxLosses
  /\ \E x \in artifacts : artifacts' = artifacts \ {x} /\ lost' = lost \union {x}
  /\ UNCHANGED <<defined, journal, journalSynced, events, eventsSynced,
                 memory, restarts, faults>>
-----------------------------------------------------------------------------
NodeStep(n) ==
  \/ WriteStage(n) \/ WriteDispatched(n) \/ WriteCompleted(n)
  \/ Replay(n) \/ BeginAttempt(n) \/ StartAttempt(n)
  \/ ExecutorReturns(n) \/ ExecutorThrows(n)
  \/ PutArtifact(n) \/ EndActivity(n) \/ AttemptError(n)

NodeFault(n) ==
  \/ NodeEventFails(n) \/ LookupFails(n) \/ StartAttemptFails(n)
  \/ StoreFails(n) \/ AttemptErrorFails(n)

RunStep == SaveDefinition \/ Load \/ WriteRunEvent \/ StartBatch \/ EndLoop

Next ==
  \/ Start \/ Resume \/ RunStep
  \/ \E n \in Node : NodeStep(n) \/ NodeFault(n)
  \/ InitialiseFails \/ RunEventFails
  \/ Cancel \/ Crash \/ LoseArtifact

Spec == Init /\ [][Next]_vars

\* The event loop runs whatever is ready, every file operation settles, and
\* every executor returns or throws (its model calls are under a time limit).
\* Nobody has to start, resume or cancel the run.
Fairness == WF_vars(RunStep) /\ \A n \in Node : WF_vars(NodeStep(n))

FairSpec == Spec /\ Fairness

-----------------------------------------------------------------------------
(* Properties.                                                             *)

\* Files, queue and process state are well typed, and no file is synced beyond its end.
TypeOK ==
  /\ defined \in BOOLEAN
  /\ journal \in Seq(Record) /\ journalSynced \in 0..Len(journal)
  /\ events \in Seq(RunEvent) /\ eventsSynced \in 0..Len(events)
  /\ artifacts \subseteq Node \X Nat /\ lost \subseteq Node \X Nat
  /\ phase \in RunPhase /\ liveState \in RunState /\ cancelled \in BOOLEAN
  /\ outputs \subseteq Node /\ batch \in Seq(Node)
  /\ nodePhase \in [Node -> NodePhase] /\ nodeError \in [Node -> Failures]
  /\ completed \in [Node -> Nat] /\ attempts \in [Node -> Nat]
  /\ eventQueue \in Seq(QueueEntry)
  /\ restarts \in Nat /\ faults \in Nat

\* A node's executor works only from inputs a crash cannot take back: while it
\* runs, and until its own end is recorded, every predecessor has a synced end
\* record (workflow-runner.ts #execute, activity.ts).
InputsDurable ==
  \A n \in Node : nodePhase[n] \in {"running", "returned", "stored"} =>
    Pred[n] \subseteq EndedIn(journalSynced)

\* An end record never names an artifact that was not stored before it, on any
\* prefix a power loss can leave (activity.ts: put, then append).
EndNamesStoredArtifact ==
  \A i \in 1..Len(journal) : journal[i].t = "end" =>
    <<journal[i].id, journal[i].attempt>> \in artifacts \union lost

\* docs/durability.md, "After end: nothing is re-paid".  An executor is called
\* for a node only if each end record of the node names an artifact that has
\* since been deleted.
PaidOnce ==
  [][\A n \in Node : nodePhase[n] = "starting" /\ nodePhase'[n] = "running" =>
       \A i \in 1..Len(journal) : journal[i].t = "end" /\ journal[i].id = n =>
         <<n, journal[i].attempt>> \in lost]_vars

\* A run whose events say COMPLETED, and which therefore can no longer be
\* resumed, has a synced end record for every node.
CompletedIsComplete ==
  (\E i \in 1..Len(events) : events[i] = Transition("COMPLETED")) =>
    EndedIn(journalSynced) = Node

\* Every process that takes up a run brings it to rest.
Settles == phase \notin {"down", "settled"} ~> phase \in {"down", "settled"}

\* The run implements the abstract durable run.
Durable == INSTANCE DurableRun WITH
  done <- EndedIn(journalSynced),
  completed <- \E i \in 1..eventsSynced : events[i] = Transition("COMPLETED")

ImplementsDurableRun == Durable!Spec

-----------------------------------------------------------------------------
(* The inductive invariant behind the theorems of WorkflowRunnerProofs:    *)
(* OrderInv for what is on file when, PaymentInv for what is paid again.    *)

\* Every end record is synced: no crash takes one back.
EndsSynced ==
  \A i \in 1..Len(journal) : journal[i].t = "end" => i <= journalSynced

\* An output in hand, or known to the activity runtime, is on file.
OutputsEnded ==
  /\ outputs \subseteq EndedIn(journalSynced)
  /\ \A n \in Node : completed[n] # 0 => n \in EndedIn(journalSynced)

\* A node that has begun had its inputs, and is in the batch until it is done.
BegunInOrder ==
  \A n \in Node : nodePhase[n] # "idle" =>
    /\ Pred[n] \subseteq outputs
    /\ n \in InBatch \/ nodePhase[n] = "done"
    /\ nodePhase[n] \in {"completing", "done"} => n \in outputs

\* Nodes are under way only while the scheduling loop runs.
IdleUnlessExecuting ==
  phase # "executing" => \A n \in Node : nodePhase[n] \in {"idle", "done", "rejected"}

\* COMPLETED is queued only with every output in hand.
CompletedQueued ==
  \A k \in 1..Len(eventQueue) :
    eventQueue[k].event = Transition("COMPLETED") => outputs = Node

OrderInv ==
  /\ TypeOK /\ EndsSynced /\ OutputsEnded /\ BegunInOrder
  /\ IdleUnlessExecuting /\ CompletedQueued /\ CompletedIsComplete

\* Attempts are numbered from one.
AttemptsNumbered ==
  /\ \A n \in Node :
       nodePhase[n] \in {"starting", "running", "returned", "stored"} => attempts[n] # 0
  /\ \A i \in 1..Len(journal) : journal[i].t = "end" => journal[i].attempt # 0

Gone(n, i) == <<n, journal[i].attempt>> \in lost

\* While an attempt is under way every recorded output of the node is gone, and
\* only the last output recorded of a node may still be there.
AttemptMeansGone ==
  /\ \A n \in Node :
       nodePhase[n] \in {"starting", "running", "returned", "stored"} =>
         \A i \in EndsOf(n) : Gone(n, i)
  /\ \A n \in Node : \A i, j \in EndsOf(n) : i < j => Gone(n, i)

StoredIsThere ==
  \A n \in Node : nodePhase[n] = "stored" =>
    <<n, attempts[n]>> \in artifacts \union lost

\* Until a node looks for its output, the runtime knows what the journal says.
NotYetLookedUp ==
  /\ phase \in {"down", "saving", "loading", "creating"} =>
       \A n \in Node : nodePhase[n] = "idle"
  /\ \A n \in Node :
       (phase \in {"creating", "executing"}
          /\ nodePhase[n] \in {"idle", "staging", "dispatching", "lookup"})
       => completed[n] = ProjectCompleted(n)

PaymentInv ==
  /\ AttemptsNumbered /\ AttemptMeansGone /\ StoredIsThere
  /\ NotYetLookedUp /\ EndNamesStoredArtifact

IInv == OrderInv /\ PaymentInv
=============================================================================
