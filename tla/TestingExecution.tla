-------------------------- MODULE TestingExecution --------------------------
(***************************************************************************)
(* The executor of a Testing run: batches of writers change an isolated    *)
(* worktree through a journal of intents, a sandboxed check judges every   *)
(* attempt, final checks judge the whole worktree, deterministic failures  *)
(* reopen tasks for a bounded number of rounds, and the verified bytes are *)
(* handed off before the worktree is deleted.                              *)
(*                                                                         *)
(* Every step is at most one durable save, and the process may stop after  *)
(* any of them; Stop also stands for a cancelled run and for an operation  *)
(* that threw, both of which leave what is on disk and are resumed by a    *)
(* new executor.  A fingerprint is modelled by the snapshot it stands for. *)
(* Left out: the sizes a write or the worktree may have, secrets that      *)
(* withhold a change set, and configuration changed between two starts,    *)
(* which every record refuses by its fingerprint.                          *)
(***************************************************************************)
EXTENDS TestingPlan, TLC

CONSTANTS
  Content,        \* what a file may hold
  Base,           \* the content every file has in the recorded snapshot
  Modes,          \* harness modes the run may be configured with
  Answers,        \* what each task's writer may ask for: updates and a limitation
  Results,        \* how each task's check may end
  MaxAttempts,    \* options.maximumAttempts
  MaxRounds,      \* options.maximumRepairRounds
  MaxRuns,        \* execution.maximumRuns
  Retries,        \* FINAL_INFRASTRUCTURE_RETRIES
  MaxStops,       \* bound: times the process stops
  Null

ASSUME ExecutionAssumption ==
  /\ Base \in Content /\ Modes \subseteq {"native", "canonical"}
  /\ \A t \in Task : /\ Results[t] \subseteq {"passed", "failed", "unavailable"}
                      /\ \A a \in Answers[t] : /\ a.updates \in UNION {[S -> Content] : S \in SUBSET Scope[t]}
                                              /\ a.limit \in {"none", "limited", "conflict"}
  /\ MaxAttempts \in 1..10 /\ MaxRounds \in 0..5 /\ {MaxRuns, Retries, MaxStops} \subseteq Nat
  /\ Null \notin [task: Task, file: File, renamed: BOOLEAN]

Baseline == [f \in File |-> Base]

VARIABLES
  mode,    \* config.harness.mode
  work,    \* disk: the workspace record (state, journal) and the worktree's files
  ledger,  \* disk: each task's attempts
  run,     \* disk: what each task's current writer has saved
  execs,   \* disk: the check executions
  live,    \* the executions whose container exists
  repair,  \* disk: the repair rounds and the terminal decision
  done,    \* disk: the planning gate, the published outcome, the completed handoff
  m,       \* memory: the executor's progress
  spent,   \* how often each task's native harness was launched
  stops

vars == <<mode, work, ledger, run, execs, live, repair, done, m, spent, stops>>

NoRun == [state |-> "none", base |-> Null, updates |-> <<>>, limit |-> "none"]
\* pc: where the executor is; batch: its batch; todo: the tasks its loop has yet
\* to visit; busy: the tasks whose writers run, each under its lease; native: the
\* tasks whose native process runs; writing: the write under way, for the
\* workspace serves one call at a time; handoff: whether createHandoff is calling.
Idle == [pc |-> "off", batch |-> 1, todo |-> {}, busy |-> {}, native |-> {},
         writing |-> Null, handoff |-> FALSE]

Init ==
  /\ mode \in Modes
  /\ work = [state |-> "none", journal |-> <<>>, tree |-> Null]
  /\ ledger = [t \in Task |-> <<>>] /\ run = [t \in Task |-> NoRun]
  /\ execs = <<>> /\ live = {} /\ repair = [rounds |-> <<>>, terminal |-> Null]
  /\ done = [gate |-> "none", outcome |-> "none", completion |-> Null]
  /\ m = Idle /\ spent = [t \in Task |-> 0] /\ stops = 0

Go(stage) == m' = [m EXCEPT !.pc = stage]

----------------------------------------------------------------------------
(* The workspace and its journal.                                           *)

\* reconcile replays the journal over the baseline.
Replayed(j) ==
  LET after[n \in 0..Len(j)] ==
        IF n = 0 THEN Baseline
        ELSE IF j[n].state = "completed" THEN [after[n - 1] EXCEPT ![j[n].op[3]] = j[n].after]
        ELSE after[n - 1]
  IN  after

\* A reserved last write is judged by the bytes it was to change.
Resolved(j, files) ==
  IF j = <<>> \/ j[Len(j)].state # "reserved" THEN j
  ELSE LET w == j[Len(j)] IN
       [j EXCEPT ![Len(j)].state = IF files[w.op[3]] = w.after THEN "completed"
                                   ELSE IF files[w.op[3]] = w.before THEN "interrupted"
                                   ELSE "unrecorded"]

Explains(j, files) ==
  LET r == Resolved(j, files) IN
  /\ \A n \in DOMAIN j : /\ Replayed(r)[n - 1][j[n].op[3]] = j[n].before
                         /\ j[n].state = "reserved" => n = Len(j)
  /\ Replayed(r)[Len(r)] = files

PrepareReserve ==
  /\ m.pc = "prepare" /\ work.state \in {"none", "reserved", "prepared"}
  /\ work' = [work EXCEPT !.state = "reserved", !.tree = Null] /\ Go("create")
  /\ UNCHANGED <<mode, ledger, run, execs, live, repair, done, spent, stops>>

\* create: ownership is saved before git makes the tree, and the record is ready last.
Create ==
  /\ m.pc = "create"
  /\ \/ work.state = "reserved" /\ work' = [work EXCEPT !.state = "prepared"] /\ UNCHANGED m
     \/ work.state = "prepared" /\ work.tree = Null
        /\ work' = [work EXCEPT !.tree = Baseline] /\ UNCHANGED m
     \/ work.state = "prepared" /\ work.tree # Null
        /\ work' = [work EXCEPT !.state = "ready"] /\ Go("pass")
  /\ UNCHANGED <<mode, ledger, run, execs, live, repair, done, spent, stops>>

\* A ready worktree is opened and its journal reconciled with its bytes; a
\* journal that does not explain them is an error that stops the execution.
Open ==
  /\ m.pc = "prepare" /\ work.state = "ready" /\ Explains(work.journal, work.tree)
  /\ work' = [work EXCEPT !.journal = Resolved(work.journal, work.tree)]
  /\ IF done.completion = Null THEN Go("pass")
     ELSE done.completion = work.tree /\ Go("close")
  /\ UNCHANGED <<mode, ledger, run, execs, live, repair, done, spent, stops>>

\* verificationInput: the files a task's completed writes changed.
Written(t) ==
  {work.journal[n].op[3] : n \in {k \in DOMAIN work.journal :
     LET w == work.journal[k] IN w.op[1] = t /\ w.state = "completed" /\ w.before # w.after}}

----------------------------------------------------------------------------
(* The attempt ledger.                                                      *)

Last(t) == ledger[t][Len(ledger[t])]
Completed(t) == ledger[t] # <<>> /\ Last(t).result = "passed" /\ Last(t).invalidated = Null
Running(t) == ledger[t] # <<>> /\ Last(t).state = "reserved"
Halted(t) == ledger[t] # <<>> /\ Last(t).halted
\* reserve returns null for a blocked or completed task.
Blocked(t) == ~Completed(t) /\ ~Running(t) /\ (Halted(t) \/ Len(ledger[t]) >= MaxAttempts)

ReserveAttempt ==
  \E t \in m.todo :
  /\ m.pc = "reserve" /\ t = Min(m.todo)
  /\ IF Running(t) \/ Completed(t) \/ Blocked(t) THEN UNCHANGED <<ledger, run>>
     ELSE /\ ledger' = [ledger EXCEPT ![t] = Append(@, [state |-> "reserved", result |-> "none",
                                                        halted |-> FALSE, invalidated |-> Null])]
          /\ run' = [run EXCEPT ![t] = NoRun]
  /\ m' = [m EXCEPT !.todo = @ \ {t},
                    !.busy = IF Completed(t) \/ Blocked(t) THEN @ ELSE @ \cup {t},
                    !.pc = IF m.todo = {t} THEN "write" ELSE "reserve"]
  /\ UNCHANGED <<mode, work, execs, live, repair, done, spent, stops>>

----------------------------------------------------------------------------
(* The writers of a batch run concurrently, each under its lease.           *)

Writing(t) == m.pc = "write" /\ t \in m.busy
Save(t, r) == run' = [run EXCEPT ![t] = r]

\* pinInput: the attempt's prompt is its first dispatch's snapshot.
Pin(t) ==
  /\ Writing(t) /\ run[t].state = "none" /\ m.writing = Null
  /\ Save(t, [run[t] EXCEPT !.state = "pinned", !.base = work.tree])
  /\ UNCHANGED <<mode, work, ledger, execs, live, repair, done, m, spent, stops>>

\* A native run is recorded before its process starts.
Dispatch(t) ==
  /\ Writing(t) /\ mode = "native" /\ run[t].state = "pinned"
  /\ Save(t, [run[t] EXCEPT !.state = "dispatched"])
  /\ m' = [m EXCEPT !.native = @ \cup {t}] /\ spent' = [spent EXCEPT ![t] = @ + 1]
  /\ UNCHANGED <<mode, work, ledger, execs, live, repair, done, stops>>

\* A run found dispatched by a later process admits nothing.
Interrupted(t) ==
  /\ Writing(t) /\ run[t].state = "dispatched" /\ t \notin m.native
  /\ Save(t, [run[t] EXCEPT !.state = "finished", !.limit = "limited"])
  /\ m' = [m EXCEPT !.busy = @ \ {t}]
  /\ UNCHANGED <<mode, work, ledger, execs, live, repair, done, spent, stops>>

Collected(t, answer) ==
  Save(t, [run[t] EXCEPT !.state = "collected", !.updates = answer.updates, !.limit = answer.limit])

\* A native run's changes are collected into its journal before any is admitted;
\* a run that failed or changed a file outside its lease admits nothing.
Collect(t) ==
  /\ Writing(t) /\ run[t].state = "dispatched" /\ t \in m.native
  /\ \/ /\ \E a \in Answers[t] : Collected(t, a)
        /\ m' = [m EXCEPT !.native = @ \ {t}]
     \/ /\ Save(t, [run[t] EXCEPT !.state = "finished", !.limit = "limited"])
        /\ m' = [m EXCEPT !.native = @ \ {t}, !.busy = @ \ {t}]
  /\ UNCHANGED <<mode, work, ledger, execs, live, repair, done, spent, stops>>

\* A canonical writer's turns are recorded answers: a resumed attempt replays them,
\* with the tool calls that were saved.  A refused call changes nothing, and a
\* writer at its tool-turn limit ends with a limitation.
Converse(t) ==
  /\ Writing(t) /\ mode = "canonical" /\ run[t].state = "pinned"
  /\ \E a \in Answers[t] : Collected(t, a)
  /\ UNCHANGED <<mode, work, ledger, execs, live, repair, done, m, spent, stops>>

Op(t, f) == <<t, Len(ledger[t]), f>>
\* An operation that was completed is reused, never repeated.
WrittenBy(t, f) == \E n \in DOMAIN work.journal :
                      work.journal[n].op = Op(t, f) /\ work.journal[n].state = "completed"

\* write saves its intent, renames the new bytes into place and saves the record.
Intend(t) ==
  /\ Writing(t) /\ run[t].state = "collected" /\ m.writing = Null
  /\ \E f \in DOMAIN run[t].updates :
       /\ ~WrittenBy(t, f) /\ work.tree[f] = run[t].base[f]
       /\ work' = [work EXCEPT !.journal = Append(@,
                     [op |-> Op(t, f), before |-> run[t].base[f], after |-> run[t].updates[f],
                      state |-> "reserved"])]
       /\ m' = [m EXCEPT !.writing = [task |-> t, file |-> f, renamed |-> FALSE]]
  /\ UNCHANGED <<mode, ledger, run, execs, live, repair, done, spent, stops>>

Rename ==
  /\ m.writing # Null /\ ~m.writing.renamed
  /\ work' = [work EXCEPT !.tree[m.writing.file] = run[m.writing.task].updates[m.writing.file]]
  /\ m' = [m EXCEPT !.writing.renamed = TRUE]
  /\ UNCHANGED <<mode, ledger, run, execs, live, repair, done, spent, stops>>

Commit ==
  /\ m.writing # Null /\ m.writing.renamed
  /\ work' = [work EXCEPT !.journal[Len(work.journal)].state = "completed"]
  /\ m' = [m EXCEPT !.writing = Null]
  /\ UNCHANGED <<mode, ledger, run, execs, live, repair, done, spent, stops>>

\* The writer returns its saved result.
Finish(t) ==
  /\ Writing(t) /\ m.writing = Null
  /\ \/ run[t].state = "finished"
     \/ run[t].state = "collected" /\ \A f \in DOMAIN run[t].updates : WrittenBy(t, f)
  /\ Save(t, [run[t] EXCEPT !.state = "finished"])
  /\ m' = [m EXCEPT !.busy = @ \ {t}]
  /\ UNCHANGED <<mode, work, ledger, execs, live, repair, done, spent, stops>>

\* Once every writer has settled the leases are released and checks begin.
Settled ==
  /\ m.pc = "write" /\ m.busy = {}
  /\ m' = [m EXCEPT !.pc = "verify", !.todo = {t \in Schedule[m.batch] : Running(t)}]
  /\ UNCHANGED <<mode, work, ledger, run, execs, live, repair, done, spent, stops>>

----------------------------------------------------------------------------
(* Checks in the sandbox.                                                   *)

AttemptId(t) == <<"attempt", Len(ledger[t])>>
Final(retry) == <<"final", retry>>
\* The execution of a task's check for one invocation on the present bytes.
Check(t, at) == <<t, at, work.tree>>
Budget == Cardinality(DOMAIN execs) < MaxRuns

\* A record found unfinished is not tried again: it is incomplete for good.
Observed(t, at) ==
  LET c == Check(t, at) IN
  IF c \in DOMAIN execs THEN execs[c].state \in {"completed", "interrupted"}
  ELSE Written(t) = {} \/ ~Budget

Verdict(t, at, limit) ==
  LET c == Check(t, at) IN
  IF Written(t) = {} \/ limit # "none" \/ c \notin DOMAIN execs THEN "incomplete"
  ELSE IF execs[c].state = "completed" /\ execs[c].result # "unavailable" THEN execs[c].result
  ELSE "incomplete"

\* validateEvidence: a verdict other than incomplete rests on a completed execution.
Evidence(t, at, snapshot, verdict) ==
  verdict # "incomplete" =>
    LET c == <<t, at, snapshot>> IN
    c \in DOMAIN execs /\ execs[c] = [state |-> "completed", result |-> verdict]

\* The retry at which a final check stands: infrastructure failures are retried.
FinalRetry(t) ==
  LET again(r) == Check(t, Final(r)) \in DOMAIN execs /\ Written(t) # {}
                  /\ Observed(t, Final(r)) /\ Verdict(t, Final(r), "none") = "incomplete"
  IN  Min({r \in 0..Retries : r = Retries \/ ~again(r)})
FinalVerdict(t) == Verdict(t, Final(FinalRetry(t)), "none")

\* The invocation the executor is waiting for.
Current(t) == IF m.pc = "verify" THEN AttemptId(t) ELSE Final(FinalRetry(t))
Checking(t) == m.pc \in {"verify", "final"} /\ m.todo # {} /\ t = Min(m.todo)

ReserveCheck(t) ==
  /\ Checking(t) /\ Written(t) # {} /\ Budget
  /\ LET c == Check(t, Current(t)) IN
     /\ c \notin DOMAIN execs
     /\ execs' = [d \in DOMAIN execs \cup {c} |->
                    IF d = c THEN [state |-> "reserved", result |-> "none"] ELSE execs[d]]
  /\ UNCHANGED <<mode, work, ledger, run, live, repair, done, m, spent, stops>>

\* prepared: the container is named in the record before it may exist.
PrepareCheck(t) ==
  LET c == Check(t, Current(t)) IN
  /\ Checking(t) /\ c \in DOMAIN execs /\ execs[c].state = "reserved"
  /\ execs' = [execs EXCEPT ![c].state = "prepared"]
  /\ UNCHANGED <<mode, work, ledger, run, live, repair, done, m, spent, stops>>

RunCheck(t) ==
  LET c == Check(t, Current(t)) IN
  /\ Checking(t) /\ c \in DOMAIN execs /\ execs[c].state = "prepared"
  /\ \/ c \notin live /\ live' = live \cup {c} /\ UNCHANGED execs
     \/ /\ c \in live /\ live' = live \ {c}
        /\ \E r \in Results[t] :
             execs' = [execs EXCEPT ![c] = [state |-> "completed", result |-> r]]
  /\ UNCHANGED <<mode, work, ledger, run, repair, done, m, spent, stops>>

\* Unfinished executions are cleaned up before anything is dispatched.
Unfinished == {c \in DOMAIN execs : execs[c].state \in {"reserved", "prepared"}}

RecoverCheck ==
  /\ m.pc \in {"recover", "cleanup"}
  /\ \E c \in Unfinished : /\ execs' = [execs EXCEPT ![c].state = "interrupted"]
                           /\ live' = live \ {c}
  /\ UNCHANGED <<mode, work, ledger, run, repair, done, m, spent, stops>>

\* Mutant of Record: the attempt keeps its reservation.
RecordUnsaved(t) ==
  /\ m.pc = "verify" /\ Checking(t) /\ Observed(t, AttemptId(t))
  /\ m' = [m EXCEPT !.todo = @ \ {t}, !.pc = IF m.todo = {t} THEN "batch" ELSE "verify"]
  /\ UNCHANGED <<mode, work, ledger, run, execs, live, repair, done, spent, stops>>

\* recordVerification: the observation becomes the attempt's result.
Record(t) ==
  /\ m.pc = "verify" /\ Checking(t) /\ Observed(t, AttemptId(t))
  /\ LET v == Verdict(t, AttemptId(t), run[t].limit) IN
     /\ Evidence(t, AttemptId(t), work.tree, v)
     /\ ledger' = [ledger EXCEPT ![t][Len(ledger[t])] =
                     [@ EXCEPT !.state = "verified", !.result = v,
                               !.halted = run[t].limit = "conflict"]]
  /\ m' = [m EXCEPT !.todo = @ \ {t}, !.pc = IF m.todo = {t} THEN "batch" ELSE "verify"]
  /\ UNCHANGED <<mode, work, run, execs, live, repair, done, spent, stops>>

----------------------------------------------------------------------------
(* The executor.                                                            *)

\* TestingPipeline.run: the analysis selects gaps; a limitation, a contradiction
\* in the documentation, a missing command or a blocking question fails the gate,
\* and the plan is published before the gate that names it.
Plan ==
  /\ m.pc = "off" /\ done.gate = "none"
  /\ \E gate \in {"passed", "no_selected_gaps", "planning_failed"} : done' = [done EXCEPT !.gate = gate]
  /\ UNCHANGED <<mode, work, ledger, run, execs, live, repair, m, spent, stops>>

\* TestingPipeline.execute: a gate that did not pass is skipped, a completed
\* handoff is only cleaned up after, and everything else starts over.
Begin ==
  /\ m.pc = "off" /\ done.gate # "none"
  /\ IF done.gate # "passed" THEN Go("skipped")
     ELSE IF done.completion = Null THEN Go("recover") ELSE Go("cleanup")
  /\ UNCHANGED <<mode, work, ledger, run, execs, live, repair, done, spent, stops>>

Recovered ==
  /\ m.pc = "recover" /\ Unfinished = {} /\ Go("prepare")
  /\ UNCHANGED <<mode, work, ledger, run, execs, live, repair, done, spent, stops>>

Round == repair.rounds[Len(repair.rounds)]
Reopening == repair.rounds # <<>> /\ Round.state = "reopening"
\* The tasks whose ledger the committed reopen has yet to invalidate.
ToReopen == {t \in Task : Round.reopened[t] # 0 /\ Completed(t)}

\* completeReopening: one ledger at a time, then the round is marked.
CompleteReopening ==
  /\ m.pc = "pass" /\ Reopening
  /\ IF ToReopen = {}
     THEN /\ repair' = [repair EXCEPT !.rounds[Len(repair.rounds)].state = "reopened"]
          /\ UNCHANGED ledger
     ELSE LET t == NextReopened(Round.reopened, ToReopen) IN
          /\ \E r \in 0..Retries : Evidence(Round.reopened[t], Final(r), Round.snapshot, "failed")
          /\ ledger' = [ledger EXCEPT ![t][Len(ledger[t])].invalidated =
                          <<Round.reopened[t], Round.snapshot>>]
          /\ UNCHANGED repair
  /\ UNCHANGED <<mode, work, run, execs, live, done, m, spent, stops>>

StartPass ==
  /\ m.pc = "pass" /\ ~Reopening
  /\ m' = [m EXCEPT !.pc = "batch", !.batch = 1]
  /\ UNCHANGED <<mode, work, ledger, run, execs, live, repair, done, spent, stops>>

Publish(result) == done' = [done EXCEPT !.outcome = result]

\* The loop of runTestingBatch, and of the batches.
NextBatch ==
  /\ m.pc = "batch"
  /\ LET tasks == Schedule[m.batch] IN
     \/ \E t \in tasks : Blocked(t) /\ Publish("failed") /\ Go("failed")
     \/ /\ \A t \in tasks : Completed(t)
        /\ m' = IF m.batch < Len(Schedule) THEN [m EXCEPT !.batch = @ + 1]
                ELSE [m EXCEPT !.pc = "final", !.todo = Task]
        /\ UNCHANGED done
     \/ /\ \E t \in tasks : ~Completed(t)
        /\ \A t \in tasks : ~Blocked(t)
        /\ m' = [m EXCEPT !.pc = "reserve", !.todo = tasks] /\ UNCHANGED done
  /\ UNCHANGED <<mode, work, ledger, run, execs, live, repair, spent, stops>>

\* Final checks judge every task on the whole worktree.
FinalCheck(t) ==
  /\ m.pc = "final" /\ Checking(t) /\ Observed(t, Final(FinalRetry(t)))
  /\ m' = [m EXCEPT !.todo = @ \ {t}, !.pc = IF m.todo = {t} THEN "decide" ELSE "final"]
  /\ UNCHANGED <<mode, work, ledger, run, execs, live, repair, done, spent, stops>>

Failed == {t \in Task : FinalVerdict(t) = "failed"}
Repairable == Failed # {} /\ \A t \in Task : FinalVerdict(t) # "incomplete"

\* reopen: why no further round is given for these bytes.
Exhausted(reopened) ==
  \/ \E n \in DOMAIN repair.rounds : repair.rounds[n].snapshot = work.tree
  \/ Len(repair.rounds) >= MaxRounds
  \/ \E t \in Task : reopened[t] # 0 /\ Len(ledger[t]) >= MaxAttempts

\* The terminal decision, or the reopen intent, is saved before any ledger changes.
Reopen ==
  /\ m.pc = "decide" /\ Repairable /\ repair.terminal = Null
  /\ LET reopened == Reopened(Failed, [t \in Task |-> Written(t)]) IN
     IF Exhausted(reopened) THEN repair' = [repair EXCEPT !.terminal = work.tree] /\ UNCHANGED m
     ELSE /\ repair' = [repair EXCEPT !.rounds = Append(@,
                          [snapshot |-> work.tree, reopened |-> reopened, state |-> "reopening"])]
          /\ Go("pass")
  /\ UNCHANGED <<mode, work, ledger, run, execs, live, done, spent, stops>>

\* A terminal decision about other bytes would be an error.
Fail ==
  /\ m.pc = "decide"
  /\ \/ \E t \in Task : FinalVerdict(t) = "incomplete"
     \/ Repairable /\ repair.terminal = work.tree
  /\ Publish("failed") /\ Go("failed")
  /\ UNCHANGED <<mode, work, ledger, run, execs, live, repair, spent, stops>>

\* Mutant of Pass: an incomplete final check does not withhold the handoff.
PassUnlessFailed ==
  /\ m.pc = "decide" /\ Failed = {} /\ Publish("passed")
  /\ m' = IF m.handoff THEN [m EXCEPT !.pc = "handoff"] ELSE [m EXCEPT !.pc = "recover", !.handoff = TRUE]
  /\ UNCHANGED <<mode, work, ledger, run, execs, live, repair, spent, stops>>

\* A passed execution is finalized, and createHandoff executes once more.
Pass ==
  /\ m.pc = "decide" /\ \A t \in Task : FinalVerdict(t) = "passed"
  /\ Publish("passed")
  /\ m' = IF m.handoff THEN [m EXCEPT !.pc = "handoff"] ELSE [m EXCEPT !.pc = "recover", !.handoff = TRUE]
  /\ UNCHANGED <<mode, work, ledger, run, execs, live, repair, spent, stops>>

\* testingChangeSet refuses a worktree that equals the baseline; the change set
\* is published and read back, and then the completion that names it.
HandOff ==
  /\ m.pc = "handoff"
  /\ IF work.tree = Baseline THEN Go("failed") /\ UNCHANGED done
     ELSE done' = [done EXCEPT !.completion = work.tree] /\ Go("cleanup")
  /\ UNCHANGED <<mode, work, ledger, run, execs, live, repair, spent, stops>>

\* finalize: a closed workspace only has its deletion finished.
CleanUp ==
  /\ m.pc = "cleanup" /\ Unfinished = {}
  /\ IF work.state = "closed" THEN Go("delete") ELSE Go("prepare")
  /\ UNCHANGED <<mode, work, ledger, run, execs, live, repair, done, spent, stops>>

Close ==
  /\ m.pc = "close" /\ work' = [work EXCEPT !.state = "closed"] /\ Go("delete")
  /\ UNCHANGED <<mode, ledger, run, execs, live, repair, done, spent, stops>>

Delete ==
  /\ m.pc = "delete" /\ work' = [work EXCEPT !.tree = Null] /\ Go("done")
  /\ UNCHANGED <<mode, ledger, run, execs, live, repair, done, spent, stops>>

Stop ==
  /\ m.pc \notin {"off", "done", "failed", "skipped"} /\ stops < MaxStops
  /\ stops' = stops + 1 /\ m' = Idle
  /\ UNCHANGED <<mode, work, ledger, run, execs, live, repair, done, spent>>

Writer(t) == Pin(t) \/ Dispatch(t) \/ Interrupted(t) \/ Collect(t) \/ Converse(t) \/ Intend(t) \/ Finish(t)
Checks(t) == ReserveCheck(t) \/ PrepareCheck(t) \/ RunCheck(t) \/ Record(t) \/ FinalCheck(t)
Executor == \/ Plan \/ Begin \/ Recovered \/ RecoverCheck \/ PrepareReserve \/ Create \/ Open
            \/ CompleteReopening \/ StartPass \/ NextBatch \/ ReserveAttempt \/ Settled
            \/ Rename \/ Commit \/ Reopen \/ Fail \/ Pass \/ HandOff \/ CleanUp \/ Close \/ Delete
            \/ \E t \in Task : Writer(t) \/ Checks(t)

Over == m.pc \in {"done", "failed", "skipped"} /\ UNCHANGED vars

Next == Executor \/ Stop \/ Over

\* Awaited calls return, so an executor that can go on does; nothing makes it stop.
Spec == Init /\ [][Next]_vars /\ WF_vars(Executor)

----------------------------------------------------------------------------
(* Properties.                                                              *)

\* finalize: what is handed off passed every task's final check on exactly those
\* bytes, and the worktree holds them until it is deleted, whatever stops and
\* repair rounds came before.
VerifiedHandoff ==
  done.completion # Null =>
    /\ \A t \in Task : \E r \in 0..Retries :
         LET c == <<t, Final(r), done.completion>> IN
         c \in DOMAIN execs /\ execs[c] = [state |-> "completed", result |-> "passed"]
    /\ work.tree = done.completion \/ (work.tree = Null /\ work.state = "closed")

\* reconcile: in every state a stop can leave behind, the journal explains every
\* byte of the worktree, so a resumed execution never finds an unrecorded change.
JournalExplainsTree ==
  work.state = "ready" => Explains(work.journal, work.tree)

\* runTestingBatch: while a writer runs, no other writer holds an overlapping
\* lease, no check judges the files it changes and no container of an earlier
\* process is left; an execution that ended left no container at all.
WritersAlone ==
  /\ \A t, u \in m.busy : t # u => Scope[t] \cap Scope[u] = {} /\ ~DeclaredConflict(t, u)
  /\ m.busy # {} => live = {} /\ Unfinished = {}
  /\ m.pc \in {"done", "failed"} => live = {}

\* reopen: a task is reopened only by a final check that failed on the bytes the
\* round names, rounds never come back to the same bytes, and a task whose passed
\* attempt was invalidated is given another one or the execution fails.
ReopenedByFailure ==
  /\ \A t \in Task, n \in 1..MaxAttempts :
       n <= Len(ledger[t]) /\ ledger[t][n].invalidated # Null =>
         LET e == ledger[t][n].invalidated IN
         \E r \in 0..Retries : LET c == <<e[1], Final(r), e[2]>> IN
            c \in DOMAIN execs /\ execs[c].result = "failed"
  /\ \A i, j \in DOMAIN repair.rounds :
       repair.rounds[i].snapshot = repair.rounds[j].snapshot => i = j

\* nativeTestingWriter: an attempt's native process is launched at most once, so a
\* stop during a run never pays for it again.
LaunchedOnce == \A t \in Task : spent[t] <= Len(ledger[t])

\* An execution that is no longer stopped ends, and a handed-off worktree is deleted.
ExecutionSettles ==
  /\ <>[](m.pc \in {"done", "failed", "skipped"})
  /\ (done.completion # Null) ~> (work.tree = Null)

\* What a stop leaves behind is enough to go on from: the journal explains the
\* worktree, and no native process is launched for an attempt twice.
StopsAreSafe == JournalExplainsTree /\ LaunchedOnce

\* Evidence means what it says: the handoff rests on passes on its very bytes, and
\* reopened work on failures on the bytes the round names; no writer or check ran
\* beside another on the same files; and a stop leaves what a resume needs.
EvidenceHolds == VerifiedHandoff /\ ReopenedByFailure /\ WritersAlone /\ StopsAreSafe
=============================================================================
