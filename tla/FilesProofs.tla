----------------------------- MODULE FilesProofs -----------------------------
(***************************************************************************)
(* The files that run durable_files checks one at a time are instances of  *)
(* components with a theorem of their own: what the run checks of the      *)
(* event log, the journal, the budget, a model activity, the corpus, the   *)
(* checkpoints, the turns of a CLI and its processes follows from the      *)
(* components' invariants.                                                 *)
(***************************************************************************)
EXTENDS MCDurableFiles, TLAPS

\* What an entry of the corpus rests on, in the run.
Rests == ("truth" :> {}) @@ ("run" :> {"truth"}) @@ ("observation" :> {"run"})

\* The logs alone: no caller acts on a run.
RP == INSTANCE RunStoreProofs WITH
  Event <- {e1, e2, e3}, Expensive <- {e1, e2}, Record <- {end1, end2, start3}, Synced <- {end1, end2},
  FaultsOverlap <- FALSE, MaxConcurrent <- 3, Requires <- Rests, StoredKeys <- {"truth"}, MaxBatches <- 3,
  MaxIOErrors <- 3, MaxPutErrors <- 2, MaxStops <- 2,
  Operator <- {}, WakeUp <- Null, MaxHandles <- 0, MaxCrashes <- 0, MaxLimit <- 0,
  recorded <- Null, live <- Null, resuming <- Null, armed <- Null, handle <- Null, final <- Null, cancelled <- Null,
  waking <- Null, wanted <- Null, awaited <- Null
\* The budget alone: no call is made.
BP == INSTANCE ProviderInvocationProofs WITH
  Activity <- {a1, a2}, Estimate <- {1, 2}, MaxUsage <- 2, Limit <- {2, 3},
  MaxReservations <- 3, MaxFaults <- 1, MaxCrashes <- 1,
  EstimatedTokens <- 1, Consumption <- {0}, MaximumRetries <- 0, MaximumResends <- 0, SplitsOnTimeout <- {},
  MaxConcurrent <- 1, MaxInvokes <- 0, MaxSuspends <- 0,
  attempt <- Null, resent <- Null, mine <- Null, current <- Null, lease <- Null, err <- Null, slept <- Null,
  aborted <- Null, invokes <- Null, running <- Null, paid <- Null, settled <- Null, suspends <- Null
SP == INSTANCE CallProofs WITH
  Request <- {r1, r2}, Caller <- {c1, c2}, Limit <- {1, 2}, MaxSends <- 2, MaxAttempts <- 3,
  MaxFaults <- 1, MaxCrashes <- 1, Named <- {1}, Version <- {1, 2}, MaxRuns <- 3, MaxResponses <- 2,
  Loops <- {a1, a2}, Dialects <- {"claude", "codex", "gemini", "antigravity"}, Requests <- {"t1", "t2"},
  MaxTurns <- 2, MaxUpgrades <- 1, MaxTrouble <- 1, Platforms <- {"linux", "darwin", "win32"}, Pids <- 1..4, Looks <- 4

----------------------------------------------------------------------------
(* The steps of each file are those of the component it is an instance of. *)

LEMMA JournalSteps ==
  which = "journal" => (Init => RP!J!Init) /\ (Next => RP!J!Next)
BY DEF Init, Next, J!Init, J!Next, RP!J!Init, RP!J!Next, J!Load, RP!J!Load, J!Open, RP!J!Open, J!Write, RP!J!Write,
  J!Sync, RP!J!Sync, J!Cut, RP!J!Cut, J!Crash, RP!J!Crash, J!UnderWay, RP!J!UnderWay, J!Fault, RP!J!Fault,
  J!Overlaps, RP!J!Overlaps, J!FaultOf, RP!J!FaultOf, J!Goto, RP!J!Goto, J!Truncated, RP!J!Truncated,
  J!TruncateTo, RP!J!TruncateTo, J!Chunk, RP!J!Chunk, J!WholeChunk, RP!J!WholeChunk, J!TornChunk, RP!J!TornChunk,
  J!RetainedLength, RP!J!RetainedLength, J!CutTo, RP!J!CutTo, J!Records, RP!J!Records, J!Parses, RP!J!Parses,
  J!AfterPowerLoss, RP!J!AfterPowerLoss, J!Cardinality, RP!J!Cardinality

LEMMA EventSteps ==
  which = "events" => (Init => RP!E!Init) /\ (Next => RP!E!Next)
BY DEF Init, Next, E!Init, E!Next, RP!E!Init, RP!E!Next, E!AppendEvent, RP!E!AppendEvent, E!Undo, RP!E!Undo,
  E!MakeReady, RP!E!MakeReady, E!Open, RP!E!Open, E!Write, RP!E!Write, E!Sync, RP!E!Sync, E!Cut, RP!E!Cut, E!Crash,
    RP!E!Crash,
  E!Fault, RP!E!Fault, E!Settle, RP!E!Settle, E!Continue, RP!E!Continue, E!TruncateTo, RP!E!TruncateTo,
  E!Chunk, RP!E!Chunk, E!WholeChunk, RP!E!WholeChunk, E!TornChunk, RP!E!TornChunk, E!RetainedLength,
    RP!E!RetainedLength,
  E!CutTo, RP!E!CutTo, E!Records, RP!E!Records, E!AfterPowerLoss, RP!E!AfterPowerLoss

LEMMA BudgetSteps ==
  which = "budget" => (Init => BP!Init) /\ (Next => BP!Next)
BY DEF Init, Next, B!Init, B!Next, BP!Init, BP!Next, B!Id, BP!Id, B!Usage, BP!Usage, B!Reserve, BP!Reserve,
  B!RecordActual, BP!RecordActual, B!Release, BP!Release, B!Restart, BP!Restart, B!MaxOf, BP!MaxOf,
  B!Charge, BP!Charge, B!Total, BP!Total, B!Charged, BP!Charged, B!Load, BP!Load, B!Admits, BP!Admits,
  B!Commit, BP!Commit, B!Unchanged, BP!Unchanged, B!Admit, BP!Admit, B!Known, BP!Known, B!Unsettled, BP!Unsettled,
  B!RecordUsage, BP!RecordUsage, B!ReleaseIt, BP!ReleaseIt, B!Outcome, BP!Outcome, B!Count, BP!Count, B!Tell, BP!Tell

LEMMA ActivitySteps ==
  which = "activity" => (Init => SP!Init) /\ (Next => SP!Next)
BY DEF Init, Next, M!Init, SP!Init, M!Next, SP!Next, M!Unmasked, SP!Unmasked, M!Redacted, SP!Redacted, M!Digest,
  SP!Digest, M!Source, SP!Source, M!disk, SP!disk, M!history, SP!history, M!Fingerprint, SP!Fingerprint,
  M!Legacy, SP!Legacy, M!Accepts, SP!Accepts, M!Recoverable, SP!Recoverable, M!Changed, SP!Changed, M!Goto,
  SP!Goto, M!Return, SP!Return, M!Reject, SP!Reject, M!Join, SP!Join, M!Start, SP!Start, M!At, SP!At,
  M!ReturnExisting, SP!ReturnExisting, M!RefuseExisting, SP!RefuseExisting, M!Recover, SP!Recover, M!Unanswered,
  SP!Unanswered, M!NotCompleted, SP!NotCompleted, M!Consults, SP!Consults, M!LookUp, SP!LookUp, M!RejectSource,
  SP!RejectSource, M!SkipSource, SP!SkipSource, M!RefuseInput, SP!RefuseInput, M!PublishInput, SP!PublishInput,
  M!Send, SP!Send, M!NotSent, SP!NotSent, M!Answered, SP!Answered, M!Unusable, SP!Unusable, M!PutOutput,
  SP!PutOutput, M!PutFails, SP!PutFails, M!RecordTrace, SP!RecordTrace, M!RecordFails, SP!RecordFails,
  M!PublishTrace, SP!PublishTrace, M!WriteFails, SP!WriteFails, M!PublishMapping, SP!PublishMapping, M!Settle,
  SP!Settle, M!Crash, SP!Crash, M!Damage, SP!Damage, M!Invoke, SP!Invoke, M!Execute, SP!Execute

LEMMA CheckpointSteps ==
  which = "checkpoints" => (Init => SP!G!Init) /\ (Next => SP!G!Next)
BY DEF Init, Next, G!Init, G!Next, SP!G!Init, SP!G!Next, G!Process, SP!G!Process, G!Decision, SP!G!Decision,
  G!ReadIndex, SP!G!ReadIndex, G!ReplaceIndex, SP!G!ReplaceIndex, G!Crash, SP!G!Crash, G!HumanNode, SP!G!HumanNode,
  G!Opened, SP!G!Opened, G!Decided, SP!G!Decided, G!GateNode, SP!G!GateNode, G!GateRecorded, SP!G!GateRecorded,
  G!Respond, SP!G!Respond, G!Responded, SP!G!Responded, G!Decide, SP!G!Decide, G!Entry, SP!G!Entry, G!With, SP!G!With,
  G!Read, SP!G!Read, G!Goto, SP!G!Goto, G!Publish, SP!G!Publish, G!Throw, SP!G!Throw, G!Others, SP!G!Others,
  G!CreateOnce, SP!G!CreateOnce, G!Record, SP!G!Record, G!IsOpen, SP!G!IsOpen, G!Torn, SP!G!Torn

LEMMA CorpusSteps ==
  which = "corpus" => (Init => RP!K!Init) /\ (Next => RP!K!Next)
BY DEF Init, Next, Rests, C!Init, RP!K!Init, C!Fault, RP!K!Fault, C!Entries, RP!K!Entries, C!IsExport, RP!K!IsExport,
  C!Line, RP!K!Line, C!Commit, RP!K!Commit, C!Lines, RP!K!Lines, C!Nth, RP!K!Nth, C!Commits, RP!K!Commits,
  C!Offsets, RP!K!Offsets, C!Batch, RP!K!Batch, C!Batches, RP!K!Batches, C!Applies, RP!K!Applies,
  C!Intact, RP!K!Intact, C!Committed, RP!K!Committed, C!Load, RP!K!Load, C!Begin, RP!K!Begin, C!New, RP!K!New,
  C!Import, RP!K!Import, C!LastDataBatch, RP!K!LastDataBatch, C!Prefix, RP!K!Prefix, C!Report, RP!K!Report,
  C!Export, RP!K!Export, C!Put, RP!K!Put, C!Forgotten, RP!K!Forgotten, C!Failed, RP!K!Failed, C!Write, RP!K!Write,
  C!Sync, RP!K!Sync, C!Crash, RP!K!Crash, C!Next, RP!K!Next, C!WholeChunk, RP!K!WholeChunk,
  C!TornChunk, RP!K!TornChunk, C!CutTo, RP!K!CutTo, C!AfterPowerLoss, RP!K!AfterPowerLoss, C!Range, RP!K!Range,
  C!Max, RP!K!Max, C!Cardinality, RP!K!Cardinality

LEMMA CliSteps ==
  which = "cli" => (Init => SP!X!Init) /\ (Next => SP!X!Next)
BY DEF Init, Next, X!AllKept, SP!X!AllKept, X!AntigravityReader, SP!X!AntigravityReader, X!Before,
  SP!X!Before, X!ClassifyCliFailure, SP!X!ClassifyCliFailure, X!ClaudeReader, SP!X!ClaudeReader, X!Clean,
  SP!X!Clean, X!Close, SP!X!Close, X!CodexReader, SP!X!CodexReader, X!Complete, SP!X!Complete, X!Continue,
  SP!X!Continue, X!CumulativeUsage, SP!X!CumulativeUsage, X!Error, SP!X!Error, X!Fail, SP!X!Fail,
  X!FailureClasses, SP!X!FailureClasses, X!Failures, SP!X!Failures, X!FirstOf, SP!X!FirstOf,
  X!ForbiddenToolUse, SP!X!ForbiddenToolUse, X!Fresh, SP!X!Fresh, X!GeminiReader, SP!X!GeminiReader, X!Has,
  SP!X!Has, X!Idle, SP!X!Idle, X!Incomplete, SP!X!Incomplete, X!Init, SP!X!Init, X!KeepsSessions,
  SP!X!KeepsSessions, X!KeptOf, SP!X!KeptOf, X!KeyOf, SP!X!KeyOf, X!Least, SP!X!Least, X!Next, SP!X!Next,
  X!NotRepeated, SP!X!NotRepeated, X!Probe, SP!X!Probe, X!Put, SP!X!Put, X!Read, SP!X!Read, X!RemoveUnkept,
  SP!X!RemoveUnkept, X!Removed, SP!X!Removed, X!Reply, SP!X!Reply, X!Resolve, SP!X!Resolve, X!Returned,
  SP!X!Returned, X!Send, SP!X!Send, X!SentWhole, SP!X!SentWhole, X!Started, SP!X!Started, X!Sweep, SP!X!Sweep,
  X!Told, SP!X!Told, X!TurnUsage, SP!X!TurnUsage, X!Upgrade, SP!X!Upgrade, X!Whole, SP!X!Whole, X!Without,
  SP!X!Without, X!ToSet, SP!X!ToSet, X!Cardinality, SP!X!Cardinality

LEMMA ProcessSteps ==
  which = "process" => (Init => SP!O!Init) /\ (Next => SP!O!Next)
BY DEF Init, Next, O!Abort, SP!O!Abort, O!Begin, SP!O!Begin, O!Data, SP!O!Data, O!Dead, SP!O!Dead, O!Detach,
  SP!O!Detach, O!Done, SP!O!Done, O!Events, SP!O!Events, O!Exit, SP!O!Exit, O!Fork, SP!O!Fork, O!Freeze,
  SP!O!Freeze, O!Frozen, SP!O!Frozen, O!Gone, SP!O!Gone, O!Grace, SP!O!Grace, O!Held, SP!O!Held, O!Holding,
  SP!O!Holding, O!Host, SP!O!Host, O!Idle, SP!O!Idle, O!InGroup, SP!O!InGroup, O!Init, SP!O!Init, O!Kill,
  SP!O!Kill, O!Kin, SP!O!Kin, O!Leader, SP!O!Leader, O!Living, SP!O!Living, O!Look, SP!O!Look, O!Next,
  SP!O!Next, O!None, SP!O!None, O!OnClose, SP!O!OnClose, O!OnExit, SP!O!OnExit, O!Pending, SP!O!Pending,
  O!Posix, SP!O!Posix, O!PosixDescendants, SP!O!PosixDescendants, O!Queue, SP!O!Queue, O!Reached,
  SP!O!Reached, O!Remaining, SP!O!Remaining, O!Resolve, SP!O!Resolve, O!Reuse, SP!O!Reuse, O!Session, SP!O!Session, O!Stop, SP!O!Stop,
  O!Stranger, SP!O!Stranger, O!Struck, SP!O!Struck, O!System, SP!O!System, O!Tree, SP!O!Tree,
  O!WindowsDescendants, SP!O!WindowsDescendants

----------------------------------------------------------------------------
(* The component's invariant holds of the file whose steps are taken.      *)

FilesInv ==
  /\ which = "events" => RP!LogInv
  /\ which = "journal" => RP!JInv
  /\ which = "budget" => BP!BInv
  /\ which = "activity" => SP!IInv
  /\ which = "checkpoints" => SP!CheckpointInv
  /\ which = "corpus" => RP!CorpusInv
  /\ which = "cli" => SP!CInv
  /\ which = "process" => SP!PInv

\* The assumptions of the components, of their instances.
LEMMA Assumptions ==
  /\ RP!E!LogAssumption
  /\ SP!ActivityAssumption
  /\ SP!G!CheckpointAssumption
  /\ RP!K!CorpusAssumption
  /\ SP!X!TransportAssumption
  /\ SP!O!ProcessAssumption
  /\ Null \notin BP!Reservation /\ Null \notin Seq(BP!Reservation)
<1>1. SP!ActivityAssumption
  BY DurableFilesAssumption DEF M!ActivityAssumption, SP!ActivityAssumption, M!Answer, SP!Answer,
    M!Payload, SP!Payload, M!Digest, SP!Digest, M!Mapping, SP!Mapping, M!Trace, SP!Trace,
    M!Source, SP!Source, M!Call, SP!Call
<1>2. SP!X!TransportAssumption
  BY DurableFilesAssumption DEF X!TransportAssumption, SP!X!TransportAssumption, X!ToSet, SP!X!ToSet,
    X!IsFiniteSet, SP!X!IsFiniteSet
<1>3. SP!O!ProcessAssumption
  BY DurableFilesAssumption DEF O!ProcessAssumption, SP!O!ProcessAssumption, O!IsFiniteSet, SP!O!IsFiniteSet,
    O!Cardinality, SP!O!Cardinality
<1>4. RP!K!CorpusAssumption
  BY DurableFilesAssumption DEF C!CorpusAssumption, RP!K!CorpusAssumption, C!Range, RP!K!Range, Rests
<1> QED
  BY <1>1, <1>2, <1>3, <1>4, DurableFilesAssumption DEF E!LogAssumption, RP!E!LogAssumption,
    G!CheckpointAssumption, SP!G!CheckpointAssumption, G!Decision, SP!G!Decision,
    B!Reservation, BP!Reservation, B!Usage, BP!Usage

LEMMA FilesInit == Init => FilesInv
<1> SUFFICES ASSUME Init PROVE FilesInv OBVIOUS
<1>1. which = "events" => RP!LogInv BY EventSteps, RP!InitLogInv, Assumptions
<1>2. which = "journal" => RP!JInv BY JournalSteps, RP!JInit
<1>3. which = "budget" => BP!BInv BY BudgetSteps, BP!BInvInit, Assumptions
<1>4. which = "checkpoints" => SP!CheckpointInv BY CheckpointSteps, SP!InitCheckpoints, Assumptions
<1>5. which = "activity" => SP!IInv BY ActivitySteps, SP!InitIInv, Assumptions
<1>6. which = "cli" => SP!CInv BY CliSteps, SP!InitCInv
<1>7. which = "process" => SP!PInv BY ProcessSteps, SP!InitPInv, Assumptions
<1>8. which = "corpus" => RP!CorpusInv BY CorpusSteps, RP!InitCorpus
<1> QED BY <1>1, <1>2, <1>3, <1>4, <1>5, <1>6, <1>7, <1>8 DEF FilesInv

LEMMA FilesStep == FilesInv /\ [Next]_vars => FilesInv'
<1> SUFFICES ASSUME FilesInv, [Next]_vars PROVE FilesInv' OBVIOUS
<1>0. which' = which BY DEF Next, vars
<1>1. ASSUME which = "events" PROVE RP!LogInv'
  <2>1. [RP!E!Next]_RP!E!vars BY <1>1, EventSteps DEF vars, RP!E!vars
  <2> QED BY <1>1, <2>1, RP!StepLogInv, Assumptions DEF FilesInv
<1>2. ASSUME which = "journal" PROVE RP!JInv'
  <2>1. [RP!J!Next]_RP!J!vars BY <1>2, JournalSteps DEF vars, RP!J!vars
  <2> QED BY <1>2, <2>1, RP!JStep DEF FilesInv
<1>3. ASSUME which = "budget" PROVE BP!BInv'
  <2>1. [BP!Next]_BP!vars BY <1>3, BudgetSteps DEF vars, BP!vars
  <2> QED BY <1>3, <2>1, BP!BInvStep, Assumptions DEF FilesInv
<1>4. ASSUME which = "checkpoints" PROVE SP!CheckpointInv'
  <2>1. [SP!G!Next]_SP!G!vars BY <1>4, CheckpointSteps DEF vars, SP!G!vars
  <2> QED BY <1>4, <2>1, SP!StepCheckpoints, Assumptions DEF FilesInv
<1>5. ASSUME which = "activity" PROVE SP!IInv'
  <2>1. [SP!Next]_SP!vars BY <1>5, ActivitySteps DEF vars, SP!vars
  <2> QED BY <1>5, <2>1, SP!StepIInv, Assumptions DEF FilesInv
<1>6. ASSUME which = "cli" PROVE SP!CInv'
  <2>1. [SP!X!Next]_SP!X!vars BY <1>6, CliSteps DEF vars, SP!X!vars
  <2> QED BY <1>6, <2>1, SP!StepCInv, Assumptions DEF FilesInv
<1>7. ASSUME which = "process" PROVE SP!PInv'
  <2>1. [SP!O!Next]_SP!O!vars BY <1>7, ProcessSteps DEF vars, SP!O!vars
  <2> QED BY <1>7, <2>1, SP!StepPInv, Assumptions DEF FilesInv
<1>8. ASSUME which = "corpus" PROVE RP!CorpusInv'
  <2>1. [RP!K!Next]_RP!K!vars BY <1>8, CorpusSteps DEF vars, RP!K!vars
  <2> QED BY <1>8, <2>1, RP!StepCorpus, Assumptions DEF FilesInv
<1> QED BY <1>0, <1>1, <1>2, <1>3, <1>4, <1>5, <1>6, <1>7, <1>8 DEF FilesInv

LEMMA FilesInvariant == Spec => []FilesInv
BY FilesInit, FilesStep, PTL DEF Spec

\* RunStore.appendEvent (run-store.ts), of the log the run checks.
THEOREM EventsAreKept == Spec => []LogKept
<1>1. FilesInv => LogKept
  BY RP!LogInvMeans, Assumptions DEF FilesInv, LogKept, E!LogKept, RP!E!LogKept, E!Parses, RP!E!Parses,
    E!RetainedLength, RP!E!RetainedLength, E!WholeChunk, RP!E!WholeChunk, E!Records, RP!E!Records
<1> QED BY <1>1, FilesInvariant, PTL

\* ActivityJournal.append (journal.ts), of the journal the run checks.
THEOREM AcknowledgedIsKept == Spec => []AckedKept
<1>1. FilesInv => AckedKept
  BY RP!JInvMeans DEF FilesInv, AckedKept, J!AckedKept, RP!J!AckedKept, J!Parses, RP!J!Parses,
    J!RetainedLength, RP!J!RetainedLength, J!Lines, RP!J!Lines, J!WholeChunk, RP!J!WholeChunk,
    J!Cardinality, RP!J!Cardinality
<1> QED BY <1>1, FilesInvariant, PTL

\* DurableTokenBudget (token-budget.ts), of the budget the run checks.
THEOREM SpendingIsKept == Spec => []BudgetKept
<1>1. BP!BudgetKept => B!BudgetKept
  BY DEF B!BudgetKept, BP!BudgetKept, B!SpendWithinLimit, BP!SpendWithinLimit, B!ToldIsStored, BP!ToldIsStored,
    B!Charged, BP!Charged, B!Total, BP!Total, B!Overshoot, BP!Overshoot, B!Charge, BP!Charge, B!Id, BP!Id,
    B!MaxOf, BP!MaxOf
<1>2. FilesInv => BudgetKept BY <1>1, BP!BInvMeans, Assumptions DEF FilesInv, BudgetKept
<1> QED BY <1>2, FilesInvariant, PTL

\* ModelActivities.execute (model-activity.ts), of the activity the run checks.
THEOREM AnswersStayKept == Spec => []AnswersKept
<1>1. \A S : M!Cardinality(S) = SP!Cardinality(S) BY DEF M!Cardinality, SP!Cardinality
<1>2. SP!AnswersKept => M!AnswersKept
  BY <1>1 DEF M!AnswersKept, SP!AnswersKept, M!PaidAnswerKept, SP!PaidAnswerKept,
    M!OneRequestAsked, SP!OneRequestAsked, M!ReplayAccounted, SP!ReplayAccounted, M!Redacted, SP!Redacted
<1>3. FilesInv => AnswersKept BY <1>2, SP!IInvMeans, Assumptions DEF FilesInv, AnswersKept
<1> QED BY <1>3, FilesInvariant, PTL

\* graph-checkpoints.ts, of the nodes the run checks.
THEOREM CheckpointsAreObeyed == Spec => []DecisionObeyed
<1>1. FilesInv => DecisionObeyed
  BY SP!CheckpointsMean DEF FilesInv, DecisionObeyed, G!DecisionObeyed, SP!G!DecisionObeyed, G!Read, SP!G!Read,
    G!Record, SP!G!Record
<1> QED BY <1>1, FilesInvariant, PTL

\* CliTransport.send (cli-transport.ts), of the turns the run checks.
THEOREM TurnsStaySound == Spec => []CliTurnsSound
<1>1. SP!X!CliTurnsSound => X!CliTurnsSound
  BY DEF X!CliTurnsSound, SP!X!CliTurnsSound, X!Running, SP!X!Running, X!AllKept, SP!X!AllKept
<1>2. FilesInv => CliTurnsSound BY <1>1, SP!CInvMeans DEF FilesInv, CliTurnsSound
<1> QED BY <1>2, FilesInvariant, PTL

\* runNativeProcess and endTree (process.ts), of the process trees the run checks.
THEOREM TreesStayEnded == Spec => []NativeTreeEnded
<1>1. SP!O!NativeTreeEnded => O!NativeTreeEnded
  BY DEF O!NativeTreeEnded, SP!O!NativeTreeEnded, O!Tree, SP!O!Tree, O!Stranger, SP!O!Stranger, O!Leader, SP!O!Leader,
    O!Posix, SP!O!Posix, O!Living, SP!O!Living, O!Pending, SP!O!Pending, O!Holding, SP!O!Holding
<1>2. FilesInv => NativeTreeEnded BY <1>1, SP!PInvMeans DEF FilesInv, NativeTreeEnded
<1> QED BY <1>2, FilesInvariant, PTL

\* EvaluationCorpusStore (store.ts), of the corpus the run checks.
THEOREM CorpusStaysKept == Spec => []CorpusKept
<1>1. RP!K!CorpusKept => C!CorpusKept
  BY DEF C!CorpusKept, RP!K!CorpusKept, C!Intact, RP!K!Intact, C!Offsets, RP!K!Offsets, C!Commits, RP!K!Commits,
    C!Nth, RP!K!Nth, C!Batch, RP!K!Batch, C!Batches, RP!K!Batches, C!Entries, RP!K!Entries, C!IsExport, RP!K!IsExport,
    C!Applies, RP!K!Applies, C!CutTo, RP!K!CutTo, C!Range, RP!K!Range, C!Cardinality, RP!K!Cardinality, Rests
<1>2. FilesInv => CorpusKept BY <1>1, RP!CorpusMeans DEF FilesInv, CorpusKept
<1> QED BY <1>2, FilesInvariant, PTL
=============================================================================
