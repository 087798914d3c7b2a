--------------------------- MODULE RunStoreProofs ---------------------------
(***************************************************************************)
(* A run and the files that outlive it.  Whoever acts on a run has it      *)
(* alone, and a completed run stays so.  What the event log, the activity  *)
(* journal and the evaluation corpus acknowledged is in their files,       *)
(* whatever writes, syncs and cuts fail and whenever the process or the    *)
(* machine stops.  All hold for any number of callers, handles, records,   *)
(* faults and crashes.  The logs are files of one kind (LogFile): the      *)
(* facts about chunks and power losses come first, then the invariant of   *)
(* each.                                                                   *)
(***************************************************************************)
EXTENDS RunLifecycle, SequenceTheorems, FiniteSetTheorems, WellFoundedInduction, TLAPS

CONSTANTS Event, Expensive, Record, Synced, FaultsOverlap, MaxConcurrent, Bundles, Requires, StoredKeys, MaxBatches,
  MaxIOErrors, MaxPutErrors, MaxStops, Null

VARIABLES file, synced, queue, start, ready, undo, told, log, faults, loaded, uncut, artifacts, state, offsets, batch

E == INSTANCE EventLog WITH MaxFaults <- MaxIOErrors, MaxCrashes <- MaxStops, None <- Null
J == INSTANCE ActivityJournal WITH Expensive <- Synced, MaxFaults <- MaxIOErrors, MaxCrashes <- MaxStops
K == INSTANCE CorpusStore WITH Stored <- StoredKeys, MaxFaults <- MaxPutErrors, MaxCrashes <- MaxStops

----------------------------------------------------------------------------
(* The run as its orchestrator holds it.                                   *)

\* A call that has taken the guard and not given it back.
Holding == {"resume-status", "resume-context", "resume-raise", "resume-checks",
            "resume-answer", "edit-status", "editing", "editing-any"}

\* ... and, of these, the ones after which a resume has tracked its handle.
Before == Holding \ {"resume-answer"}

\* A holder owns the guard, and nobody else does.
GuardOwned ==
  /\ \A c \in Caller : pc[c] \in Holding => resuming
  /\ \A c, d \in Caller : pc[c] \in Holding /\ pc[d] \in Holding => c = d

\* Until its own handle is tracked, no handle is live under the holder.
NoneLiveBefore == \A c \in Caller : pc[c] \in Before => live = NoHandle

\* Start, which takes no guard, is over once anything else can happen to the run.
Begun == \E h \in Handle : handle[h] # "none"
StartedFirst ==
  \/ Begun
  \/ /\ recorded = "none" /\ ~armed
     /\ \A c \in Caller : pc[c] \notin Holding
     /\ \A h \in Handle : waking[h] = "no"

\* What a resume has read of the status is still so when it goes on.
NotTakenUpCompleted ==
  /\ \A c \in Caller :
       pc[c] \in {"resume-context", "resume-raise", "resume-checks"} => recorded # "COMPLETED"
  /\ recorded = "COMPLETED" => Unresolved = {}

BlockedEdits == \A c \in Caller : pc[c] = "editing" => recorded = "BLOCKED"

IInv ==
  /\ TypeOK /\ OneHandle /\ GuardOwned /\ NoneLiveBefore
  /\ StartedFirst /\ NotTakenUpCompleted /\ BlockedEdits

-----------------------------------------------------------------------------
LEMMA InitIInv == Init => IInv
<1> SUFFICES ASSUME Init PROVE IInv OBVIOUS
<1> USE DEF Init, NoHandle
<1>1. TypeOK BY CallerAssumption DEF TypeOK, Final
<1>2. OneHandle BY DEF OneHandle, Unresolved
<1>3. GuardOwned /\ NoneLiveBefore BY DEF GuardOwned, NoneLiveBefore, Holding, Before
<1>4. StartedFirst BY DEF StartedFirst, Holding
<1>5. NotTakenUpCompleted /\ BlockedEdits
  BY DEF NotTakenUpCompleted, BlockedEdits
<1> QED BY <1>1, <1>2, <1>3, <1>4, <1>5 DEF IInv

\* No call under way leaves no handle unresolved once it holds the run untracked.
LEMMA NoneUnresolved ==
  ASSUME TypeOK, OneHandle, live = NoHandle
  PROVE  Unresolved = {}
BY CallerAssumption DEF OneHandle, Unresolved, Handle, NoHandle, TypeOK

-----------------------------------------------------------------------------
CallState == Holding \union {"idle", "cancel-status", "cancel-wait"}

LEMMA TypeStep == TypeOK /\ [Next]_vars => TypeOK'
<1> SUFFICES ASSUME TypeOK, [Next]_vars PROVE TypeOK' OBVIOUS
<1> USE CallerAssumption DEF TypeOK, calls, store, runs, Caller, Final
<1>1. CASE Start BY <1>1 DEF Start, Track
<1>2. ASSUME NEW c \in Operator, OperatorResumes(c) PROVE TypeOK'
  <2>1. PICK l \in {0} \union 1..MaxLimit : wanted' = [wanted EXCEPT ![c] = l]
    BY <1>2 DEF OperatorResumes
  <2>2. wanted' \in [Caller -> Nat] BY <2>1
  <2>3. UNCHANGED <<store, runs, waking, awaited, crashes>> /\ Resume(c)
    BY <1>2 DEF OperatorResumes
  <2> QED BY <2>2, <2>3 DEF Resume, Goto
<1>3. ASSUME NEW c \in Operator, BeginEdit(c) PROVE TypeOK'
  BY <1>3 DEF BeginEdit, TakeGuard, Goto
<1>4. ASSUME NEW c \in Operator, CancelIdle(c) PROVE TypeOK'
  BY <1>4 DEF CancelIdle, Goto
<1>5. ASSUME NEW c \in Operator, CancelLive(c) PROVE TypeOK'
  BY <1>5 DEF CancelLive, Goto
<1>6. ASSUME NEW c \in Caller, CallStep(c) PROVE TypeOK'
  <2>1. CASE ResumeReadsStatus(c)
    <3>1. resuming' \in BOOLEAN BY <2>1, Zenon DEF ResumeReadsStatus, Fail, ReleaseFailed
    <3>2. pc' \in [Caller -> CallState] BY <2>1, <1>6 DEF ResumeReadsStatus, Fail, Goto, CallState, Holding
    <3>3. wanted' \in [Caller -> Nat] BY <2>1, <1>6 DEF ResumeReadsStatus, Fail
    <3> QED BY <2>1, <3>1, <3>2, <3>3 DEF ResumeReadsStatus, CallState, Holding
  <2>2. CASE ResumeReadsContext(c)
    <3>1. resuming' \in BOOLEAN BY <2>2, Zenon DEF ResumeReadsContext, Fail, ReleaseFailed
    <3>2. pc' \in [Caller -> CallState] BY <2>2, <1>6 DEF ResumeReadsContext, Fail, Goto, CallState, Holding
    <3>3. wanted' \in [Caller -> Nat] BY <2>2, <1>6 DEF ResumeReadsContext, Fail
    <3> QED BY <2>2, <3>1, <3>2, <3>3 DEF ResumeReadsContext, CallState, Holding
  <2>3. CASE ResumeRaises(c) BY <2>3, <1>6 DEF ResumeRaises, Goto
  <2>4. CASE ResumeRefused(c) BY <2>4, <1>6 DEF ResumeRefused, Fail, ReleaseFailed, Goto
  <2>5. CASE ResumeTracks(c) BY <2>5, <1>6 DEF ResumeTracks, Track, Goto
  <2>6. CASE ResumeReturns(c) BY <2>6, <1>6 DEF ResumeReturns, Goto
  <2>7. CASE EditReadsStatus(c)
    <3>1. resuming' \in BOOLEAN BY <2>7, Zenon DEF EditReadsStatus, Fail, ReleaseFailed
    <3>2. pc' \in [Caller -> CallState] BY <2>7, <1>6 DEF EditReadsStatus, Fail, Goto, CallState, Holding
    <3>3. wanted' \in [Caller -> Nat] BY <2>7, <1>6 DEF EditReadsStatus, Fail
    <3> QED BY <2>7, <3>1, <3>2, <3>3 DEF EditReadsStatus, CallState, Holding
  <2>8. CASE EndEdit(c) BY <2>8, <1>6 DEF EndEdit, Goto
  <2>9. CASE CancelReadsStatus(c) BY <2>9, <1>6 DEF CancelReadsStatus, Goto
  <2>10. CASE CancelReturns(c) BY <2>10, <1>6 DEF CancelReturns, Goto
  <2> QED BY <1>6, <2>1, <2>2, <2>3, <2>4, <2>5, <2>6, <2>7, <2>8, <2>9, <2>10 DEF CallStep
<1>7. ASSUME NEW h \in Handle, HandleStep(h) PROVE TypeOK'
  <2>1. CASE HandleLoads(h) BY <2>1 DEF HandleLoads
  <2>2. CASE HandleConcludes(h) BY <2>2 DEF HandleConcludes
  <2>3. CASE HandleSettles(h) BY <2>3 DEF HandleSettles, FinalState, LiveAfter
  <2>4. CASE HandleRejects(h) BY <2>4 DEF HandleRejects, LiveAfter
  <2> QED BY <1>7, <2>1, <2>2, <2>3, <2>4 DEF HandleStep
<1>8. ASSUME NEW h \in Handle, WakeReads(h) \/ WakeArms(h) PROVE TypeOK'
  <2>1. CASE WakeReads(h) BY <2>1 DEF WakeReads
  <2>2. CASE WakeArms(h)
    <3>1. armed' \in BOOLEAN BY <2>2, Zenon DEF WakeArms
    <3> QED BY <2>2, <3>1 DEF WakeArms
  <2> QED BY <1>8, <2>1, <2>2
<1>9. CASE TimerFires BY <1>9 DEF TimerFires, Resume, Goto
<1>10. CASE Crash 
  <2>1. crashes' \in Nat BY <1>10 DEF Crash
  <2>2. handle' \in [Handle -> {"none", "loading", "running", "concluding", "settled"}]
    BY <1>10 DEF Crash
  <2> QED BY <1>10, <2>1, <2>2 DEF Crash
<1>11. CASE UNCHANGED vars BY <1>11 DEF vars
<1> QED BY <1>1, <1>2, <1>3, <1>4, <1>5, <1>6, <1>7, <1>8, <1>9, <1>10, <1>11 DEF Next

-----------------------------------------------------------------------------
\* The parts of the invariant that are about the guard and the live handle.
GuardInv ==
  /\ OneHandle /\ GuardOwned /\ NoneLiveBefore
  /\ StartedFirst /\ NotTakenUpCompleted /\ BlockedEdits

\* A call that takes the guard finds nobody holding it and no handle live.
LEMMA TakesGuard ==
  ASSUME TypeOK, GuardInv, NEW c \in Caller, NEW at \in {"resume-status", "edit-status", "editing-any"},
         AtRest, Begun, resuming' = TRUE, pc' = [pc EXCEPT ![c] = at],
         UNCHANGED <<live, handle, recorded, waking>>
  PROVE  GuardInv'
<1> USE DEF AtRest, GuardInv
<1>1. \A d \in Caller : pc[d] \notin Holding BY DEF GuardOwned
<1>2. OneHandle' BY DEF OneHandle, Unresolved
<1>3. GuardOwned' BY <1>1 DEF GuardOwned, TypeOK
<1>4. NoneLiveBefore' BY DEF NoneLiveBefore
<1>5. StartedFirst' BY DEF StartedFirst, Begun
<1>6. NotTakenUpCompleted' BY <1>1 DEF NotTakenUpCompleted, Unresolved, TypeOK, Holding
<1>7. BlockedEdits' BY DEF BlockedEdits, TypeOK
<1> QED BY <1>2, <1>3, <1>4, <1>5, <1>6, <1>7

\* A call that goes on, or gives the guard back, leaves the run as it is.
LEMMA GoesOn ==
  ASSUME TypeOK, GuardInv, NEW c \in Caller, NEW at,
         pc' = [pc EXCEPT ![c] = at],
         \/ pc[c] \in Before /\ at \in Before /\ resuming' = resuming
         \/ pc[c] \in Holding /\ at = "idle" /\ resuming' = FALSE
         \/ pc[c] \notin Holding /\ at \notin Holding /\ resuming' = resuming,
         at = "editing" => recorded = "BLOCKED",
         at \in {"resume-context", "resume-raise", "resume-checks"} => recorded # "COMPLETED",
         armed' => armed,
         UNCHANGED <<live, handle, recorded, waking>>
  PROVE  GuardInv'
<1> USE DEF GuardInv
<1>0. Before \subseteq Holding BY DEF Before
<1>2. OneHandle' BY DEF OneHandle, Unresolved
<1>3. GuardOwned'
  <2>1. \A d \in Caller : pc'[d] \in Holding => pc[d] \in Holding BY <1>0 DEF TypeOK, Holding
  <2>2. \A d \in Caller : pc'[d] \in Holding => resuming'
    BY <1>0, <2>1 DEF GuardOwned, TypeOK, Holding
  <2> QED BY <2>1, <2>2 DEF GuardOwned
<1>4. NoneLiveBefore' BY <1>0 DEF NoneLiveBefore, TypeOK, Before, Holding
<1>5. StartedFirst' BY <1>0 DEF StartedFirst, Begun, TypeOK, Holding
<1>6. NotTakenUpCompleted' BY DEF NotTakenUpCompleted, Unresolved, TypeOK
<1>7. BlockedEdits' BY DEF BlockedEdits, TypeOK
<1> QED BY <1>2, <1>3, <1>4, <1>5, <1>6, <1>7

\* A handle is tracked while nothing else runs.
LEMMA Tracks ==
  ASSUME TypeOK, GuardInv, Track, live = NoHandle, recorded # "COMPLETED",
         \/ UNCHANGED pc /\ \A c \in Caller : pc[c] \notin Holding
         \/ \E c \in Caller : pc[c] \in Holding /\ pc' = [pc EXCEPT ![c] = "resume-answer"],
         UNCHANGED <<recorded, resuming, armed, waking>>
  PROVE  GuardInv'
<1> USE DEF GuardInv
<1>0. PICK h \in Handle : live' = h /\ handle' = [handle EXCEPT ![h] = "loading"]
  BY DEF Track
<1>1. Unresolved = {} BY NoneUnresolved
<1>2. OneHandle' BY <1>0, <1>1 DEF OneHandle, Unresolved, TypeOK
<1>3. \A d \in Caller : pc'[d] \notin Before
  BY DEF GuardOwned, TypeOK, Before
<1>4. GuardOwned'  BY DEF GuardOwned, TypeOK, Holding
<1>5. NoneLiveBefore' BY <1>3 DEF NoneLiveBefore
<1>6. StartedFirst' BY <1>0 DEF StartedFirst, Begun, TypeOK
<1>7. NotTakenUpCompleted' /\ BlockedEdits'
  BY <1>3 DEF NotTakenUpCompleted, BlockedEdits, Before, Holding
<1> QED BY <1>2, <1>4, <1>5, <1>6, <1>7

\* A handle that goes on is the live one, so no call holds the run untracked.
LEMMA HandleGoesOn ==
  ASSUME TypeOK, GuardInv, NEW h \in Handle, h \in Unresolved, NEW stage,
         stage \in {"running", "concluding", "settled"},
         handle' = [handle EXCEPT ![h] = stage],
         live' = IF stage = "settled" THEN LiveAfter(h) ELSE live,
         recorded' = "COMPLETED" => stage = "settled",
         UNCHANGED <<pc, resuming, armed>>
  PROVE  GuardInv'
<1> USE DEF GuardInv
<1>1. live = h /\ live # NoHandle
  BY CallerAssumption DEF OneHandle, Handle, NoHandle
<1>2. \A c \in Caller : pc[c] \notin Before BY <1>1 DEF NoneLiveBefore
<1>3. \A g \in Handle : g \in Unresolved' => g = h /\ stage # "settled"
  BY <1>1 DEF OneHandle, Unresolved, TypeOK
<1>4. OneHandle' BY <1>1, <1>3 DEF OneHandle, Unresolved
<1>5. GuardOwned' BY DEF GuardOwned
<1>6. NoneLiveBefore' BY <1>2 DEF NoneLiveBefore
<1>7. StartedFirst' BY DEF StartedFirst, Begun, TypeOK
<1>8. NotTakenUpCompleted' BY <1>2, <1>3 DEF NotTakenUpCompleted, Unresolved, Before, Holding
<1>9. BlockedEdits' BY <1>2 DEF BlockedEdits, Before, Holding
<1> QED BY <1>4, <1>5, <1>6, <1>7, <1>8, <1>9

\* Timers and their callbacks move nothing else.
LEMMA Aside ==
  ASSUME GuardInv, UNCHANGED <<pc, resuming, live, handle, recorded>>,
         Begun \/ (~armed' /\ UNCHANGED waking)
  PROVE  GuardInv'
<1> USE DEF GuardInv
<1>1. OneHandle' /\ GuardOwned' /\ NoneLiveBefore' /\ BlockedEdits'
  BY DEF OneHandle, Unresolved, GuardOwned, NoneLiveBefore, BlockedEdits
<1>2. StartedFirst' BY DEF StartedFirst, Begun
<1>3. NotTakenUpCompleted' BY DEF NotTakenUpCompleted, Unresolved
<1> QED BY <1>1, <1>2, <1>3

LEMMA CallStepKeeps ==
  ASSUME TypeOK, GuardInv, NEW c \in Caller, CallStep(c)
  PROVE  GuardInv'
<1> USE DEF Goto, Fail, ReleaseFailed, calls, store, runs
<1>1. CASE ResumeReadsStatus(c)
  <2>1. CASE Resumable
    BY <1>1, <2>1, GoesOn DEF ResumeReadsStatus, Resumable, Before, Holding
  <2>2. CASE ~Resumable BY <1>1, <2>2, GoesOn DEF ResumeReadsStatus, Before, Holding
  <2> QED BY <2>1, <2>2
<1>2. CASE ResumeReadsContext(c)
  <2>1. recorded # "COMPLETED"
    BY <1>2 DEF ResumeReadsContext, GuardInv, NotTakenUpCompleted
  <2>2. CASE wanted[c] = 0 BY <1>2, <2>1, <2>2, GoesOn DEF ResumeReadsContext, Before, Holding
  <2>3. CASE wanted[c] # 0 /\ Raises(c)
    BY <1>2, <2>1, <2>3, GoesOn DEF ResumeReadsContext, Before, Holding
  <2>4. CASE wanted[c] # 0 /\ ~Raises(c)
    BY <1>2, <2>4, GoesOn DEF ResumeReadsContext, Before, Holding
  <2> QED BY <2>2, <2>3, <2>4
<1>3. CASE ResumeRaises(c)
  <2>1. recorded # "COMPLETED"
    BY <1>3 DEF ResumeRaises, GuardInv, NotTakenUpCompleted
  <2> QED BY <1>3, <2>1, GoesOn DEF ResumeRaises, Before, Holding
<1>4. CASE ResumeRefused(c) BY <1>4, GoesOn DEF ResumeRefused, Before, Holding
<1>5. CASE ResumeTracks(c)
  <2>1. live = NoHandle /\ recorded # "COMPLETED"
    BY <1>5 DEF ResumeTracks, GuardInv, NoneLiveBefore, NotTakenUpCompleted, Before, Holding
  <2> QED BY <1>5, <2>1, Tracks DEF ResumeTracks, Holding
<1>6. CASE ResumeReturns(c) BY <1>6, GoesOn DEF ResumeReturns, Before, Holding
<1>7. CASE EditReadsStatus(c)
  <2>1. CASE recorded = "BLOCKED"
    BY <1>7, <2>1, GoesOn DEF EditReadsStatus, Before, Holding
  <2>2. CASE recorded # "BLOCKED"
    BY <1>7, <2>2, GoesOn DEF EditReadsStatus, Before, Holding
  <2> QED BY <2>1, <2>2
<1>8. CASE EndEdit(c) BY <1>8, GoesOn DEF EndEdit, Before, Holding
<1>9. CASE CancelReadsStatus(c) BY <1>9, GoesOn DEF CancelReadsStatus, Before, Holding
<1>10. CASE CancelReturns(c) BY <1>10, GoesOn DEF CancelReturns, Before, Holding
<1> QED
  BY <1>1, <1>2, <1>3, <1>4, <1>5, <1>6, <1>7, <1>8, <1>9, <1>10 DEF CallStep

LEMMA HandleStepKeeps ==
  ASSUME TypeOK, GuardInv, NEW h \in Handle, HandleStep(h)
  PROVE  GuardInv'
<1> USE DEF calls, store, runs, Unresolved
<1>1. CASE HandleLoads(h) BY <1>1, HandleGoesOn DEF HandleLoads
<1>2. CASE HandleConcludes(h)
  <2>1. recorded # "COMPLETED"
    BY <1>2 DEF HandleConcludes, GuardInv, NotTakenUpCompleted
  <2> QED BY <1>2, <2>1, HandleGoesOn DEF HandleConcludes
<1>3. CASE HandleSettles(h) BY <1>3, HandleGoesOn DEF HandleSettles
<1>4. CASE HandleRejects(h) BY <1>4, HandleGoesOn DEF HandleRejects
<1> QED BY <1>1, <1>2, <1>3, <1>4 DEF HandleStep

LEMMA GuardStep == TypeOK /\ GuardInv /\ [Next]_vars => GuardInv'
<1> SUFFICES ASSUME TypeOK, GuardInv, [Next]_vars PROVE GuardInv' OBVIOUS
<1> USE DEF calls, store, runs, Goto
<1>1. CASE Start
  <2>1. ~Begun BY <1>1 DEF Start, Begun
  <2>2. recorded = "none" /\ \A c \in Caller : pc[c] \notin Holding
    BY <2>1 DEF GuardInv, StartedFirst
  <2>3. PICK h \in Handle : live' = h /\ handle' = [handle EXCEPT ![h] = "loading"]
    BY <1>1 DEF Start, Track
  <2>4. OneHandle' BY <1>1, <2>3 DEF Start, OneHandle, Unresolved, TypeOK
  <2>5. GuardOwned' /\ NoneLiveBefore' /\ BlockedEdits'
    BY <1>1, <2>2 DEF Start, GuardOwned, NoneLiveBefore, BlockedEdits, Before, Holding
  <2>6. StartedFirst' BY <2>3 DEF StartedFirst, Begun, TypeOK
  <2>7. NotTakenUpCompleted' BY <1>1, <2>2 DEF Start, NotTakenUpCompleted
  <2> QED BY <2>4, <2>5, <2>6, <2>7 DEF GuardInv
<1>2. ASSUME NEW c \in Operator, OperatorResumes(c) PROVE GuardInv'
  <2>1. Begun /\ c \in Caller BY <1>2 DEF OperatorResumes, GuardInv, StartedFirst, Caller
  <2> QED BY <1>2, <2>1, TakesGuard DEF OperatorResumes, Resume
<1>3. ASSUME NEW c \in Operator, BeginEdit(c) PROVE GuardInv'
  <2>1. Begun /\ c \in Caller BY <1>3 DEF BeginEdit, GuardInv, StartedFirst, Caller
  <2> QED BY <1>3, <2>1, TakesGuard DEF BeginEdit, TakeGuard
<1>4. ASSUME NEW c \in Operator, CancelIdle(c) PROVE GuardInv'
  BY <1>4, GoesOn DEF CancelIdle, Caller, Before, Holding
<1>5. ASSUME NEW c \in Operator, CancelLive(c) PROVE GuardInv'
  BY <1>5, GoesOn DEF CancelLive, Caller, Before, Holding
<1>6. ASSUME NEW c \in Caller, CallStep(c) PROVE GuardInv' BY <1>6, CallStepKeeps
<1>7. ASSUME NEW h \in Handle, HandleStep(h) PROVE GuardInv' BY <1>7, HandleStepKeeps
<1>8. ASSUME NEW h \in Handle, WakeReads(h) \/ WakeArms(h) PROVE GuardInv'
  <2>1. Begun BY <1>8 DEF WakeReads, WakeArms, GuardInv, StartedFirst
  <2>2. UNCHANGED <<pc, resuming, live, handle, recorded>>
    BY <1>8, Zenon DEF WakeReads, WakeArms
  <2> QED BY <2>1, <2>2, Aside
<1>9. CASE TimerFires
  <2>1. CASE pc[WakeUp] = "idle" /\ Resume(WakeUp)
    <3>1. Begun /\ WakeUp \in Caller BY <1>9 DEF TimerFires, GuardInv, StartedFirst, Caller
    <3> QED BY <1>9, <2>1, <3>1, TakesGuard DEF TimerFires, Resume
  <2>2. CASE ~AtRest /\ armed' = FALSE /\ UNCHANGED <<pc, resuming>>
    BY <1>9, <2>2, Aside DEF TimerFires
  <2> QED BY <1>9, <2>1, <2>2, Zenon DEF TimerFires
<1>10. CASE Crash
  <2>1. Unresolved' = {} BY <1>10 DEF Crash, Unresolved, TypeOK
  <2>2. \A c \in Caller : pc'[c] = "idle" BY <1>10 DEF Crash
  <2>3. OneHandle' BY <2>1 DEF OneHandle
  <2>4. GuardOwned' /\ NoneLiveBefore' /\ BlockedEdits' /\ NotTakenUpCompleted'
    BY <2>1, <2>2 DEF GuardOwned, NoneLiveBefore, BlockedEdits, NotTakenUpCompleted, Before, Holding
  <2>5. StartedFirst' BY <1>10, <2>2 DEF Crash, StartedFirst, Begun, GuardInv, Holding, TypeOK
  <2> QED BY <2>3, <2>4, <2>5 DEF GuardInv
<1>11. CASE UNCHANGED vars
  <2>1. OneHandle' /\ GuardOwned' /\ NoneLiveBefore' /\ BlockedEdits' /\ StartedFirst' /\ NotTakenUpCompleted'
    BY <1>11 DEF vars, GuardInv, OneHandle, Unresolved, GuardOwned, NoneLiveBefore, BlockedEdits,
              StartedFirst, Begun, NotTakenUpCompleted
  <2> QED BY <2>1 DEF GuardInv
<1> QED BY <1>1, <1>2, <1>3, <1>4, <1>5, <1>6, <1>7, <1>8, <1>9, <1>10, <1>11 DEF Next

-----------------------------------------------------------------------------
LEMMA InductiveInvariant == Spec => []IInv
<1>1. IInv /\ [Next]_vars => IInv' BY TypeStep, GuardStep DEF IInv, GuardInv
<1> QED BY InitIInv, <1>1, PTL DEF Spec

\* The orchestrator's stage is well typed, whatever calls interleave.
THEOREM LifecycleTyped == Spec => []TypeOK
<1>1. IInv => TypeOK BY DEF IInv
<1> QED BY <1>1, InductiveInvariant, PTL

\* Two handles never run one run, and a decision about a stopped run is written
\* while it is still stopped, and still BLOCKED where that was checked, for any
\* number of callers (orchestrator.ts #live, #resuming).
THEOREM RunIsHeldAlone == Spec => []HeldAlone
<1>1. IInv => HeldAlone
  <2> SUFFICES ASSUME IInv PROVE OneHandle /\ EditsStoppedRun BY DEF HeldAlone
  <2>1. ASSUME NEW c \in Caller, pc[c] \in {"editing", "editing-any"} PROVE Unresolved = {}
    <3>1. live = NoHandle BY <2>1 DEF IInv, NoneLiveBefore, Before, Holding
    <3> QED BY <3>1, NoneUnresolved DEF IInv
  <2> QED BY <2>1 DEF IInv, EditsStoppedRun, BlockedEdits
<1> QED BY <1>1, InductiveInvariant, PTL

\* Nothing takes up a COMPLETED run or records another stage over it, though the
\* status a resume checks is read awaits before its handle is tracked.
THEOREM CompletedRunsStayCompleted == Spec => CompletedIsFinal
<1> DEFINE Stays == recorded = "COMPLETED" => recorded' = "COMPLETED"
<1>1. IInv /\ [Next]_vars => Stays
  <2> SUFFICES ASSUME IInv, [Next]_vars, recorded = "COMPLETED" PROVE recorded' = "COMPLETED"
    OBVIOUS
  <2>1. \A h \in Handle : handle[h] \notin {"loading", "running", "concluding"}
    BY DEF IInv, NotTakenUpCompleted, Unresolved
  <2>2. ASSUME NEW h \in Handle, HandleStep(h) PROVE FALSE
    BY <2>1, <2>2 DEF HandleStep, HandleLoads, HandleConcludes, HandleSettles, HandleRejects
  <2>3. UNCHANGED recorded
    BY <2>2 DEF Next, vars, calls, store, runs, Start, OperatorResumes, BeginEdit, CancelIdle,
       CancelLive, CallStep, ResumeReadsStatus, ResumeReadsContext, ResumeRaises, ResumeRefused,
       ResumeTracks, ResumeReturns, EditReadsStatus, EndEdit, CancelReadsStatus, CancelReturns,
       WakeReads, WakeArms, TimerFires, Crash
  <2> QED BY <2>3
<1> QED BY <1>1, InductiveInvariant, PTL DEF Spec, CompletedIsFinal

----------------------------------------------------------------------------
(* Chunks.                                                                 *)

LEMMA ChunkFacts ==
  ASSUME NEW R
  PROVE  /\ \A r \in R : /\ E!WholeChunk(r) \in E!Chunk(R) /\ E!WholeChunk(r).whole /\ E!WholeChunk(r).rec = r
                         /\ E!TornChunk(r) \in E!Chunk(R) /\ ~E!TornChunk(r).whole
         /\ \A c \in E!Chunk(R) : c.rec \in R /\ c.whole \in BOOLEAN /\ (c.whole => c = E!WholeChunk(c.rec))
BY DEF E!Chunk, E!WholeChunk, E!TornChunk

\* RetainedLength is the place of the last whole chunk.
LEMMA RetainedIs ==
  ASSUME NEW R, NEW f \in Seq(E!Chunk(R)), NEW n \in 0..Len(f),
         n > 0 => f[n].whole, \A i \in (n+1)..Len(f) : ~f[i].whole
  PROVE  E!RetainedLength(f) = n
<1>1. Len(f) \in Nat OBVIOUS
<1>2. \A m \in 0..Len(f) : (m > 0 => f[m].whole) /\ (\A i \in (m+1)..Len(f) : ~f[i].whole) => m = n
  <2> SUFFICES ASSUME NEW m \in 0..Len(f), m > 0 => f[m].whole,
                      \A i \in (m+1)..Len(f) : ~f[i].whole, m # n
               PROVE  FALSE
    OBVIOUS
  <2>1. CASE m < n
    <3>1. n \in (m+1)..Len(f) /\ n > 0 BY <1>1, <2>1
    <3> QED BY <3>1
  <2>2. CASE n < m
    <3>1. m \in (n+1)..Len(f) /\ m > 0 BY <1>1, <2>2
    <3> QED BY <3>1
  <2> QED BY <1>1, <2>1, <2>2
<1> QED BY <1>2 DEF E!RetainedLength

LEMMA CutFacts ==
  ASSUME NEW R, NEW f \in Seq(E!Chunk(R)), NEW n \in 0..Len(f)
  PROVE  /\ E!CutTo(f, n) \in Seq(E!Chunk(R)) /\ Len(E!CutTo(f, n)) = n
         /\ \A i \in 1..n : E!CutTo(f, n)[i] = f[i]
<1>1. Len(f) \in Nat OBVIOUS
<1>2. CASE n = 0
  <2>1. SubSeq(f, 1, n) = <<>> BY <1>1, <1>2, SubSeqEmpty
  <2> QED BY <1>2, <2>1 DEF E!CutTo
<1>3. CASE n # 0
  <2>1. 1 \in 1..(Len(f) + 1) /\ n \in (1 - 1)..Len(f) /\ 1 <= n BY <1>1, <1>3
  <2> QED BY <1>1, <2>1, SubSeqProperties DEF E!CutTo
<1> QED BY <1>2, <1>3

----------------------------------------------------------------------------
(* A file of which only the chunk after the first n may be torn.           *)

Sound(f, n) ==
  /\ n <= Len(f) /\ Len(f) <= n + 1
  /\ \A i \in 1..n : f[i].whole

LEMMA SoundParses ==
  ASSUME NEW R, NEW f \in Seq(E!Chunk(R)), NEW n \in Nat, Sound(f, n)
  PROVE  /\ E!Parses(f) /\ n <= E!RetainedLength(f) /\ E!RetainedLength(f) <= Len(f)
         /\ (Len(f) = n + 1 => ~f[n + 1].whole) => E!RetainedLength(f) = n
         /\ E!RetainedLength(f) \in Nat
<1>1. Len(f) \in Nat OBVIOUS
<1>2. CASE Len(f) = n + 1 /\ f[n + 1].whole
  <2>1. E!RetainedLength(f) = n + 1
    <3>1. n + 1 \in 0..Len(f) /\ \A i \in (n + 1 + 1)..Len(f) : FALSE BY <1>1, <1>2
    <3> QED BY <1>2, <3>1, RetainedIs
  <2>2. \A i \in 1..(n + 1) : f[i].whole BY <1>2 DEF Sound
  <2> QED BY <1>2, <2>1, <2>2 DEF E!Parses
<1>3. CASE Len(f) = n + 1 => ~f[n + 1].whole
  <2>1. E!RetainedLength(f) = n
    <3>1. n \in 0..Len(f) BY <1>1 DEF Sound
    <3>2. n > 0 => f[n].whole BY DEF Sound
    <3>3. \A i \in (n + 1)..Len(f) : ~f[i].whole BY <1>1, <1>3 DEF Sound
    <3> QED BY <3>1, <3>2, <3>3, RetainedIs
  <2> QED BY <1>1, <1>3, <2>1 DEF E!Parses, Sound
<1> QED BY <1>2, <1>3

LEMMA RecordsFacts ==
  ASSUME NEW R, NEW f \in Seq(E!Chunk(R)), E!Parses(f), E!RetainedLength(f) \in Nat, E!RetainedLength(f) <= Len(f)
  PROVE  /\ E!Records(f) \in Seq(R) /\ Len(E!Records(f)) = E!RetainedLength(f)
         /\ \A i \in 1..E!RetainedLength(f) : f[i] = E!WholeChunk(E!Records(f)[i])
<1> DEFINE n == E!RetainedLength(f)
<1>1. Len(f) \in Nat OBVIOUS
<1>2. \A i \in 1..n : f[i] \in E!Chunk(R) BY <1>1
<1>3. \A i \in 1..n : f[i].rec \in R /\ f[i] = E!WholeChunk(f[i].rec) BY <1>2, ChunkFacts DEF E!Parses
<1>4. E!Records(f) \in [1..n -> R] BY <1>3 DEF E!Records
<1>5. E!Records(f) \in Seq(R) BY <1>4, SeqDef
<1>6. Len(E!Records(f)) = n BY <1>4, <1>5
<1> QED BY <1>3, <1>5, <1>6 DEF E!Records

\* What was synced survives a power loss, and what survives is sound again.
LEMMA PowerLoss ==
  ASSUME NEW R, NEW f \in Seq(E!Chunk(R)), NEW n \in Nat, Sound(f, n), NEW s \in 0..Len(f),
         NEW g \in E!AfterPowerLoss(f, s)
  PROVE  /\ g \in Seq(E!Chunk(R)) /\ s <= Len(g) /\ \A i \in 1..s : g[i] = f[i]
         /\ \A i \in 1..Len(g) : g[i].whole => i \in 1..Len(f) /\ g[i] = f[i]
         /\ \E m \in Nat : Sound(g, m) /\ (Len(g) = m + 1 => ~g[m + 1].whole)
<1>1. Len(f) \in Nat OBVIOUS
<1>2. ASSUME NEW k \in s..Len(f), g = E!CutTo(f, k)
      PROVE  /\ g \in Seq(E!Chunk(R)) /\ s <= Len(g) /\ \A i \in 1..s : g[i] = f[i]
             /\ \A i \in 1..Len(g) : g[i].whole => i \in 1..Len(f) /\ g[i] = f[i]
             /\ \E m \in Nat : Sound(g, m) /\ (Len(g) = m + 1 => ~g[m + 1].whole)
  <2>1. k \in 0..Len(f) BY <1>1
  <2>2. g \in Seq(E!Chunk(R)) /\ Len(g) = k /\ \A i \in 1..k : g[i] = f[i] BY <1>2, <2>1, CutFacts
  <2>3. \E m \in Nat : Sound(g, m) /\ (Len(g) = m + 1 => ~g[m + 1].whole)
    <3>1. CASE k = n + 1 /\ ~f[k].whole
      <4>1. Sound(g, n) /\ ~g[n + 1].whole BY <1>1, <2>1, <2>2, <3>1 DEF Sound
      <4> QED BY <4>1
    <3>2. CASE ~(k = n + 1 /\ ~f[k].whole)
      <4>1. Sound(g, k) BY <1>1, <2>1, <2>2, <3>2 DEF Sound
      <4>2. Len(g) # k + 1 BY <2>1, <2>2
      <4> QED BY <2>1, <4>1, <4>2
    <3> QED BY <3>1, <3>2
  <2> QED BY <1>1, <2>1, <2>2, <2>3
<1>3. ASSUME NEW k \in s..(Len(f) - 1), g = Append(E!CutTo(f, k), E!TornChunk(f[k + 1].rec))
      PROVE  /\ g \in Seq(E!Chunk(R)) /\ s <= Len(g) /\ \A i \in 1..s : g[i] = f[i]
             /\ \A i \in 1..Len(g) : g[i].whole => i \in 1..Len(f) /\ g[i] = f[i]
             /\ \E m \in Nat : Sound(g, m) /\ (Len(g) = m + 1 => ~g[m + 1].whole)
  <2>1. k \in 0..Len(f) /\ k + 1 \in 1..Len(f) /\ k \in Nat BY <1>1
  <2>2. E!CutTo(f, k) \in Seq(E!Chunk(R)) /\ Len(E!CutTo(f, k)) = k /\ \A i \in 1..k : E!CutTo(f, k)[i] = f[i]
    BY <2>1, CutFacts
  <2>3. E!TornChunk(f[k + 1].rec) \in E!Chunk(R) /\ ~E!TornChunk(f[k + 1].rec).whole
    <3>1. f[k + 1] \in E!Chunk(R) BY <2>1
    <3> QED BY <3>1, ChunkFacts
  <2>4. /\ g \in Seq(E!Chunk(R)) /\ Len(g) = k + 1
        /\ \A i \in 1..k : g[i] = f[i]
        /\ g[k + 1] = E!TornChunk(f[k + 1].rec)
    BY <1>3, <2>2, <2>3, AppendProperties
  <2>5. Sound(g, k)
    <3>1. k <= n BY <1>1, <2>1 DEF Sound
    <3>2. \A i \in 1..k : g[i].whole BY <1>1, <2>1, <2>4, <3>1 DEF Sound
    <3> QED BY <2>1, <2>4, <3>2 DEF Sound
  <2>6. \A i \in 1..Len(g) : g[i].whole => i \in 1..Len(f) /\ g[i] = f[i]
    <3>1. \A i \in 1..Len(g) : g[i].whole => i \in 1..k BY <2>1, <2>3, <2>4
    <3>2. 1..k \subseteq 1..Len(f) BY <1>1, <2>1
    <3> QED BY <2>4, <3>1, <3>2
  <2> QED BY <1>1, <2>1, <2>3, <2>4, <2>5, <2>6
<1>4. \/ \E k \in s..Len(f) : g = E!CutTo(f, k)
      \/ \E k \in s..(Len(f) - 1) : g = Append(E!CutTo(f, k), E!TornChunk(f[k + 1].rec))
  BY DEF E!AfterPowerLoss
<1> QED BY <1>2, <1>3, <1>4

----------------------------------------------------------------------------
(* The invariant: the file holds the log, and at most one chunk after it,  *)
(* which the write under way or a cut not yet made accounts for.           *)

Typed ==
  /\ file \in Seq(E!Chunk(Event)) /\ synced \in 0..Len(file)
  /\ queue \in Seq(Event) /\ log \in Seq(Event)
  /\ pc \in {"settled", "undone", "ready", "opened", "written", "cutting"}
  /\ pc # "settled" => queue # <<>>
  /\ ready \in BOOLEAN /\ start \in Nat
  /\ told \in [Event -> {"nothing", "pending", "recorded", "failed"}]
  /\ faults \in 0..MaxIOErrors /\ crashes \in 0..MaxStops

HoldsLog ==
  /\ Sound(file, Len(log))
  /\ \A i \in 1..Len(log) : file[i] = E!WholeChunk(log[i])

\* Positions remembered are the end of the log.
AtEnd ==
  /\ undo = Null \/ (undo = Len(log) /\ ready)
  /\ pc # "settled" => undo = Null
  /\ pc \notin {"settled", "undone"} => ready
  /\ pc \in {"opened", "written", "cutting"} => start = Len(log)

\* What is after the log.
Leftover ==
  /\ ready /\ undo = Null /\ pc \notin {"written", "cutting"} => Len(file) = Len(log)
  /\ pc = "written" => Len(file) = Len(log) + 1 /\ file[Len(file)] = E!WholeChunk(Head(queue))
  /\ ~ready /\ Len(file) = Len(log) + 1 => ~file[Len(file)].whole

\* A synced record is on stable storage.
OnStableStorage ==
  \A e \in Expensive : told[e] = "recorded" =>
    \E i \in 1..Len(log) : i <= synced /\ log[i] = e

LogInv == Typed /\ HoldsLog /\ AtEnd /\ Leftover /\ OnStableStorage

LEMMA LogInvMeans == E!LogAssumption /\ LogInv => E!TypeOK /\ E!LogKept
<1> SUFFICES ASSUME E!LogAssumption, LogInv PROVE E!TypeOK /\ E!LogKept OBVIOUS
<1>0. Len(log) \in Nat /\ Len(file) \in Nat /\ Len(log) <= Len(file) BY DEF LogInv, Typed, HoldsLog, Sound
<1>1. E!TypeOK BY <1>0 DEF LogInv, Typed, AtEnd, E!TypeOK, E!Positions
<1>2. E!Parses(file) /\ Len(log) <= E!RetainedLength(file) /\ E!RetainedLength(file) \in Nat
      /\ E!RetainedLength(file) <= Len(file)
  BY <1>0, SoundParses DEF LogInv, Typed, HoldsLog
<1>3. ASSUME pc = "settled", undo = Null PROVE E!Records(file) = log
  <2>1. Len(file) = Len(log) + 1 => ~file[Len(log) + 1].whole BY <1>0, <1>3 DEF LogInv, Typed, Leftover
  <2>2. E!RetainedLength(file) = Len(log) BY <1>0, <2>1, SoundParses DEF LogInv, Typed, HoldsLog
  <2>3. \A i \in 1..Len(log) : file[i].rec = log[i]
    <3>1. \A i \in 1..Len(log) : log[i] \in Event BY <1>0 DEF LogInv, Typed
    <3> QED BY <3>1, ChunkFacts DEF LogInv, HoldsLog
  <2>4. log = [i \in 1..Len(log) |-> log[i]] BY DEF LogInv, Typed
  <2> QED BY <2>2, <2>3, <2>4 DEF E!Records
<1>4. ASSUME NEW e \in Expensive, told[e] = "recorded"
      PROVE  \E i \in 1..E!RetainedLength(file) : file[i] = E!WholeChunk(e)
  <2>1. PICK i \in 1..Len(log) : log[i] = e BY <1>4 DEF LogInv, OnStableStorage
  <2>2. i \in 1..E!RetainedLength(file) /\ file[i] = E!WholeChunk(e) BY <1>0, <1>2, <2>1 DEF LogInv, HoldsLog
  <2> QED BY <2>2
<1>5. \A i \in 1..Len(log) : file[i] = E!WholeChunk(log[i]) BY DEF LogInv, HoldsLog
<1> QED BY <1>1, <1>2, <1>3, <1>4, <1>5 DEF E!LogKept

LEMMA InitLogInv == E!LogAssumption /\ E!Init => LogInv
<1> SUFFICES ASSUME E!LogAssumption, E!Init PROVE LogInv OBVIOUS
<1>1. <<>> \in Seq(Event) /\ <<>> \in Seq(E!Chunk(Event)) /\ Len(<<>>) = 0 OBVIOUS
<1>2. Typed
  <2>1. file \in Seq(E!Chunk(Event)) /\ synced \in 0..Len(file) BY <1>1 DEF E!Init
  <2>2. queue \in Seq(Event) /\ log \in Seq(Event) BY <1>1 DEF E!Init
  <2>3. pc = "settled" /\ ready = FALSE /\ start = 0 BY DEF E!Init
  <2>4. told \in [Event -> {"nothing", "pending", "recorded", "failed"}] BY DEF E!Init
  <2>5. faults \in 0..MaxIOErrors /\ crashes \in 0..MaxStops BY DEF E!Init, E!LogAssumption
  <2> QED BY <2>1, <2>2, <2>3, <2>4, <2>5 DEF Typed
<1>3. HoldsLog /\ AtEnd BY <1>1 DEF E!Init, HoldsLog, Sound, AtEnd
<1>4. Leftover BY <1>1 DEF E!Init, Leftover
<1>5. OnStableStorage BY DEF E!Init, OnStableStorage, E!LogAssumption
<1> QED BY <1>2, <1>3, <1>4, <1>5 DEF LogInv

----------------------------------------------------------------------------
(* The steps.                                                              *)

\* The file is cut back to the end of the log.
LEMMA CutToLog ==
  ASSUME LogInv, E!TruncateTo(Len(log))
  PROVE  /\ file' \in Seq(E!Chunk(Event)) /\ synced' \in 0..Len(file') /\ Len(file') = Len(log)
         /\ Sound(file', Len(log)) /\ \A i \in 1..Len(log) : file'[i] = E!WholeChunk(log[i])
         /\ \A i \in 1..Len(log) : i <= synced => i <= synced'
<1>1. Len(log) \in Nat /\ Len(file) \in Nat /\ Len(log) \in 0..Len(file) /\ synced \in 0..Len(file)
  BY DEF LogInv, Typed, HoldsLog, Sound
<1>2. file' = E!CutTo(file, Len(log)) /\ synced' = (IF Len(log) < synced THEN Len(log) ELSE synced)
  BY DEF E!TruncateTo
<1>3. /\ file' \in Seq(E!Chunk(Event)) /\ Len(file') = Len(log)
      /\ \A i \in 1..Len(log) : file'[i] = file[i]
  BY <1>1, <1>2, CutFacts DEF LogInv, Typed
<1> QED BY <1>1, <1>2, <1>3 DEF LogInv, HoldsLog, Sound

\* The head's caller is told that its event failed.
LEMMA SettleFailed ==
  ASSUME Typed, queue # <<>>, E!Settle("failed")
  PROVE  /\ pc' = "settled" /\ queue' \in Seq(Event) /\ log' = log
         /\ told' \in [Event -> {"nothing", "pending", "recorded", "failed"}]
         /\ \A e \in Event : told'[e] = "recorded" => told[e] = "recorded"
<1>1. Head(queue) \in Event /\ Tail(queue) \in Seq(Event) BY HeadTailProperties DEF Typed
<1> QED BY <1>1 DEF E!Settle, Typed

LEMMA AppendStep == ASSUME E!LogAssumption, LogInv, NEW e \in Event, E!AppendEvent(e) PROVE LogInv'
<1>1. queue' \in Seq(Event) /\ queue' # <<>> BY AppendProperties DEF E!AppendEvent, LogInv, Typed
<1>2. pc = "written" => Head(queue') = Head(queue)
  BY HeadTailAppend, AppendProperties DEF E!AppendEvent, LogInv, Typed
<1>3. Typed' BY <1>1 DEF E!AppendEvent, LogInv, Typed
<1>4. OnStableStorage' BY DEF E!AppendEvent, LogInv, Typed, OnStableStorage, E!LogAssumption
<1> QED BY <1>2, <1>3, <1>4 DEF E!AppendEvent, LogInv, HoldsLog, AtEnd, Leftover

LEMMA UndoStep == ASSUME E!LogAssumption, LogInv, E!Undo PROVE LogInv'
<1>0. queue # <<>> /\ pc = "settled" BY DEF E!Undo
<1>1. CASE undo = Null
  BY <1>0, <1>1 DEF E!Undo, E!Continue, LogInv, Typed, HoldsLog, AtEnd, Leftover, OnStableStorage
<1>2. CASE undo # Null /\ E!TruncateTo(undo) /\ undo' = Null /\ E!Continue("undone") /\ UNCHANGED faults
  <2>1. undo = Len(log) BY <1>2 DEF LogInv, AtEnd
  <2>2. UNCHANGED <<queue, told, log, start, ready, crashes, faults>> /\ pc' = "undone" /\ undo' = Null
    BY <1>2 DEF E!Undo, E!Continue
  <2>3. E!TruncateTo(Len(log)) BY <1>2, <2>1
  <2> QED BY <1>0, <2>2, <2>3, CutToLog DEF LogInv, Typed, HoldsLog, AtEnd, Leftover, OnStableStorage
<1>3. CASE undo # Null /\ E!Fault /\ E!Settle("failed") /\ UNCHANGED <<file, synced, undo>>
  <2>1. UNCHANGED <<file, synced, undo, start, ready, crashes>> BY <1>3 DEF E!Undo
  <2>2. faults' \in 0..MaxIOErrors BY <1>3 DEF E!Fault, LogInv, Typed, E!LogAssumption
  <2> QED BY <1>0, <1>3, <2>1, <2>2, SettleFailed
      DEF LogInv, Typed, HoldsLog, AtEnd, Leftover, OnStableStorage, E!LogAssumption
<1> QED BY <1>1, <1>2, <1>3 DEF E!Undo

\* An append that wrote nothing settles as failed.
LEMMA FailStep ==
  ASSUME E!LogAssumption, LogInv, pc \in {"undone", "ready"}, queue # <<>>, E!Fault, E!Settle("failed"),
         UNCHANGED <<file, synced, start, ready, undo, crashes>>
  PROVE  LogInv'
<1>1. faults' \in 0..MaxIOErrors BY DEF E!Fault, LogInv, Typed, E!LogAssumption
<1> QED BY <1>1, SettleFailed
    DEF LogInv, Typed, HoldsLog, AtEnd, Leftover, OnStableStorage, E!LogAssumption

LEMMA MakeReadyStep == ASSUME E!LogAssumption, LogInv, E!MakeReady PROVE LogInv'
<1>0. queue # <<>> /\ pc = "undone" BY DEF E!MakeReady, LogInv, Typed
<1>1. CASE ready
  BY <1>0, <1>1 DEF E!MakeReady, E!Continue, LogInv, Typed, HoldsLog, AtEnd, Leftover, OnStableStorage
<1>2. CASE ~ready /\ E!TruncateTo(E!RetainedLength(file)) /\ ready' = TRUE /\ E!Continue("ready") /\ UNCHANGED faults
  <2>0. Len(log) \in Nat /\ Len(file) \in Nat BY DEF LogInv, Typed
  <2>1. Len(file) = Len(log) + 1 => ~file[Len(log) + 1].whole BY <2>0, <1>2 DEF LogInv, Leftover
  <2>2. E!RetainedLength(file) = Len(log) BY <2>0, <2>1, SoundParses DEF LogInv, Typed, HoldsLog
  <2>3. UNCHANGED <<queue, told, log, start, undo, crashes, faults>> /\ pc' = "ready" /\ ready' = TRUE
    BY <1>2 DEF E!MakeReady, E!Continue
  <2>4. E!TruncateTo(Len(log)) BY <1>2, <2>2
  <2> QED BY <1>0, <2>3, <2>4, CutToLog DEF LogInv, Typed, HoldsLog, AtEnd, Leftover, OnStableStorage
<1>3. CASE E!Fault /\ E!Settle("failed") /\ UNCHANGED <<file, synced, ready>>
  BY <1>0, <1>3, FailStep DEF E!MakeReady
<1> QED BY <1>1, <1>2, <1>3 DEF E!MakeReady

LEMMA OpenStep == ASSUME E!LogAssumption, LogInv, E!Open PROVE LogInv'
<1>0. queue # <<>> /\ pc = "ready" BY DEF E!Open, LogInv, Typed
<1>1. CASE start' = Len(file) /\ E!Continue("opened") /\ UNCHANGED faults
  <2>1. start' = Len(log) /\ start' \in Nat BY <1>0, <1>1 DEF LogInv, Typed, AtEnd, Leftover
  <2> QED BY <1>0, <1>1, <2>1 DEF E!Open, E!Continue, LogInv, Typed, HoldsLog, AtEnd, Leftover, OnStableStorage
<1>2. CASE E!Fault /\ E!Settle("failed") /\ UNCHANGED start
  BY <1>0, <1>2, FailStep DEF E!Open
<1> QED BY <1>1, <1>2 DEF E!Open

\* One chunk more, whole or torn.
LEMMA OneMore ==
  ASSUME LogInv, Len(file) = Len(log), NEW c \in E!Chunk(Event), file' = Append(file, c),
         UNCHANGED <<synced, log>>
  PROVE  /\ file' \in Seq(E!Chunk(Event)) /\ synced' \in 0..Len(file')
         /\ Len(file') = Len(log) + 1 /\ file'[Len(file')] = c
         /\ HoldsLog'
<1>1. Len(log) \in Nat BY DEF LogInv, Typed
<1>2. /\ file' \in Seq(E!Chunk(Event)) /\ Len(file') = Len(file) + 1
      /\ \A i \in 1..Len(file) : file'[i] = file[i]
      /\ file'[Len(file) + 1] = c
  BY AppendProperties DEF LogInv, Typed
<1> QED BY <1>1, <1>2 DEF LogInv, Typed, HoldsLog, Sound

LEMMA WriteStep == ASSUME E!LogAssumption, LogInv, E!Write PROVE LogInv'
<1>0. queue # <<>> /\ pc = "opened" /\ ready /\ undo = Null /\ Len(file) = Len(log) /\ Head(queue) \in Event
  <2>1. queue # <<>> /\ pc = "opened" /\ ready /\ undo = Null BY DEF E!Write, LogInv, Typed, AtEnd
  <2>2. Head(queue) \in Event BY <2>1, HeadTailProperties DEF LogInv, Typed
  <2> QED BY <2>1, <2>2 DEF LogInv, Leftover
<1>1. UNCHANGED <<synced, start, ready, undo, crashes, queue, told, log>>
  BY DEF E!Write, E!Continue
<1>2. CASE file' = Append(file, E!WholeChunk(Head(queue))) /\ E!Continue("written") /\ UNCHANGED faults
  <2>1. E!WholeChunk(Head(queue)) \in E!Chunk(Event) BY <1>0, ChunkFacts
  <2>2. pc' = "written" BY <1>2 DEF E!Continue
  <2> QED BY <1>0, <1>1, <1>2, <2>1, <2>2, OneMore DEF LogInv, Typed, AtEnd, Leftover, OnStableStorage
<1>3. CASE E!Fault /\ file' \in {file, Append(file, E!TornChunk(Head(queue)))} /\ E!Continue("cutting")
  <2>1. E!TornChunk(Head(queue)) \in E!Chunk(Event) BY <1>0, ChunkFacts
  <2>2. pc' = "cutting" /\ faults' \in 0..MaxIOErrors BY <1>3 DEF E!Continue, E!Fault, LogInv, Typed, E!LogAssumption
  <2>3. CASE file' = file
    BY <1>0, <1>1, <2>2, <2>3 DEF LogInv, Typed, HoldsLog, AtEnd, Leftover, OnStableStorage
  <2>4. CASE file' = Append(file, E!TornChunk(Head(queue)))
    BY <1>0, <1>1, <2>1, <2>2, <2>4, OneMore DEF LogInv, Typed, AtEnd, Leftover, OnStableStorage
  <2> QED BY <1>3, <2>3, <2>4
<1> QED BY <1>2, <1>3 DEF E!Write

LEMMA SyncStep == ASSUME E!LogAssumption, LogInv, E!Sync PROVE LogInv'
<1> DEFINE e == Head(queue)
<1>0. queue # <<>> /\ pc = "written" /\ e \in Event /\ Tail(queue) \in Seq(Event)
  <2>1. queue # <<>> /\ pc = "written" BY DEF E!Sync, LogInv, Typed
  <2> QED BY <2>1, HeadTailProperties DEF LogInv, Typed
<1>1. UNCHANGED <<file, start, ready, undo, crashes>> BY DEF E!Sync
<1>2. CASE /\ synced' = (IF e \in Expensive THEN Len(file) ELSE synced)
           /\ E!Settle("recorded") /\ UNCHANGED faults
  <2>1. /\ pc' = "settled" /\ queue' = Tail(queue) /\ log' = Append(log, e)
        /\ told' = [told EXCEPT ![e] = "recorded"]
    BY <1>2 DEF E!Settle
  <2>2. /\ log' \in Seq(Event) /\ Len(log') = Len(log) + 1 /\ log'[Len(log) + 1] = e
        /\ \A i \in 1..Len(log) : log'[i] = log[i]
    BY <1>0, <2>1, AppendProperties DEF LogInv, Typed
  <2>3. Len(log) \in Nat /\ Len(file) = Len(log) + 1 /\ file[Len(log) + 1] = E!WholeChunk(e)
    BY <1>0 DEF LogInv, Typed, Leftover
  <2>4. HoldsLog'
    <3>1. \A i \in 1..Len(log') : file'[i] = E!WholeChunk(log'[i]) BY <1>1, <2>2, <2>3 DEF LogInv, HoldsLog
    <3>2. \A i \in 1..Len(log') : log'[i] \in Event BY <2>2, <2>3
    <3>3. \A i \in 1..Len(log') : file'[i].whole
      <4> SUFFICES ASSUME NEW i \in 1..Len(log') PROVE file'[i].whole OBVIOUS
      <4>1. log'[i] \in Event /\ file'[i] = E!WholeChunk(log'[i]) BY <3>1, <3>2
      <4> QED BY <4>1, ChunkFacts
    <3>4. Len(log') <= Len(file') /\ Len(file') <= Len(log') + 1
      <4>1. Len(file') = Len(log') BY <1>1, <2>2, <2>3
      <4> QED BY <2>2, <2>3, <4>1
    <3> QED BY <3>1, <3>3, <3>4 DEF HoldsLog, Sound
  <2>5. synced' \in 0..Len(file') /\ synced <= synced'
    BY <1>1, <1>2, <2>3 DEF LogInv, Typed
  <2>6. Typed' BY <1>0, <1>1, <1>2, <2>1, <2>2, <2>5 DEF LogInv, Typed
  <2>7. AtEnd' /\ Leftover'
    BY <1>0, <1>1, <2>1, <2>2, <2>3 DEF LogInv, Typed, AtEnd, Leftover
  <2>8. OnStableStorage'
    <3> SUFFICES ASSUME NEW x \in Expensive, told'[x] = "recorded"
                 PROVE  \E i \in 1..Len(log') : i <= synced' /\ log'[i] = x
      BY DEF OnStableStorage
    <3>1. CASE x = e
      <4>1. synced' = Len(log) + 1 /\ Len(log) + 1 \in 1..Len(log') BY <1>2, <2>2, <2>3, <3>1
      <4> QED BY <2>2, <2>3, <3>1, <4>1
    <3>2. CASE x # e
      <4>1. told[x] = "recorded" BY <2>1, <3>2 DEF LogInv, Typed, E!LogAssumption
      <4>2. PICK i \in 1..Len(log) : i <= synced /\ log[i] = x BY <4>1 DEF LogInv, OnStableStorage
      <4>3. i \in 1..Len(log') /\ i <= synced' BY <2>2, <2>3, <2>5, <4>2 DEF LogInv, Typed
      <4> QED BY <2>2, <4>2, <4>3
    <3> QED BY <3>1, <3>2
  <2> QED BY <2>4, <2>6, <2>7, <2>8 DEF LogInv
<1>3. CASE E!Fault /\ E!Continue("cutting") /\ UNCHANGED synced
  <2>1. faults' \in 0..MaxIOErrors /\ pc' = "cutting" /\ UNCHANGED <<queue, told, log>>
    BY <1>3 DEF E!Fault, E!Continue, LogInv, Typed, E!LogAssumption
  <2> QED BY <1>0, <1>1, <1>3, <2>1 DEF LogInv, Typed, HoldsLog, AtEnd, Leftover, OnStableStorage
<1> QED BY <1>2, <1>3 DEF E!Sync

LEMMA CutStep == ASSUME E!LogAssumption, LogInv, E!Cut PROVE LogInv'
<1>0. queue # <<>> /\ pc = "cutting" /\ start = Len(log) /\ undo = Null /\ ready
  BY DEF E!Cut, LogInv, Typed, AtEnd
<1>1. E!Settle("failed") /\ UNCHANGED <<start, ready, crashes>> BY DEF E!Cut
<1>2. CASE E!TruncateTo(start) /\ UNCHANGED <<undo, faults>>
  <2>1. E!TruncateTo(Len(log)) BY <1>0, <1>2
  <2> QED BY <1>0, <1>1, <1>2, <2>1, CutToLog, SettleFailed
      DEF LogInv, Typed, HoldsLog, AtEnd, Leftover, OnStableStorage, E!LogAssumption
<1>3. CASE E!Fault /\ undo' = start /\ UNCHANGED <<file, synced>>
  <2>1. faults' \in 0..MaxIOErrors BY <1>3 DEF E!Fault, LogInv, Typed, E!LogAssumption
  <2>2. undo' = Len(log) /\ undo' # Null BY <1>0, <1>3 DEF LogInv, Typed, E!LogAssumption
  <2> QED BY <1>0, <1>1, <1>3, <2>1, <2>2, SettleFailed
      DEF LogInv, Typed, HoldsLog, AtEnd, Leftover, OnStableStorage, E!LogAssumption
<1> QED BY <1>2, <1>3 DEF E!Cut

\* What was synced is among the records that are read back.
LEMMA CrashStep == ASSUME E!LogAssumption, LogInv, E!Crash PROVE LogInv'
<1>0. Len(log) \in Nat /\ Len(file) \in Nat /\ synced \in 0..Len(file) /\ Sound(file, Len(log))
  BY DEF LogInv, Typed, HoldsLog
<1>1. PICK g : g = file' OBVIOUS
<1>2. g \in E!AfterPowerLoss(file, synced) BY <1>1 DEF E!Crash
<1>3. /\ g \in Seq(E!Chunk(Event)) /\ synced <= Len(g) /\ \A i \in 1..synced : g[i] = file[i]
      /\ \E m \in Nat : Sound(g, m) /\ (Len(g) = m + 1 => ~g[m + 1].whole)
  BY <1>0, <1>2, PowerLoss DEF LogInv, Typed
<1>4. PICK m \in Nat : Sound(g, m) /\ (Len(g) = m + 1 => ~g[m + 1].whole) BY <1>3
<1>5. E!Parses(g) /\ E!RetainedLength(g) = m /\ m <= Len(g) BY <1>3, <1>4, SoundParses
<1>6. /\ E!Records(g) \in Seq(Event) /\ Len(E!Records(g)) = m
      /\ \A i \in 1..m : g[i] = E!WholeChunk(E!Records(g)[i])
  BY <1>3, <1>5, RecordsFacts
<1>7. PICK rs : rs = E!Records(g) OBVIOUS
<1>8. /\ log' = rs /\ file' = g /\ synced' = Len(g) /\ queue' = <<>> /\ pc' = "settled" /\ start' = 0
      /\ ready' = FALSE /\ undo' = Null /\ faults' = faults /\ crashes' = crashes + 1
      /\ crashes < MaxStops
  BY <1>1, <1>7 DEF E!Crash
<1>9. /\ told' \in [Event -> {"nothing", "pending", "recorded", "failed"}]
      /\ \A e \in Event : told'[e] = "recorded" =>
           (told[e] = "recorded" /\ e \in Expensive) \/ \E i \in DOMAIN rs : rs[i] = e
  <2>1. told' = [e \in Event |->
         CASE told[e] = "recorded" /\ e \in Expensive -> "recorded"
           [] \E i \in DOMAIN rs : rs[i] = e -> "recorded"
           [] OTHER -> "nothing"]
    BY <1>1, <1>7, Zenon DEF E!Crash
  <2>2. told' = [e \in Event |->
         IF (told[e] = "recorded" /\ e \in Expensive) \/ (\E i \in DOMAIN rs : rs[i] = e)
         THEN "recorded" ELSE "nothing"]
    BY <2>1
  <2> QED BY <2>2
<1>10. Typed'
  <2>1. file' \in Seq(E!Chunk(Event)) /\ synced' \in 0..Len(file') BY <1>3, <1>8
  <2>2. queue' \in Seq(Event) /\ log' \in Seq(Event) BY <1>6, <1>7, <1>8
  <2>3. faults' \in 0..MaxIOErrors /\ crashes' \in 0..MaxStops BY <1>8 DEF LogInv, Typed, E!LogAssumption
  <2> QED BY <1>8, <1>9, <2>1, <2>2, <2>3 DEF Typed
<1>11. HoldsLog' BY <1>4, <1>6, <1>7, <1>8 DEF HoldsLog
<1>12. AtEnd' /\ Leftover'
  <2>1. Len(file') = Len(log') + 1 => ~file'[Len(file')].whole BY <1>4, <1>6, <1>7, <1>8
  <2> QED BY <1>8, <2>1 DEF AtEnd, Leftover
<1>13. OnStableStorage'
  <2> SUFFICES ASSUME NEW e \in Expensive, told'[e] = "recorded"
               PROVE  \E i \in 1..Len(log') : i <= synced' /\ log'[i] = e
    BY DEF OnStableStorage
  <2>1. e \in Event BY DEF E!LogAssumption
  <2>2. \A i \in 1..m : i <= synced' BY <1>5, <1>8, <1>3
  <2>3. CASE \E i \in DOMAIN rs : rs[i] = e
    BY <1>6, <1>7, <1>8, <2>2, <2>3
  <2>4. CASE told[e] = "recorded"
    <3>1. PICK i \in 1..Len(log) : i <= synced /\ log[i] = e BY <2>4 DEF LogInv, OnStableStorage
    <3>2. file[i] = E!WholeChunk(e) /\ g[i] = E!WholeChunk(e) /\ i \in 1..Len(g)
      BY <1>0, <1>3, <3>1 DEF LogInv, HoldsLog
    <3>3. i \in 1..m
      <4>1. g[i].whole BY <2>1, <3>2, ChunkFacts
      <4> QED BY <1>3, <1>4, <3>2, <4>1 DEF Sound
    <3>4. rs[i] = e
      <4>1. rs[i] \in Event /\ g[i] = E!WholeChunk(rs[i]) BY <1>6, <1>7, <3>3
      <4> QED BY <2>1, <3>2, <4>1, ChunkFacts
    <3> QED BY <1>6, <1>7, <1>8, <2>2, <3>3, <3>4
  <2> QED BY <1>9, <2>1, <2>3, <2>4
<1> QED BY <1>10, <1>11, <1>12, <1>13 DEF LogInv

LEMMA StepLogInv == E!LogAssumption /\ LogInv /\ [E!Next]_E!vars => LogInv'
<1> SUFFICES ASSUME E!LogAssumption, LogInv, [E!Next]_E!vars PROVE LogInv' OBVIOUS
<1>1. CASE UNCHANGED E!vars
  BY <1>1 DEF E!vars, LogInv, Typed, HoldsLog, AtEnd, Leftover, OnStableStorage
<1> QED BY <1>1, AppendStep, UndoStep, MakeReadyStep, OpenStep, WriteStep, SyncStep, CutStep, CrashStep DEF E!Next

\* RunStore.appendEvent and its recovery (run-store.ts): what is acknowledged is in
\* the file, in order and readable, what is reported failed left nothing once the
\* cuts are made, and an expensive event outlives every crash.
THEOREM TheLogIsKept == E!LogAssumption => (E!Spec => [](E!TypeOK /\ E!LogKept))
<1> SUFFICES ASSUME E!LogAssumption PROVE E!Spec => [](E!TypeOK /\ E!LogKept) OBVIOUS
<1> QED BY InitLogInv, StepLogInv, LogInvMeans, PTL DEF E!Spec

----------------------------------------------------------------------------
(* The activity journal, as long as every cut is made and no append fails  *)
(* beside another one.                                                     *)

Sending == {"opened", "written", "cutting"}

JournalTyped ==
  /\ file \in Seq(E!Chunk(Record)) /\ synced \in 0..Len(file) /\ loaded \in BOOLEAN
  /\ pc \in [Record -> {"new", "opened", "written", "cutting", "acked", "failed"}]
  /\ start \in [Record -> Nat]

\* Appends are under way in a process that has loaded the journal, from a place
\* inside the file; one that cuts is alone with what it wrote.
UnderWayFrom ==
  /\ ~loaded => \A r \in Record : pc[r] \in {"new", "acked"}
  /\ \A r \in Record : pc[r] \in Sending => start[r] <= Len(file)
  /\ \A r \in Record : pc[r] = "cutting" =>
       /\ \A q \in Record : pc[q] \in Sending => q = r
       /\ Len(file) <= start[r] + 1
       /\ Len(file) = start[r] + 1 => file[Len(file)].rec = r

\* Only the last chunk may be torn, by a crash or by the append that cuts it.
TornAtEnd ==
  /\ \A i \in 1..Len(file) : i < Len(file) => file[i].whole
  /\ \A i \in 1..Len(file) : ~file[i].whole => ~loaded \/ \E r \in Record : pc[r] = "cutting" /\ start[r] < i

\* Where the record of each append is and where it is not.
Absent ==
  \A r \in Record : \A i \in 1..Len(file) :
    pc[r] \in {"new", "opened", "failed"} \/ (pc[r] \in Sending /\ i <= start[r]) => file[i] # E!WholeChunk(r)

Present ==
  \A r \in Record :
    /\ pc[r] = "written" => \E i \in 1..Len(file) : file[i] = E!WholeChunk(r)
    /\ pc[r] = "acked" => \E i \in 1..Len(file) : file[i] = E!WholeChunk(r) /\ (r \in Synced => i <= synced)

RecordedOnce ==
  \A r \in Record : \A i, j \in 1..Len(file) : file[i] = E!WholeChunk(r) /\ file[j] = E!WholeChunk(r) => i = j

JInv == uncut = {} => JournalTyped /\ UnderWayFrom /\ TornAtEnd /\ Absent /\ Present /\ RecordedOnce

\* Every chunk but the last whole: the file is sound.
LEMMA TornAtEndIsSound ==
  ASSUME JournalTyped, TornAtEnd
  PROVE  \E n \in Nat : Sound(file, n) /\ (Len(file) = n + 1 => ~file[n + 1].whole)
<1>1. Len(file) \in Nat /\ \A i \in 1..Len(file) : file[i].whole \in BOOLEAN
  BY ChunkFacts DEF JournalTyped
<1>2. CASE Len(file) > 0 /\ ~file[Len(file)].whole
  <2>1. Len(file) - 1 \in Nat /\ Len(file) - 1 + 1 = Len(file) BY <1>1, <1>2
  <2>2. Sound(file, Len(file) - 1) BY <1>1, <1>2, <2>1 DEF TornAtEnd, Sound
  <2> QED BY <1>2, <2>1, <2>2
<1>3. CASE ~(Len(file) > 0 /\ ~file[Len(file)].whole)
  <2>1. Sound(file, Len(file)) BY <1>1, <1>3 DEF TornAtEnd, Sound
  <2> QED BY <1>1, <2>1
<1> QED BY <1>2, <1>3

LEMMA JInvMeans == JInv => J!AckedKept
<1> SUFFICES ASSUME JInv, uncut = {} PROVE J!AckedKept BY DEF J!AckedKept
<1>0. JournalTyped /\ TornAtEnd /\ Absent /\ Present /\ RecordedOnce /\ Len(file) \in Nat BY DEF JInv, JournalTyped
<1>1. E!Parses(file) BY <1>0, TornAtEndIsSound, SoundParses DEF JournalTyped
<1>2. ASSUME NEW r \in Record, NEW i \in 1..Len(file), file[i] = E!WholeChunk(r) PROVE i \in J!Lines(r)
  <2>1. i > 1 => i - 1 \in 1..Len(file) /\ i - 1 < Len(file) BY <1>0
  <2>2. i \in DOMAIN file BY <1>0 DEF JournalTyped
  <2> QED BY <1>0, <1>2, <2>1, <2>2 DEF TornAtEnd, J!Lines, J!WholeChunk, E!WholeChunk
<1>3. \A r \in Record : \A i \in J!Lines(r) : i \in 1..Len(file) /\ file[i] = E!WholeChunk(r)
  BY <1>0 DEF JournalTyped, J!Lines, J!WholeChunk, E!WholeChunk
<1>4. ASSUME NEW r \in Record
      PROVE  /\ pc[r] = "acked" => J!Lines(r) # {}
             /\ pc[r] = "failed" => J!Lines(r) = {}
  BY <1>0, <1>2, <1>3 DEF Absent, Present
<1>5. ASSUME NEW r \in Record PROVE Cardinality(J!Lines(r)) <= 1
  <2>1. CASE J!Lines(r) = {} BY <2>1, FS_EmptySet
  <2>2. CASE J!Lines(r) # {}
    <3>1. PICK i : i \in J!Lines(r) BY <2>2
    <3>2. J!Lines(r) = {i} BY <1>0, <1>3, <3>1 DEF RecordedOnce
    <3>3. Cardinality({i}) = 1 BY FS_Singleton, Zenon
    <3> QED BY <3>2, <3>3
  <2> QED BY <2>1, <2>2
<1>6. \A S : J!Cardinality(S) = Cardinality(S) BY DEF J!Cardinality, Cardinality, J!IsFiniteSet, IsFiniteSet
<1> QED BY <1>1, <1>4, <1>5, <1>6 DEF J!AckedKept, J!Parses, E!Parses, J!RetainedLength, E!RetainedLength

LEMMA SameFile ==
  /\ \A r : J!WholeChunk(r) = E!WholeChunk(r) /\ J!TornChunk(r) = E!TornChunk(r)
  /\ \A f : \A n : J!CutTo(f, n) = E!CutTo(f, n)
  /\ \A f : J!RetainedLength(f) = E!RetainedLength(f) /\ J!Records(f) = E!Records(f)
  /\ \A f : \A s : J!AfterPowerLoss(f, s) = E!AfterPowerLoss(f, s)
BY DEF J!WholeChunk, E!WholeChunk, J!TornChunk, E!TornChunk, J!CutTo, E!CutTo, J!RetainedLength, E!RetainedLength,
       J!Records, E!Records, J!AfterPowerLoss, E!AfterPowerLoss

LEMMA JInit == J!Init => JInv
<1> SUFFICES ASSUME J!Init PROVE JInv OBVIOUS
<1>1. file = <<>> /\ Len(file) = 0 /\ file \in Seq(E!Chunk(Record)) /\ synced = 0 /\ loaded = FALSE BY DEF J!Init
<1>2. pc = [r \in Record |-> "new"] /\ start = [r \in Record |-> 0] BY DEF J!Init
<1>3. JournalTyped
  <2>1. pc \in [Record -> {"new", "opened", "written", "cutting", "acked", "failed"}] BY <1>2
  <2>2. start \in [Record -> Nat] BY <1>2
  <2>3. synced \in 0..Len(file) BY <1>1
  <2>4. loaded \in BOOLEAN BY <1>1
  <2> QED BY <1>1, <2>1, <2>2, <2>3, <2>4 DEF JournalTyped
<1>4. UnderWayFrom BY <1>2 DEF UnderWayFrom, Sending
<1>5. TornAtEnd /\ Absent /\ RecordedOnce BY <1>1 DEF TornAtEnd, Absent, RecordedOnce
<1>6. Present BY <1>2 DEF Present
<1> QED BY <1>3, <1>4, <1>5, <1>6 DEF JInv

\* A cut inside the file.
LEMMA JournalCut ==
  ASSUME JournalTyped, NEW n \in 0..Len(file), NEW r, J!TruncateTo(n, r)
  PROVE  /\ file' \in Seq(E!Chunk(Record)) /\ Len(file') = n /\ \A i \in 1..n : file'[i] = file[i]
         /\ synced' \in 0..n /\ \A i \in 1..n : i <= synced => i <= synced'
<1>1. Len(file) \in Nat /\ n <= Len(file) BY DEF JournalTyped
<1>2. file' = E!CutTo(file, n) BY <1>1, SameFile DEF J!TruncateTo, J!Truncated
<1>3. synced' = IF n < synced THEN n ELSE synced BY DEF J!TruncateTo
<1>4. E!CutTo(file, n) \in Seq(E!Chunk(Record)) /\ Len(E!CutTo(file, n)) = n
      /\ \A i \in 1..n : E!CutTo(file, n)[i] = file[i]
  BY CutFacts DEF JournalTyped
<1>5. synced' \in 0..n /\ \A i \in 1..n : i <= synced => i <= synced' BY <1>1, <1>3 DEF JournalTyped
<1> QED BY <1>2, <1>4, <1>5

LEMMA LoadStep == ASSUME JInv, uncut = {}, J!Load PROVE JInv'
<1>0. JournalTyped /\ UnderWayFrom /\ TornAtEnd /\ Absent /\ Present /\ RecordedOnce /\ Len(file) \in Nat
  BY DEF JInv, JournalTyped
<1>1. ~loaded /\ UNCHANGED <<pc, start, uncut>> BY DEF J!Load
<1>2. PICK n \in Nat : Sound(file, n) /\ (Len(file) = n + 1 => ~file[n + 1].whole) BY <1>0, TornAtEndIsSound
<1>3. E!RetainedLength(file) = n /\ n \in 0..Len(file) BY <1>0, <1>2, SoundParses DEF JournalTyped, Sound
<1>4. CASE J!TruncateTo(J!RetainedLength(file), CHOOSE r \in Record : TRUE) /\ loaded' = J!Parses(file)
  <2>1. PICK c : c = CHOOSE r \in Record : TRUE OBVIOUS
  <2>2. J!TruncateTo(n, c) BY <1>3, <1>4, <2>1, SameFile
  <2>3. /\ file' \in Seq(E!Chunk(Record)) /\ Len(file') = n /\ \A i \in 1..n : file'[i] = file[i]
        /\ synced' \in 0..n /\ \A i \in 1..n : i <= synced => i <= synced'
    BY <1>0, <1>3, <2>2, JournalCut
  <2>4. loaded' \in BOOLEAN BY <1>4 DEF J!Parses
  <2>5. JournalTyped' BY <1>0, <1>1, <2>3, <2>4 DEF JournalTyped
  <2>6. \A r \in Record : pc[r] \in {"new", "acked"} BY <1>0, <1>1 DEF UnderWayFrom
  <2>7. UnderWayFrom' BY <1>1, <2>6 DEF UnderWayFrom, Sending
  <2>8. \A i \in 1..n : i \in 1..Len(file) /\ file[i].whole BY <1>0, <1>2, <1>3 DEF Sound
  <2>9. TornAtEnd' BY <2>3, <2>8 DEF TornAtEnd
  <2>10. Absent' /\ RecordedOnce' BY <1>0, <1>1, <2>3, <2>8 DEF Absent, RecordedOnce
  <2>11. Present'
    <3>1. \A r \in Record : \A i \in 1..Len(file) : file[i] = E!WholeChunk(r) => i \in 1..n
      <4> SUFFICES ASSUME NEW r \in Record, NEW i \in 1..Len(file), file[i] = E!WholeChunk(r), i \notin 1..n
                   PROVE  FALSE
        OBVIOUS
      <4>1. i = n + 1 /\ Len(file) = n + 1 BY <1>0, <1>2 DEF Sound
      <4> QED BY <1>2, <4>1, ChunkFacts
    <3> QED BY <1>0, <1>1, <2>3, <2>6, <3>1 DEF Present
  <2> QED BY <2>5, <2>7, <2>9, <2>10, <2>11 DEF JInv
<1>5. CASE UNCHANGED <<file, synced, loaded>>
  BY <1>0, <1>1, <1>5 DEF JInv, JournalTyped, UnderWayFrom, TornAtEnd, Absent, Present, RecordedOnce
<1> QED BY <1>4, <1>5 DEF J!Load

LEMMA JOpenStep == ASSUME JInv, uncut = {}, ~FaultsOverlap, NEW r \in Record, J!Open(r) PROVE JInv'
<1>0. JournalTyped /\ UnderWayFrom /\ TornAtEnd /\ Absent /\ Present /\ RecordedOnce /\ Len(file) \in Nat
  BY DEF JInv, JournalTyped
<1>1. /\ loaded /\ pc[r] \in {"new", "failed"} /\ \A q \in Record : pc[q] # "cutting"
      /\ UNCHANGED <<file, synced, loaded, uncut>>
  BY DEF J!Open
<1>2. PICK step \in {"opened", "failed"} : pc' = [pc EXCEPT ![r] = step] /\ (step = "failed" => start' = start)
                                          /\ (step = "opened" => start' = [start EXCEPT ![r] = Len(file)])
  BY DEF J!Open, J!Goto
<1>3. start' \in [Record -> Nat] /\ (\A q \in Record : q # r => start'[q] = start[q])
      /\ (step = "opened" => start'[r] = Len(file))
  BY <1>0, <1>2 DEF JournalTyped
<1>4. pc'[r] = step /\ (\A q \in Record : q # r => pc'[q] = pc[q])
      /\ pc' \in [Record -> {"new", "opened", "written", "cutting", "acked", "failed"}]
  BY <1>0, <1>2 DEF JournalTyped
<1>5. JournalTyped' BY <1>0, <1>1, <1>3, <1>4 DEF JournalTyped
<1>6. UnderWayFrom'
  <2>1. ~loaded' => \A q \in Record : pc'[q] \in {"new", "acked"} BY <1>1
  <2>2. \A q \in Record : pc'[q] # "cutting" BY <1>1, <1>4
  <2>3. \A q \in Record : pc'[q] \in Sending => start'[q] <= Len(file')
    <3> SUFFICES ASSUME NEW q \in Record, pc'[q] \in Sending PROVE start'[q] <= Len(file') OBVIOUS
    <3>1. CASE q = r BY <1>0, <1>1, <1>3, <1>4, <3>1 DEF Sending
    <3>2. CASE q # r BY <1>0, <1>1, <1>3, <1>4, <3>2 DEF UnderWayFrom
    <3> QED BY <3>1, <3>2
  <2> QED BY <2>1, <2>2, <2>3 DEF UnderWayFrom
<1>7. TornAtEnd' BY <1>0, <1>1 DEF TornAtEnd
<1>8. Absent'
  <2> SUFFICES ASSUME NEW q \in Record, NEW i \in 1..Len(file),
                      pc'[q] \in {"new", "opened", "failed"} \/ (pc'[q] \in Sending /\ i <= start'[q])
               PROVE  file[i] # E!WholeChunk(q)
    BY <1>1 DEF Absent
  <2>1. CASE q = r BY <1>0, <1>1, <2>1 DEF Absent
  <2>2. CASE q # r BY <1>0, <1>3, <1>4, <2>2 DEF Absent
  <2> QED BY <2>1, <2>2
<1>9. Present' /\ RecordedOnce' BY <1>0, <1>1, <1>4 DEF Present, RecordedOnce
<1> QED BY <1>5, <1>6, <1>7, <1>8, <1>9 DEF JInv

LEMMA JWriteStep == ASSUME JInv, uncut = {}, ~FaultsOverlap, NEW r \in Record, J!Write(r) PROVE JInv'
<1>0. JournalTyped /\ UnderWayFrom /\ TornAtEnd /\ Absent /\ Present /\ RecordedOnce /\ Len(file) \in Nat
  BY DEF JInv, JournalTyped
<1>1. pc[r] = "opened" /\ UNCHANGED <<synced, loaded, start, uncut>> BY DEF J!Write
<1>2. loaded /\ (\A q \in Record : pc[q] # "cutting") /\ start[r] <= Len(file)
  BY <1>0, <1>1 DEF UnderWayFrom, Sending
<1>3. \A i \in 1..Len(file) : file[i].whole BY <1>0, <1>2 DEF TornAtEnd
<1>4. PICK step \in {"written", "cutting"} :
        /\ pc' = [pc EXCEPT ![r] = step]
        /\ step = "written" => file' = Append(file, E!WholeChunk(r))
        /\ step = "cutting" =>
             /\ file' = file \/ file' = Append(file, E!TornChunk(r))
             /\ J!UnderWay = {r} /\ Len(file) = start[r] + 0
  BY SameFile DEF J!Write, J!Goto, J!FaultOf, J!Overlaps
<1>5. pc'[r] = step /\ (\A q \in Record : q # r => pc'[q] = pc[q])
      /\ pc' \in [Record -> {"new", "opened", "written", "cutting", "acked", "failed"}]
  BY <1>0, <1>4 DEF JournalTyped
<1>6. /\ file' \in Seq(E!Chunk(Record)) /\ Len(file') \in Len(file)..(Len(file) + 1)
      /\ \A i \in 1..Len(file) : file'[i] = file[i]
      /\ Len(file') = Len(file) + 1 =>
           /\ file'[Len(file) + 1].rec = r
           /\ step = "cutting" => ~file'[Len(file) + 1].whole
           /\ step = "written" => file'[Len(file) + 1] = E!WholeChunk(r)
      /\ step = "written" => Len(file') = Len(file) + 1
  <2>1. E!WholeChunk(r) \in E!Chunk(Record) /\ E!WholeChunk(r).rec = r BY ChunkFacts
  <2>2. E!TornChunk(r) \in E!Chunk(Record) /\ E!TornChunk(r).rec = r /\ ~E!TornChunk(r).whole
    BY ChunkFacts DEF E!TornChunk
  <2>3. CASE file' = file /\ step = "cutting" BY <1>0, <2>3 DEF JournalTyped
  <2>4. CASE file' = Append(file, E!TornChunk(r)) /\ step = "cutting"
    BY <1>0, <2>2, <2>4, AppendProperties DEF JournalTyped
  <2>5. CASE file' = Append(file, E!WholeChunk(r)) /\ step = "written"
    BY <1>0, <2>1, <2>5, AppendProperties DEF JournalTyped
  <2> QED BY <1>4, <2>3, <2>4, <2>5
<1>7. PICK n : n = Len(file) OBVIOUS
<1>8. JournalTyped' BY <1>0, <1>1, <1>5, <1>6 DEF JournalTyped
<1>9. UnderWayFrom'
  <2>1. ~loaded' => \A q \in Record : pc'[q] \in {"new", "acked"} BY <1>1, <1>2
  <2>2. \A q \in Record : pc'[q] \in Sending => start'[q] <= Len(file')
    <3> SUFFICES ASSUME NEW q \in Record, pc'[q] \in Sending PROVE start'[q] <= Len(file') OBVIOUS
    <3>1. pc[q] \in Sending BY <1>1, <1>5 DEF Sending
    <3>2. start[q] \in Nat /\ start[q] <= Len(file) BY <1>0, <3>1 DEF UnderWayFrom, JournalTyped
    <3> QED BY <1>0, <1>1, <1>6, <3>2
  <2>3. ASSUME NEW q \in Record, pc'[q] = "cutting"
        PROVE  /\ \A p \in Record : pc'[p] \in Sending => p = q
               /\ Len(file') <= start'[q] + 1
               /\ Len(file') = start'[q] + 1 => file'[Len(file')].rec = q
    <3>1. q = r /\ step = "cutting" BY <1>2, <1>5, <2>3
    <3>2. \A p \in Record : p # r => pc[p] \notin Sending BY <1>4, <3>1 DEF J!UnderWay, Sending
    <3>3. start'[r] = Len(file) BY <1>0, <1>1, <1>4, <3>1 DEF JournalTyped
    <3> QED BY <1>0, <1>5, <1>6, <3>1, <3>2, <3>3
  <2> QED BY <2>1, <2>2, <2>3 DEF UnderWayFrom
<1>10. TornAtEnd'
  <2> SUFFICES ASSUME NEW i \in 1..Len(file')
               PROVE  /\ i < Len(file') => file'[i].whole
                      /\ ~file'[i].whole => \E q \in Record : pc'[q] = "cutting" /\ start'[q] < i
    BY DEF TornAtEnd
  <2>1. CASE i \in 1..Len(file) BY <1>3, <1>6, <2>1
  <2>2. CASE i \notin 1..Len(file)
    <3>1. i = Len(file) + 1 /\ Len(file') = Len(file) + 1 BY <1>0, <1>6, <2>2
    <3>2. step = "written" => file'[i].whole BY <1>6, <3>1, ChunkFacts
    <3>3. ~file'[i].whole => pc'[r] = "cutting" /\ start'[r] < i
      BY <1>0, <1>1, <1>2, <1>5, <3>1, <3>2 DEF JournalTyped
    <3> QED BY <1>0, <3>1, <3>3
  <2> QED BY <2>1, <2>2
<1>11. \A q \in Record : \A i \in 1..Len(file') : file'[i] = E!WholeChunk(q) =>
         (i \in 1..n /\ file[i] = E!WholeChunk(q)) \/ (q = r /\ step = "written" /\ i = n + 1)
  <2> SUFFICES ASSUME NEW q \in Record, NEW i \in 1..Len(file'), file'[i] = E!WholeChunk(q), i \notin 1..n
               PROVE  q = r /\ step = "written" /\ i = n + 1
    BY <1>6, <1>7
  <2>1. i = n + 1 /\ Len(file') = n + 1 BY <1>0, <1>6, <1>7
  <2>2. file'[i].whole /\ file'[i].rec = q BY ChunkFacts
  <2> QED BY <1>4, <1>6, <1>7, <2>1, <2>2
<1>12. Absent'
  <2> SUFFICES ASSUME NEW q \in Record, NEW i \in 1..Len(file'), file'[i] = E!WholeChunk(q),
                      pc'[q] \in {"new", "opened", "failed"} \/ (pc'[q] \in Sending /\ i <= start'[q])
               PROVE  FALSE
    BY DEF Absent
  <2>1. CASE q = r
    <3>1. i <= n BY <1>0, <1>1, <1>2, <1>5, <1>7, <2>1 DEF JournalTyped
    <3>2. i \in 1..n /\ file[i] = E!WholeChunk(q) BY <1>0, <1>7, <1>11, <3>1
    <3> QED BY <1>0, <1>1, <1>7, <2>1, <3>2 DEF Absent
  <2>2. CASE q # r BY <1>0, <1>1, <1>5, <1>7, <1>11, <2>2 DEF Absent
  <2> QED BY <2>1, <2>2
<1>13. Present'
  <2>1. \A q \in Record : q # r /\ pc'[q] = "acked" =>
          \E i \in 1..n : file[i] = E!WholeChunk(q) /\ (q \in Synced => i <= synced)
    BY <1>0, <1>5, <1>7 DEF Present
  <2>2. \A i \in 1..n : i \in 1..Len(file') /\ file'[i] = file[i] BY <1>0, <1>6, <1>7
  <2>3. pc'[r] = "written" => \E i \in 1..Len(file') : file'[i] = E!WholeChunk(r) BY <1>0, <1>5, <1>6
  <2>4. pc'[r] # "acked" BY <1>5
  <2>5. \A q \in Record : pc'[q] = "written" => \E i \in 1..Len(file') : file'[i] = E!WholeChunk(q)
    <3> SUFFICES ASSUME NEW q \in Record, pc'[q] = "written" PROVE \E i \in 1..Len(file') : file'[i] = E!WholeChunk(q)
      OBVIOUS
    <3>1. CASE q = r BY <2>3, <3>1
    <3>2. CASE q # r
      <4>0. pc[q] = "written" BY <1>5, <3>2
      <4>1. PICK i \in 1..n : file[i] = E!WholeChunk(q) BY <1>0, <1>7, <4>0 DEF Present
      <4> QED BY <2>2, <4>1
    <3> QED BY <3>1, <3>2
  <2>6. \A q \in Record : pc'[q] = "acked" =>
          \E i \in 1..Len(file') : file'[i] = E!WholeChunk(q) /\ (q \in Synced => i <= synced')
    <3> SUFFICES ASSUME NEW q \in Record, pc'[q] = "acked"
                 PROVE  \E i \in 1..Len(file') : file'[i] = E!WholeChunk(q) /\ (q \in Synced => i <= synced')
      OBVIOUS
    <3>1. PICK i \in 1..n : file[i] = E!WholeChunk(q) /\ (q \in Synced => i <= synced) BY <2>1, <2>4
    <3> QED BY <1>1, <2>2, <3>1
  <2> QED BY <2>5, <2>6 DEF Present
<1>14. RecordedOnce'
  <2>1. \A i \in 1..n : file[i] # E!WholeChunk(r) BY <1>0, <1>1, <1>7 DEF Absent
  <2> QED BY <1>0, <1>7, <1>11, <2>1 DEF RecordedOnce
<1> QED BY <1>8, <1>9, <1>10, <1>12, <1>13, <1>14 DEF JInv

LEMMA JSyncStep == ASSUME JInv, uncut = {}, ~FaultsOverlap, NEW r \in Record, J!Sync(r) PROVE JInv'
<1>0. JournalTyped /\ UnderWayFrom /\ TornAtEnd /\ Absent /\ Present /\ RecordedOnce /\ Len(file) \in Nat
  BY DEF JInv, JournalTyped
<1>1. pc[r] = "written" /\ UNCHANGED <<file, loaded, start, uncut>> BY DEF J!Sync
<1>2. PICK step \in {"acked", "cutting"} :
        /\ pc' = [pc EXCEPT ![r] = step]
        /\ step = "acked" => synced' = IF r \in Synced THEN Len(file) ELSE synced
        /\ step = "cutting" => synced' = synced /\ J!UnderWay = {r} /\ Len(file) = start[r] + 1
  BY DEF J!Sync, J!Goto, J!FaultOf, J!Overlaps
<1>3. pc'[r] = step /\ (\A q \in Record : q # r => pc'[q] = pc[q])
      /\ pc' \in [Record -> {"new", "opened", "written", "cutting", "acked", "failed"}]
  BY <1>0, <1>2 DEF JournalTyped
<1>4. synced' \in 0..Len(file) /\ synced <= synced' /\ (step = "acked" /\ r \in Synced => synced' = Len(file))
  BY <1>0, <1>2 DEF JournalTyped
<1>5. loaded /\ (\A q \in Record : pc[q] # "cutting")
  BY <1>0, <1>1 DEF UnderWayFrom, Sending
<1>6. JournalTyped' BY <1>0, <1>1, <1>3, <1>4 DEF JournalTyped
<1>7. \A q \in Record : pc'[q] \in Sending => pc[q] \in Sending BY <1>1, <1>3 DEF Sending
<1>8. PICK i \in 1..Len(file) : file[i] = E!WholeChunk(r) BY <1>0, <1>1 DEF Present
<1>9. UnderWayFrom'
  <2>1. ASSUME NEW q \in Record, pc'[q] = "cutting"
        PROVE  /\ \A p \in Record : pc'[p] \in Sending => p = q
               /\ Len(file') <= start'[q] + 1
               /\ Len(file') = start'[q] + 1 => file'[Len(file')].rec = q
    <3>1. q = r /\ step = "cutting" BY <1>3, <1>5, <2>1
    <3>2. \A p \in Record : p # r => pc[p] \notin Sending BY <1>2, <3>1 DEF J!UnderWay, Sending
    <3>3. Len(file) = start[r] + 1 /\ start[r] \in Nat BY <1>0, <1>2, <3>1 DEF JournalTyped
    <3>4. i = Len(file)
      <4>1. i > start[r] BY <1>0, <1>1, <1>8, <3>3 DEF Absent, Sending
      <4> QED BY <1>0, <3>3, <4>1
    <3>5. file[Len(file)].rec = r BY <1>8, <3>4, ChunkFacts
    <3> QED BY <1>1, <1>3, <3>1, <3>2, <3>3, <3>5
  <2>2. \A q \in Record : pc'[q] \in Sending => start'[q] <= Len(file') BY <1>0, <1>1, <1>7 DEF UnderWayFrom
  <2> QED BY <1>1, <1>5, <2>1, <2>2 DEF UnderWayFrom
<1>10. TornAtEnd' BY <1>0, <1>1, <1>5 DEF TornAtEnd
<1>11. Absent'
  <2>1. ASSUME NEW q \in Record, NEW k \in 1..Len(file),
               pc'[q] \in {"new", "opened", "failed"} \/ (pc'[q] \in Sending /\ k <= start[q])
        PROVE  file[k] # E!WholeChunk(q)
    <3>1. pc[q] \in {"new", "opened", "failed"} \/ (pc[q] \in Sending /\ k <= start[q])
      BY <1>1, <1>2, <1>3, <1>7, <2>1
    <3> QED BY <1>0, <3>1 DEF Absent
  <2> QED BY <1>1, <2>1 DEF Absent
<1>12. Present'
  <2>1. \A q \in Record : pc'[q] = "written" => \E k \in 1..Len(file) : file[k] = E!WholeChunk(q)
    BY <1>0, <1>2, <1>3 DEF Present
  <2>2. ASSUME NEW q \in Record, pc'[q] = "acked"
        PROVE  \E k \in 1..Len(file) : file[k] = E!WholeChunk(q) /\ (q \in Synced => k <= synced')
    <3>1. CASE q = r
      <4>1. r \in Synced => i <= synced' BY <1>0, <1>3, <1>4, <2>2, <3>1
      <4> QED BY <1>8, <3>1, <4>1
    <3>2. CASE q # r
      <4>1. PICK k \in 1..Len(file) : file[k] = E!WholeChunk(q) /\ (q \in Synced => k <= synced)
        BY <1>0, <1>3, <2>2, <3>2 DEF Present
      <4>2. q \in Synced => k <= synced' BY <1>0, <1>4, <4>1 DEF JournalTyped
      <4> QED BY <4>1, <4>2
    <3> QED BY <3>1, <3>2
  <2> QED BY <1>1, <2>1, <2>2 DEF Present
<1>13. RecordedOnce' BY <1>0, <1>1 DEF RecordedOnce
<1> QED BY <1>6, <1>9, <1>10, <1>11, <1>12, <1>13 DEF JInv

LEMMA JCutStep == ASSUME JInv, uncut = {}, NEW r \in Record, J!Cut(r) PROVE JInv'
<1>0. JournalTyped /\ UnderWayFrom /\ TornAtEnd /\ Absent /\ Present /\ RecordedOnce /\ Len(file) \in Nat
  BY DEF JInv, JournalTyped
<1>1. CASE uncut' = uncut \union {r} BY <1>1 DEF JInv
<1>2. CASE J!TruncateTo(start[r], r) /\ UNCHANGED <<uncut, faults>>
  <2>1. pc[r] = "cutting" /\ pc' = [pc EXCEPT ![r] = "failed"] /\ UNCHANGED <<loaded, start>>
    BY <1>2 DEF J!Cut, J!Goto
  <2>2. PICK n \in 0..Len(file) : n = start[r]
    BY <1>0, <2>1 DEF UnderWayFrom, Sending, JournalTyped
  <2>3. /\ file' \in Seq(E!Chunk(Record)) /\ Len(file') = n /\ \A i \in 1..n : file'[i] = file[i]
        /\ synced' \in 0..n /\ \A i \in 1..n : i <= synced => i <= synced'
    BY <1>0, <1>2, <2>2, JournalCut
  <2>4. pc'[r] = "failed" /\ (\A q \in Record : q # r => pc'[q] = pc[q])
        /\ pc' \in [Record -> {"new", "opened", "written", "cutting", "acked", "failed"}]
    BY <1>0, <2>1 DEF JournalTyped
  <2>5. \A q \in Record : pc'[q] \notin Sending BY <1>0, <2>1, <2>4 DEF UnderWayFrom, Sending
  <2>6. loaded BY <1>0, <2>1 DEF UnderWayFrom
  <2>7. JournalTyped' BY <1>0, <2>1, <2>3, <2>4 DEF JournalTyped
  <2>8. UnderWayFrom' BY <2>1, <2>5, <2>6 DEF UnderWayFrom, Sending
  <2>9. \A i \in 1..n : i \in 1..Len(file) /\ file[i].whole
    <3> SUFFICES ASSUME NEW i \in 1..n PROVE i \in 1..Len(file) /\ file[i].whole OBVIOUS
    <3>1. i \in 1..Len(file) BY <1>0
    <3>2. CASE i < Len(file) BY <1>0, <3>1, <3>2 DEF TornAtEnd
    <3>3. CASE ~(i < Len(file))
      <4>1. i = n /\ i = Len(file) BY <1>0, <3>3
      <4>2. ~file[i].whole => \E q \in Record : pc[q] = "cutting" /\ start[q] < i
        BY <1>0, <2>6, <3>1 DEF TornAtEnd
      <4>3. \A q \in Record : pc[q] = "cutting" => q = r BY <1>0, <2>1 DEF UnderWayFrom, Sending
      <4>4. ~(start[r] < i) BY <2>2, <4>1
      <4> QED BY <4>2, <4>3, <4>4, <3>1
    <3> QED BY <3>1, <3>2, <3>3
  <2>10. TornAtEnd' BY <2>3, <2>9 DEF TornAtEnd
  <2>11. Absent'
    <3> SUFFICES ASSUME NEW q \in Record, NEW i \in 1..n, pc'[q] \in {"new", "opened", "failed"}
                 PROVE  file'[i] # E!WholeChunk(q)
      BY <2>3, <2>5 DEF Absent
    <3>1. i \in 1..Len(file) /\ file'[i] = file[i] BY <2>3, <2>9
    <3>2. CASE q = r
      <4>1. pc[q] \in Sending /\ i <= start[q] BY <2>1, <2>2, <3>2 DEF Sending
      <4> QED BY <1>0, <3>1, <4>1 DEF Absent
    <3>3. CASE q # r BY <1>0, <2>4, <3>1, <3>3 DEF Absent
    <3> QED BY <3>2, <3>3
  <2>12. Present'
    <3>1. \A q \in Record : pc'[q] # "written" BY <2>5 DEF Sending
    <3>2. ASSUME NEW q \in Record, pc'[q] = "acked"
          PROVE  \E i \in 1..n : file'[i] = E!WholeChunk(q) /\ (q \in Synced => i <= synced')
      <4>1. q # r /\ pc[q] = "acked" BY <2>4, <3>2
      <4>2. PICK i \in 1..Len(file) : file[i] = E!WholeChunk(q) /\ (q \in Synced => i <= synced)
        BY <1>0, <4>1 DEF Present
      <4>3. file[i].rec = q BY <4>2, ChunkFacts
      <4>4. Len(file) <= n + 1 /\ (Len(file) = n + 1 => file[Len(file)].rec = r)
        BY <1>0, <2>1, <2>2 DEF UnderWayFrom
      <4>5. i \in 1..n BY <1>0, <4>1, <4>3, <4>4
      <4>6. file'[i] = E!WholeChunk(q) /\ (q \in Synced => i <= synced') BY <2>3, <4>2, <4>5
      <4> QED BY <4>5, <4>6
    <3> QED BY <2>3, <3>1, <3>2 DEF Present
  <2>13. RecordedOnce' BY <1>0, <2>3, <2>9 DEF RecordedOnce
  <2> QED BY <2>7, <2>8, <2>10, <2>11, <2>12, <2>13 DEF JInv
<1> QED BY <1>1, <1>2 DEF J!Cut

\* What is in the journal after a crash needs no append, and nothing else is told so
\* but what was synced.
LEMMA JCrashStep == ASSUME JInv, uncut = {}, J!Crash PROVE JInv'
<1>0. JournalTyped /\ UnderWayFrom /\ TornAtEnd /\ Absent /\ Present /\ RecordedOnce /\ Len(file) \in Nat
  BY DEF JInv, JournalTyped
<1>1. PICK g : g = file' OBVIOUS
<1>2. PICK n \in Nat : Sound(file, n) BY <1>0, TornAtEndIsSound
<1>3. g \in E!AfterPowerLoss(file, synced) BY <1>1, SameFile DEF J!Crash
<1>4. /\ g \in Seq(E!Chunk(Record)) /\ synced <= Len(g) /\ \A i \in 1..synced : g[i] = file[i]
      /\ \A i \in 1..Len(g) : g[i].whole => i \in 1..Len(file) /\ g[i] = file[i]
      /\ \E m \in Nat : Sound(g, m) /\ (Len(g) = m + 1 => ~g[m + 1].whole)
  BY <1>0, <1>2, <1>3, PowerLoss DEF JournalTyped
<1>5. PICK m \in Nat : Sound(g, m) /\ (Len(g) = m + 1 => ~g[m + 1].whole) BY <1>4
<1>6. E!Parses(g) /\ E!RetainedLength(g) = m /\ m <= Len(g) BY <1>4, <1>5, SoundParses
<1>7. /\ E!Records(g) \in Seq(Record) /\ Len(E!Records(g)) = m
      /\ \A i \in 1..m : g[i] = E!WholeChunk(E!Records(g)[i])
  BY <1>4, <1>6, RecordsFacts
<1>8. PICK rs : rs = E!Records(g) OBVIOUS
<1>9. file' = g /\ synced' = Len(g) /\ loaded' = FALSE /\ start' = [r \in Record |-> 0] /\ uncut' = uncut
  BY <1>1 DEF J!Crash
<1>10. pc' = [r \in Record |->
         IF (pc[r] = "acked" /\ r \in Synced) \/ (\E i \in DOMAIN rs : rs[i] = r) THEN "acked" ELSE "new"]
  BY <1>1, <1>8, SameFile DEF J!Crash
<1>11. /\ pc' \in [Record -> {"new", "opened", "written", "cutting", "acked", "failed"}]
       /\ \A r \in Record : pc'[r] \in {"new", "acked"}
       /\ \A r \in Record : (\E i \in DOMAIN rs : rs[i] = r) => pc'[r] = "acked"
       /\ \A r \in Record : pc'[r] = "acked" =>
            (pc[r] = "acked" /\ r \in Synced) \/ \E i \in DOMAIN rs : rs[i] = r
  BY <1>10
<1>12. \A r \in Record : \A i \in 1..Len(g) : g[i] = E!WholeChunk(r) => i \in 1..m /\ rs[i] = r
       /\ file[i] = E!WholeChunk(r) /\ i \in 1..Len(file)
  <2> SUFFICES ASSUME NEW r \in Record, NEW i \in 1..Len(g), g[i] = E!WholeChunk(r)
               PROVE  i \in 1..m /\ rs[i] = r /\ file[i] = E!WholeChunk(r) /\ i \in 1..Len(file)
    OBVIOUS
  <2>1. g[i].whole BY ChunkFacts
  <2>2. i \in 1..m BY <1>4, <1>5, <2>1 DEF Sound
  <2>3. rs[i] \in Record /\ g[i] = E!WholeChunk(rs[i]) BY <1>7, <1>8, <2>2
  <2>4. rs[i] = r BY <2>3, ChunkFacts
  <2> QED BY <1>4, <2>1, <2>2, <2>4
<1>13. JournalTyped'
  <2>1. start' \in [Record -> Nat] BY <1>9
  <2>2. file' \in Seq(E!Chunk(Record)) /\ loaded' \in BOOLEAN BY <1>4, <1>9
  <2>3. Len(g) \in Nat /\ synced' = Len(g) /\ file' = g BY <1>4, <1>9
  <2>4. synced' \in 0..Len(file') BY <2>3
  <2> QED BY <1>11, <2>1, <2>2, <2>4 DEF JournalTyped
<1>14. UnderWayFrom' BY <1>9, <1>11 DEF UnderWayFrom, Sending
<1>15. TornAtEnd'
  <2>1. \A i \in 1..Len(g) : i < Len(g) => g[i].whole BY <1>4, <1>5 DEF Sound
  <2> QED BY <1>9, <2>1 DEF TornAtEnd
<1>16. Absent'
  <2>1. \A r \in Record : pc'[r] \notin Sending BY <1>11 DEF Sending
  <2>2. ASSUME NEW r \in Record, NEW i \in 1..Len(g), pc'[r] = "new" PROVE g[i] # E!WholeChunk(r)
    BY <1>7, <1>8, <1>11, <1>12, <2>2
  <2> QED BY <1>9, <1>11, <2>1, <2>2 DEF Absent
<1>17. Present'
  <2>1. \A r \in Record : pc'[r] # "written" BY <1>11
  <2>2. ASSUME NEW r \in Record, pc'[r] = "acked"
        PROVE  \E i \in 1..Len(g) : g[i] = E!WholeChunk(r) /\ i <= Len(g)
    <3>1. CASE \E i \in DOMAIN rs : rs[i] = r
      <4>1. PICK i \in 1..m : rs[i] = r BY <1>7, <1>8, <3>1
      <4>2. i \in 1..Len(g) /\ i <= Len(g) BY <1>4, <1>6
      <4>3. g[i] = E!WholeChunk(r) BY <1>7, <1>8, <4>1
      <4> QED BY <4>2, <4>3
    <3>2. CASE pc[r] = "acked" /\ r \in Synced
      <4>1. PICK i \in 1..Len(file) : file[i] = E!WholeChunk(r) /\ i <= synced BY <1>0, <3>2 DEF Present
      <4>2. i \in 1..synced /\ i \in 1..Len(g) /\ i <= Len(g) BY <1>0, <1>4, <4>1 DEF JournalTyped
      <4> QED BY <1>4, <4>1, <4>2
    <3> QED BY <1>11, <2>2, <3>1, <3>2
  <2> QED BY <1>9, <2>1, <2>2 DEF Present
<1>18. RecordedOnce' BY <1>0, <1>9, <1>12 DEF RecordedOnce
<1> QED BY <1>13, <1>14, <1>15, <1>16, <1>17, <1>18 DEF JInv

LEMMA JStep == ~FaultsOverlap /\ JInv /\ [J!Next]_J!vars => JInv'
<1> SUFFICES ASSUME ~FaultsOverlap, JInv, [J!Next]_J!vars PROVE JInv' OBVIOUS
<1>1. CASE UNCHANGED J!vars
  BY <1>1 DEF J!vars, JInv, JournalTyped, UnderWayFrom, TornAtEnd, Absent, Present, RecordedOnce
<1>2. CASE uncut # {} /\ J!Next
  <2>1. uncut' # {} BY <1>2 DEF J!Next, J!Load, J!Open, J!Write, J!Sync, J!Cut, J!Crash
  <2> QED BY <2>1 DEF JInv
<1>3. CASE uncut = {} /\ J!Next
  BY <1>3, LoadStep, JOpenStep, JWriteStep, JSyncStep, JCutStep, JCrashStep DEF J!Next
<1> QED BY <1>1, <1>2, <1>3

\* ActivityJournal.append and loadJournal (journal.ts): as long as every failed append
\* is cut, and none fails beside another, every line can be read, what was
\* acknowledged is there once, a paid end after any crash, and what was reported
\* failed is not.  An append that fails beside another one can take the other's
\* record with it: run journal_sibling_cut shows how.
THEOREM TheJournalIsKept == ~FaultsOverlap => (J!Spec => []J!AckedKept)
<1> SUFFICES ASSUME ~FaultsOverlap PROVE J!Spec => []J!AckedKept OBVIOUS
<1> QED BY JInit, JStep, JInvMeans, PTL DEF J!Spec

----------------------------------------------------------------------------
(* The corpus.                                                            *)

\* The ends of the batches of a file, in turn, after the start of the first.
Layout(f, at) ==
  /\ at \in Seq(Nat) /\ Len(at) \in Nat \ {0} /\ at[1] = 0
  /\ \A m, n \in 1..Len(at) : m < n => at[m] < at[n]
  /\ K!Commits(f) = {at[n + 1] : n \in 1..Len(at) - 1}

\* A batch by the places where the one before it and it end.
BatchAt(f, at, n) == [i \in 1..at[n + 1] - at[n] - 1 |-> f[at[n] + i].rec.what]
BatchesBefore(f, at, n) == K!Entries([k \in 1..n - 1 |-> BatchAt(f, at, k)])

\* Every line of a batch is there, it follows from those before it, and what it names is stored.
WholeBatch(f, at, n, there) ==
  /\ \A i \in at[n] + 1..at[n + 1] : f[i].whole /\ f[i].rec.batch = n
  /\ f[at[n + 1]].rec.what.value = at[n + 1] - at[n] - 1 /\ BatchAt(f, at, n) # <<>>
  /\ K!Applies(BatchesBefore(f, at, n), BatchAt(f, at, n))
  /\ \A e \in K!Range(BatchAt(f, at, n)) : e.key \in StoredKeys => e \in there

\* An export among the entries of batch n was made from batches before it.
ExportSound(f, at, n, e, there) ==
  K!IsExport(e) => /\ e \in there /\ e.value.asOf \in 0..n - 1
                 /\ e.value.prefix = K!CutTo(f, at[e.value.asOf + 1])
Good(f, at, n, there) ==
  WholeBatch(f, at, n, there) /\ \A e \in K!Range(BatchAt(f, at, n)) : ExportSound(f, at, n, e, there)
Journal(f, at, there) == Layout(f, at) /\ \A n \in 1..Len(at) - 1 : Good(f, at, n, there)

\* What may be written after the batches of a file, and what must be stored before.
Permitted(f, at, b) ==
  /\ b \in Seq(K!Range(b)) /\ b # <<>>
  /\ K!Applies(K!Entries([n \in 1..Len(at) - 1 |-> BatchAt(f, at, n)]), b)
  /\ \A e \in K!Range(b) :
       /\ e.key # "commit"
       /\ K!IsExport(e) => e.value.asOf \in 0..Len(at) - 1 /\ e.value.prefix = K!CutTo(f, at[e.value.asOf + 1])
InPlace(b, there) == \A e \in K!Range(b) : e.key \in StoredKeys \/ K!IsExport(e) => e \in there

CorpusShape ==
  /\ file \in Seq(K!Range(file)) /\ synced \in 0..Len(file)
  /\ pc \in {"idle", "put", "write", "sync"}

CorpusWhole == Journal(file, K!Offsets(file), artifacts)

\* What was reported is in a batch that is on stable storage.
CorpusTold ==
  LET at == K!Offsets(file) IN
  \A e \in told : \E n \in 1..Len(at) - 1 : e \in K!Range(BatchAt(file, at, n)) /\ at[n + 1] <= synced

\* The state is that of the file, which ends with its last batch.
Loaded ==
  /\ state = K!Batches(file) /\ offsets = K!Offsets(file)
  /\ Len(file) = offsets[Len(offsets)]

CorpusLoaded == (pc = "idle" /\ state # Null) \/ pc \in {"put", "write"} => Loaded

\* What is about to be written may be, and is stored by then.
CorpusPending ==
  /\ pc \in {"put", "write"} => Permitted(file, offsets, batch)
  /\ pc = "write" => InPlace(batch, artifacts)

\* What is to be synced is a batch of the file, which ends with the last.
CorpusSyncing ==
  pc = "sync" =>
    /\ K!Batches(file) = Append(state, batch)
    /\ K!Offsets(file) = Append(offsets, offsets[Len(offsets)] + Len(batch) + 1)
    /\ Len(file) = K!Offsets(file)[Len(K!Offsets(file))]
    /\ \E n \in 1..Len(K!Offsets(file)) - 1 : BatchAt(file, K!Offsets(file), n) = batch

CorpusInv ==
  CorpusShape /\ CorpusWhole /\ CorpusTold /\ CorpusLoaded /\ CorpusPending /\ CorpusSyncing

----------------------------------------------------------------------------
(* Sets of numbers in order.                                               *)

\* The corpus counts as the library does.
LEMMA SameCounting == \A S : K!Cardinality(S) = Cardinality(S) /\ (K!IsFiniteSet(S) <=> IsFiniteSet(S))
BY DEF K!Cardinality, Cardinality, K!IsFiniteSet, IsFiniteSet

\* Nth counts through a finite set of numbers.
LEMMA NthFacts ==
  ASSUME NEW P \in SUBSET Nat, K!IsFiniteSet(P)
  PROVE  /\ K!Cardinality(P) \in Nat
         /\ \A n \in 1..K!Cardinality(P) : K!Nth(P, n) \in P
         /\ \A m, n \in 1..K!Cardinality(P) : m < n => K!Nth(P, m) < K!Nth(P, n)
         /\ \A i \in P : \E n \in 1..K!Cardinality(P) : K!Nth(P, n) = i
<1> DEFINE N == K!Cardinality(P)
           below(i) == {j \in P : j <= i}
           rank(i) == K!Cardinality(below(i))
           r == [i \in P |-> rank(i)]
<1>1. N \in Nat BY FS_CardinalityType, SameCounting
<1>2. \A i \in P : K!IsFiniteSet(below(i)) /\ rank(i) \in Nat /\ rank(i) <= N
  <2> TAKE i \in P
  <2>1. below(i) \in SUBSET P OBVIOUS
  <2> HIDE DEF below
  <2>2. IsFiniteSet(below(i)) /\ Cardinality(below(i)) \in Nat /\ Cardinality(below(i)) <= Cardinality(P)
    BY <2>1, FS_Subset, FS_CardinalityType, SameCounting
  <2> QED BY <2>2, SameCounting
<1>3. \A i \in P : rank(i) \in 1..N
  <2> TAKE i \in P
  <2>1. i \in below(i) OBVIOUS
  <2>2. rank(i) # 0 BY <1>2, <2>1, FS_EmptySet, SameCounting
  <2> QED BY <1>1, <1>2, <2>2
<1>4. \A i, k \in P : i < k => rank(i) < rank(k)
  <2> SUFFICES ASSUME NEW i \in P, NEW k \in P, i < k PROVE rank(i) < rank(k) OBVIOUS
  <2>0. i \in Nat /\ k \in Nat /\ \A j \in P : j \in Nat OBVIOUS
  <2>1. below(i) \in SUBSET below(k) /\ k \in below(k) /\ k \notin below(i)
    <3>1. \A j \in P : j <= i => j <= k BY <2>0
    <3>2. ~(k <= i) /\ k <= k BY <2>0
    <3> QED BY <3>1, <3>2
  <2>2. below(k) # below(i) BY <2>1
  <2>3. rank(i) <= rank(k) /\ (rank(k) = rank(i) => below(k) = below(i))
    <3> HIDE DEF below
    <3> QED BY <1>2, <2>1, FS_Subset, SameCounting
  <2> QED BY <1>2, <2>2, <2>3
<1>5. \A i, k \in P : rank(i) = rank(k) => i = k
  <2> SUFFICES ASSUME NEW i \in P, NEW k \in P, rank(i) = rank(k), i # k PROVE FALSE OBVIOUS
  <2>1. i < k \/ k < i OBVIOUS
  <2> HIDE DEF rank
  <2> QED BY <1>3, <1>4, <2>1
<1> HIDE DEF rank
<1>6. \A n \in 1..N : \E i \in P : rank(i) = n
  <2>1. r \in Injection(P, 1..N) BY <1>3, <1>5 DEF Injection, IsInjective
  <2>2. K!IsFiniteSet(1..N) /\ K!Cardinality(1..N) = N BY <1>1, FS_Interval, SameCounting
  <2>3. r \in Surjection(P, 1..N) BY <2>1, <2>2, <1>1, FS_Injection, SameCounting
  <2> QED BY <2>3 DEF Surjection
<1>7. \A n \in 1..N : K!Nth(P, n) \in P /\ rank(K!Nth(P, n)) = n
  BY <1>6 DEF K!Nth, rank
<1>8. \A m, n \in 1..N : m < n => K!Nth(P, m) < K!Nth(P, n)
  <2> SUFFICES ASSUME NEW m \in 1..N, NEW n \in 1..N, m < n, ~(K!Nth(P, m) < K!Nth(P, n)) PROVE FALSE OBVIOUS
  <2>1. K!Nth(P, m) \in Nat /\ K!Nth(P, n) \in Nat BY <1>7
  <2>2. K!Nth(P, n) = K!Nth(P, m) \/ K!Nth(P, n) < K!Nth(P, m) BY <2>1
  <2>3. m \in Nat /\ n \in Nat OBVIOUS
  <2>4. CASE K!Nth(P, n) = K!Nth(P, m) BY <1>7, <2>3, <2>4
  <2>5. CASE K!Nth(P, n) < K!Nth(P, m)
    <3>1. rank(K!Nth(P, n)) < rank(K!Nth(P, m)) BY <1>4, <1>7, <2>5
    <3>2. n < m BY <1>7, <3>1
    <3> QED BY <2>3, <3>2
  <2> QED BY <2>2, <2>4, <2>5
<1>9. \A i \in P : \E n \in 1..N : K!Nth(P, n) = i BY <1>3, <1>5, <1>7
<1> QED BY <1>1, <1>7, <1>8, <1>9

\* Some place in a set of them is the first, and the last of a bounded one.
LEMMA LeastPlace ==
  ASSUME NEW S \in SUBSET Nat, S # {}
  PROVE  \E x \in S : \A y \in S : x <= y
<1>1. PICK x \in S : \A y \in S : <<y, x>> \notin OpToRel(<, Nat)
  BY WFMin, NatLessThanWellFounded, Zenon
<1>2. \A y \in S : y \in Nat /\ x \in Nat OBVIOUS
<1>3. \A y \in S : ~(y < x)
  BY <1>1, <1>2, Zenon DEF OpToRel
<1> QED BY <1>2, <1>3

LEMMA GreatestPlace ==
  ASSUME NEW S \in SUBSET Nat, S # {}, NEW u \in Nat, \A x \in S : x <= u
  PROVE  \E x \in S : \A y \in S : x >= y
<1> DEFINE T == {u - x : x \in S}
<1>1. T \in SUBSET Nat /\ T # {}
  <2>1. \A x \in S : x \in Nat /\ u - x \in Nat OBVIOUS
  <2> QED BY <2>1
<1>2. PICK t \in T : \A y \in T : t <= y BY <1>1, LeastPlace
<1>3. PICK x \in S : t = u - x BY <1>2
<1>4. \A y \in S : x >= y
  <2> TAKE y \in S
  <2>1. u - y \in T /\ x \in Nat /\ y \in Nat OBVIOUS
  <2>2. u - x <= u - y BY <1>2, <1>3, <2>1
  <2> QED BY <2>1, <2>2
<1> QED BY <1>4

\* What increases counts its values.
LEMMA CountsValues ==
  ASSUME NEW at \in Seq(Nat), NEW n \in Nat, n < Len(at), \A i, j \in 1..Len(at) : i < j => at[i] < at[j]
  PROVE  K!Cardinality({at[k + 1] : k \in 1..n}) = n
<1> DEFINE S == {at[k + 1] : k \in 1..n}
           b == [k \in 1..n |-> at[k + 1]]
<1>1. Len(at) \in Nat /\ \A k \in 1..n : k + 1 \in 1..Len(at) /\ at[k + 1] \in Nat BY LenProperties
<1>2. \A j, k \in 1..n : at[j + 1] = at[k + 1] => j = k
  <2> SUFFICES ASSUME NEW j \in 1..n, NEW k \in 1..n, at[j + 1] = at[k + 1], j # k PROVE FALSE OBVIOUS
  <2>1. j + 1 < k + 1 \/ k + 1 < j + 1 OBVIOUS
  <2> QED BY <1>1, <2>1
<1>3. b \in Bijection(1..n, S)
  BY <1>1, <1>2 DEF Bijection, Injection, Surjection, IsInjective
<1> QED BY <1>3, FS_CountingElements, SameCounting DEF ExistsBijection

----------------------------------------------------------------------------
(* Where the batches of a file end.                                        *)

LEMMA LayoutIs ==
  ASSUME NEW f, NEW at, Layout(f, at)
  PROVE  /\ K!Cardinality(K!Commits(f)) = Len(at) - 1 /\ K!Offsets(f) = at
         /\ \A n \in 1..Len(at) - 1 : K!Batch(f, n) = BatchAt(f, at, n)
         /\ K!Batches(f) = [n \in 1..Len(at) - 1 |-> BatchAt(f, at, n)]
<1> DEFINE N == Len(at) - 1
<1>1. at \in Seq(Nat) /\ Len(at) \in Nat \ {0} /\ N \in Nat /\ at[1] = 0 BY DEF Layout
<1>2. \A m, n \in 1..Len(at) : m < n => at[m] < at[n] BY DEF Layout
<1>3. K!Commits(f) = {at[n + 1] : n \in 1..N} BY DEF Layout
<1>4. \A n \in 0..N : K!Cardinality({at[k + 1] : k \in 1..n}) = n
  <2> TAKE n \in 0..N
  <2>1. n \in Nat /\ n < Len(at) BY <1>1
  <2> QED BY <1>1, <1>2, <2>1, CountsValues
<1>5. K!Cardinality(K!Commits(f)) = N BY <1>1, <1>3, <1>4
<1>6. \A n \in 1..N : {j \in K!Commits(f) : j <= at[n + 1]} = {at[k + 1] : k \in 1..n}
  <2> TAKE n \in 1..N
  <2>1. \A k \in 1..N : k + 1 \in 1..Len(at) /\ at[k + 1] \in Nat BY <1>1, LenProperties
  <2>2. \A k \in 1..N : at[k + 1] <= at[n + 1] <=> k <= n
    <3> TAKE k \in 1..N
    <3>1. CASE k <= n BY <1>2, <2>1, <3>1
    <3>2. CASE n < k
      <4>1. at[n + 1] < at[k + 1] BY <1>2, <2>1, <3>2
      <4> QED BY <2>1, <3>2, <4>1
    <3> QED BY <3>1, <3>2
  <2> QED BY <1>1, <1>3, <2>2
<1>7. \A n \in 1..N : K!Nth(K!Commits(f), n) = at[n + 1]
  <2> TAKE n \in 1..N
  <2>1. at[n + 1] \in K!Commits(f) BY <1>3
  <2>2. \A i \in K!Commits(f) : K!Cardinality({j \in K!Commits(f) : j <= i}) = n <=> i = at[n + 1]
    <3> TAKE i \in K!Commits(f)
    <3>1. PICK k \in 1..N : i = at[k + 1] BY <1>3
    <3>2. K!Cardinality({j \in K!Commits(f) : j <= i}) = k
      <4>1. {j \in K!Commits(f) : j <= i} = {at[l + 1] : l \in 1..k} BY <1>6, <3>1
      <4>2. k \in 0..N BY <3>1
      <4> QED BY <1>4, <4>1, <4>2
    <3>3. n = k \/ n # k OBVIOUS
    <3>4. k # n => at[k + 1] # at[n + 1]
      <4>1. k + 1 \in 1..Len(at) /\ n + 1 \in 1..Len(at) /\ at[k + 1] \in Nat /\ at[n + 1] \in Nat
        BY <1>1, LenProperties
      <4>2. k # n => k + 1 < n + 1 \/ n + 1 < k + 1 OBVIOUS
      <4> QED BY <1>2, <4>1, <4>2
    <3> QED BY <3>1, <3>2, <3>4
  <2> QED BY <2>1, <2>2 DEF K!Nth
<1>8. K!Offsets(f) = at
  <2>1. K!Offsets(f) = [n \in 1..N + 1 |-> IF n = 1 THEN 0 ELSE K!Nth(K!Commits(f), n - 1)] BY <1>5 DEF K!Offsets
  <2>2. N + 1 = Len(at) /\ DOMAIN at = 1..Len(at) BY <1>1, LenProperties
  <2>3. \A n \in 1..N + 1 : (IF n = 1 THEN 0 ELSE K!Nth(K!Commits(f), n - 1)) = at[n]
    <3> TAKE n \in 1..N + 1
    <3>1. CASE n = 1 BY <1>1, <3>1
    <3>2. CASE n # 1
      <4>1. n - 1 \in 1..N /\ n - 1 + 1 = n BY <1>1, <3>2
      <4> QED BY <1>7, <3>2, <4>1
    <3> QED BY <3>1, <3>2
  <2>4. at = [n \in 1..N + 1 |-> at[n]] BY <1>1, <2>2
  <2> QED BY <2>1, <2>3, <2>4
<1>9. \A n \in 1..N : K!Batch(f, n) = BatchAt(f, at, n) BY <1>8 DEF K!Batch, BatchAt
<1>10. K!Batches(f) = [n \in 1..N |-> BatchAt(f, at, n)] BY <1>5, <1>9 DEF K!Batches
<1> QED BY <1>5, <1>8, <1>9, <1>10

----------------------------------------------------------------------------
(* Files that begin alike.                                                 *)

LEMMA OfItsRange ==
  ASSUME NEW S, NEW f \in Seq(S)
  PROVE  f \in Seq(K!Range(f)) /\ Len(f) \in Nat /\ DOMAIN f = 1..Len(f) /\ f = [i \in 1..Len(f) |-> f[i]]
<1>1. Len(f) \in Nat /\ f \in [1..Len(f) -> S] BY LenProperties
<1>2. f \in [1..Len(f) -> K!Range(f)] BY <1>1 DEF K!Range
<1> QED BY <1>1, <1>2, SeqDef

LEMMA CutIs ==
  ASSUME NEW f, NEW c \in Nat
  PROVE  /\ K!CutTo(f, c) \in Seq({f[i] : i \in 1..c}) /\ K!CutTo(f, c) \in Seq(K!Range(K!CutTo(f, c)))
         /\ Len(K!CutTo(f, c)) = c /\ \A i \in 1..c : K!CutTo(f, c)[i] = f[i]
<1> DEFINE S == {f[i] : i \in 1..c}
<1>1. \A i \in 1..c : f[i] \in S OBVIOUS
<1>2. K!CutTo(f, c) = SubSeq(f, 1, c) BY DEF K!CutTo
<1> HIDE DEF S
<1>3. SubSeq(f, 1, c) \in Seq(S) /\ Len(SubSeq(f, 1, c)) = (IF 1 <= c THEN c - 1 + 1 ELSE 0)
      /\ \A i \in 1..(c - 1 + 1) : SubSeq(f, 1, c)[i] = f[1 + i - 1]
  <2>1. 1 \in Int /\ c \in Int OBVIOUS
  <2> QED BY <1>1, <2>1, SubSeqProperties
<1>4. Len(K!CutTo(f, c)) = c BY <1>2, <1>3
<1>5. \A i \in 1..c : K!CutTo(f, c)[i] = f[i]
  <2> TAKE i \in 1..c
  <2>1. i \in 1..(c - 1 + 1) /\ 1 + i - 1 = i OBVIOUS
  <2> QED BY <1>2, <1>3, <2>1
<1>6. K!CutTo(f, c) \in Seq(S) BY <1>2, <1>3
<1> QED BY <1>4, <1>5, <1>6, OfItsRange DEF S

LEMMA CutSame ==
  ASSUME NEW f, NEW g, NEW c \in Nat, \A i \in 1..c : f[i] = g[i]
  PROVE  K!CutTo(f, c) = K!CutTo(g, c)
<1>1. {f[i] : i \in 1..c} = {g[i] : i \in 1..c} OBVIOUS
<1>2. \A i \in 1..c : K!CutTo(f, c)[i] = K!CutTo(g, c)[i] BY CutIs
<1>3. Len(K!CutTo(f, c)) = c /\ Len(K!CutTo(g, c)) = c BY CutIs
<1>4. K!CutTo(f, c) \in Seq({f[i] : i \in 1..c}) /\ K!CutTo(g, c) \in Seq({f[i] : i \in 1..c}) BY <1>1, CutIs
<1> QED BY <1>2, <1>3, <1>4, SeqEqual

\* The places of a layout.
LEMMA Places ==
  ASSUME NEW f, NEW at, Layout(f, at)
  PROVE  /\ Len(at) \in Nat \ {0} /\ DOMAIN at = 1..Len(at) /\ at[1] = 0 /\ at \in Seq(Nat)
         /\ \A n \in 1..Len(at) : at[n] \in Nat
         /\ \A m, n \in 1..Len(at) : m <= n => at[m] <= at[n]
         /\ \A m, n \in 1..Len(at) : m < n => at[m] < at[n]
<1>1. at \in Seq(Nat) /\ Len(at) \in Nat \ {0} /\ at[1] = 0 BY DEF Layout
<1>2. \A n \in 1..Len(at) : at[n] \in Nat BY <1>1, LenProperties
<1>3. \A m, n \in 1..Len(at) : m < n => at[m] < at[n] BY DEF Layout
<1>4. \A m, n \in 1..Len(at) : m <= n => at[m] <= at[n]
  <2> TAKE m, n \in 1..Len(at)
  <2>1. m < n => at[m] <= at[n] BY <1>2, <1>3
  <2>2. m = n => at[m] <= at[n] BY <1>2
  <2> QED BY <2>1, <2>2
<1> QED BY <1>1, <1>2, <1>3, <1>4, LenProperties

\* A batch of one file is a batch of another that is the same up to its end.
LEMMA BatchCarries ==
  ASSUME NEW f, NEW g, NEW at, Layout(f, at), NEW bt, NEW n \in 1..Len(at) - 1,
         \A i \in 1..n + 1 : bt[i] = at[i], NEW m \in Nat, at[n + 1] <= m, \A i \in 1..m : g[i] = f[i],
         NEW there, NEW also, there \subseteq also, Good(f, at, n, there)
  PROVE  BatchAt(g, bt, n) = BatchAt(f, at, n) /\ Good(g, bt, n, also)
<1>1. /\ Len(at) \in Nat \ {0} /\ at[1] = 0
      /\ \A i \in 1..Len(at) : at[i] \in Nat
      /\ \A i, j \in 1..Len(at) : i <= j => at[i] <= at[j]
      /\ \A i, j \in 1..Len(at) : i < j => at[i] < at[j] BY Places
<1>2. n \in Nat /\ n \in 1..n + 1 /\ n + 1 \in 1..n + 1 /\ n + 1 \in 1..Len(at) BY <1>1
<1>3. \A k \in 1..n : BatchAt(g, bt, k) = BatchAt(f, at, k)
  <2> TAKE k \in 1..n
  <2>1. k \in 1..Len(at) /\ k + 1 \in 1..Len(at) /\ k \in 1..n + 1 /\ k + 1 \in 1..n + 1 BY <1>1
  <2>2. at[k + 1] <= at[n + 1] BY <1>1, <1>2, <2>1
  <2>3. bt[k] = at[k] /\ bt[k + 1] = at[k + 1] BY <2>1
  <2>4. \A i \in 1..at[k + 1] - at[k] - 1 : at[k] + i \in 1..m BY <1>1, <1>2, <2>1, <2>2
  <2> QED BY <2>3, <2>4 DEF BatchAt
<1>4. BatchAt(g, bt, n) = BatchAt(f, at, n) BY <1>2, <1>3
<1>5. BatchesBefore(g, bt, n) = BatchesBefore(f, at, n)
  <2>1. \A k \in 1..n - 1 : k \in 1..n BY <1>2
  <2>2. [k \in 1..n - 1 |-> BatchAt(g, bt, k)] = [k \in 1..n - 1 |-> BatchAt(f, at, k)] BY <1>3, <2>1
  <2> QED BY <2>2 DEF BatchesBefore
<1>6. WholeBatch(f, at, n, there) BY DEF Good
<1>7. WholeBatch(g, bt, n, also)
  <2>1. bt[n] = at[n] /\ bt[n + 1] = at[n + 1] BY <1>2
  <2>2. at[n] \in Nat /\ at[n + 1] \in Nat /\ at[n] < at[n + 1] BY <1>1, <1>2
  <2>3. \A i \in at[n] + 1..at[n + 1] : i \in 1..m BY <2>2
  <2>4. at[n + 1] \in 1..m BY <2>2
  <2>5. \A i \in bt[n] + 1..bt[n + 1] : g[i].whole /\ g[i].rec.batch = n BY <1>6, <2>1, <2>3 DEF WholeBatch
  <2>6. g[bt[n + 1]].rec.what.value = bt[n + 1] - bt[n] - 1 /\ BatchAt(g, bt, n) # <<>>
    BY <1>4, <1>6, <2>1, <2>4 DEF WholeBatch
  <2>7. K!Applies(BatchesBefore(g, bt, n), BatchAt(g, bt, n)) BY <1>4, <1>5, <1>6 DEF WholeBatch
  <2>8. \A e \in K!Range(BatchAt(g, bt, n)) : e.key \in StoredKeys => e \in also BY <1>4, <1>6 DEF WholeBatch
  <2> QED BY <2>5, <2>6, <2>7, <2>8 DEF WholeBatch
<1>8. ASSUME NEW e \in K!Range(BatchAt(g, bt, n)) PROVE ExportSound(g, bt, n, e, also)
  <2> SUFFICES ASSUME K!IsExport(e)
               PROVE  e \in also /\ e.value.asOf \in 0..n - 1 /\ e.value.prefix = K!CutTo(g, bt[e.value.asOf + 1])
    BY DEF ExportSound
  <2>1. e \in there /\ e.value.asOf \in 0..n - 1 /\ e.value.prefix = K!CutTo(f, at[e.value.asOf + 1])
    BY <1>4, <1>8 DEF Good, ExportSound
  <2> DEFINE x == e.value.asOf + 1
  <2>2. x \in 1..Len(at) /\ x <= n + 1 /\ x \in 1..n + 1 BY <1>1, <1>2, <2>1
  <2>3. at[x] \in Nat /\ at[n + 1] \in Nat /\ at[x] <= at[n + 1] BY <1>1, <1>2, <2>2
  <2>4. \A i \in 1..at[x] : g[i] = f[i]
    <3>1. \A i \in 1..at[x] : i \in 1..m BY <2>3
    <3> QED BY <3>1
  <2>5. bt[x] = at[x] BY <2>2
  <2>6. K!CutTo(g, bt[x]) = K!CutTo(f, at[x]) BY <2>3, <2>4, <2>5, CutSame
  <2> QED BY <2>1, <2>6
<1> QED BY <1>4, <1>7, <1>8 DEF Good

\* A file that is the same up to some place, with no end of a batch after it, has
\* the batches that ended before.
Trimmed(f, g, m) ==
  /\ f \in Seq(K!Range(f)) /\ g \in Seq(K!Range(g)) /\ m \in 0..Len(f) /\ m <= Len(g)
  /\ (\A i \in 1..m : g[i] = f[i]) /\ \A i \in K!Commits(g) : i <= m
Leaves(f, g, at, there, m, k) ==
  /\ at[k] <= m /\ (k < Len(at) => m < at[k + 1])
  /\ Journal(g, K!CutTo(at, k), there) /\ Len(K!CutTo(at, k)) = k /\ \A i \in 1..k : K!CutTo(at, k)[i] = at[i]
  /\ \A n \in 1..k - 1 : BatchAt(g, K!CutTo(at, k), n) = BatchAt(f, at, n)

LEMMA BatchesLeft ==
  ASSUME NEW f, NEW g, NEW at, NEW there, NEW m, Trimmed(f, g, m), Journal(f, at, there)
  PROVE  \E k \in 1..Len(at) : Leaves(f, g, at, there, m, k)
<1>a. /\ f \in Seq(K!Range(f)) /\ g \in Seq(K!Range(g)) /\ m \in 0..Len(f) /\ m <= Len(g)
      /\ (\A i \in 1..m : g[i] = f[i]) /\ \A i \in K!Commits(g) : i <= m BY DEF Trimmed
<1>0. Layout(f, at) BY DEF Journal
<1>1. /\ Len(at) \in Nat \ {0} /\ at[1] = 0 /\ at \in Seq(Nat)
      /\ \A i \in 1..Len(at) : at[i] \in Nat
      /\ \A i, j \in 1..Len(at) : i <= j => at[i] <= at[j]
      /\ \A i, j \in 1..Len(at) : i < j => at[i] < at[j] BY <1>0, Places
<1>2. m \in Nat /\ Len(f) \in Nat /\ Len(g) \in Nat /\ DOMAIN f = 1..Len(f) /\ DOMAIN g = 1..Len(g)
  BY <1>a, LenProperties
<1>3. PICK k \in 1..Len(at) : at[k] <= m /\ \A i \in 1..Len(at) : at[i] <= m => i <= k
  <2> DEFINE S == {i \in 1..Len(at) : at[i] <= m}
  <2>1. 1 \in S BY <1>1, <1>2
  <2>2. S \in SUBSET Nat /\ S # {} /\ Len(at) \in Nat /\ \A i \in S : i <= Len(at) BY <1>1, <2>1
  <2>3. PICK x \in S : \A y \in S : x >= y
    <3> HIDE DEF S
    <3> QED BY <2>2, GreatestPlace
  <2>4. \A y \in S : y <= x BY <2>2, <2>3
  <2> QED BY <2>3, <2>4
<1>4. k \in Nat /\ k < Len(at) => m < at[k + 1]
  <2> SUFFICES ASSUME k < Len(at), ~(m < at[k + 1]) PROVE FALSE OBVIOUS
  <2>1. k + 1 \in 1..Len(at) /\ at[k + 1] \in Nat /\ k \in Nat BY <1>1
  <2>2. k + 1 <= k BY <1>2, <1>3, <2>1
  <2> QED BY <2>1, <2>2
<1> DEFINE bt == K!CutTo(at, k)
<1>5. Len(bt) = k /\ (\A i \in 1..k : bt[i] = at[i]) /\ bt \in Seq({at[i] : i \in 1..k})
  <2>1. k \in Nat BY <1>1
  <2> QED BY <2>1, CutIs
<1>6. bt \in Seq(Nat)
  <2>1. {at[i] : i \in 1..k} \subseteq Nat BY <1>1, <1>3
  <2> QED BY <1>5, <2>1, SeqMonotonic
<1> HIDE DEF bt
<1>7. K!Commits(g) = {i \in K!Commits(f) : i <= m}
  <2>1. \A i \in 1..m : i \in DOMAIN f /\ i \in DOMAIN g /\ g[i] = f[i] BY <1>2, <1>a
  <2>2. \A i \in 1..m : i > 1 => i - 1 \in 1..m /\ g[i - 1] = f[i - 1] BY <1>2, <1>a
  <2>3. \A i \in 1..m : i \in K!Commits(g) <=> i \in K!Commits(f) BY <2>1, <2>2 DEF K!Commits
  <2>4. \A i \in K!Commits(g) : i \in 1..m BY <1>2, <1>a DEF K!Commits
  <2>5. \A i \in K!Commits(f) : i <= m => i \in 1..m BY <1>2, <1>a DEF K!Commits
  <2> QED BY <2>3, <2>4, <2>5
<1>8. Layout(g, bt)
  <2>1. Len(bt) \in Nat \ {0} /\ bt[1] = 0
    <3>1. k \in Nat \ {0} /\ 1 \in 1..k BY <1>1, <1>3
    <3> QED BY <1>1, <1>5, <3>1
  <2>2. \A i, j \in 1..Len(bt) : i < j => bt[i] < bt[j]
    <3>1. \A i \in 1..k : i \in 1..Len(at) BY <1>1, <1>3
    <3> QED BY <1>1, <1>5, <3>1
  <2>3. K!Commits(f) = {at[n + 1] : n \in 1..Len(at) - 1} BY <1>0 DEF Layout
  <2>4. \A n \in 1..Len(at) - 1 : at[n + 1] <= m <=> n \in 1..k - 1
    <3> TAKE n \in 1..Len(at) - 1
    <3>1. n + 1 \in 1..Len(at) /\ k \in Nat /\ k <= Len(at) BY <1>1, <1>3
    <3>2. CASE n + 1 <= k
      <4>1. at[n + 1] <= at[k] /\ at[n + 1] \in Nat /\ at[k] \in Nat BY <1>1, <1>3, <3>1, <3>2
      <4> QED BY <1>2, <1>3, <3>1, <3>2, <4>1
    <3>3. CASE ~(n + 1 <= k)
      <4>1. ~(at[n + 1] <= m) BY <1>3, <3>1, <3>3
      <4> QED BY <3>1, <3>3, <4>1
    <3> QED BY <3>2, <3>3
  <2>5. \A n \in 1..k - 1 : n \in 1..Len(at) - 1 /\ bt[n + 1] = at[n + 1]
    <3>1. \A n \in 1..k - 1 : n \in 1..Len(at) - 1 /\ n + 1 \in 1..k BY <1>1, <1>3
    <3> QED BY <1>5, <3>1
  <2>6. K!Commits(g) = {bt[n + 1] : n \in 1..k - 1} BY <1>7, <2>3, <2>4, <2>5
  <2> QED BY <1>5, <1>6, <2>1, <2>2, <2>6 DEF Layout
<1>9. \A n \in 1..k - 1 : BatchAt(g, bt, n) = BatchAt(f, at, n) /\ Good(g, bt, n, there)
  <2> TAKE n \in 1..k - 1
  <2>1. n \in 1..Len(at) - 1 /\ n + 1 \in 1..Len(at) /\ n + 1 <= k /\ k \in Nat BY <1>1, <1>3
  <2>2. at[n + 1] <= m
    <3>1. at[n + 1] <= at[k] /\ at[n + 1] \in Nat /\ at[k] \in Nat BY <1>1, <1>3, <2>1
    <3> QED BY <1>2, <1>3, <3>1
  <2>3. \A i \in 1..n + 1 : bt[i] = at[i] BY <1>5, <2>1
  <2>4. Good(f, at, n, there) BY <2>1 DEF Journal
  <2>5. there \subseteq there OBVIOUS
  <2> QED BY <1>0, <1>2, <2>1, <2>2, <2>3, <2>4, <2>5, <1>a, BatchCarries
<1>10. Journal(g, bt, there) BY <1>5, <1>8, <1>9 DEF Journal
<1> QED BY <1>3, <1>4, <1>5, <1>9, <1>10 DEF bt, Leaves

\* The lines of a batch.
LEMMA LinesAre ==
  ASSUME NEW n, NEW b, Len(b) \in Nat
  PROVE  /\ \A i \in 1..Len(b) + 1 : K!WholeChunk(K!Lines(n, b)[i]).whole
            /\ K!WholeChunk(K!Lines(n, b)[i]).rec.batch = n
         /\ \A i \in 1..Len(b) : K!WholeChunk(K!Lines(n, b)[i]).rec.what = b[i]
         /\ K!WholeChunk(K!Lines(n, b)[Len(b) + 1]).rec.what = K!Commit(Len(b))
<1>1. \A i \in 1..Len(b) + 1 : K!Lines(n, b)[i] = K!Line(n, IF i > Len(b) THEN K!Commit(Len(b)) ELSE b[i])
  BY DEF K!Lines
<1>2. \A i \in 1..Len(b) : i \in 1..Len(b) + 1 /\ ~(i > Len(b)) OBVIOUS
<1>3. Len(b) + 1 \in 1..Len(b) + 1 /\ Len(b) + 1 > Len(b) OBVIOUS
<1>4. \A i \in 1..Len(b) : K!Lines(n, b)[i] = K!Line(n, b[i]) BY <1>1, <1>2
<1>5. K!Lines(n, b)[Len(b) + 1] = K!Line(n, K!Commit(Len(b))) BY <1>1, <1>3
<1>6. \A r : K!WholeChunk(r).whole /\ K!WholeChunk(r).rec = r BY DEF K!WholeChunk
<1>7. \A x : K!Line(n, x).batch = n /\ K!Line(n, x).what = x BY DEF K!Line
<1>8. \A i \in 1..Len(b) + 1 : K!Lines(n, b)[i].batch = n BY <1>1, <1>7
<1>9. \A i \in 1..Len(b) : K!Lines(n, b)[i].what = b[i] BY <1>4, <1>7
<1>10. K!Lines(n, b)[Len(b) + 1].what = K!Commit(Len(b)) BY <1>5, <1>7
<1> QED BY <1>6, <1>8, <1>9, <1>10

\* A batch written whole at the end of the last is one more.
Extended(f, g, at, b) ==
  /\ f \in Seq(K!Range(f)) /\ g \in Seq(K!Range(g)) /\ Len(f) = at[Len(at)] /\ Len(g) = Len(f) + Len(b) + 1
  /\ \A i \in 1..Len(f) : g[i] = f[i]
  /\ \A i \in 1..Len(b) + 1 : g[Len(f) + i] = K!WholeChunk(K!Lines(Len(at), b)[i])
Appended(f, g, at, b, there) ==
  /\ Journal(g, Append(at, Len(g)), there) /\ BatchAt(g, Append(at, Len(g)), Len(at)) = b
  /\ \A n \in 1..Len(at) - 1 : BatchAt(g, Append(at, Len(g)), n) = BatchAt(f, at, n)

LEMMA BatchAppended ==
  ASSUME NEW f, NEW g, NEW at, NEW there, NEW b, Extended(f, g, at, b), Journal(f, at, there),
         Permitted(f, at, b), InPlace(b, there)
  PROVE  Appended(f, g, at, b, there)
<1> DEFINE bt == Append(at, Len(g))
           L == Len(at)
<1>0. Layout(f, at) BY DEF Journal
<1>a. /\ f \in Seq(K!Range(f)) /\ g \in Seq(K!Range(g)) /\ Len(f) = at[L] /\ Len(g) = Len(f) + Len(b) + 1
  BY DEF Extended
<1>b. \A i \in 1..Len(f) : g[i] = f[i] BY DEF Extended
<1>c. \A i \in 1..Len(b) + 1 : g[Len(f) + i] = K!WholeChunk(K!Lines(L, b)[i]) BY DEF Extended
<1>1. /\ Len(at) \in Nat \ {0} /\ at[1] = 0 /\ at \in Seq(Nat)
      /\ \A i \in 1..Len(at) : at[i] \in Nat
      /\ \A i, j \in 1..Len(at) : i <= j => at[i] <= at[j]
      /\ \A i, j \in 1..Len(at) : i < j => at[i] < at[j] BY <1>0, Places
<1>2. Len(f) \in Nat /\ Len(g) \in Nat /\ DOMAIN f = 1..Len(f) /\ DOMAIN g = 1..Len(g) BY LenProperties
<1>3. b \in Seq(K!Range(b)) /\ Len(b) \in Nat \ {0} /\ DOMAIN b = 1..Len(b)
  BY EmptySeq, LenProperties DEF Permitted
<1>4. L \in Nat \ {0} /\ L \in 1..L BY <1>1
<1>5. bt \in Seq(Nat) /\ Len(bt) = L + 1 /\ (\A i \in 1..L : bt[i] = at[i]) /\ bt[L + 1] = Len(g)
  BY <1>1, <1>2, AppendProperties
<1> HIDE DEF bt
<1>6. \A i \in 1..Len(b) : Len(f) + i \in DOMAIN g /\ g[Len(f) + i].whole /\ g[Len(f) + i].rec.batch = L
      /\ g[Len(f) + i].rec.what = b[i]
  <2> TAKE i \in 1..Len(b)
  <2>1. i \in 1..Len(b) + 1 /\ Len(f) + i \in 1..Len(g) BY <1>a, <1>b, <1>c, <1>2, <1>3
  <2>2. g[Len(f) + i] = K!WholeChunk(K!Lines(L, b)[i]) BY <1>a, <1>b, <1>c, <2>1
  <2>3. K!WholeChunk(K!Lines(L, b)[i]).whole /\ K!WholeChunk(K!Lines(L, b)[i]).rec.batch = L
        /\ K!WholeChunk(K!Lines(L, b)[i]).rec.what = b[i]
    <3>1. Len(b) \in Nat BY <1>3
    <3>2. \A n : /\ \A j \in 1..Len(b) + 1 : K!WholeChunk(K!Lines(n, b)[j]).whole
                    /\ K!WholeChunk(K!Lines(n, b)[j]).rec.batch = n
                 /\ \A j \in 1..Len(b) : K!WholeChunk(K!Lines(n, b)[j]).rec.what = b[j]
      BY <3>1, LinesAre
    <3> QED BY <2>1, <3>2
  <2> QED BY <1>2, <2>1, <2>2, <2>3
<1>7. g[Len(g)].whole /\ g[Len(g)].rec.batch = L /\ g[Len(g)].rec.what = K!Commit(Len(b)) /\ Len(g) \in DOMAIN g
  <2>1. Len(b) + 1 \in 1..Len(b) + 1 /\ Len(f) + (Len(b) + 1) = Len(g) /\ Len(g) \in 1..Len(g)
    BY <1>a, <1>b, <1>c, <1>2, <1>3
  <2>2. g[Len(g)] = K!WholeChunk(K!Lines(L, b)[Len(b) + 1]) BY <1>a, <1>b, <1>c, <2>1
  <2>3. \A n : /\ \A j \in 1..Len(b) + 1 : K!WholeChunk(K!Lines(n, b)[j]).whole
                  /\ K!WholeChunk(K!Lines(n, b)[j]).rec.batch = n
               /\ K!WholeChunk(K!Lines(n, b)[Len(b) + 1]).rec.what = K!Commit(Len(b))
    BY <1>3, LinesAre
  <2> QED BY <1>2, <2>1, <2>2, <2>3
<1>8. K!Commits(g) = K!Commits(f) \union {Len(g)}
  <2>1. \A i \in 1..Len(f) : i \in DOMAIN g /\ g[i] = f[i] BY <1>a, <1>b, <1>c, <1>2, <1>3
  <2>2. \A i \in 1..Len(f) : i > 1 => i - 1 \in 1..Len(f) /\ g[i - 1] = f[i - 1] BY <1>a, <1>b, <1>c, <1>2
  <2>3. \A i \in 1..Len(f) : i \in K!Commits(g) <=> i \in K!Commits(f) BY <1>2, <2>1, <2>2 DEF K!Commits
  <2>4. \A i \in 1..Len(b) : Len(f) + i \notin K!Commits(g)
    <3> TAKE i \in 1..Len(b)
    <3>1. b[i] \in K!Range(b) BY <1>3 DEF K!Range
    <3>2. g[Len(f) + i].rec.what.key # "commit" BY <1>6, <3>1 DEF Permitted
    <3> QED BY <3>2 DEF K!Commits
  <2>5. Len(g) \in K!Commits(g)
    <3>1. g[Len(g)].rec.what.key = "commit" BY <1>7 DEF K!Commit
    <3>2. Len(b) \in 1..Len(b) /\ Len(g) - 1 = Len(f) + Len(b) BY <1>a, <1>b, <1>c, <1>2, <1>3
    <3>3. g[Len(g) - 1].whole BY <1>6, <3>2
    <3> QED BY <1>7, <3>1, <3>3 DEF K!Commits
  <2>6. \A i \in 1..Len(g) : i \in 1..Len(f) \/ (\E j \in 1..Len(b) : i = Len(f) + j) \/ i = Len(g)
    <3> TAKE i \in 1..Len(g)
    <3>1. i <= Len(f) => i \in 1..Len(f) BY <1>2
    <3>2. i > Len(f) /\ i < Len(g) => i - Len(f) \in 1..Len(b) /\ i = Len(f) + (i - Len(f))
      BY <1>a, <1>b, <1>c, <1>2, <1>3
    <3> QED BY <1>a, <1>b, <1>c, <1>2, <3>1, <3>2
  <2>7. \A i \in K!Commits(g) : i \in 1..Len(g) BY <1>2 DEF K!Commits
  <2>8. \A i \in K!Commits(f) : i \in 1..Len(f) BY <1>2 DEF K!Commits
  <2> QED BY <2>3, <2>4, <2>5, <2>6, <2>7, <2>8
<1>9. Layout(g, bt)
  <2>1. Len(bt) \in Nat \ {0} /\ bt[1] = 0
    <3>1. 1 \in 1..L BY <1>4
    <3> QED BY <1>1, <1>4, <1>5, <3>1
  <2>2. ASSUME NEW i \in 1..Len(bt), NEW j \in 1..Len(bt), i < j PROVE bt[i] < bt[j]
    <3>1. i \in 1..L /\ (j \in 1..L \/ j = L + 1) BY <1>4, <1>5, <2>2
    <3>2. CASE j \in 1..L BY <1>1, <1>5, <2>2, <3>1, <3>2
    <3>3. CASE j = L + 1
      <4>1. at[i] <= at[L] /\ at[i] \in Nat BY <1>1, <1>4, <3>1
      <4>2. at[L] < Len(g) BY <1>a, <1>b, <1>c, <1>2, <1>3
      <4> QED BY <1>2, <1>5, <3>1, <3>3, <4>1, <4>2
    <3> QED BY <3>1, <3>2, <3>3
  <2>3. K!Commits(f) = {at[n + 1] : n \in 1..L - 1} BY <1>0 DEF Layout
  <2>4. \A n \in 1..L - 1 : n \in 1..L /\ n + 1 \in 1..L /\ bt[n + 1] = at[n + 1] BY <1>4, <1>5
  <2>5. \A n \in 1..L : n \in 1..L - 1 \/ n = L BY <1>4
  <2>6. K!Commits(g) = {bt[n + 1] : n \in 1..L}
    <3>1. {bt[n + 1] : n \in 1..L} = {bt[n + 1] : n \in 1..L - 1} \union {bt[L + 1]}
      <4>1. \A n \in 1..L - 1 : n \in 1..L BY <1>4
      <4>2. L \in 1..L BY <1>4
      <4>3. \A x : x \in {bt[n + 1] : n \in 1..L} <=> x \in {bt[n + 1] : n \in 1..L - 1} \/ x = bt[L + 1]
        <5> TAKE x
        <5>1. x \in {bt[n + 1] : n \in 1..L} <=> \E n \in 1..L : x = bt[n + 1] OBVIOUS
        <5>2. x \in {bt[n + 1] : n \in 1..L - 1} <=> \E n \in 1..L - 1 : x = bt[n + 1] OBVIOUS
        <5> HIDE DEF L
        <5> QED BY <2>5, <4>1, <4>2, <5>1, <5>2
      <4> QED BY <4>3
    <3>2. {bt[n + 1] : n \in 1..L - 1} = {at[n + 1] : n \in 1..L - 1} BY <2>4
    <3> QED BY <1>5, <1>8, <2>3, <3>1, <3>2
  <2>7. Len(bt) - 1 = L BY <1>4, <1>5
  <2> QED BY <1>5, <2>1, <2>2, <2>6, <2>7 DEF Layout
<1>10. \A n \in 1..L - 1 : BatchAt(g, bt, n) = BatchAt(f, at, n) /\ Good(g, bt, n, there)
  <2> TAKE n \in 1..L - 1
  <2>1. n \in 1..Len(at) - 1 /\ n + 1 \in 1..Len(at) BY <1>4
  <2>2. at[n + 1] <= Len(f) BY <1>a, <1>b, <1>c, <1>1, <1>4, <2>1
  <2>3. \A i \in 1..n + 1 : bt[i] = at[i]
    <3>1. \A i \in 1..n + 1 : i \in 1..L BY <1>4
    <3> QED BY <1>5, <3>1
  <2>4. Good(f, at, n, there) BY <2>1 DEF Journal
  <2>5. there \subseteq there OBVIOUS
  <2> QED BY <1>a, <1>b, <1>c, <1>0, <1>2, <2>1, <2>2, <2>3, <2>4, <2>5, BatchCarries
<1>11. bt[L] = Len(f) /\ bt[L + 1] = Len(g) /\ bt[L + 1] - bt[L] - 1 = Len(b)
  BY <1>a, <1>b, <1>c, <1>2, <1>3, <1>4, <1>5
<1>12. BatchAt(g, bt, L) = b
  <2>1. BatchAt(g, bt, L) = [i \in 1..Len(b) |-> g[Len(f) + i].rec.what] BY <1>11 DEF BatchAt
  <2>2. b = [i \in 1..Len(b) |-> b[i]] BY <1>3
  <2> QED BY <1>6, <2>1, <2>2
<1>13. Good(g, bt, L, there)
  <2>1. \A i \in bt[L] + 1..bt[L + 1] : g[i].whole /\ g[i].rec.batch = L
    <3> TAKE i \in bt[L] + 1..bt[L + 1]
    <3>1. i \in Len(f) + 1..Len(g) BY <1>11
    <3>2. CASE i = Len(g) BY <1>7, <3>2
    <3>3. CASE i # Len(g)
      <4>1. i - Len(f) \in 1..Len(b) /\ i = Len(f) + (i - Len(f)) BY <1>a, <1>b, <1>c, <1>2, <1>3, <3>1, <3>3
      <4> QED BY <1>6, <4>1
    <3> QED BY <3>2, <3>3
  <2>2. g[bt[L + 1]].rec.what.value = bt[L + 1] - bt[L] - 1 BY <1>7, <1>11 DEF K!Commit
  <2>3. b # <<>> BY DEF Permitted
  <2>4. BatchesBefore(g, bt, L) = K!Entries([n \in 1..L - 1 |-> BatchAt(f, at, n)])
    <3>1. [n \in 1..L - 1 |-> BatchAt(g, bt, n)] = [n \in 1..L - 1 |-> BatchAt(f, at, n)] BY <1>10
    <3> QED BY <3>1 DEF BatchesBefore
  <2>5. K!Applies(BatchesBefore(g, bt, L), b) BY <2>4 DEF Permitted
  <2>6. \A e \in K!Range(b) : e.key \in StoredKeys => e \in there BY DEF InPlace
  <2>7. WholeBatch(g, bt, L, there) BY <1>12, <2>1, <2>2, <2>3, <2>5, <2>6 DEF WholeBatch
  <2>8. ASSUME NEW e \in K!Range(b) PROVE ExportSound(g, bt, L, e, there)
    <3> SUFFICES ASSUME K!IsExport(e)
                 PROVE  e \in there /\ e.value.asOf \in 0..L - 1 /\ e.value.prefix = K!CutTo(g, bt[e.value.asOf + 1])
      BY DEF ExportSound
    <3>1. e \in there /\ e.value.asOf \in 0..L - 1 /\ e.value.prefix = K!CutTo(f, at[e.value.asOf + 1])
      BY <2>8 DEF Permitted, InPlace
    <3> DEFINE x == e.value.asOf + 1
    <3>2. x \in 1..L BY <1>4, <3>1
    <3>3. bt[x] = at[x] /\ at[x] \in Nat /\ at[x] <= Len(f)
      <4>1. x <= L BY <1>4, <3>2
      <4> QED BY <1>a, <1>b, <1>c, <1>1, <1>4, <1>5, <3>2, <4>1
    <3>4. \A i \in 1..at[x] : g[i] = f[i]
      <4>1. \A i \in 1..at[x] : i \in 1..Len(f) BY <1>2, <3>3
      <4> QED BY <1>a, <1>b, <1>c, <4>1
    <3>5. K!CutTo(g, bt[x]) = K!CutTo(f, at[x]) BY <3>3, <3>4, CutSame
    <3> QED BY <3>1, <3>5
  <2> QED BY <1>12, <2>7, <2>8 DEF Good
<1>14. Len(bt) - 1 = L /\ \A n \in 1..L : n \in 1..L - 1 \/ n = L BY <1>4, <1>5
<1>15. Journal(g, bt, there) BY <1>9, <1>10, <1>13, <1>14 DEF Journal
<1> QED BY <1>10, <1>12, <1>15 DEF bt, Appended

----------------------------------------------------------------------------
(* Imports and exports.                                                    *)

LEMMA FunctionIsSeq ==
  ASSUME NEW s, NEW k \in Nat, DOMAIN s = 1..k, s = [i \in 1..k |-> s[i]]
  PROVE  s \in Seq(K!Range(s)) /\ Len(s) = k
<1>1. s \in [1..k -> K!Range(s)] BY DEF K!Range
<1>2. s \in Seq(K!Range(s)) BY <1>1, SeqDef
<1> QED BY <1>1, <1>2

\* What an import adds is its bundle without what is there, in its order, and may be written after it.
LEMMA NewIs ==
  ASSUME K!CorpusAssumption, NEW bundle \in Bundles, K!Applies(K!Entries(state), bundle)
  PROVE  /\ K!New(bundle) \in Seq(K!Range(K!New(bundle)))
         /\ \A e \in K!Range(K!New(bundle)) : e.key \in DOMAIN Requires
         /\ K!Applies(K!Entries(state), K!New(bundle))
<1> DEFINE known == K!Entries(state)
           P == {i \in DOMAIN bundle : bundle[i] \notin known}
           N == K!Cardinality(P)
           new == K!New(bundle)
<1>1. bundle \in Seq(K!Range(bundle)) /\ \A i \in DOMAIN bundle : bundle[i].key \in DOMAIN Requires
  BY DEF K!CorpusAssumption
<1>2. Len(bundle) \in Nat /\ DOMAIN bundle = 1..Len(bundle) BY <1>1, LenProperties
<1>3. P \in SUBSET Nat /\ K!IsFiniteSet(P)
  <2>1. K!IsFiniteSet(1..Len(bundle)) BY <1>2, FS_Interval, SameCounting
  <2>2. P \in SUBSET (1..Len(bundle)) BY <1>2
  <2>3. P \in SUBSET Nat BY <1>2
  <2> HIDE DEF P
  <2> QED BY <2>1, <2>2, <2>3, FS_Subset, SameCounting
<1>4. new = [n \in 1..N |-> bundle[K!Nth(P, n)]] BY DEF K!New
<1>5. \A i \in P : i \in 1..Len(bundle) /\ bundle[i] \notin known BY <1>2
<1>6. \A i \in 1..Len(bundle) : bundle[i] \in known \/ i \in P BY <1>2
<1> HIDE DEF P, new
<1>7. /\ N \in Nat /\ \A n \in 1..N : K!Nth(P, n) \in P
      /\ \A m, n \in 1..N : m < n => K!Nth(P, m) < K!Nth(P, n)
      /\ \A i \in P : \E n \in 1..N : K!Nth(P, n) = i BY <1>3, NthFacts
<1> HIDE DEF N
<1>8. DOMAIN new = 1..N /\ \A n \in 1..N : new[n] = bundle[K!Nth(P, n)] BY <1>4
<1>9. new \in Seq(K!Range(new)) /\ Len(new) = N BY <1>4, <1>7, FunctionIsSeq
<1>10. \A e \in K!Range(new) : e.key \in DOMAIN Requires
  <2>1. \A n \in 1..N : K!Nth(P, n) \in DOMAIN bundle BY <1>2, <1>5, <1>7
  <2> QED BY <1>1, <1>8, <2>1 DEF K!Range
<1>11. ASSUME NEW i \in 1..N
       PROVE  known \union {new[j] : j \in 1..i - 1} = known \union {bundle[j] : j \in 1..K!Nth(P, i) - 1}
  <2> DEFINE q == K!Nth(P, i)
  <2>1. q \in P /\ q \in 1..Len(bundle) BY <1>5, <1>7
  <2> HIDE DEF q
  <2>2. ASSUME NEW j \in 1..i - 1 PROVE new[j] \in {bundle[l] : l \in 1..q - 1}
    <3>1. j \in 1..N /\ j < i BY <1>7, <1>11
    <3>2. K!Nth(P, j) \in 1..Len(bundle) /\ K!Nth(P, j) < q BY <1>5, <1>7, <1>11, <3>1 DEF q
    <3>3. K!Nth(P, j) \in 1..q - 1 BY <1>2, <2>1, <3>2
    <3> QED BY <1>8, <3>1, <3>3
  <2>3. ASSUME NEW l \in 1..q - 1, bundle[l] \notin known PROVE bundle[l] \in {new[j] : j \in 1..i - 1}
    <3>1. l \in P BY <1>2, <1>6, <2>1, <2>3
    <3>2. PICK j \in 1..N : K!Nth(P, j) = l BY <1>7, <3>1
    <3>3. j < i
      <4> SUFFICES ASSUME ~(j < i) PROVE FALSE OBVIOUS
      <4>1. j = i \/ i < j BY <1>7, <1>11
      <4>2. l < q BY <1>2, <2>1
      <4>3. i < j => q < l BY <1>7, <1>11, <3>2 DEF q
      <4> QED BY <1>2, <2>1, <3>2, <4>1, <4>2, <4>3 DEF q
    <3>4. j \in 1..i - 1 /\ new[j] = bundle[l] BY <1>8, <3>2, <3>3
    <3> QED BY <3>4
  <2> QED BY <2>2, <2>3 DEF q
<1>12. K!Applies(known, new)
  <2> SUFFICES ASSUME NEW i \in DOMAIN new
               PROVE  LET before == known \union {new[j] : j \in 1..i - 1} IN
                      /\ \A e \in before : e.key = new[i].key /\ ~K!IsExport(e) => e = new[i]
                      /\ ~K!IsExport(new[i]) => Requires[new[i].key] \subseteq {e.key : e \in before}
    BY DEF K!Applies
  <2> DEFINE q == K!Nth(P, i)
             before == known \union {bundle[j] : j \in 1..q - 1}
  <2>1. i \in 1..N /\ new[i] = bundle[q] /\ q \in DOMAIN bundle BY <1>2, <1>5, <1>7, <1>8
  <2>2. known \union {new[j] : j \in 1..i - 1} = before BY <1>11, <2>1
  <2>3. /\ \A e \in before : e.key = bundle[q].key /\ ~K!IsExport(e) => e = bundle[q]
        /\ ~K!IsExport(bundle[q]) => Requires[bundle[q].key] \subseteq {e.key : e \in before}
    BY <2>1 DEF K!Applies
  <2> HIDE DEF q, before
  <2> QED BY <2>1, <2>2, <2>3
<1> QED BY <1>9, <1>10, <1>12 DEF new

\* The batch the next report is made from is one there is.
LEMMA LastDataBatchIs ==
  ASSUME NEW k \in Nat, DOMAIN state = 1..k
  PROVE  K!LastDataBatch \in 0..k
<1> DEFINE S == {0} \union {n \in DOMAIN state : \E e \in K!Range(state[n]) : ~K!IsExport(e)}
<1>1. S \in SUBSET Nat /\ S # {} /\ S \subseteq 0..k OBVIOUS
<1>2. \A x \in S : x <= k BY <1>1
<1> HIDE DEF S
<1>3. \E x \in S : \A y \in S : x >= y BY <1>1, <1>2, GreatestPlace
<1>4. K!Max(S) \in S BY <1>3 DEF K!Max
<1> QED BY <1>1, <1>4 DEF K!LastDataBatch, S

----------------------------------------------------------------------------
(* The invariant.                                                          *)

\* What is loaded, by the batches of the file.
LEMMA LoadedIs ==
  ASSUME CorpusWhole, Loaded
  PROVE  /\ Layout(file, offsets) /\ Journal(file, offsets, artifacts) /\ Len(offsets) \in Nat \ {0}
         /\ state = [n \in 1..Len(offsets) - 1 |-> BatchAt(file, offsets, n)]
         /\ DOMAIN state = 1..Len(offsets) - 1 /\ Len(state) = Len(offsets) - 1 /\ state \in Seq(K!Range(state))
         /\ Len(file) = offsets[Len(offsets)]
<1>1. Journal(file, offsets, artifacts) BY DEF CorpusWhole, Loaded
<1>2. Layout(file, offsets) BY <1>1 DEF Journal
<1>3. Len(offsets) \in Nat \ {0} BY <1>2 DEF Layout
<1>4. state = [n \in 1..Len(offsets) - 1 |-> BatchAt(file, offsets, n)] BY <1>2, LayoutIs DEF Loaded
<1>5. Len(offsets) - 1 \in Nat /\ DOMAIN state = 1..Len(offsets) - 1 BY <1>3, <1>4
<1>6. state = [i \in 1..Len(offsets) - 1 |-> state[i]] BY <1>4
<1>7. state \in Seq(K!Range(state)) /\ Len(state) = Len(offsets) - 1 BY <1>5, <1>6, FunctionIsSeq
<1> QED BY <1>1, <1>2, <1>3, <1>4, <1>5, <1>7 DEF Loaded

LEMMA InitCorpus == K!Init => CorpusInv
<1> SUFFICES ASSUME K!Init PROVE CorpusInv OBVIOUS
<1>1. file = <<>> /\ synced = 0 /\ artifacts = {} /\ state = Null /\ offsets = <<0>> /\ pc = "idle" /\ told = {}
  BY DEF K!Init
<1>2. Layout(file, <<0>>) /\ Len(<<0>>) = 1 BY <1>1 DEF Layout, K!Commits
<1>3. K!Offsets(file) = <<0>> BY <1>2, LayoutIs
<1>4. Journal(file, K!Offsets(file), artifacts) BY <1>2, <1>3 DEF Journal
<1>5. <<>> \in Seq(K!Range(<<>>)) /\ Len(<<>>) = 0 BY EmptySeq
<1>6. CorpusShape BY <1>1, <1>5 DEF CorpusShape
<1>7. CorpusTold BY <1>1 DEF CorpusTold
<1>8. CorpusLoaded /\ CorpusPending /\ CorpusSyncing BY <1>1 DEF CorpusLoaded, CorpusPending, CorpusSyncing
<1> QED BY <1>4, <1>6, <1>7, <1>8 DEF CorpusInv, CorpusWhole

\* CorpusKept is what the invariant says of the file and the state.
LEMMA CorpusMeans == CorpusInv => K!CorpusKept
<1> SUFFICES ASSUME CorpusInv PROVE K!CorpusKept OBVIOUS
<1> DEFINE at == K!Offsets(file)
           N == K!Cardinality(K!Commits(file))
<1>1. Journal(file, at, artifacts) /\ Layout(file, at) BY DEF CorpusInv, CorpusWhole, Journal
<1>2. N = Len(at) - 1 /\ K!Batches(file) = [n \in 1..Len(at) - 1 |-> BatchAt(file, at, n)]
      /\ \A n \in 1..Len(at) - 1 : K!Batch(file, n) = BatchAt(file, at, n) BY <1>1, LayoutIs
<1>3. Len(at) \in Nat \ {0} BY <1>1 DEF Layout
<1>4. DOMAIN K!Batches(file) = 1..Len(at) - 1 /\ \A n \in 1..Len(at) - 1 : K!Batches(file)[n] = BatchAt(file, at, n)
  BY <1>2
<1> HIDE DEF at, N
<1>5. K!Intact(file)
  <2>1. ASSUME NEW n \in 1..Len(at) - 1
        PROVE  /\ \A i \in at[n] + 1..at[n + 1] : file[i].whole /\ file[i].rec.batch = n
               /\ file[at[n + 1]].rec.what.value = at[n + 1] - at[n] - 1 /\ K!Batch(file, n) # <<>>
               /\ K!Applies(K!Entries([k \in 1..n - 1 |-> K!Batch(file, k)]), K!Batch(file, n))
               /\ \A e \in K!Range(K!Batch(file, n)) : e.key \in StoredKeys => e \in artifacts
    <3>1. WholeBatch(file, at, n, artifacts) BY <1>1, <2>1 DEF Journal, Good
    <3>2. \A k \in 1..n - 1 : k \in 1..Len(at) - 1 BY <1>3
    <3>3. [k \in 1..n - 1 |-> K!Batch(file, k)] = [k \in 1..n - 1 |-> BatchAt(file, at, k)] BY <1>2, <3>2
    <3>4. K!Batch(file, n) = BatchAt(file, at, n) BY <1>2
    <3> QED BY <3>1, <3>3, <3>4 DEF WholeBatch, BatchesBefore
  <2> QED BY <1>2, <2>1 DEF K!Intact, at, N
<1>6. told \subseteq K!Entries(K!Batches(file)) BY <1>4 DEF CorpusInv, CorpusTold, K!Entries, at
<1>7. pc = "idle" /\ state # Null => state = K!Batches(file) /\ offsets = K!Offsets(file)
  BY DEF CorpusInv, CorpusLoaded, Loaded
<1>8. ASSUME NEW e \in K!Entries(K!Batches(file)), K!IsExport(e)
      PROVE  e \in artifacts /\ e.value.prefix = K!CutTo(file, K!Offsets(file)[e.value.asOf + 1])
  <2>1. PICK n \in 1..Len(at) - 1 : e \in K!Range(BatchAt(file, at, n)) BY <1>4 DEF K!Entries
  <2>2. ExportSound(file, at, n, e, artifacts) BY <1>1, <2>1 DEF Journal, Good
  <2> QED BY <1>8, <2>2 DEF ExportSound, at
<1> QED BY <1>5, <1>6, <1>7, <1>8 DEF K!CorpusKept

----------------------------------------------------------------------------
(* The steps.                                                              *)

\* What the state of a corpus says of it does not change while none of it does.
LEMMA CorpusUntouched ==
  ASSUME CorpusInv, UNCHANGED <<file, synced, artifacts, state, offsets, pc, batch, told>>
  PROVE  CorpusInv'
BY DEF CorpusInv, CorpusShape, CorpusWhole, CorpusTold, CorpusLoaded, CorpusPending, CorpusSyncing, Loaded

\* A file that keeps the lines up to a place past what was reported, and ends no batch after it.
LEMMA FileLeft ==
  ASSUME CorpusShape, CorpusWhole, CorpusTold, file' \in Seq(K!Range(file')), NEW m \in 0..Len(file), m <= Len(file'),
         \A i \in 1..m : file'[i] = file[i], \A i \in K!Commits(file') : i <= m, synced' \in 0..Len(file'),
         \A n \in 1..Len(K!Offsets(file)) :
           K!Offsets(file)[n] <= synced => K!Offsets(file)[n] <= m /\ K!Offsets(file)[n] <= synced',
         UNCHANGED <<artifacts, told>>
  PROVE  /\ CorpusWhole' /\ CorpusTold'
         /\ K!Offsets(file)[Len(K!Offsets(file))] <= m => K!Offsets(file') = K!Offsets(file)
            /\ K!Batches(file') = K!Batches(file)
<1> DEFINE at == K!Offsets(file)
<1>1. Journal(file, at, artifacts) /\ Layout(file, at) BY DEF CorpusWhole, Journal
<1>2. /\ Len(at) \in Nat \ {0} /\ at \in Seq(Nat)
      /\ \A i \in 1..Len(at) : at[i] \in Nat
      /\ \A i, j \in 1..Len(at) : i <= j => at[i] <= at[j] BY <1>1, Places
<1>3. file \in Seq(K!Range(file)) BY DEF CorpusShape
<1>4. Len(file) \in Nat /\ m \in Nat /\ synced \in Nat /\ synced' \in Nat BY <1>3, LenProperties DEF CorpusShape
<1> HIDE DEF at
<1>5. PICK k \in 1..Len(at) : Leaves(file, file', at, artifacts, m, k)
  <2>1. Trimmed(file, file', m) BY <1>3 DEF Trimmed
  <2> QED BY <1>1, <2>1, BatchesLeft
<1>k. /\ at[k] <= m /\ (k < Len(at) => m < at[k + 1])
      /\ Journal(file', K!CutTo(at, k), artifacts) /\ Len(K!CutTo(at, k)) = k
         /\ \A i \in 1..k : K!CutTo(at, k)[i] = at[i]
      /\ \A n \in 1..k - 1 : BatchAt(file', K!CutTo(at, k), n) = BatchAt(file, at, n) BY <1>5 DEF Leaves
<1> DEFINE bt == K!CutTo(at, k)
<1>6. Layout(file', bt) BY <1>k DEF Journal
<1>7. K!Offsets(file') = bt /\ K!Batches(file') = [n \in 1..Len(bt) - 1 |-> BatchAt(file', bt, n)] BY <1>6, LayoutIs
<1>8. CorpusWhole' BY <1>k, <1>7 DEF CorpusWhole
<1>9. ASSUME NEW e \in told'
      PROVE  \E n \in 1..Len(bt) - 1 : e \in K!Range(BatchAt(file', bt, n)) /\ bt[n + 1] <= synced'
  <2>1. PICK n \in 1..Len(at) - 1 : e \in K!Range(BatchAt(file, at, n)) /\ at[n + 1] <= synced BY DEF CorpusTold, at
  <2>2. n + 1 \in 1..Len(at) /\ k \in Nat BY <1>2
  <2>3. at[n + 1] <= m /\ at[n + 1] <= synced' BY <2>1, <2>2 DEF at
  <2>4. n + 1 <= k
    <3> SUFFICES ASSUME ~(n + 1 <= k) PROVE FALSE OBVIOUS
    <3>1. k < Len(at) /\ k + 1 \in 1..Len(at) /\ k + 1 <= n + 1 BY <1>2, <2>2
    <3>2. m < at[k + 1] /\ at[k + 1] <= at[n + 1] /\ at[k + 1] \in Nat /\ at[n + 1] \in Nat BY <1>2, <1>k, <2>2, <3>1
    <3> QED BY <1>4, <2>3, <3>2
  <2>5. n \in 1..k - 1 /\ n + 1 \in 1..k BY <2>2, <2>4
  <2> QED BY <1>k, <2>1, <2>3, <2>5
<1>10. CorpusTold' BY <1>7, <1>9 DEF CorpusTold
<1>11. ASSUME at[Len(at)] <= m PROVE K!Offsets(file') = at /\ K!Batches(file') = K!Batches(file)
  <2>1. k = Len(at)
    <3> SUFFICES ASSUME k # Len(at) PROVE FALSE OBVIOUS
    <3>1. k < Len(at) /\ k + 1 \in 1..Len(at) /\ k + 1 <= Len(at) /\ Len(at) \in 1..Len(at) BY <1>2
    <3>2. m < at[k + 1] /\ at[k + 1] <= at[Len(at)] /\ at[k + 1] \in Nat /\ at[Len(at)] \in Nat BY <1>2, <1>k, <3>1
    <3> QED BY <1>4, <1>11, <3>2
  <2>2. bt = at
    <3>1. bt \in Seq({at[i] : i \in 1..k}) BY CutIs
    <3>2. {at[i] : i \in 1..k} \subseteq Nat BY <1>2, <2>1
    <3>3. bt \in Seq(Nat) BY <3>1, <3>2, SeqMonotonic
    <3> QED BY <1>2, <1>k, <2>1, <3>3, SeqEqual
  <2>3. K!Batches(file) = [n \in 1..Len(at) - 1 |-> BatchAt(file, at, n)] BY <1>1, LayoutIs
  <2>4. K!Batches(file') = [n \in 1..Len(at) - 1 |-> BatchAt(file', at, n)] BY <1>7, <2>2
  <2>5. \A n \in 1..Len(at) - 1 : BatchAt(file', at, n) = BatchAt(file, at, n) BY <1>k, <2>1, <2>2
  <2> QED BY <1>7, <2>2, <2>3, <2>4, <2>5
<1> QED BY <1>8, <1>10, <1>11 DEF at

\* Storing more takes nothing from the batches.
LEMMA StoredMore ==
  ASSUME NEW f, NEW at, NEW there, NEW also, there \subseteq also, Journal(f, at, there)
  PROVE  Journal(f, at, also)
<1>1. Layout(f, at) BY DEF Journal
<1>2. Len(at) \in Nat \ {0} /\ \A i \in 1..Len(at) : at[i] \in Nat BY <1>1, Places
<1>3. \A n \in 1..Len(at) - 1 : Good(f, at, n, also)
  <2> TAKE n \in 1..Len(at) - 1
  <2>1. Good(f, at, n, there) BY DEF Journal
  <2>2. n + 1 \in 1..Len(at) /\ at[n + 1] \in Nat /\ at[n + 1] <= at[n + 1] BY <1>2
  <2>3. (\A i \in 1..n + 1 : at[i] = at[i]) /\ (\A i \in 1..at[n + 1] : f[i] = f[i]) OBVIOUS
  <2> QED BY <1>1, <2>1, <2>2, <2>3, BatchCarries
<1> QED BY <1>1, <1>3 DEF Journal

\* Where the last batch of a file ends is in it.
LEMMA LastInFile ==
  ASSUME CorpusShape, CorpusWhole
  PROVE  LET at == K!Offsets(file) IN at[Len(at)] \in 0..Len(file) /\ K!Committed(file) = at[Len(at)]
                                    /\ Len(at) \in Nat \ {0} /\ \A n \in 1..Len(at) : at[n] \in Nat
                                       /\ at[n] <= at[Len(at)]
<1> DEFINE at == K!Offsets(file)
<1>1. Layout(file, at) BY DEF CorpusWhole, Journal
<1>2. Len(at) \in Nat \ {0} /\ at[1] = 0 /\ (\A i \in 1..Len(at) : at[i] \in Nat)
      /\ \A i, j \in 1..Len(at) : i <= j => at[i] <= at[j]
  BY <1>1, Places
<1>3. K!Commits(file) = {at[n + 1] : n \in 1..Len(at) - 1} /\ K!Cardinality(K!Commits(file)) = Len(at) - 1
  BY <1>1, LayoutIs DEF Layout
<1>4. K!Committed(file) = at[Len(at)] BY <1>2, <1>3 DEF K!Committed
<1>5. Len(file) \in Nat /\ DOMAIN file = 1..Len(file) BY LenProperties DEF CorpusShape
<1> HIDE DEF at
<1>6. at[Len(at)] \in 0..Len(file)
  <2>1. CASE Len(at) = 1 BY <1>2, <1>5, <2>1
  <2>2. CASE Len(at) # 1
    <3>0. Len(at) \in Nat /\ Len(at) - 1 >= 1
      <4>1. Len(at) \in Nat \ {0} BY <1>2
      <4>2. \A l \in Nat \ {0} : l # 1 => l \in Nat /\ l - 1 >= 1 OBVIOUS
      <4> QED BY <2>2, <4>1, <4>2
    <3>1. Len(at) - 1 \in 1..Len(at) - 1 /\ Len(at) - 1 + 1 = Len(at) BY <3>0
    <3>2. at[Len(at)] \in K!Commits(file) BY <1>3, <3>1
    <3> QED BY <1>5, <3>2 DEF K!Commits
  <2> QED BY <2>1, <2>2
<1>7. \A n \in 1..Len(at) : at[n] \in Nat /\ at[n] <= at[Len(at)]
  <2>1. Len(at) \in 1..Len(at) /\ \A n \in 1..Len(at) : n <= Len(at) BY <1>2
  <2> QED BY <1>2, <2>1
<1> QED BY <1>2, <1>4, <1>6, <1>7 DEF at

\* Load.
LEMMA CorpusIsLoaded == ASSUME CorpusInv, K!Load PROVE CorpusInv'
<1>1. CASE K!Fault /\ UNCHANGED <<file, synced, state, offsets>> BY <1>1, CorpusUntouched DEF K!Load
<1>2. CASE /\ K!Intact(file)
           /\ state' = K!Batches(file) /\ offsets' = K!Offsets(file)
           /\ file' = K!CutTo(file, K!Committed(file))
           /\ synced' = (IF Len(file') < synced THEN Len(file') ELSE synced)
           /\ UNCHANGED faults
  <2> DEFINE at == K!Offsets(file)
             m == at[Len(at)]
  <2>0. CorpusShape /\ CorpusWhole /\ CorpusTold BY DEF CorpusInv
  <2>1. m \in 0..Len(file) /\ K!Committed(file) = m /\ Len(at) \in Nat \ {0} /\ \A n \in 1..Len(at) : at[n] \in Nat
        /\ at[n] <= m
    BY <2>0, LastInFile
  <2>2. Len(file) \in Nat /\ synced \in Nat /\ m \in Nat BY <2>0, <2>1, LenProperties DEF CorpusShape
  <2>3. Len(file') = m /\ file' \in Seq(K!Range(file')) /\ \A i \in 1..m : file'[i] = file[i]
    <3>1. file' = K!CutTo(file, m) BY <1>2, <2>1
    <3> HIDE DEF m
    <3> QED BY <2>2, <3>1, CutIs
  <2>4. synced' \in 0..m /\ \A x \in Nat : x <= m /\ x <= synced => x <= synced' BY <1>2, <2>2, <2>3
  <2>5. UNCHANGED <<artifacts, told, pc, batch>> /\ pc = "idle" BY DEF K!Load
  <2> HIDE DEF at, m
  <2>6. \A i \in K!Commits(file') : i <= m
    <3>1. DOMAIN file' = 1..m BY <2>3, LenProperties
    <3> QED BY <2>2, <3>1 DEF K!Commits
  <2>7. m <= m /\ m <= Len(file') BY <2>2, <2>3
  <2>8. \A n \in 1..Len(at) : at[n] <= synced => at[n] <= m /\ at[n] <= synced' BY <2>1, <2>4
  <2>9. CorpusWhole' /\ CorpusTold' /\ K!Offsets(file') = at /\ K!Batches(file') = K!Batches(file)
    BY <2>0, <2>1, <2>3, <2>4, <2>5, <2>6, <2>7, <2>8, FileLeft DEF at, m
  <2>10. CorpusShape' BY <2>3, <2>4, <2>5 DEF CorpusShape
  <2>11. Loaded' BY <1>2, <2>3, <2>9 DEF Loaded, at, m
  <2>12. CorpusLoaded' /\ CorpusPending' /\ CorpusSyncing'
    BY <2>5, <2>11 DEF CorpusLoaded, CorpusPending, CorpusSyncing
  <2> QED BY <2>9, <2>10, <2>12 DEF CorpusInv
<1> QED BY <1>1, <1>2 DEF K!Load

\* A batch that may be written is.
LEMMA CorpusBegins ==
  ASSUME CorpusInv, pc = "idle", state # Null, NEW b, K!Begin(b), Permitted(file, offsets, b)
  PROVE  CorpusInv'
<1>1. /\ pc' = "put" /\ batch' = b
      /\ UNCHANGED <<file, synced, artifacts, state, offsets, told>> BY DEF K!Begin
<1>2. Loaded BY DEF CorpusInv, CorpusLoaded
<1>3. CorpusShape' /\ CorpusWhole' /\ CorpusTold' BY <1>1 DEF CorpusInv, CorpusShape, CorpusWhole, CorpusTold
<1>4. CorpusLoaded' BY <1>1, <1>2 DEF CorpusLoaded, Loaded
<1>5. CorpusPending' BY <1>1 DEF CorpusPending
<1>6. CorpusSyncing' BY <1>1 DEF CorpusSyncing
<1> QED BY <1>3, <1>4, <1>5, <1>6 DEF CorpusInv

LEMMA CorpusIsImported ==
  ASSUME K!CorpusAssumption, CorpusInv, NEW bundle \in Bundles, K!Import(bundle)
  PROVE  CorpusInv'
<1>1. pc = "idle" /\ state # Null /\ K!Applies(K!Entries(state), bundle) /\ K!New(bundle) # <<>>
      /\ K!Begin(K!New(bundle))
  BY DEF K!Import
<1>2. Loaded BY <1>1 DEF CorpusInv, CorpusLoaded
<1>3. state = [n \in 1..Len(offsets) - 1 |-> BatchAt(file, offsets, n)] BY <1>2, LoadedIs DEF CorpusInv
<1>4. /\ K!New(bundle) \in Seq(K!Range(K!New(bundle)))
      /\ \A e \in K!Range(K!New(bundle)) : e.key \in DOMAIN Requires
      /\ K!Applies(K!Entries(state), K!New(bundle)) BY <1>1, NewIs
<1>5. \A e \in K!Range(K!New(bundle)) : e.key # "commit" /\ ~K!IsExport(e)
  BY <1>4 DEF K!CorpusAssumption, K!IsExport
<1>6. Permitted(file, offsets, K!New(bundle)) BY <1>1, <1>3, <1>4, <1>5 DEF Permitted
<1> QED BY <1>1, <1>6, CorpusBegins

LEMMA CorpusIsExported == ASSUME CorpusInv, K!Export PROVE CorpusInv'
<1> DEFINE e == [key |-> "export", value |-> K!Report]
<1>1. pc = "idle" /\ state # Null /\ K!Begin(<<e>>) BY DEF K!Export
<1>2. Loaded BY <1>1 DEF CorpusInv, CorpusLoaded
<1>3. /\ state = [n \in 1..Len(offsets) - 1 |-> BatchAt(file, offsets, n)] /\ Len(offsets) \in Nat \ {0}
      /\ DOMAIN state = 1..Len(offsets) - 1 BY <1>2, LoadedIs DEF CorpusInv
<1>4. K!LastDataBatch \in 0..Len(offsets) - 1
  <2>1. Len(offsets) - 1 \in Nat BY <1>3
  <2> QED BY <1>3, <2>1, LastDataBatchIs
<1>5. e.key = "export" /\ e.value = K!Report /\ K!Report.asOf = K!LastDataBatch
      /\ K!Report.prefix = K!CutTo(file, offsets[K!LastDataBatch + 1])
  BY DEF K!Report, K!Prefix
<1> HIDE DEF e
<1>6. <<e>> \in Seq({e}) /\ Len(<<e>>) = 1 /\ DOMAIN <<e>> = 1..1 /\ <<e>>[1] = e /\ <<e>> # <<>> OBVIOUS
<1>7. K!Range(<<e>>) = {e} BY <1>6 DEF K!Range
<1>8. K!IsExport(e) BY <1>5 DEF K!IsExport
<1>9. K!Applies(K!Entries(state), <<e>>)
  <2>1. \A i \in DOMAIN <<e>> : <<e>>[i] = e BY <1>6
  <2>2. \A i \in DOMAIN <<e>> : {<<e>>[j] : j \in 1..i - 1} = {} BY <1>6
  <2>3. \A x : x.key = "export" /\ ~K!IsExport(x) => FALSE BY DEF K!IsExport
  <2> QED BY <1>5, <1>8, <2>1, <2>2, <2>3 DEF K!Applies
<1>10. Permitted(file, offsets, <<e>>) BY <1>3, <1>4, <1>5, <1>6, <1>7, <1>9 DEF Permitted
<1> QED BY <1>1, <1>10, CorpusBegins DEF e

\* Put.
LEMMA CorpusIsPut == ASSUME CorpusInv, K!Put PROVE CorpusInv'
<1>0. UNCHANGED <<file, synced, state, offsets, told>> /\ pc = "put" BY DEF K!Put
<1>1. Loaded /\ Loaded' /\ Permitted(file, offsets, batch) BY <1>0 DEF CorpusInv, CorpusLoaded, CorpusPending, Loaded
<1>2. CorpusTold' BY <1>0 DEF CorpusInv, CorpusTold
<1>3. CASE /\ artifacts' = artifacts \union {e \in K!Range(batch) : e.key \in StoredKeys \/ K!IsExport(e)}
           /\ pc' = "write" /\ UNCHANGED <<batch, faults>>
  <2>1. CorpusWhole'
    <3>1. Journal(file, K!Offsets(file), artifacts) BY DEF CorpusInv, CorpusWhole
    <3>2. artifacts \subseteq artifacts' BY <1>3
    <3>3. Journal(file, K!Offsets(file), artifacts') BY <3>1, <3>2, StoredMore
    <3> QED BY <1>0, <3>3 DEF CorpusWhole
  <2>2. CorpusShape' BY <1>0, <1>3 DEF CorpusInv, CorpusShape
  <2>3. CorpusPending' BY <1>0, <1>1, <1>3 DEF CorpusPending, InPlace
  <2>4. CorpusLoaded' /\ CorpusSyncing' BY <1>1, <1>3 DEF CorpusLoaded, CorpusSyncing
  <2> QED BY <1>2, <2>1, <2>2, <2>3, <2>4 DEF CorpusInv
<1>4. CASE K!Fault /\ pc' = "idle" /\ batch' = <<>> /\ UNCHANGED artifacts
  <2>1. CorpusWhole' /\ CorpusShape' BY <1>0, <1>4 DEF CorpusInv, CorpusWhole, CorpusShape
  <2>2. CorpusLoaded' /\ CorpusSyncing' /\ CorpusPending' BY <1>1, <1>4 DEF CorpusLoaded, CorpusSyncing, CorpusPending
  <2> QED BY <1>2, <2>1, <2>2 DEF CorpusInv
<1> QED BY <1>3, <1>4 DEF K!Put

\* The lines of a batch, and a file to which the first n were written.
LinesOf(w, number, b) == \A i \in 1..Len(b) + 1 : w[i] = K!WholeChunk(K!Lines(number, b)[i])
Wrote(w, n, g) == g = file \o K!CutTo(w, n) \/ g = file \o K!CutTo(w, n) \o <<K!TornChunk(w[n + 1].rec)>>
Held(g, n, number, b) ==
  /\ g \in Seq(K!Range(g)) /\ Len(g) \in {Len(file) + n, Len(file) + n + 1}
  /\ \A i \in 1..Len(file) : g[i] = file[i]
  /\ \A i \in 1..n : g[Len(file) + i] = K!WholeChunk(K!Lines(number, b)[i])
  /\ Len(g) = Len(file) + n + 1 => ~g[Len(file) + n + 1].whole

\* What a write leaves of a batch, and how much of it.
LEMMA WrittenIs ==
  ASSUME CorpusShape, NEW b, b \in Seq(K!Range(b)), NEW g, NEW n \in 0..Len(b) + 1, NEW number,
         NEW written, LinesOf(written, number, b), Wrote(written, n, g)
  PROVE  Held(g, n, number, b) /\ (g = file \o K!CutTo(written, n) => Len(g) = Len(file) + n)
<1>1. Len(b) \in Nat /\ Len(file) \in Nat /\ file \in Seq(K!Range(file)) BY LenProperties DEF CorpusShape
<1>2. n \in Nat BY <1>1
<1> DEFINE c == K!CutTo(written, n)
           torn == K!TornChunk(written[n + 1].rec)
           S == K!Range(file) \union {written[i] : i \in 1..n} \union {torn}
<1>3. c \in Seq({written[i] : i \in 1..n}) /\ Len(c) = n /\ \A i \in 1..n : c[i] = written[i]
  <2>1. \A w : K!CutTo(w, n) \in Seq({w[i] : i \in 1..n}) /\ Len(K!CutTo(w, n)) = n
        /\ \A i \in 1..n : K!CutTo(w, n)[i] = w[i]
    BY <1>2, CutIs
  <2> QED BY <2>1
<1>4. ~torn.whole BY DEF K!TornChunk
<1> HIDE DEF c, torn
<1>5. file \in Seq(S) /\ c \in Seq(S) /\ <<torn>> \in Seq(S) /\ Len(<<torn>>) = 1 /\ <<torn>>[1] = torn
  <2>1. K!Range(file) \subseteq S /\ {written[i] : i \in 1..n} \subseteq S /\ torn \in S OBVIOUS
  <2> HIDE DEF S
  <2>2. file \in Seq(S) /\ c \in Seq(S) BY <1>1, <1>3, <2>1, SeqMonotonic
  <2> QED BY <2>1, <2>2
<1>6. \A i \in 1..n : written[i] = K!WholeChunk(K!Lines(number, b)[i])
  <2>1. \A i \in 1..n : i \in 1..Len(b) + 1 BY <1>1
  <2>2. \A i \in 1..Len(b) + 1 : written[i] = K!WholeChunk(K!Lines(number, b)[i]) BY DEF LinesOf
  <2> QED BY <2>1, <2>2
<1> HIDE DEF S
<1> DEFINE h == file \o c
<1>7. h \in Seq(S) /\ Len(h) = Len(file) + n /\ (\A i \in 1..Len(file) : h[i] = file[i])
      /\ \A i \in 1..n : h[Len(file) + i] = c[i]
  <2>1. h \in Seq(S) /\ Len(h) = Len(file) + Len(c)
        /\ \A i \in 1..Len(file) + Len(c) : h[i] = IF i <= Len(file) THEN file[i] ELSE c[i - Len(file)]
          BY <1>5, ConcatProperties
  <2> HIDE DEF h
  <2>2. \A i \in 1..Len(file) : i \in 1..Len(file) + Len(c) /\ i <= Len(file) BY <1>1, <1>2, <1>3
  <2>3. \A i \in 1..n : Len(file) + i \in 1..Len(file) + Len(c) /\ ~(Len(file) + i <= Len(file))
        /\ Len(file) + i - Len(file) = i
    BY <1>1, <1>2, <1>3
  <2>4. \A i \in 1..Len(file) : h[i] = file[i] BY <2>1, <2>2
  <2>5. \A i \in 1..n : h[Len(file) + i] = c[i]
    <3> TAKE i \in 1..n
    <3>1. h[Len(file) + i] = c[Len(file) + i - Len(file)] BY <2>1, <2>3
    <3> QED BY <2>3, <3>1
  <2> QED BY <1>3, <2>1, <2>4, <2>5
<1> HIDE DEF h
<1>8. CASE g = h
  <2>1. g \in Seq(K!Range(g)) BY <1>7, <1>8, OfItsRange
  <2>2. Len(g) # Len(file) + n + 1 BY <1>1, <1>2, <1>7, <1>8
  <2> QED BY <1>3, <1>6, <1>7, <1>8, <2>1, <2>2 DEF Held
<1>9. CASE g = h \o <<torn>> /\ g # h
  <2>1. g \in Seq(S) /\ Len(g) = Len(h) + 1
        /\ \A i \in 1..Len(h) + 1 : g[i] = IF i <= Len(h) THEN h[i] ELSE <<torn>>[i - Len(h)] 
    <3>1. \A s, t \in Seq(S) : /\ s \o t \in Seq(S) /\ Len(s \o t) = Len(s) + Len(t)
                              /\ \A i \in 1..Len(s) + Len(t) : (s \o t)[i] = IF i <= Len(s) THEN s[i] ELSE t[i - Len(s)]
      BY ConcatProperties
    <3>2. h \in Seq(S) /\ <<torn>> \in Seq(S) /\ Len(<<torn>>) = 1 BY <1>5, <1>7
    <3>3. g = h \o <<torn>> BY <1>9
    <3> QED BY <3>1, <3>2, <3>3
  <2>2. Len(h) \in Nat /\ Len(h) + 1 \in 1..Len(h) + 1 /\ ~(Len(h) + 1 <= Len(h)) /\ Len(h) + 1 - Len(h) = 1
    BY <1>1, <1>2, <1>7
  <2>3. g[Len(h) + 1] = torn
    <3>1. g[Len(h) + 1] = <<torn>>[Len(h) + 1 - Len(h)] BY <2>1, <2>2
    <3> QED BY <1>5, <2>2, <3>1
  <2>4. \A i \in 1..Len(h) : i \in 1..Len(h) + 1 /\ i <= Len(h) BY <2>2
  <2>5. \A i \in 1..Len(h) : g[i] = h[i] BY <2>1, <2>4
  <2>6. (\A i \in 1..Len(file) : i \in 1..Len(h)) /\ (\A i \in 1..n : Len(file) + i \in 1..Len(h)) BY <1>1, <1>2, <1>7
  <2>7. Len(g) = Len(file) + n + 1 /\ Len(h) + 1 = Len(file) + n + 1 BY <1>1, <1>2, <1>7, <2>1
  <2>8. g \in Seq(K!Range(g)) BY <2>1, OfItsRange
  <2>9. \A i \in 1..n : g[Len(file) + i] = K!WholeChunk(K!Lines(number, b)[i]) BY <1>3, <1>6, <1>7, <2>5, <2>6
  <2> QED BY <1>4, <1>7, <1>9, <2>3, <2>5, <2>6, <2>7, <2>8, <2>9 DEF Held, h, c
<1> QED BY <1>8, <1>9 DEF h, c, torn, Wrote

\* The whole batch in the file.
LEMMA BatchWritten ==
  ASSUME CorpusShape, CorpusWhole, CorpusTold, Loaded, Permitted(file, offsets, batch), InPlace(batch, artifacts),
         file' \in Seq(K!Range(file')), Len(file') = Len(file) + Len(batch) + 1,
         \A i \in 1..Len(file) : file'[i] = file[i],
         \A i \in 1..Len(batch) + 1 : file'[Len(file) + i] = K!WholeChunk(K!Lines(Len(state) + 1, batch)[i]),
         UNCHANGED <<artifacts, told, synced>>
  PROVE  /\ CorpusWhole' /\ CorpusTold'
         /\ K!Batches(file') = Append(state, batch)
         /\ K!Offsets(file') = Append(offsets, offsets[Len(offsets)] + Len(batch) + 1)
         /\ Len(file') = K!Offsets(file')[Len(K!Offsets(file'))]
         /\ \E n \in 1..Len(K!Offsets(file')) - 1 : BatchAt(file', K!Offsets(file'), n) = batch
<1> DEFINE at == offsets
           L == Len(at)
           bt == Append(at, Len(file'))
<1>1. /\ Layout(file, at) /\ Journal(file, at, artifacts) /\ L \in Nat \ {0}
      /\ state = [n \in 1..L - 1 |-> BatchAt(file, at, n)]
      /\ Len(state) = L - 1 /\ state \in Seq(K!Range(state)) /\ Len(file) = at[L] BY LoadedIs
<1>2. at \in Seq(Nat) /\ \A n \in 1..L : at[n] \in Nat BY <1>1, Places
<1>3. file \in Seq(K!Range(file)) /\ Len(file) \in Nat /\ Len(file') \in Nat /\ Len(batch) \in Nat
  BY LenProperties DEF CorpusShape, Permitted
<1>4. Len(state) + 1 = L BY <1>1
<1>5. /\ Journal(file', bt, artifacts) /\ BatchAt(file', bt, L) = batch
      /\ \A n \in 1..L - 1 : BatchAt(file', bt, n) = BatchAt(file, at, n)
  <2>1. \A i \in 1..Len(batch) + 1 : file'[Len(file) + i] = K!WholeChunk(K!Lines(L, batch)[i]) BY <1>4
  <2>2. Extended(file, file', at, batch) BY <1>1, <1>3, <2>1 DEF Extended
  <2>3. Appended(file, file', at, batch, artifacts) BY <1>1, <2>2, BatchAppended
  <2> QED BY <2>3 DEF Appended
<1>6. Len(bt) = L + 1 /\ (\A i \in 1..L : bt[i] = at[i]) /\ bt[L + 1] = Len(file') BY <1>1, <1>2, <1>3, AppendProperties
<1>7. bt = Append(offsets, offsets[Len(offsets)] + Len(batch) + 1) BY <1>1
<1> HIDE DEF at, bt
<1>8. Layout(file', bt) BY <1>5 DEF Journal
<1>9. K!Offsets(file') = bt /\ K!Batches(file') = [n \in 1..Len(bt) - 1 |-> BatchAt(file', bt, n)] BY <1>8, LayoutIs
<1>10. CorpusWhole' BY <1>5, <1>9 DEF CorpusWhole
<1>11. Len(bt) - 1 = L /\ L \in 1..L /\ \A n \in 1..L : n \in 1..L - 1 \/ n = L BY <1>1, <1>6
<1>12. K!Batches(file') = Append(state, batch)
  <2>1. DOMAIN Append(state, batch) = 1..L /\ Append(state, batch) = [n \in 1..L |-> Append(state, batch)[n]]
        /\ (\A n \in 1..L - 1 : Append(state, batch)[n] = state[n]) /\ Append(state, batch)[L] = batch
    <3> DEFINE S == K!Range(state) \union {batch}
    <3>1. state \in Seq(S) /\ batch \in S
      <4>1. K!Range(state) \subseteq S /\ batch \in S OBVIOUS
      <4> HIDE DEF S
      <4> QED BY <1>1, <4>1, SeqMonotonic
    <3> HIDE DEF S
    <3>2. Append(state, batch) \in Seq(S) /\ Len(Append(state, batch)) = L
          /\ (\A n \in 1..Len(state) : Append(state, batch)[n] = state[n])
             /\ Append(state, batch)[Len(state) + 1] = batch
      BY <1>4, <3>1, AppendProperties
    <3>3. DOMAIN Append(state, batch) = 1..L /\ Append(state, batch) = [n \in 1..L |-> Append(state, batch)[n]]
      BY <3>2, OfItsRange
    <3> QED BY <1>1, <1>4, <3>2, <3>3
  <2>2. \A n \in 1..L : BatchAt(file', bt, n) = Append(state, batch)[n]
    <3> TAKE n \in 1..L
    <3>1. CASE n = L BY <1>5, <2>1, <3>1
    <3>2. CASE n \in 1..L - 1 BY <1>1, <1>5, <2>1, <3>2
    <3> QED BY <1>11, <3>1, <3>2
  <2> QED BY <1>9, <1>11, <2>1, <2>2
<1>13. CorpusTold'
  <2>1. ASSUME NEW e \in told'
        PROVE  \E n \in 1..Len(bt) - 1 : e \in K!Range(BatchAt(file', bt, n)) /\ bt[n + 1] <= synced'
    <3>1. K!Offsets(file) = at BY <1>1, LayoutIs
    <3>2. PICK n \in 1..Len(at) - 1 : e \in K!Range(BatchAt(file, at, n)) /\ at[n + 1] <= synced
      BY <2>1, <3>1 DEF CorpusTold
    <3>3. n \in 1..L /\ n \in 1..L - 1 /\ n + 1 \in 1..L BY <1>1, <3>2
    <3> QED BY <1>5, <1>6, <1>11, <3>2, <3>3
  <2> QED BY <1>9, <2>1 DEF CorpusTold
<1>14. Len(file') = bt[Len(bt)] BY <1>6
<1> QED BY <1>5, <1>7, <1>9, <1>10, <1>11, <1>12, <1>13, <1>14 DEF at

LEMMA CorpusIsWritten == ASSUME CorpusInv, K!Write PROVE CorpusInv'
<1> DEFINE number == Len(state) + 1
           written == [i \in 1..Len(batch) + 1 |-> K!WholeChunk(K!Lines(number, batch)[i])]
<1>1. pc = "write" /\ UNCHANGED <<synced, artifacts>> BY DEF K!Write
<1>2. Loaded /\ Permitted(file, offsets, batch) /\ InPlace(batch, artifacts)
  BY <1>1 DEF CorpusInv, CorpusLoaded, CorpusPending
<1>3. CorpusShape /\ CorpusWhole /\ CorpusTold BY DEF CorpusInv
<1>4. batch \in Seq(K!Range(batch)) /\ Len(batch) \in Nat /\ DOMAIN batch = 1..Len(batch)
  BY <1>2, LenProperties DEF Permitted
<1>5. Len(file) \in Nat /\ synced \in 0..Len(file) BY <1>3, LenProperties DEF CorpusShape
<1>6. \A i \in 1..Len(batch) + 1 : written[i] = K!WholeChunk(K!Lines(number, batch)[i]) OBVIOUS
<1>7. DOMAIN written = 1..Len(batch) + 1 /\ written = [i \in 1..Len(batch) + 1 |-> written[i]] OBVIOUS
<1>8. \/ file' = file \o written /\ pc' = "sync" /\ UNCHANGED <<state, offsets, batch, told, faults>>
      \/ /\ K!Failed
         /\ \E n \in 0..Len(written) :
              file' \in {file \o K!CutTo(written, n)} \union
                IF n = Len(written) THEN {} ELSE {file \o K!CutTo(written, n) \o <<K!TornChunk(written[n + 1].rec)>>}
  BY DEF K!Write
<1>14. LinesOf(written, number, batch) BY DEF LinesOf
<1> HIDE DEF written
<1>9. Len(written) = Len(batch) + 1 /\ written \in Seq(K!Range(written))
  <2> DEFINE k == Len(batch) + 1
  <2>1. k \in Nat BY <1>4
  <2>2. written = [i \in 1..k |-> written[i]] BY <1>7
  <2> HIDE DEF k
  <2>3. \A w : w = [i \in 1..k |-> w[i]] => Len(w) = k /\ w \in Seq(K!Range(w))
    <3> TAKE w
    <3> HAVE w = [i \in 1..k |-> w[i]]
    <3>1. DOMAIN w = 1..k OBVIOUS
    <3>2. w \in [1..k -> K!Range(w)] BY <3>1 DEF K!Range
    <3>3. w \in Seq(K!Range(w)) BY <2>1, <3>2, SeqDef
    <3>4. Len(w) = k BY <2>1, <3>1, <3>3, LenProperties
    <3> QED BY <3>3, <3>4
  <2>4. Len(written) = k /\ written \in Seq(K!Range(written)) BY <2>2, <2>3
  <2> QED BY <2>4 DEF k
<1>10. K!CutTo(written, Len(batch) + 1) = written BY <1>9, SubSeqFull DEF K!CutTo
<1>11. ASSUME file' = file \o K!CutTo(written, Len(batch) + 1), UNCHANGED told
       PROVE  /\ CorpusWhole' /\ CorpusTold' /\ file' \in Seq(K!Range(file')) /\ synced \in 0..Len(file')
              /\ K!Batches(file') = Append(state, batch)
              /\ K!Offsets(file') = Append(offsets, offsets[Len(offsets)] + Len(batch) + 1)
              /\ Len(file') = K!Offsets(file')[Len(K!Offsets(file'))]
              /\ \E n \in 1..Len(K!Offsets(file')) - 1 : BatchAt(file', K!Offsets(file'), n) = batch
  <2> DEFINE n == Len(batch) + 1
  <2>1. n \in 0..Len(batch) + 1 BY <1>4
  <2>2. /\ file' \in Seq(K!Range(file')) /\ Len(file') = Len(file) + n
        /\ \A i \in 1..Len(file) : file'[i] = file[i]
        /\ \A i \in 1..n : file'[Len(file) + i] = K!WholeChunk(K!Lines(number, batch)[i])
    <3>1. file' = file \o K!CutTo(written, n) BY <1>11
    <3> HIDE DEF n, number
    <3>2. Wrote(written, n, file') BY <3>1 DEF Wrote
    <3>3. Held(file', n, number, batch) /\ Len(file') = Len(file) + n BY <1>3, <1>4, <1>14, <2>1, <3>1, <3>2, WrittenIs
    <3> QED BY <3>3 DEF Held
  <2>3. Len(file') = Len(file) + Len(batch) + 1 BY <1>4, <1>5, <2>2
  <2>4. synced \in 0..Len(file') BY <1>4, <1>5, <2>3
  <2>5. \A i \in 1..Len(batch) + 1 : file'[Len(file) + i] = K!WholeChunk(K!Lines(Len(state) + 1, batch)[i]) BY <2>2
  <2>6. UNCHANGED <<artifacts, told, synced>> BY <1>1, <1>11
  <2> QED BY <1>2, <1>3, <2>2, <2>3, <2>4, <2>5, <2>6, BatchWritten
<1>12. CASE file' = file \o written /\ pc' = "sync" /\ UNCHANGED <<state, offsets, batch, told, faults>>
  <2>1. file' = file \o K!CutTo(written, Len(batch) + 1) BY <1>10, <1>12
  <2>2. /\ CorpusWhole' /\ CorpusTold' /\ file' \in Seq(K!Range(file')) /\ synced \in 0..Len(file')
        /\ K!Batches(file') = Append(state, batch)
        /\ K!Offsets(file') = Append(offsets, offsets[Len(offsets)] + Len(batch) + 1)
        /\ Len(file') = K!Offsets(file')[Len(K!Offsets(file'))]
        /\ \E n \in 1..Len(K!Offsets(file')) - 1 : BatchAt(file', K!Offsets(file'), n) = batch
    BY <1>11, <1>12, <2>1
  <2>3. CorpusShape' BY <1>1, <1>12, <2>2 DEF CorpusShape
  <2>4. CorpusSyncing' BY <1>12, <2>2 DEF CorpusSyncing
  <2>5. CorpusLoaded' /\ CorpusPending' BY <1>12 DEF CorpusLoaded, CorpusPending
  <2> QED BY <2>2, <2>3, <2>4, <2>5 DEF CorpusInv
<1>13. ASSUME K!Failed, NEW n \in 0..Len(written),
              file' \in {file \o K!CutTo(written, n)} \union
                IF n = Len(written) THEN {} ELSE {file \o K!CutTo(written, n) \o <<K!TornChunk(written[n + 1].rec)>>}
       PROVE  CorpusInv'
  <2>1. state' = Null /\ pc' = "idle" /\ UNCHANGED told BY <1>13 DEF K!Failed, K!Forgotten
  <2>2. n \in 0..Len(batch) + 1 BY <1>9, <1>13
  <2>3. CorpusWhole' /\ CorpusTold' /\ file' \in Seq(K!Range(file')) /\ synced \in 0..Len(file')
    <3>1. CASE n = Len(batch) + 1
      <4>1. file' = file \o K!CutTo(written, Len(batch) + 1) BY <1>9, <1>13, <3>1
      <4> QED BY <1>11, <2>1, <4>1
    <3>2. CASE n # Len(batch) + 1
      <4>1. n < Len(batch) + 1 /\ n \in Nat BY <1>4, <2>2, <3>2
      <4>2. Wrote(written, n, file') BY <1>9, <1>13, <4>1 DEF Wrote
      <4>3. /\ file' \in Seq(K!Range(file')) /\ Len(file') \in {Len(file) + n, Len(file) + n + 1}
            /\ \A i \in 1..Len(file) : file'[i] = file[i]
            /\ \A i \in 1..n : file'[Len(file) + i] = K!WholeChunk(K!Lines(number, batch)[i])
            /\ Len(file') = Len(file) + n + 1 => ~file'[Len(file) + n + 1].whole
        <5> HIDE DEF number
        <5>1. Held(file', n, number, batch) BY <1>3, <1>4, <1>14, <2>2, <4>2, WrittenIs
        <5> QED BY <5>1 DEF Held
      <4>4. Len(file') \in Nat /\ Len(file) <= Len(file') /\ DOMAIN file' = 1..Len(file')
        BY <1>5, <4>1, <4>3, LenProperties
      <4>5. \A i \in K!Commits(file') : i <= Len(file)
        <5> SUFFICES ASSUME NEW i \in K!Commits(file'), ~(i <= Len(file)) PROVE FALSE OBVIOUS
        <5>1. i \in 1..Len(file') /\ file'[i].whole /\ file'[i].rec.what.key = "commit" BY <4>4 DEF K!Commits
        <5>2. i # Len(file) + n + 1 BY <4>3, <5>1
        <5>3. i - Len(file) \in 1..n /\ i = Len(file) + (i - Len(file)) BY <1>5, <4>1, <4>3, <5>1, <5>2
        <5> DEFINE j == i - Len(file)
        <5>4. j \in 1..Len(batch) /\ j \in 1..n BY <1>4, <4>1, <5>3
        <5>5. file'[i] = K!WholeChunk(K!Lines(number, batch)[j]) BY <4>3, <5>3
        <5>6. K!WholeChunk(K!Lines(number, batch)[j]).rec.what = batch[j]
          <6> HIDE DEF j, number
          <6> QED BY <1>4, <5>4, LinesAre
        <5>7. batch[j] \in K!Range(batch) BY <1>4, <5>4 DEF K!Range
        <5>8. batch[j].key # "commit" BY <1>2, <5>7 DEF Permitted
        <5> QED BY <5>1, <5>5, <5>6, <5>8
      <4>6. Len(file) \in 0..Len(file) /\ synced' \in 0..Len(file') BY <1>1, <1>5, <4>4
      <4>7. \A k \in 1..Len(K!Offsets(file)) :
              K!Offsets(file)[k] <= synced => K!Offsets(file)[k] <= Len(file) /\ K!Offsets(file)[k] <= synced'
        <5>1. \A k \in 1..Len(K!Offsets(file)) : K!Offsets(file)[k] \in Nat BY <1>3, LastInFile
        <5> QED BY <1>1, <1>5, <5>1
      <4>8. UNCHANGED <<artifacts, told>> BY <1>1, <2>1
      <4> QED BY <1>1, <1>3, <4>3, <4>4, <4>5, <4>6, <4>7, <4>8, FileLeft
    <3> QED BY <3>1, <3>2
  <2>4. CorpusShape' BY <1>1, <2>1, <2>3 DEF CorpusShape
  <2>5. CorpusLoaded' /\ CorpusPending' /\ CorpusSyncing' BY <2>1 DEF CorpusLoaded, CorpusPending, CorpusSyncing
  <2> QED BY <2>3, <2>4, <2>5 DEF CorpusInv
<1> QED BY <1>8, <1>12, <1>13

LEMMA CorpusIsSynced == ASSUME CorpusInv, K!Sync PROVE CorpusInv'
<1>1. pc = "sync" /\ UNCHANGED <<file, artifacts>> BY DEF K!Sync
<1>2. /\ K!Batches(file) = Append(state, batch)
      /\ K!Offsets(file) = Append(offsets, offsets[Len(offsets)] + Len(batch) + 1)
      /\ Len(file) = K!Offsets(file)[Len(K!Offsets(file))]
      /\ \E n \in 1..Len(K!Offsets(file)) - 1 : BatchAt(file, K!Offsets(file), n) = batch
        BY <1>1 DEF CorpusInv, CorpusSyncing
<1>3. CorpusShape /\ CorpusWhole /\ CorpusTold /\ Len(file) \in Nat BY LenProperties DEF CorpusInv, CorpusShape
<1>4. CorpusWhole' BY <1>1, <1>3 DEF CorpusWhole
<1>5. CASE /\ synced' = Len(file)
           /\ state' = Append(state, batch)
           /\ offsets' = Append(offsets, offsets[Len(offsets)] + Len(batch) + 1)
           /\ told' = told \union K!Range(batch)
           /\ pc' = "idle" /\ batch' = <<>> /\ UNCHANGED faults
  <2> DEFINE at == K!Offsets(file)
  <2>1. Len(at) \in Nat \ {0} /\ \A n \in 1..Len(at) : at[n] \in Nat /\ at[n] <= Len(file) BY <1>2, <1>3, LastInFile
  <2>2. ASSUME NEW e \in told'
        PROVE  \E n \in 1..Len(at) - 1 : e \in K!Range(BatchAt(file, at, n)) /\ at[n + 1] <= Len(file)
    <3>1. \A n \in 1..Len(at) - 1 : n + 1 \in 1..Len(at) BY <2>1
    <3>2. \A n \in 1..Len(at) - 1 : at[n + 1] <= Len(file) BY <2>1, <3>1
    <3>3. CASE e \in told BY <1>3, <3>2, <3>3 DEF CorpusTold
    <3>4. CASE e \in K!Range(batch) BY <1>2, <3>2, <3>4
    <3> QED BY <1>5, <2>2, <3>3, <3>4
  <2>3. CorpusTold' BY <1>1, <1>5, <2>2 DEF CorpusTold
  <2>4. CorpusShape' BY <1>1, <1>3, <1>5 DEF CorpusShape
  <2>5. Loaded' BY <1>1, <1>2, <1>5 DEF Loaded
  <2>6. CorpusLoaded' /\ CorpusPending' /\ CorpusSyncing' BY <1>5, <2>5 DEF CorpusLoaded, CorpusPending, CorpusSyncing
  <2> QED BY <1>4, <2>3, <2>4, <2>6 DEF CorpusInv
<1>6. CASE K!Failed /\ UNCHANGED synced
  <2>1. state' = Null /\ pc' = "idle" /\ UNCHANGED told BY <1>6 DEF K!Failed, K!Forgotten
  <2>2. CorpusShape' /\ CorpusTold' BY <1>1, <1>3, <1>6, <2>1 DEF CorpusShape, CorpusTold
  <2>3. CorpusLoaded' /\ CorpusPending' /\ CorpusSyncing' BY <2>1 DEF CorpusLoaded, CorpusPending, CorpusSyncing
  <2> QED BY <1>4, <2>2, <2>3 DEF CorpusInv
<1> QED BY <1>5, <1>6 DEF K!Sync

LEMMA CorpusCrashes == ASSUME CorpusInv, K!Crash PROVE CorpusInv'
<1>1. /\ file' \in K!AfterPowerLoss(file, synced) /\ synced' = Len(file')
      /\ state' = Null /\ pc' = "idle" /\ UNCHANGED <<artifacts, told>> BY DEF K!Crash
<1>2. CorpusShape /\ CorpusWhole /\ CorpusTold BY DEF CorpusInv
<1>3. file \in Seq(K!Range(file)) /\ Len(file) \in Nat /\ synced \in 0..Len(file) BY <1>2, LenProperties DEF CorpusShape
<1>4. ASSUME NEW m \in synced..Len(file), file' \in Seq(K!Range(file')), Len(file') \in {m, m + 1},
             \A i \in 1..m : file'[i] = file[i], Len(file') = m + 1 => ~file'[m + 1].whole
      PROVE  CorpusInv'
  <2>1. m \in 0..Len(file) /\ m \in Nat /\ Len(file') \in Nat /\ m <= Len(file') BY <1>3, <1>4
  <2>2. \A i \in K!Commits(file') : i <= m
    <3>1. DOMAIN file' = 1..Len(file') BY <1>4, LenProperties
    <3>2. \A i \in K!Commits(file') : i \in 1..Len(file') /\ file'[i].whole BY <3>1 DEF K!Commits
    <3> QED BY <1>4, <2>1, <3>2
  <2>3. synced' \in 0..Len(file') BY <1>1, <2>1
  <2>4. \A k \in 1..Len(K!Offsets(file)) :
          K!Offsets(file)[k] <= synced => K!Offsets(file)[k] <= m /\ K!Offsets(file)[k] <= synced'
    <3>1. \A k \in 1..Len(K!Offsets(file)) : K!Offsets(file)[k] \in Nat BY <1>2, LastInFile
    <3>2. synced <= m /\ synced \in Nat /\ synced' \in Nat /\ m <= synced' BY <1>1, <1>3, <1>4, <2>1
    <3> QED BY <2>1, <3>1, <3>2
  <2>5. CorpusWhole' /\ CorpusTold' BY <1>1, <1>2, <1>4, <2>1, <2>2, <2>3, <2>4, FileLeft
  <2>6. CorpusShape' BY <1>1, <1>4, <2>3 DEF CorpusShape
  <2>7. CorpusLoaded' /\ CorpusPending' /\ CorpusSyncing' BY <1>1 DEF CorpusLoaded, CorpusPending, CorpusSyncing
  <2> QED BY <2>5, <2>6, <2>7 DEF CorpusInv
<1>5. CASE \E m \in synced..Len(file) : file' = K!CutTo(file, m)
  <2>1. PICK m \in synced..Len(file) : file' = K!CutTo(file, m) BY <1>5
  <2>2. m \in Nat BY <1>3, <2>1
  <2>3. file' \in Seq(K!Range(file')) /\ Len(file') = m /\ \A i \in 1..m : file'[i] = file[i] BY <2>1, <2>2, CutIs
  <2> QED BY <1>4, <2>2, <2>3
<1>6. CASE \E m \in synced..Len(file) - 1 : file' = Append(K!CutTo(file, m), K!TornChunk(file[m + 1].rec))
  <2>1. PICK m \in synced..Len(file) - 1 : file' = Append(K!CutTo(file, m), K!TornChunk(file[m + 1].rec)) BY <1>6
  <2>2. m \in Nat /\ m \in synced..Len(file) BY <1>3, <2>1
  <2> DEFINE c == K!CutTo(file, m)
             torn == K!TornChunk(file[m + 1].rec)
             S == {file[i] : i \in 1..m} \union {torn}
  <2>3. c \in Seq({file[i] : i \in 1..m}) /\ Len(c) = m /\ \A i \in 1..m : c[i] = file[i] BY <2>2, CutIs
  <2>4. ~torn.whole BY DEF K!TornChunk
  <2>5. {file[i] : i \in 1..m} \subseteq S /\ torn \in S OBVIOUS
  <2> HIDE DEF c, torn, S
  <2>6. c \in Seq(S) BY <2>3, <2>5, SeqMonotonic
  <2>7. file' = Append(c, torn) BY <2>1 DEF c, torn
  <2>8. file' \in Seq(S) /\ Len(file') = m + 1 /\ (\A i \in 1..m : file'[i] = c[i]) /\ file'[m + 1] = torn
    BY <2>3, <2>5, <2>6, <2>7, AppendProperties
  <2>9. file' \in Seq(K!Range(file')) BY <2>8, OfItsRange
  <2>10. \A i \in 1..m : file'[i] = file[i] BY <2>3, <2>8
  <2> QED BY <1>4, <2>2, <2>4, <2>8, <2>9, <2>10
<1> QED BY <1>1, <1>5, <1>6 DEF K!AfterPowerLoss

LEMMA StepCorpus == ASSUME K!CorpusAssumption, CorpusInv, [K!Next]_K!vars PROVE CorpusInv'
<1>1. CASE UNCHANGED K!vars BY <1>1, CorpusUntouched DEF K!vars
<1> QED
  BY <1>1, CorpusIsLoaded, CorpusIsImported, CorpusIsExported, CorpusIsPut, CorpusIsWritten, CorpusIsSynced,
    CorpusCrashes DEF K!Next

\* store.ts: the journal loads with whole batches only, what an import reported is among
\* them, the state in memory is what a load would find, and every exported report can be
\* rebuilt from the bytes it names: for any bundles, faults, crashes and power losses.
THEOREM TheCorpusIsKept == K!CorpusAssumption => (K!Spec => []K!CorpusKept)
<1> SUFFICES ASSUME K!CorpusAssumption PROVE K!Spec => []K!CorpusKept OBVIOUS
<1>1. K!Init => CorpusInv BY InitCorpus
<1>2. CorpusInv /\ [K!Next]_K!vars => CorpusInv' BY StepCorpus
<1>3. CorpusInv => K!CorpusKept BY CorpusMeans
<1> QED BY <1>1, <1>2, <1>3, PTL DEF K!Spec
=============================================================================
