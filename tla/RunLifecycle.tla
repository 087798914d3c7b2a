---------------------------- MODULE RunLifecycle ----------------------------
(***************************************************************************)
(* One run as the orchestrator of one process holds it: at most one live   *)
(* handle, operators' calls that interleave at every await (resume, edits  *)
(* of a stopped run, cancel), and the timer that takes up a run paused on  *)
(* a usage limit.  The run behind a handle is WorkflowRunner's; here it    *)
(* only records transitions and settles.                                   *)
(***************************************************************************)
EXTENDS Integers, FiniteSets

CONSTANTS
  Operator,      \* concurrent callers
  WakeUp,        \* the timer's callback, a caller of resume like the others
  MaxHandles,    \* bound: handles with something pending at a time
  MaxCrashes,    \* bound: process crashes
  MaxLimit       \* bound: token limits tried

ASSUME CallerAssumption ==
  /\ WakeUp \notin Operator
  /\ MaxHandles \in Nat /\ MaxCrashes \in Nat /\ MaxLimit \in Nat

Caller == Operator \union {WakeUp}
Handle == 1..MaxHandles
NoHandle == 0
Final == {"COMPLETED", "FAILED", "CANCELLED", "BLOCKED", "SUSPENDED_RATE_LIMIT"}

VARIABLES
  recorded,   \* the newest transition in events.jsonl
  limit,      \* the token limit in the stored context
  live,       \* #live: the handle, or NoHandle
  resuming,   \* #resuming: whether a call holds the run
  armed,      \* #wakeups: whether a timer is set
  handle,     \* where each handle's result stands
  final,      \* the state a concluding handle is about to record
  cancelled,  \* handles that were cancelled
  waking,     \* #wakeAfterReset of each settled handle
  pc,         \* where each caller's call stands
  wanted,     \* the limit a resume was asked to raise to; 0: none
  awaited,    \* the handle a cancel waits for
  crashes     \* bound

vars == <<recorded, limit, live, resuming, armed, handle, final, cancelled,
          waking, pc, wanted, awaited, crashes>>
calls == <<pc, wanted, awaited>>
store == <<recorded, limit>>
runs == <<live, handle, final, cancelled>>

Init ==
  /\ recorded = "none" /\ limit = 1
  /\ live = NoHandle /\ resuming = FALSE /\ armed = FALSE
  /\ handle = [h \in Handle |-> "none"]
  /\ final = [h \in Handle |-> "FAILED"]
  /\ cancelled = {}
  /\ waking = [h \in Handle |-> "no"]
  /\ pc = [c \in Caller |-> "idle"]
  /\ wanted = [c \in Caller |-> 0]
  /\ awaited = [c \in Caller |-> NoHandle]
  /\ crashes = 0

\* A number no pending callback or call knows stands for a fresh handle.
Fresh(h) ==
  /\ handle[h] \in {"none", "settled"} /\ waking[h] = "no"
  /\ \A c \in Caller : awaited[c] # h

\* #track: a fresh handle becomes the live one.
Track ==
  \E h \in Handle :
    /\ Fresh(h) /\ \A g \in 1..h-1 : ~Fresh(g)
    /\ live' = h
    /\ handle' = [handle EXCEPT ![h] = "loading"]
    /\ cancelled' = cancelled \ {h}

Start ==
  /\ \A h \in Handle : handle[h] = "none"
  /\ Track
  /\ UNCHANGED <<store, resuming, armed, final, waking, calls, crashes>>

-----------------------------------------------------------------------------
(* The guard every call that needs the run at rest takes, and gives back in *)
(* a finally block.                                                         *)

\* Mutant: only a live handle refuses a call.
AtRestUnlessLive == live = NoHandle

AtRest == live = NoHandle /\ ~resuming

Goto(c, at) == pc' = [pc EXCEPT ![c] = at]

\* Mutant: a call that fails keeps the guard.
KeepGuard == UNCHANGED resuming

ReleaseFailed == resuming' = FALSE

\* The call throws, or rejects: the finally block runs.
Fail(c) == Goto(c, "idle") /\ ReleaseFailed /\ wanted' = [wanted EXCEPT ![c] = 0]

-----------------------------------------------------------------------------
(* resume                                                                  *)

Resume(c) ==
  /\ AtRest
  /\ armed' = FALSE /\ resuming' = TRUE
  /\ Goto(c, "resume-status")

OperatorResumes(c) ==
  /\ pc[c] = "idle" /\ recorded # "none"
  /\ Resume(c)
  /\ \E l \in {0} \union 1..MaxLimit : wanted' = [wanted EXCEPT ![c] = l]
  /\ UNCHANGED <<store, runs, waking, awaited, crashes>>

\* Mutant: any state may be resumed.
AlwaysResumable == TRUE

Resumable == recorded \notin {"none", "COMPLETED"}

\* status reads the events file; a COMPLETED or absent run is refused.
ResumeReadsStatus(c) ==
  /\ pc[c] = "resume-status"
  /\ \/ Resumable /\ Goto(c, "resume-context") /\ UNCHANGED <<resuming, wanted>>
     \/ ~Resumable /\ Fail(c)
  /\ UNCHANGED <<store, runs, armed, waking, awaited, crashes>>

Raises(c) == wanted[c] > limit

\* raisedTokenLimit: the new limit is compared with the context just loaded ...
ResumeReadsContext(c) ==
  /\ pc[c] = "resume-context"
  /\ \/ /\ wanted[c] = 0 /\ Goto(c, "resume-checks")
        /\ UNCHANGED <<resuming, wanted>>
     \/ /\ wanted[c] # 0 /\ Raises(c) /\ Goto(c, "resume-raise")
        /\ UNCHANGED <<resuming, wanted>>
     \/ wanted[c] # 0 /\ ~Raises(c) /\ Fail(c)
  /\ UNCHANGED <<store, runs, armed, waking, awaited, crashes>>

\* ... and the context is replaced before anything else is checked.
ResumeRaises(c) ==
  /\ pc[c] = "resume-raise"
  /\ limit' = wanted[c]
  /\ Goto(c, "resume-checks")
  /\ UNCHANGED <<recorded, runs, resuming, armed, waking, wanted, awaited, crashes>>

\* The repository changed, the graph differs, a checkpoint is invalid, ...
ResumeRefused(c) ==
  /\ pc[c] = "resume-checks"
  /\ Fail(c)
  /\ UNCHANGED <<store, runs, armed, waking, awaited, crashes>>

ResumeTracks(c) ==
  /\ pc[c] = "resume-checks"
  /\ Track
  /\ Goto(c, "resume-answer")
  /\ UNCHANGED <<store, final, resuming, armed, waking, wanted, awaited, crashes>>

\* The artifacts are listed for the answer before the guard is given back.
ResumeReturns(c) ==
  /\ pc[c] = "resume-answer"
  /\ Goto(c, "idle") /\ resuming' = FALSE
  /\ wanted' = [wanted EXCEPT ![c] = 0]
  /\ UNCHANGED <<store, runs, armed, waking, awaited, crashes>>
-----------------------------------------------------------------------------
(* Calls that change a stopped run: a checkpoint or requirements decision   *)
(* needs it BLOCKED; a batch resolution, and a replay of it, only at rest.  *)

TakeGuard(c) == AtRest /\ resuming' = TRUE

BeginEdit(c) ==
  /\ pc[c] = "idle" /\ recorded # "none"
  /\ TakeGuard(c)
  /\ \E at \in {"edit-status", "editing-any"} : Goto(c, at)
  /\ UNCHANGED <<store, runs, armed, waking, wanted, awaited, crashes>>

EditReadsStatus(c) ==
  /\ pc[c] = "edit-status"
  /\ \/ recorded = "BLOCKED" /\ Goto(c, "editing") /\ UNCHANGED <<resuming, wanted>>
     \/ recorded # "BLOCKED" /\ Fail(c)
  /\ UNCHANGED <<store, runs, armed, waking, awaited, crashes>>

\* The decision is written, or refused; the guard is given back either way.
EndEdit(c) ==
  /\ pc[c] \in {"editing", "editing-any"}
  /\ Goto(c, "idle") /\ resuming' = FALSE
  /\ UNCHANGED <<store, runs, armed, waking, wanted, awaited, crashes>>
-----------------------------------------------------------------------------
(* cancel                                                                  *)

\* A run that is not live loses its wake-up, if any, and its status is read.
CancelIdle(c) ==
  /\ pc[c] = "idle" /\ live = NoHandle /\ recorded # "none"
  /\ armed' = FALSE
  /\ Goto(c, "cancel-status")
  /\ UNCHANGED <<store, runs, resuming, waking, wanted, awaited, crashes>>

CancelReadsStatus(c) ==
  /\ pc[c] = "cancel-status"
  /\ Goto(c, "idle")
  /\ UNCHANGED <<store, runs, resuming, armed, waking, wanted, awaited, crashes>>

CancelLive(c) ==
  /\ pc[c] = "idle" /\ live # NoHandle
  /\ cancelled' = cancelled \union {live}
  /\ awaited' = [awaited EXCEPT ![c] = live]
  /\ Goto(c, "cancel-wait")
  /\ UNCHANGED <<store, live, handle, final, resuming, armed, waking, wanted, crashes>>

Resolved(c) == handle[awaited[c]] = "settled"

CancelReturns(c) ==
  /\ pc[c] = "cancel-wait" /\ Resolved(c)
  /\ Goto(c, "idle")
  /\ awaited' = [awaited EXCEPT ![c] = NoHandle]
  /\ UNCHANGED <<store, runs, resuming, armed, waking, wanted, crashes>>
-----------------------------------------------------------------------------
(* The run behind a handle.                                                *)

\* The journal is replayed and CREATED recorded.
HandleLoads(h) ==
  /\ handle[h] = "loading"
  /\ handle' = [handle EXCEPT ![h] = "running"]
  /\ recorded' = "CREATED"
  /\ UNCHANGED <<limit, live, final, cancelled, resuming, armed, waking, calls, crashes>>

\* The run ends, in its handle first: a cancellation outranks a failure, and
\* comes too late for a run that is already ending.
HandleConcludes(h) ==
  /\ handle[h] \in {"loading", "running"}
  /\ handle' = [handle EXCEPT ![h] = "concluding"]
  /\ \E s \in IF h \in cancelled THEN {"CANCELLED"} ELSE Final \ {"CANCELLED"} :
       /\ handle[h] = "loading" => s \in {"FAILED", "CANCELLED"}
       /\ final' = [final EXCEPT ![h] = s]
  /\ UNCHANGED <<store, live, cancelled, resuming, armed, waking, calls, crashes>>

LiveAfter(h) == IF live = h THEN NoHandle ELSE live

FinalState(h) == final[h]

\* The transition is on file and the result resolves; its callbacks remove the
\* handle, and start #wakeAfterReset.
HandleSettles(h) ==
  /\ handle[h] = "concluding"
  /\ handle' = [handle EXCEPT ![h] = "settled"]
  /\ recorded' = FinalState(h)
  /\ live' = LiveAfter(h)
  /\ waking' = [waking EXCEPT ![h] =
       IF final[h] = "SUSPENDED_RATE_LIMIT" THEN "reading" ELSE "no"]
  /\ final' = [final EXCEPT ![h] = "FAILED"]
  /\ UNCHANGED <<limit, cancelled, resuming, armed, calls, crashes>>

\* The final append fails: the result rejects.
HandleRejects(h) ==
  /\ handle[h] = "concluding"
  /\ handle' = [handle EXCEPT ![h] = "settled"]
  /\ live' = LiveAfter(h)
  /\ UNCHANGED <<store, final, cancelled, resuming, armed, waking, calls, crashes>>
-----------------------------------------------------------------------------
(* The wake-up of a run paused on a usage limit.                           *)

\* The reset time comes from the newest transition on file; it may be missing.
WakeReads(h) ==
  /\ waking[h] = "reading"
  /\ \E w \in IF recorded = "SUSPENDED_RATE_LIMIT" THEN {"no", "read"} ELSE {"no"} :
       waking' = [waking EXCEPT ![h] = w]
  /\ UNCHANGED <<store, runs, resuming, armed, calls, crashes>>

\* Only #live is asked whether somebody else has taken up the run.
WakeArms(h) ==
  /\ waking[h] = "read"
  /\ waking' = [waking EXCEPT ![h] = "no"]
  /\ armed' = (armed \/ live = NoHandle)
  /\ UNCHANGED <<store, runs, resuming, calls, crashes>>

\* The timer fires: its resume is refused or goes on like any other.
TimerFires ==
  /\ armed
  /\ \/ pc[WakeUp] = "idle" /\ Resume(WakeUp)
     \/ ~AtRest /\ armed' = FALSE /\ UNCHANGED <<pc, resuming>>
  /\ UNCHANGED <<store, runs, waking, wanted, awaited, crashes>>

\* The process dies; another starts with nothing held.
Crash ==
  /\ crashes < MaxCrashes
  /\ crashes' = crashes + 1
  /\ live' = NoHandle /\ resuming' = FALSE /\ armed' = FALSE
  /\ handle' = [h \in Handle |-> IF handle[h] = "none" THEN "none" ELSE "settled"]
  /\ final' = [h \in Handle |-> "FAILED"] /\ cancelled' = {}
  /\ waking' = [h \in Handle |-> "no"]
  /\ pc' = [c \in Caller |-> "idle"]
  /\ wanted' = [c \in Caller |-> 0]
  /\ awaited' = [c \in Caller |-> NoHandle]
  /\ UNCHANGED store
-----------------------------------------------------------------------------
CallStep(c) ==
  \/ ResumeReadsStatus(c) \/ ResumeReadsContext(c) \/ ResumeRaises(c)
  \/ ResumeRefused(c) \/ ResumeTracks(c) \/ ResumeReturns(c)
  \/ EditReadsStatus(c) \/ EndEdit(c) \/ CancelReadsStatus(c) \/ CancelReturns(c)

HandleStep(h) == HandleLoads(h) \/ HandleConcludes(h) \/ HandleSettles(h) \/ HandleRejects(h)

Next ==
  \/ Start
  \/ \E c \in Operator :
       OperatorResumes(c) \/ BeginEdit(c) \/ CancelIdle(c) \/ CancelLive(c)
  \/ \E c \in Caller : CallStep(c)
  \/ \E h \in Handle : HandleStep(h) \/ WakeReads(h) \/ WakeArms(h)
  \/ TimerFires
  \/ Crash

Spec == Init /\ [][Next]_vars

\* Calls, runs and timers that are under way go on; nobody has to call.  A run
\* ends because its executors do (WorkflowRunner's Settles).
Fairness ==
  /\ \A c \in Caller : WF_vars(CallStep(c))
  /\ \A h \in Handle : WF_vars(HandleStep(h)) /\ WF_vars(WakeReads(h) \/ WakeArms(h))
  /\ WF_vars(TimerFires)

FairSpec == Spec /\ Fairness
-----------------------------------------------------------------------------
(* Properties.                                                             *)

Unresolved == {h \in Handle : handle[h] \in {"loading", "running", "concluding"}}

\* Every call stands at a step of its method and every handle in a known state.
TypeOK ==
  /\ recorded \in Final \union {"none", "CREATED"} /\ limit \in Nat
  /\ live \in {NoHandle} \union Handle /\ resuming \in BOOLEAN /\ armed \in BOOLEAN
  /\ handle \in [Handle -> {"none", "loading", "running", "concluding", "settled"}]
  /\ final \in [Handle -> Final] /\ cancelled \subseteq Handle
  /\ waking \in [Handle -> {"no", "reading", "read"}]
  /\ pc \in [Caller -> {"idle", "resume-status", "resume-context", "resume-raise",
                        "resume-checks", "resume-answer", "edit-status", "editing", "editing-any",
                        "cancel-status", "cancel-wait"}]
  /\ wanted \in [Caller -> Nat] /\ awaited \in [Caller -> {NoHandle} \union Handle]
  /\ crashes \in Nat

\* Two handles never run the run side by side: every unresolved handle is the
\* live one, so cancel and status reach it (orchestrator.ts #live, #resuming).
OneHandle == \A h \in Unresolved : live = h

\* A decision about a stopped run is written while it is still stopped, and still
\* BLOCKED where the call checked that, though the check and the write are awaits
\* apart (orchestrator.ts respondCheckpoint, #changeRequirements).
EditsStoppedRun ==
  \A c \in Caller :
    /\ pc[c] \in {"editing", "editing-any"} => Unresolved = {}
    /\ pc[c] = "editing" => recorded = "BLOCKED"

\* A COMPLETED run stays completed: nothing takes it up or records over it.
CompletedIsFinal == [][recorded = "COMPLETED" => recorded' = "COMPLETED"]_vars

\* The guard is given back by every call, also one that fails or outlives the
\* handle it made, so that the run can be taken up again; a cancel returns once
\* the run it cancelled has settled.
CallsReturn ==
  /\ resuming ~> ~resuming
  /\ \A c \in Operator : pc[c] = "cancel-wait" ~> pc[c] = "idle"

\* orchestrator.ts, above #wakeAfterReset: "a resume or cancel before then removes
\* the wake-up".  A wake-up takes up only a run that is still paused on its limit.
WakesOnlyPausedRun ==
  [][pc[WakeUp] = "idle" /\ pc'[WakeUp] = "resume-status" =>
       recorded = "SUSPENDED_RATE_LIMIT"]_vars

\* Whoever acts on the run has it alone: one handle runs it, and a decision is
\* written only while none does.
HeldAlone == OneHandle /\ EditsStoppedRun
=============================================================================
