------------------------- MODULE ProviderInvocation -------------------------
(***************************************************************************)
(* ProviderInvocationRuntime.invoke: how one model call is admitted        *)
(* against the run's token budget (TokenBudget), given a slot by the       *)
(* scheduler, sent, timed out, cancelled, cut by the computer's sleep,     *)
(* sent again and charged, while other calls do the same.  Token amounts   *)
(* are what a provider really consumed (paid), which the program learns of *)
(* only from a report.                                                     *)
(***************************************************************************)
EXTENDS TokenBudget, FiniteSets

CONSTANTS
  EstimatedTokens,   \* what every attempt is admitted with
  Consumption,       \* what a provider may consume for one attempt
  MaximumRetries,
  MaximumResends,    \* MAXIMUM_SUSPEND_RESENDS
  SplitsOnTimeout,   \* the calls with retryTimeouts: false
  MaxConcurrent,     \* the provider's slots
  MaxInvokes,        \* bound: calls of invoke per activity
  MaxSuspends        \* bound: times the computer sleeps

ASSUME InvocationAssumption ==
  /\ EstimatedTokens \in Estimate
  /\ Consumption \subseteq 0..EstimatedTokens
  /\ MaximumRetries \in Nat /\ MaximumResends \in Nat
  /\ SplitsOnTimeout \subseteq Activity
  /\ MaxConcurrent \in Nat \ {0} /\ MaxInvokes \in Nat /\ MaxSuspends \in Nat

VARIABLES
  pc,         \* where each activity's call stands
  attempt, resent,
  mine,       \* the reservations of the attempts this call has sent
  current,    \* reservation.reservationId of the attempt under way
  lease,      \* the activities holding a slot
  err,        \* the error caught
  slept,      \* whether the attempt has lived through a suspend
  aborted,    \* the call's signal
  invokes,    \* bound
  running,    \* attempts whose send has not stopped
  paid,       \* what the provider consumed for each attempt
  settled,    \* the computer has been awake long enough
  suspends    \* bound

calls == <<pc, attempt, resent, mine, current, lease, err, slept, aborted, invokes>>
provider == <<running, paid>>
host == <<settled, suspends>>
allVars == <<vars, calls, provider, host>>

Ended == {"idle", "done", "failed", "paused_budget", "paused_quota",
          "host_suspended", "time_limit"}

InvocationInit ==
  /\ Init
  /\ pc = [a \in Activity |-> "idle"]
  /\ attempt = [a \in Activity |-> 1]
  /\ resent = [a \in Activity |-> 0]
  /\ mine = [a \in Activity |-> {}]
  /\ current = [a \in Activity |-> 0]
  /\ lease = {}
  /\ err = [a \in Activity |-> "none"]
  /\ slept = [a \in Activity |-> FALSE]
  /\ aborted = [a \in Activity |-> FALSE]
  /\ invokes = [a \in Activity |-> 0]
  /\ running = {} /\ paid = [i \in Id |-> 0]
  /\ settled = TRUE /\ suspends = 0

----------------------------------------------------------------------------
\* The errors a send ends with, by what the catch block asks of them.
SendError == {"refused",    \* answered before any work: 429, AUTH (evidence: none)
              "http",       \* a broken connection or stream
              "quota",      \* the allowance is used up
              "malformed"}  \* an answer that cannot be used, not worth a retry
Retryable(e) == e \in {"refused", "http", "timeout"}
ConsumedNothing(e) == e \in {"refused", "not_dispatched"}
SleepExplains(e) == e \in {"http", "timeout"}
TimeLimited(a) == a \in SplitsOnTimeout /\ err[a] = "timeout"

Goto(a, step) == pc' = [pc EXCEPT ![a] = step]
Throw(a, e) ==
  /\ err' = [err EXCEPT ![a] = e]
  /\ Goto(a, "caught")

----------------------------------------------------------------------------
Invoke(a) ==
  /\ pc[a] \in Ended \ {"done"}
  /\ invokes[a] < MaxInvokes
  /\ invokes' = [invokes EXCEPT ![a] = @ + 1]
  /\ Goto(a, "top")
  /\ attempt' = [attempt EXCEPT ![a] = 1]
  /\ resent' = [resent EXCEPT ![a] = 0]
  /\ mine' = [mine EXCEPT ![a] = {}]
  /\ aborted' = [aborted EXCEPT ![a] = FALSE]
  /\ UNCHANGED <<vars, current, lease, err, slept, provider, host>>

\* Each attempt waits until the computer has been awake a while.
Awake(a) ==
  /\ pc[a] = "top"
  /\ IF aborted[a] THEN Goto(a, "failed") ELSE settled /\ Goto(a, "reserve")
  /\ UNCHANGED <<vars, attempt, resent, mine, current, lease, err, slept,
                 aborted, invokes, provider, host>>

\* An attempt is reserved before it waits for a slot; a save that fails ends the call.
ReserveAttempt(a) ==
  /\ pc[a] = "reserve"
  /\ Len(Load) < MaxReservations
  /\ \/ \E o \in Outcome :
          /\ Admit(a, EstimatedTokens, o)
          /\ Tell(Len(Load) + 1,
                  [activity |-> a, estimated |-> EstimatedTokens,
                   usage |-> Null, released |-> FALSE], o)
          /\ Count(o)
          /\ Goto(a, IF o = "saved" THEN "acquire" ELSE "failed")
          /\ current' = [current EXCEPT ![a] = IF o = "saved" THEN Len(Load) + 1 ELSE @]
     \/ /\ ~Admits(EstimatedTokens)
        /\ Unchanged
        /\ Goto(a, "paused_budget")
        /\ UNCHANGED <<told, faults, crashes, current>>
  /\ UNCHANGED <<attempt, resent, mine, lease, err, slept, aborted, invokes,
                 provider, host>>

\* scheduler.acquire, then the send: no await lies between the two.
Dispatch(a) ==
  /\ pc[a] = "acquire" /\ ~aborted[a]
  /\ Cardinality(lease) < MaxConcurrent
  /\ lease' = lease \union {a}
  /\ mine' = [mine EXCEPT ![a] = @ \union {current[a]}]
  /\ running' = running \union {current[a]}
  /\ slept' = [slept EXCEPT ![a] = FALSE]
  /\ Goto(a, "sending")
  /\ UNCHANGED <<vars, attempt, resent, current, err, aborted, invokes, paid, host>>

\* A call cancelled while it waits for its slot has sent nothing.
AcquireCancelled(a) ==
  /\ pc[a] = "acquire" /\ aborted[a]
  /\ slept' = [slept EXCEPT ![a] = FALSE]
  /\ Throw(a, "not_dispatched")
  /\ UNCHANGED <<vars, attempt, resent, mine, current, lease, aborted, invokes,
                 provider, host>>

----------------------------------------------------------------------------
\* The provider's side of the attempt under way.

Consumes(i, n) == paid' = [paid EXCEPT ![i] = n]

Answer(a) ==
  /\ pc[a] = "sending" /\ ~aborted[a]
  /\ \E n \in Consumption : Consumes(current[a], n)
  /\ running' = running \ {current[a]}
  /\ Goto(a, "recording")
  /\ UNCHANGED <<vars, attempt, resent, mine, current, lease, err, slept,
                 aborted, invokes, host>>

SendFails(a) ==
  /\ pc[a] = "sending" /\ ~aborted[a]
  /\ \E e \in SendError :
       /\ Throw(a, e)
       /\ \E n \in IF ConsumedNothing(e) THEN {0} ELSE Consumption :
            Consumes(current[a], n)
  /\ running' = running \ {current[a]}
  /\ UNCHANGED <<vars, attempt, resent, mine, current, lease, slept, aborted,
                 invokes, host>>

\* The signal rejects the race at once; the send is told to stop.
SendCancelled(a) ==
  /\ pc[a] \in {"sending", "stopping"} /\ aborted[a]
  /\ Throw(a, "cancelled")
  /\ UNCHANGED <<vars, attempt, resent, mine, current, lease, slept, aborted,
                 invokes, provider, host>>

\* Mutant: the retry does not wait for the send to stop.
TimeoutAtOnce(a) ==
  /\ pc[a] = "sending" /\ ~aborted[a]
  /\ Throw(a, "timeout")
  /\ UNCHANGED <<vars, attempt, resent, mine, current, lease, slept, aborted,
                 invokes, provider, host>>

\* The stage timeout aborts the send and waits for it to stop.
Timeout(a) ==
  /\ pc[a] = "sending" /\ ~aborted[a]
  /\ Goto(a, "stopping")
  /\ UNCHANGED <<vars, attempt, resent, mine, current, lease, err, slept,
                 aborted, invokes, provider, host>>

\* timedOutSend: it stopped, with or without an answer, or left processes behind.
Stopped(a) ==
  /\ pc[a] = "stopping" /\ ~aborted[a]
  /\ \E n \in Consumption : Consumes(current[a], n)
  /\ running' = running \ {current[a]}
  /\ \E e \in {"timeout", "left_running"} : Throw(a, e)
  /\ UNCHANGED <<vars, attempt, resent, mine, current, lease, slept, aborted,
                 invokes, host>>

\* ... or it did not stop within the bound, which is final.
StillRunning(a) ==
  /\ pc[a] = "stopping" /\ ~aborted[a]
  /\ Throw(a, "still_running")
  /\ UNCHANGED <<vars, attempt, resent, mine, current, lease, slept, aborted,
                 invokes, provider, host>>

\* A send nobody waits for any more ends, and has consumed what it has.
StragglerStops(i) ==
  /\ i \in running
  /\ \A a \in Activity : pc[a] \in {"sending", "stopping"} => current[a] # i
  /\ running' = running \ {i}
  /\ \E n \in Consumption : Consumes(i, n)
  /\ UNCHANGED <<vars, calls, host>>

----------------------------------------------------------------------------
\* The usage report says all that was consumed, or misses a part.  A failed
\* save throws, with the attempt dispatched and no evidence of its usage.
Record(a) ==
  /\ pc[a] = "recording"
  /\ \E o \in Outcome, u \in Usage :
       /\ u.complete => u.tokens = paid[current[a]]
       /\ u.tokens <= paid[current[a]]
       /\ RecordUsage(current[a], u, o)
       /\ Tell(current[a], [told[current[a]] EXCEPT !.usage = u], o)
       /\ Count(o)
       /\ IF o = "saved"
          THEN Goto(a, "done") /\ lease' = lease \ {a} /\ UNCHANGED err
          ELSE Throw(a, "unknown") /\ UNCHANGED lease
  /\ UNCHANGED <<attempt, resent, mine, current, slept, aborted, invokes,
                 provider, host>>

\* What the catch block decides: send again for free, retry, or give up.
Interrupted(a) == slept[a] /\ SleepExplains(err[a])
Resends(a) == Interrupted(a) /\ resent[a] < MaximumResends /\ ~aborted[a]

Retries(a) ==
  /\ ~Resends(a)
  /\ attempt[a] <= MaximumRetries
  /\ Interrupted(a) \/ (Retryable(err[a]) /\ ~TimeLimited(a))

ResentAfter(a) == IF Resends(a) THEN resent[a] + 1 ELSE resent[a]

\* Only an attempt that provably consumed nothing is charged nothing.
Free(a) == ConsumedNothing(err[a])

Failure(a) ==
  CASE err[a] = "quota" -> "paused_quota"
    [] Interrupted(a) -> "host_suspended"
    [] TimeLimited(a) /\ ~Interrupted(a) -> "time_limit"
    [] OTHER -> "failed"

\* Mutant: a failed attempt keeps its slot.
LeaseKept(a) == lease

LeaseAfter(a) == lease \ {a}

\* The catch block and the finally behind it.  A release that fails is passed over.
Catch(a) ==
  /\ pc[a] = "caught"
  /\ IF Free(a)
     THEN \E o \in Outcome :
            /\ ReleaseIt(current[a], o)
            /\ Tell(current[a], [told[current[a]] EXCEPT !.released = TRUE], o)
            /\ Count(o)
     ELSE UNCHANGED vars
  /\ lease' = LeaseAfter(a)
  /\ resent' = [resent EXCEPT ![a] = ResentAfter(a)]
  /\ Goto(a, CASE Resends(a) -> "top" [] Retries(a) -> "backoff"
               [] OTHER -> Failure(a))
  /\ current' = [current EXCEPT ![a] = 0]
  /\ err' = [err EXCEPT ![a] = "none"]
  /\ slept' = [slept EXCEPT ![a] = FALSE]
  /\ UNCHANGED <<attempt, mine, aborted, invokes, provider, host>>

\* The wait before a retry, which a cancel ends.
Backoff(a) ==
  /\ pc[a] = "backoff"
  /\ IF aborted[a]
     THEN Goto(a, "failed") /\ UNCHANGED attempt
     ELSE Goto(a, "top") /\ attempt' = [attempt EXCEPT ![a] = @ + 1]
  /\ UNCHANGED <<vars, resent, mine, current, lease, err, slept, aborted,
                 invokes, provider, host>>

----------------------------------------------------------------------------
Abort(a) ==
  /\ pc[a] \notin Ended /\ ~aborted[a]
  /\ aborted' = [aborted EXCEPT ![a] = TRUE]
  /\ UNCHANGED <<vars, pc, attempt, resent, mine, current, lease, err, slept,
                 invokes, provider, host>>

\* The computer sleeps: every attempt under way has lived through it.
Suspend ==
  /\ suspends < MaxSuspends
  /\ suspends' = suspends + 1
  /\ settled' = FALSE
  /\ slept' = [a \in Activity |-> slept[a] \/ pc[a] \in {"sending", "stopping"}]
  /\ UNCHANGED <<vars, pc, attempt, resent, mine, current, lease, err, aborted,
                 invokes, provider>>

SettlesAwake ==
  /\ ~settled
  /\ settled' = TRUE
  /\ UNCHANGED <<vars, calls, provider, suspends>>

\* The process ends; the sends it leaves behind run on at the provider.
Stop(limit) ==
  /\ Restart(limit)
  /\ pc' = [a \in Activity |-> IF pc[a] = "done" THEN "done" ELSE "idle"]
  /\ mine' = [a \in Activity |-> {}]
  /\ current' = [a \in Activity |-> 0]
  /\ lease' = {}
  /\ slept' = [a \in Activity |-> FALSE]
  /\ attempt' = [a \in Activity |-> 1]
  /\ resent' = [a \in Activity |-> 0]
  /\ err' = [a \in Activity |-> "none"]
  /\ aborted' = [a \in Activity |-> FALSE]
  /\ UNCHANGED <<invokes, provider, host>>

Step(a) ==
  \/ Awake(a) \/ ReserveAttempt(a) \/ Dispatch(a) \/ AcquireCancelled(a)
  \/ SendCancelled(a) \/ Timeout(a) \/ StillRunning(a)
  \/ Record(a) \/ Catch(a) \/ Backoff(a)

InvocationNext ==
  \/ \E a \in Activity :
       \/ Invoke(a) \/ Step(a) \/ Abort(a)
       \/ Answer(a) \/ SendFails(a) \/ Stopped(a)
  \/ \E i \in Id : StragglerStops(i)
  \/ Suspend \/ SettlesAwake
  \/ \E limit \in Limit : Stop(limit)

InvocationSpec == InvocationInit /\ [][InvocationNext]_allVars

\* Timers fire and promises settle: what the process does by itself it does.
FairSpec ==
  /\ InvocationSpec
  /\ \A a \in Activity : WF_allVars(Step(a))
  /\ WF_allVars(SettlesAwake)

----------------------------------------------------------------------------

\* Whatever a provider consumed is charged, through timeouts, cancellations,
\* sends that outlive their call, failed saves and crashes: the budget gives
\* back a reservation only when nothing was consumed.
PaidIsCharged ==
  \A i \in Id : paid[i] > 0 => i \in DOMAIN stored /\ Charge(stored[i]) >= paid[i]

\* A call never has two sends running: a retry starts only once the attempt
\* it replaces has stopped.
OneSendAtATime ==
  \A a \in Activity : Cardinality(mine[a] \intersect running) <= 1

\* Every call ends: no failure, sleep, timeout or cancellation leaves a slot
\* taken that another call waits for.
CallsEnd == \A a \in Activity : pc[a] \notin Ended ~> pc[a] \in Ended

\* Whatever is sent is paid for once and charged.
SendsAccounted == PaidIsCharged /\ OneSendAtATime
=============================================================================
