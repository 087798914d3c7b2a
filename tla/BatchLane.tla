----------------------------- MODULE BatchLane -----------------------------
(***************************************************************************)
(* The provider batch lane: items are reserved, grouped into submissions,  *)
(* sent once and followed through durable item and submission records that *)
(* outlive the process.  A submission's id is the digest of its members,   *)
(* so the model names a submission by the set of its members.              *)
(*                                                                         *)
(* Every #serial block is one action; because a block is several saves,    *)
(* each has a companion action in which the process stops between two of   *)
(* them.  The order in which a block saves its members is the order they   *)
(* joined the group in, which is left open here.                           *)
(***************************************************************************)
EXTENDS Naturals, Sequences, FiniteSets

CONSTANTS
  Item,              \* the activities that use the lane
  MaximumAttempts,   \* settings.maximumAttempts
  MaximumItems,      \* settings.maximumItemsPerSubmission
  CutSaves,          \* whether the process may stop between a block's saves
  MaxCrashes,        \* bound: times the process stops
  Null

CustomId == Item \X (1..MaximumAttempts)

Submission ==
  {S \in SUBSET CustomId : S # {} /\ Cardinality(S) <= MaximumItems
                           /\ \A c, d \in S : c[1] = d[1] => c = d}

ASSUME LaneAssumption ==
  /\ MaximumAttempts \in Nat \ {0} /\ MaximumItems \in Nat \ {0}
  /\ CutSaves \in BOOLEAN /\ MaxCrashes \in Nat
  /\ \A S \in Submission : S # Null

\* "missing" is treated as "errored" is, and "expired" as "cancelled" is.
AttemptState == {"queued", "submitted", "succeeded", "errored", "cancelled", "not_submitted"}
Outcome == {"succeeded", "errored", "cancelled"}
SubmissionState == {"absent", "prepared", "sending", "submitted", "uncertain",
                    "rejected", "ended", "abandoned"}
Attempt == [state : AttemptState, sub : Submission \cup {Null}, reservation : Nat,
            moved : BOOLEAN, cancelRequested : BOOLEAN]
SubmissionRecord == [state : SubmissionState, cancelRequested : BOOLEAN]

VARIABLES
  items,     \* disk: each item's attempts
  subs,      \* disk: the submissions
  reserved,  \* disk: how many reservations each item has taken
  waiters,   \* the customIds whose execute has not settled
  group,     \* the open group's customIds
  sending,   \* the submissions whose submit call is under way
  looking,   \* the submissions being reconciled
  poller,    \* each submission's poll loop
  again,     \* the submissions to poll again once their loop has left
  net,       \* submit requests on their way to the provider
  jobs,      \* the provider's jobs
  outcome,   \* the provider's result for each customId
  accepted,  \* how often the provider took each customId
  crashes    \* bound

disk == <<items, subs, reserved>>
memory == <<waiters, group, sending, looking, poller, again>>
provider == <<net, jobs, outcome, accepted>>
vars == <<disk, memory, provider, crashes>>

Init ==
  /\ items = [i \in Item |-> <<>>]
  /\ subs = [S \in Submission |-> [state |-> "absent", cancelRequested |-> FALSE]]
  /\ reserved = [i \in Item |-> 0]
  /\ waiters = {} /\ group = {} /\ sending = {} /\ looking = {}
  /\ poller = [S \in Submission |-> "off"] /\ again = {}
  /\ net = {} /\ jobs = [S \in Submission |-> "none"]
  /\ outcome = [c \in CustomId |-> "none"] /\ accepted = [c \in CustomId |-> 0]
  /\ crashes = 0

----------------------------------------------------------------------------
Exists(c) == c[2] <= Len(items[c[1]])
AttemptOf(c) == items[c[1]][c[2]]
Open(state) == state \in {"queued", "submitted"}

\* #updateMembers, having saved the members in M.
UpdateMembers(M, Update(_)) ==
  [i \in Item |-> [n \in DOMAIN items[i] |->
     IF <<i, n>> \in M THEN Update(items[i][n]) ELSE items[i][n]]]

Save(S, state) == [subs EXCEPT ![S].state = state]

ToSubmitted(a) == IF a.state = "queued" THEN [a EXCEPT !.state = "submitted"] ELSE a
ToNotSubmitted(a) == [a EXCEPT !.state = "not_submitted"]
ToUnsent(a) == IF a.state = "queued" THEN [a EXCEPT !.sub = Null] ELSE a

\* #requestCancel: only a submitted submission is asked to cancel, and the
\* provider may or may not act on it.
RequestCancel(S, records) ==
  IF records[S].state = "submitted" THEN [records EXCEPT ![S].cancelRequested = TRUE] ELSE records

\* #cancelIfAbandoned: cancel the job once every unfinished member asked to.
CancelIfAbandoned(S, attempts, records) ==
  IF \A c \in S : LET a == attempts[c[1]][c[2]] IN a.cancelRequested \/ ~Open(a.state)
  THEN RequestCancel(S, records) ELSE records

\* Every waiter among the submission's members is answered.
Answer(S) == waiters' = waiters \ S

\* Mutant of Poll: a loop that is leaving is taken for one that goes on.
PollOnce(S) ==
  IF poller[S] = "off" THEN poller' = [poller EXCEPT ![S] = "on"] /\ UNCHANGED again
  ELSE UNCHANGED <<poller, again>>

\* #poll: start a loop, or ask for another once the present one has left.
Poll(S) ==
  IF poller[S] = "off" THEN poller' = [poller EXCEPT ![S] = "on"] /\ UNCHANGED again
  ELSE again' = again \cup {S} /\ UNCHANGED poller

\* The process stops: what is in memory is gone, and every execute with it.
Restart ==
  /\ crashes < MaxCrashes /\ crashes' = crashes + 1
  /\ waiters' = {} /\ group' = {} /\ sending' = {} /\ looking' = {}
  /\ poller' = [S \in Submission |-> "off"] /\ again' = {}

----------------------------------------------------------------------------
(* execute and #plan.  An execute that finds an answer, an error, no attempt *)
(* left, no budget or contradictory records settles and changes nothing.     *)

Idle(i) == \A c \in waiters : c[1] # i
Last(i) == items[i][Len(items[i])]
LastId(i) == <<i, Len(items[i])>>

\* The states that #plan takes for provider-confirmed non-processing: all that
\* no earlier branch has taken.
Unprocessed(a) ==
  \/ a.state \in {"cancelled", "not_submitted"}
  \/ a.state = "submitted" /\ a.sub = Null

Fresh(i) == items[i] # <<>> => Unprocessed(Last(i))

MovesReservation(i) ==
  items[i] # <<>> /\ Last(i).state = "not_submitted" /\ ~Last(i).moved

NewAttempt(r) == [state |-> "queued", sub |-> Null, reservation |-> r,
                  moved |-> FALSE, cancelRequested |-> FALSE]

\* The item's waiter is set and it joins the open group.
Enqueue(c) ==
  /\ Cardinality(group) < MaximumItems
  /\ group' = group \cup {c} /\ waiters' = waiters \cup {c}
  /\ UNCHANGED <<sending, looking, poller, again, provider, crashes>>

\* A new attempt, on the reservation of one never sent or on one of its own.
ExecuteFresh(i) ==
  /\ Idle(i) /\ Fresh(i) /\ Len(items[i]) < MaximumAttempts
  /\ \/ /\ MovesReservation(i)
        /\ items' = [items EXCEPT ![i] =
             Append([@ EXCEPT ![Len(@)].moved = TRUE], NewAttempt(Last(i).reservation))]
        /\ UNCHANGED reserved
     \/ /\ ~MovesReservation(i)
        /\ reserved' = [reserved EXCEPT ![i] = @ + 1]
        /\ items' = [items EXCEPT ![i] = Append(@, NewAttempt(reserved[i] + 1))]
  /\ UNCHANGED subs
  /\ Enqueue(<<i, Len(items[i]) + 1>>)

\* A stop between the reservation and the save of the attempt it is for.
CutReserve(i) ==
  /\ CutSaves /\ Idle(i) /\ Fresh(i) /\ Len(items[i]) < MaximumAttempts /\ ~MovesReservation(i)
  /\ reserved' = [reserved EXCEPT ![i] = @ + 1]
  /\ UNCHANGED <<items, subs, provider>> /\ Restart

ExecuteUnsent(i) ==
  /\ Idle(i) /\ items[i] # <<>> /\ Last(i).state = "queued" /\ Last(i).sub = Null
  /\ Enqueue(LastId(i)) /\ UNCHANGED disk

Prepared(i) ==
  /\ Idle(i) /\ items[i] # <<>> /\ Last(i).state = "queued"
  /\ Last(i).sub # Null /\ subs[Last(i).sub].state = "prepared"

\* #abandonUnsent: a crash while prepared is provably unsent.
ExecutePrepared(i) ==
  /\ Prepared(i)
  /\ items' = UpdateMembers(Last(i).sub, ToUnsent)
  /\ subs' = Save(Last(i).sub, "abandoned")
  /\ Enqueue(LastId(i)) /\ UNCHANGED reserved

CutAbandonUnsent(i) ==
  /\ CutSaves /\ Prepared(i)
  /\ \E M \in SUBSET Last(i).sub : items' = UpdateMembers(M, ToUnsent)
  /\ UNCHANGED <<subs, reserved, provider>> /\ Restart

Wait(i) ==
  /\ waiters' = waiters \cup {LastId(i)}
  /\ UNCHANGED <<disk, group, sending, provider, crashes>>

\* An attempt already at the provider waits for its job.
ExecuteAttach(i) ==
  /\ Idle(i) /\ items[i] # <<>> /\ Last(i).sub # Null
  /\ \/ Last(i).state = "submitted"
     \/ Last(i).state = "queued" /\ subs[Last(i).sub].state = "submitted"
  /\ Wait(i) /\ Poll(Last(i).sub) /\ UNCHANGED looking

\* An attempt that may be at the provider is looked for there.
ExecuteReconcile(i) ==
  /\ Idle(i) /\ items[i] # <<>> /\ Last(i).state = "queued" /\ Last(i).sub # Null
  /\ subs[Last(i).sub].state \in {"sending", "uncertain"}
  /\ Wait(i) /\ looking' = looking \cup {Last(i).sub} /\ UNCHANGED <<poller, again>>

----------------------------------------------------------------------------
(* #flush *)

\* The group's members that still wait are saved as prepared, then as sending,
\* and the submit request leaves.
Flush ==
  /\ group # {} /\ group' = {}
  /\ LET S == group \cap waiters IN
       IF S = {} THEN UNCHANGED <<disk, sending, net>>
       ELSE /\ items' = UpdateMembers(S, LAMBDA a : [a EXCEPT !.sub = S])
            /\ subs' = [subs EXCEPT ![S] = [state |-> "sending", cancelRequested |-> FALSE]]
            /\ sending' = sending \cup {S} /\ net' = net \cup {S}
            /\ UNCHANGED reserved
  /\ UNCHANGED <<waiters, looking, poller, again, jobs, outcome,
                 accepted, crashes>>

CutFlush ==
  /\ CutSaves /\ group \cap waiters # {}
  /\ LET S == group \cap waiters IN
       /\ \E M \in SUBSET S : items' = UpdateMembers(M, LAMBDA a : [a EXCEPT !.sub = S])
       /\ subs' = [subs EXCEPT ![S] = [state |-> "prepared", cancelRequested |-> FALSE]]
  /\ UNCHANGED <<reserved, provider>> /\ Restart

\* The submit call answers with the job.
Answered(S) == S \in sending /\ S \notin net /\ jobs[S] # "none"

MarkSubmitted(S) ==
  /\ items' = UpdateMembers(S, ToSubmitted)
  /\ subs' = CancelIfAbandoned(S, items', Save(S, "submitted"))
  /\ Poll(S) /\ UNCHANGED reserved

Acknowledged(S) ==
  /\ Answered(S) /\ MarkSubmitted(S)
  /\ sending' = sending \ {S}
  /\ UNCHANGED <<waiters, group, looking, provider, crashes>>

\* Mutant of Rejected: a lost acknowledgment is taken for a refusal.
RejectedUnheard(S) ==
  /\ S \in sending
  /\ items' = UpdateMembers(S, ToNotSubmitted) /\ subs' = Save(S, "rejected")
  /\ sending' = sending \ {S} /\ Answer(S)
  /\ UNCHANGED <<reserved, group, looking, poller, again, provider, crashes>>

\* The provider refuses the request: BatchRequestError, accepted "no".
Rejected(S) ==
  /\ S \in sending \cap net
  /\ items' = UpdateMembers(S, ToNotSubmitted) /\ subs' = Save(S, "rejected")
  /\ sending' = sending \ {S} /\ net' = net \ {S}
  /\ Answer(S)
  /\ UNCHANGED <<reserved, group, looking, poller, again, jobs, outcome,
                 accepted, crashes>>

CutRejected(S) ==
  /\ CutSaves /\ S \in sending \cap net
  /\ \E M \in SUBSET S : items' = UpdateMembers(M, ToNotSubmitted)
  /\ net' = net \ {S}
  /\ UNCHANGED <<subs, reserved, jobs, outcome, accepted>> /\ Restart

\* The acknowledgment is lost or the request times out.
Unacknowledged(S) ==
  /\ S \in sending
  /\ subs' = Save(S, "uncertain")
  /\ sending' = sending \ {S} /\ looking' = looking \cup {S}
  /\ UNCHANGED <<items, reserved, waiters, group, poller, again, provider, crashes>>

----------------------------------------------------------------------------
(* #reconcileThenPoll *)

Uncertain(S) == subs[S].state \in {"sending", "uncertain"}

\* The driver's lookup finds the job, or another caller has already bound it.
Found(S) ==
  /\ S \in looking
  /\ \/ Uncertain(S) /\ jobs[S] # "none" /\ MarkSubmitted(S)
     \/ subs[S].state = "submitted" /\ subs' = CancelIfAbandoned(S, items, subs) /\ Poll(S)
        /\ UNCHANGED <<items, reserved>>
  /\ looking' = looking \ {S}
  /\ UNCHANGED <<waiters, group, sending, provider, crashes>>

\* Mutant of NotFound: a job that is not listed is taken for one never made.
NotFoundIsUnsent(S) ==
  /\ S \in looking /\ Uncertain(S)
  /\ items' = UpdateMembers(S, ToNotSubmitted) /\ subs' = Save(S, "abandoned")
  /\ looking' = looking \ {S} /\ Answer(S)
  /\ UNCHANGED <<reserved, group, sending, poller, again, provider, crashes>>

\* It finds nothing or cannot tell, or the submission has moved on.
NotFound(S) ==
  /\ S \in looking /\ subs[S].state # "submitted"
  /\ subs' = IF Uncertain(S) THEN Save(S, "uncertain") ELSE subs
  /\ looking' = looking \ {S}
  /\ Answer(S)
  /\ UNCHANGED <<items, reserved, group, sending, poller, again, provider, crashes>>

CutMarkSubmitted(S) ==
  /\ CutSaves
  /\ Answered(S) \/ (S \in looking /\ Uncertain(S) /\ jobs[S] # "none")
  /\ \E M \in SUBSET S : items' = UpdateMembers(M, ToSubmitted)
  /\ UNCHANGED <<subs, reserved, provider>> /\ Restart

----------------------------------------------------------------------------
(* #pollLoop *)

HasWaiters(S) == S \cap waiters # {}
Leave(S) == poller' = [poller EXCEPT ![S] = "leaving"] /\ UNCHANGED again

LoopUnwanted(S) ==
  /\ poller[S] = "on" /\ ~HasWaiters(S)
  /\ Leave(S)
  /\ UNCHANGED <<disk, waiters, group, sending, looking, provider, crashes>>

\* #deliverMembers
LoopDelivers(S) ==
  /\ poller[S] = "on" /\ HasWaiters(S) /\ subs[S].state = "ended"
  /\ Leave(S)
  /\ waiters' = waiters \ S
  /\ UNCHANGED <<disk, group, sending, looking, provider, crashes>>

LoopInconsistent(S) ==
  /\ poller[S] = "on" /\ HasWaiters(S) /\ subs[S].state \notin {"ended", "submitted"}
  /\ Leave(S) /\ Answer(S)
  /\ UNCHANGED <<disk, group, sending, looking, provider, crashes>>

Polling(S) == poller[S] = "on" /\ HasWaiters(S) /\ subs[S].state = "submitted"

\* #collect: the results are recorded against the open attempts.
Collected(a, c) == IF Open(a.state) THEN [a EXCEPT !.state = outcome[c]] ELSE a

CollectMembers(M) ==
  [i \in Item |-> [n \in DOMAIN items[i] |->
     IF <<i, n>> \in M THEN Collected(items[i][n], <<i, n>>) ELSE items[i][n]]]

Collect(S) ==
  /\ Polling(S) /\ jobs[S] = "ended"
  /\ items' = CollectMembers(S) /\ subs' = Save(S, "ended")
  /\ UNCHANGED <<reserved, memory, provider, crashes>>

CutCollect(S) ==
  /\ CutSaves /\ Polling(S) /\ jobs[S] = "ended"
  /\ \E M \in SUBSET S : items' = CollectMembers(M)
  /\ UNCHANGED <<subs, reserved, provider>> /\ Restart

\* Too many polls fail: the waiters are told, the job is kept.
PollFails(S) ==
  /\ Polling(S)
  /\ Leave(S) /\ Answer(S)
  /\ UNCHANGED <<disk, group, sending, looking, provider, crashes>>

DeadlinePasses(S) ==
  /\ Polling(S)
  /\ subs' = RequestCancel(S, subs) /\ Leave(S) /\ Answer(S)
  /\ UNCHANGED <<items, reserved, group, sending, looking, net, jobs, outcome,
                 accepted, crashes>>

\* The loop's promise settles and the submission has no poller, unless asked again.
Left(S) ==
  /\ poller[S] = "leaving"
  /\ poller' = [poller EXCEPT ![S] = IF S \in again THEN "on" ELSE "off"]
  /\ again' = again \ {S}
  /\ UNCHANGED <<disk, waiters, group, sending, looking, provider, crashes>>

----------------------------------------------------------------------------
(* Cancellation and the operator *)

\* Mutant of Cancel: a cancelled item is always taken for one never sent.
CancelAsUnsent(c) ==
  /\ c \in waiters /\ waiters' = waiters \ {c} /\ group' = group \ {c}
  /\ items' = UpdateMembers({c}, LAMBDA a :
       [a EXCEPT !.cancelRequested = TRUE, !.state = "not_submitted"])
  /\ UNCHANGED <<subs, reserved, sending, looking, poller, again, provider, crashes>>

Cancelled(a, unsent) ==
  [a EXCEPT !.state = IF unsent /\ a.sub = Null THEN "not_submitted" ELSE @,
            !.cancelRequested = TRUE]

\* #cancelItem: an item still in the open group is not sent, unless the group is
\* flushed before the block that marks it runs.
Cancel(c) ==
  /\ c \in waiters
  /\ waiters' = waiters \ {c}
  /\ group' = group \ {c}
  /\ \E unsent \in IF c \in group THEN BOOLEAN ELSE {FALSE} :
       items' = UpdateMembers({c}, LAMBDA a : Cancelled(a, unsent))
  /\ subs' = IF AttemptOf(c).sub = Null THEN subs
             ELSE CancelIfAbandoned(AttemptOf(c).sub, items', subs)
  /\ UNCHANGED <<reserved, sending, looking, poller, again, provider, crashes>>

\* resolveUncertain.  The run is not live; the operator has looked at the
\* provider's console, and declares unsent only what never reached it.
Resolvable(S) == Uncertain(S) /\ waiters = {} /\ S \notin sending \cup looking

Resolved(a, decision) ==
  IF a.state # "queued" THEN a
  ELSE [a EXCEPT !.state = IF decision = "not_submitted" THEN "not_submitted" ELSE "errored"]

ResolveMembers(M, decision) == UpdateMembers(M, LAMBDA a : Resolved(a, decision))

Truthful(S, decision) == decision = "not_submitted" => jobs[S] = "none" /\ S \notin net

ResolveJob(S) ==
  /\ Resolvable(S) /\ jobs[S] # "none"
  /\ items' = UpdateMembers(S, ToSubmitted) /\ subs' = Save(S, "submitted")
  /\ UNCHANGED <<reserved, memory, provider, crashes>>

Resolve(S) ==
  /\ Resolvable(S)
  /\ \E decision \in {"not_submitted", "abandon"} :
       Truthful(S, decision) /\ items' = ResolveMembers(S, decision)
  /\ subs' = Save(S, "abandoned")
  /\ UNCHANGED <<reserved, memory, provider, crashes>>

CutResolve(S) ==
  /\ CutSaves /\ Resolvable(S)
  /\ \E M \in SUBSET S, decision \in {"not_submitted", "abandon"} :
       Truthful(S, decision) /\ items' = ResolveMembers(M, decision)
  /\ UNCHANGED <<subs, reserved, provider>> /\ Restart

Crash == Restart /\ UNCHANGED <<disk, provider>>

----------------------------------------------------------------------------
(* The provider *)

\* A request arrives, however late, and becomes a job.
Accept(S) ==
  /\ S \in net /\ net' = net \ {S}
  /\ jobs' = [jobs EXCEPT ![S] = "live"]
  /\ accepted' = [c \in CustomId |->
       IF c \in S /\ accepted[c] < 2 THEN accepted[c] + 1 ELSE accepted[c]]
  /\ UNCHANGED <<disk, memory, outcome, crashes>>

Lose(S) ==
  /\ S \in net /\ net' = net \ {S}
  /\ UNCHANGED <<disk, memory, jobs, outcome, accepted, crashes>>

\* A job ends, cancelled or expired for the items left unprocessed.
JobEnds(S) ==
  /\ jobs[S] = "live" /\ jobs' = [jobs EXCEPT ![S] = "ended"]
  /\ \E f \in [S -> Outcome] :
       outcome' = [c \in CustomId |-> IF c \in S THEN f[c] ELSE outcome[c]]
  /\ UNCHANGED <<disk, memory, net, accepted, crashes>>

----------------------------------------------------------------------------
ItemStep(i) ==
  \/ ExecuteFresh(i) \/ CutReserve(i) \/ ExecuteUnsent(i) \/ ExecutePrepared(i) \/ CutAbandonUnsent(i)
  \/ ExecuteAttach(i) \/ ExecuteReconcile(i)

Reply(S) == Acknowledged(S) \/ Rejected(S) \/ Unacknowledged(S)
Lookup(S) == Found(S) \/ NotFound(S)
Loop(S) ==
  \/ LoopUnwanted(S) \/ LoopDelivers(S) \/ LoopInconsistent(S) \/ Collect(S) \/ PollFails(S)
  \/ DeadlinePasses(S) \/ Left(S)

SubmissionStep(S) ==
  \/ Reply(S) \/ Lookup(S) \/ Loop(S)
  \/ CutRejected(S) \/ CutMarkSubmitted(S) \/ CutCollect(S)
  \/ ResolveJob(S) \/ Resolve(S) \/ CutResolve(S)
  \/ Accept(S) \/ Lose(S) \/ JobEnds(S)

Next ==
  \/ \E i \in Item : ItemStep(i)
  \/ \E S \in Submission : SubmissionStep(S)
  \/ \E c \in CustomId : Cancel(c)
  \/ Flush \/ CutFlush \/ Crash

Spec == Init /\ [][Next]_vars

\* Timers fire, requests time out, a lookup returns and a poll loop goes on until
\* its deadline: the runtime's event loop.  Nothing is assumed of the provider.
Fairness ==
  /\ WF_vars(Flush)
  /\ \A S \in Submission : WF_vars(Reply(S)) /\ WF_vars(Lookup(S)) /\ WF_vars(Loop(S))

FairSpec == Spec /\ Fairness

----------------------------------------------------------------------------
(* Properties *)

\* Records, queues and provider state keep their shape; an outcome is recorded only
\* where the provider has one, and no customId is taken more than twice.
TypeOK ==
  /\ items \in [Item -> Seq(Attempt)] /\ subs \in [Submission -> SubmissionRecord]
  /\ reserved \in [Item -> Nat]
  /\ waiters \subseteq CustomId /\ group \subseteq CustomId
  /\ sending \subseteq Submission /\ looking \subseteq Submission
  /\ again \subseteq Submission
  /\ poller \in [Submission -> {"off", "on", "leaving"}]
  /\ net \subseteq Submission /\ jobs \in [Submission -> {"none", "live", "ended"}]
  /\ outcome \in [CustomId -> Outcome \cup {"none"}]
  /\ accepted \in [CustomId -> 0..2] /\ crashes \in 0..MaxCrashes

\* A customId the provider may bill: taken, and not reported as left unprocessed.
Billable(c) == accepted[c] > 0 /\ outcome[c] # "cancelled"

\* The provider never takes a customId twice and never has two attempts of one
\* item that it may bill: "a new attempt only follows provider-confirmed
\* non-processing", across lost acknowledgments, cancellations, operator
\* decisions and crashes.
NoBlindResubmission ==
  /\ \A c \in CustomId : accepted[c] <= 1
  /\ \A c, d \in CustomId : c[1] = d[1] /\ Billable(c) /\ Billable(d) => c = d

\* An attempt's record says what the provider did: succeeded or cancelled only if
\* the provider reported it, not_submitted only if the provider never took the
\* attempt and no request for it is still on its way.  No two customIds the
\* provider took stand on one reservation: only that of an unsent one moves on.
RecordsAreTruthful ==
  /\ \A c \in CustomId : Exists(c) =>
       /\ AttemptOf(c).state = "succeeded" => outcome[c] = "succeeded"
       /\ AttemptOf(c).state = "cancelled" => outcome[c] = "cancelled"
       /\ AttemptOf(c).state = "not_submitted" =>
            accepted[c] = 0 /\ \A S \in net : c \notin S
  /\ \A c, d \in CustomId : c[1] = d[1] /\ c # d /\ accepted[c] > 0 /\ accepted[d] > 0 =>
       AttemptOf(c).reservation # AttemptOf(d).reservation

\* A record that holds a final outcome never changes again: a paid answer is not
\* lost to a later cancellation, decision or submission (#deliverMembers, #collect).
ResultsKept ==
  [][\A c \in CustomId : Exists(c) /\ ~Open(AttemptOf(c).state) => AttemptOf(c)'.state = AttemptOf(c).state]_vars

\* Every execute settles, whatever the provider does: a waiter that joins a poll
\* loop just as it leaves is never orphaned.
ExecuteSettles == \A c \in CustomId : c \in waiters ~> c \notin waiters

=============================================================================
