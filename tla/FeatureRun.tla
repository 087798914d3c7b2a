----------------------------- MODULE FeatureRun -----------------------------
(***************************************************************************)
(* A Feature run: requirements, exploration, independent review, at most a *)
(* bounded number of requirements revisions, one plan, one critic, at most *)
(* one plan revision, and the handoff.  The subgraph is re-entered from    *)
(* its start after a checkpoint, a failure or a crash; a model activity is *)
(* named by its input, and one that has been answered replays its answer.  *)
(*                                                                         *)
(* Operator edits are refused while this process runs the run.  Another    *)
(* process (the command line beside the server) checks that the run is     *)
(* blocked and commits later, so its edit may land while the run is live.  *)
(* A fingerprint is the value it is taken of.  Fail stands for every error *)
(* a model call may end with.  Left out: context allocation and batches.   *)
(***************************************************************************)
EXTENDS Requirements

CONSTANTS
  Reviewer,
  Configs,          \* [mode, reviewers, critic, rounds]: what the run may be configured with
  FirstDraft,       \* the drafts the requirements model may write
  Explorations,     \* Explorations[d]: what the exploration of draft d may say
  Votes,            \* Votes[r]: what reviewer r may say
  MaxRevisions,     \* maximumRequirementsRevisions
  MaxEvents,        \* bound: operator edits, crashes and failed calls together
  Null

\* What an exploration finds: the draft contradicts documented behaviour, it calls for
\* an independent review, it names limitations.
Exploration == [conflict: BOOLEAN, review: BOOLEAN, limited: BOOLEAN]

ASSUME FeatureAssumption ==
  /\ \A c \in Configs : /\ c.mode \in {"automatic", "interactive"}
                        /\ c.reviewers \in BOOLEAN
                        /\ c.critic \in {"none", "weak", "capable"}
                        /\ c.rounds \in 1..3  \* max(1, maxConsensusRounds)
  /\ FirstDraft \subseteq Draft /\ Explorations \in [Draft -> SUBSET Exploration]
  /\ Cardinality(Reviewer) >= 2 /\ Votes \in [Reviewer -> SUBSET Vote]
  /\ MaxRevisions \in 0..3
  /\ MaxEvents \in Nat
  /\ Null # "passed"

VARIABLES
  config,
  versions, head,  \* the contracts, and the checkpoint's head
  answers,         \* the answered activities
  stored,          \* the stage artifacts
  state,           \* the run's state
  pc, my,          \* the process: where it is and what it has read
  edit,            \* an edit another process has checked and not committed
  approvals,       \* history: what operators approved, and of which version
  events

vars == <<config, versions, head, answers, stored, state, pc, my, edit, approvals, events>>
disk == <<config, versions, head, answers, stored>>
operator == <<edit, approvals>>

Nothing == [contract |-> Null, explored |-> Null, context |-> Null, round |-> 1,
            required |-> FALSE, attempt |-> Null, plan |-> Null, critique |-> Null]

Init ==
  /\ config \in Configs
  /\ versions = <<>> /\ head = 0 /\ answers = <<>>
  /\ stored = [review |-> Null, ledger |-> <<>>, proposal |-> Null, planner |-> Null,
               revision |-> Null, plan |-> Null, outcome |-> Null, implementation |-> Null,
               ended |-> FALSE]
  /\ state = "RUNNING" /\ pc = "open" /\ my = Nothing
  /\ edit = Null /\ approvals = {} /\ events = 0

Current == versions[head].contract
Resolved == Pending(config.mode, Current) = {}

Goto(step) == pc' = step /\ UNCHANGED state
Stop(as) == state' = as /\ pc' = "off"
\* A checkpoint blocks the run, any other error fails it.
Throw(as) == Stop(as) /\ my' = Nothing

\* An answered activity replays its answer, whoever asks again.
Ask(key, v, possible) ==
  /\ v \in (IF key \in DOMAIN answers THEN {answers[key]} ELSE possible)
  /\ answers' = [k \in DOMAIN answers \union {key} |-> IF k = key THEN v ELSE answers[k]]

Commit(c, parent) ==
  LET v == Version(c, parent) IN
  /\ versions' = Persisted(versions, v)
  /\ head' = IdOf(versions', v)

\* The input a stage names itself by.
Input(c) == <<c, my.explored>>

----------------------------------------------------------------------------
(* Requirements and exploration.                                            *)

Open ==
  /\ pc = "open"
  /\ IF head # 0 THEN UNCHANGED <<versions, head, answers>>
     ELSE \E d \in FirstDraft : Ask(<<"draft">>, d, FirstDraft) /\ Commit(Drafted(config.mode, d), 0)
  /\ Goto("explore")
  /\ UNCHANGED <<config, stored, my, operator, events>>

ExploreBegins ==
  /\ pc = "explore" /\ Resolved
  /\ my' = [my EXCEPT !.contract = Current] /\ Goto("exploring")
  /\ UNCHANGED <<disk, operator, events>>

\* Every stage reads the contract again and waits for what is not approved.
AwaitApproval ==
  /\ pc \in {"explore", "review", "unresolved", "plan", "critic", "replan", "outcome", "render"}
  /\ ~Resolved
  /\ Throw("BLOCKED")
  /\ UNCHANGED <<disk, operator, events>>

\* A conflict with documented behaviour is the reviewers' or the operator's.
ExploreEnds ==
  /\ pc = "exploring"
  /\ \E e \in Explorations[my.contract.draft] :
       /\ Ask(<<"explore", my.contract>>, e, Explorations[my.contract.draft])
       /\ IF e.conflict /\ ~config.reviewers THEN Throw("BLOCKED")
          ELSE LET required == my.required \/ e.review \/ e.conflict \/ stored.ledger # <<>> IN
               /\ my' = [my EXCEPT !.explored = e, !.required = required]
               /\ Goto(IF required THEN "review" ELSE "plan")
  /\ UNCHANGED <<config, versions, head, stored, operator, events>>

----------------------------------------------------------------------------
(* Review rounds, and the revisions of the requirements they lead to.       *)

\* Resolution claims follow a proposed draft, not an unrelated edit.
RevisionContext ==
  IF stored.proposal # Null /\ stored.proposal.draft = Current.draft THEN stored.proposal.attempt ELSE Null

ReviewBegins ==
  /\ pc = "review" /\ Resolved /\ config.reviewers
  /\ my' = [my EXCEPT !.contract = Current, !.context = RevisionContext, !.round = 1]
  /\ Goto("reviewing")
  /\ UNCHANGED <<disk, operator, events>>

ReviewAbsent ==
  /\ pc = "review" /\ Resolved /\ ~config.reviewers
  /\ Throw("FAILED")
  /\ UNCHANGED <<disk, operator, events>>

ReviewKey(r) == <<"review", Input(my.contract), my.context, my.round, r>>

\* The reviewers of a round answer side by side.
ReviewerAnswers(r) ==
  /\ pc = "reviewing" /\ ReviewKey(r) \notin DOMAIN answers
  /\ \E v \in Votes[r] : Ask(ReviewKey(r), v, Votes[r])
  /\ UNCHANGED <<config, versions, head, stored, state, pc, my, operator, events>>

\* Mutant of NextRound: the round is asked again, and its answers replay.
NextRoundSame == my' = my
NextRound == my' = [my EXCEPT !.round = @ + 1]

RoundEnds ==
  /\ pc = "reviewing" /\ \A r \in Reviewer : ReviewKey(r) \in DOMAIN answers
  /\ LET votes == [r \in Reviewer |-> answers[ReviewKey(r)]]
         conflict == my.explored.conflict
         found == Consensus(votes, conflict)
     IN  /\ stored' = [stored EXCEPT !.review = [input |-> Input(my.contract), found |-> found]]
         /\ IF LastRound(my.round, config.rounds, found, conflict)
            THEN Goto(IF Settled(found) THEN "plan" ELSE "unresolved") /\ UNCHANGED my
            ELSE NextRound /\ UNCHANGED <<pc, state>>
  /\ UNCHANGED <<config, versions, head, answers, operator, events>>

\* An attempt counts before it is made; the one made for this version goes on.
Revisable(attempt) == attempt \in Range(stored.ledger) \/ Len(stored.ledger) < MaxRevisions

\* The attempt is recorded before the model is asked.
ReviseBegins ==
  /\ pc = "unresolved" /\ Resolved /\ stored.review.input = Input(Current)
  /\ LET attempt == [base |-> head, input |-> Input(Current)]
         found == stored.review.found
     IN  IF ~found.blocking \/ found.limited \/ ~Revisable(attempt)
         THEN Throw("BLOCKED") /\ UNCHANGED stored
         ELSE /\ stored' = IF attempt \in Range(stored.ledger) THEN stored
                           ELSE [stored EXCEPT !.ledger = Append(@, attempt)]
              /\ my' = [my EXCEPT !.attempt = attempt, !.contract = Current] /\ Goto("revising")
  /\ UNCHANGED <<config, versions, head, answers, operator, events>>

ReviewStale ==
  /\ pc = "unresolved" /\ Resolved /\ stored.review.input # Input(Current)
  /\ Throw("FAILED")
  /\ UNCHANGED <<disk, operator, events>>

\* An interactive run leaves the proposal to the operator.
ReviseEnds ==
  /\ pc = "revising"
  /\ \E d \in Proposable(my.contract) :
       /\ Ask(<<"revision", my.attempt>>, d, Proposable(my.contract))
       /\ IF head # my.attempt.base THEN Throw("FAILED") /\ UNCHANGED stored
          ELSE /\ stored' = [stored EXCEPT !.proposal = [attempt |-> my.attempt, draft |-> d]]
               /\ IF config.mode = "interactive" THEN Throw("BLOCKED")
                  ELSE Goto("apply") /\ UNCHANGED my
  /\ UNCHANGED <<config, versions, head, operator, events>>

Apply ==
  /\ pc = "apply"
  /\ IF head # stored.proposal.attempt.base THEN Throw("FAILED") /\ UNCHANGED <<versions, head>>
     ELSE /\ Commit(Revised(config.mode, Current, stored.proposal.draft), head)
          /\ Goto("explore") /\ UNCHANGED my
  /\ UNCHANGED <<config, answers, stored, operator, events>>

----------------------------------------------------------------------------
(* The plan, its critic, and its one revision.                              *)

\* Mutant of Reviewed: any review on record will do.
ReviewedOnce(input) == stored.review # Null /\ Settled(stored.review.found)

\* requireFeatureReview: the review on record is of these very requirements.
Reviewed(input) ==
  \/ ~my.explored.review /\ stored.ledger = <<>>
  \/ stored.review # Null /\ stored.review.input = input /\ Settled(stored.review.found)

PlanBegins ==
  /\ pc = "plan" /\ Resolved
  /\ IF Reviewed(Input(Current)) /\ (my.required => config.critic # "none")
     THEN my' = [my EXCEPT !.contract = Current] /\ Goto("planning")
     ELSE Throw("FAILED")
  /\ UNCHANGED <<disk, operator, events>>

Plan(input, questions, revised) == [input |-> input, questions |-> questions, revised |-> revised]

\* The planner's answer is where every entry starts, whatever a revision stored.
Planned(input, q) == Plan(input, q, 0)

PlanEnds ==
  /\ pc = "planning"
  /\ \E q \in BOOLEAN :
       LET plan == Planned(Input(my.contract), q) IN
       /\ Ask(<<"plan", Input(my.contract)>>, q, BOOLEAN)
       /\ stored' = [stored EXCEPT !.planner = plan, !.plan = plan]
       /\ my' = [my EXCEPT !.plan = plan]
  /\ Goto(IF my.required THEN "critic" ELSE "outcome")
  /\ UNCHANGED <<config, versions, head, operator, events>>

\* The critic reads the plan on record, for the requirements it was made for.
CriticBegins ==
  /\ pc = "critic" /\ Resolved
  /\ LET record == IF my.plan.revised = 0 THEN stored.planner ELSE stored.revision IN
     IF Reviewed(Input(Current)) /\ record = my.plan /\ record.input = Input(Current)
     THEN Goto("criticising") /\ UNCHANGED my
     ELSE Throw("FAILED")
  /\ UNCHANGED <<disk, operator, events>>

Revises(critique) == critique = "blocking" /\ my.plan.revised = 0

\* A critic below the planner's capability is skipped. A critique that lost items, or of a critic that is not
\* independent, is degraded: neither passes nor revises anything.
CriticEnds ==
  /\ pc = "criticising"
  /\ \E c \in {"passed", "blocking", "degraded", "skipped"} :
       /\ IF config.critic = "weak" THEN c = "skipped" /\ UNCHANGED answers
          ELSE Ask(<<"critic", my.plan>>, c, {"passed", "blocking", "degraded"})
       /\ my' = [my EXCEPT !.critique = c]
       /\ Goto(IF Revises(c) THEN "replan" ELSE "outcome")
  /\ UNCHANGED <<config, versions, head, stored, operator, events>>

ReplanBegins ==
  /\ pc = "replan" /\ Resolved
  /\ IF Reviewed(Input(Current)) /\ my.plan.input = Input(Current)
     THEN Goto("replanning") /\ UNCHANGED my ELSE Throw("FAILED")
  /\ UNCHANGED <<disk, operator, events>>

\* Requirements are checked again after the call; a dropped question is an error.
ReplanEnds ==
  /\ pc = "replanning"
  /\ \E q \in BOOLEAN :
       LET plan == Plan(my.plan.input, q, my.plan.revised + 1)
           input == Input(Current)
       IN  /\ Ask(<<"replan", my.plan>>, q, BOOLEAN)
           /\ CASE my.plan.questions /\ ~q -> Throw("FAILED") /\ UNCHANGED stored
                [] (q \/ ~my.plan.questions) /\ ~Resolved -> Throw("BLOCKED") /\ UNCHANGED stored
                [] (q \/ ~my.plan.questions) /\ Resolved /\ ~(plan.input = input /\ Reviewed(input)) ->
                     Throw("FAILED") /\ UNCHANGED stored
                [] OTHER -> /\ stored' = [stored EXCEPT !.revision = plan, !.plan = plan]
                            /\ my' = [my EXCEPT !.plan = plan] /\ Goto("critic")
  /\ UNCHANGED <<config, versions, head, operator, events>>

----------------------------------------------------------------------------
(* The outcome and the handoff.                                             *)

Passed ==
  /\ ~my.explored.limited /\ ~my.plan.questions
  /\ my.required => my.critique = "passed"

\* The outcome names the requirements as they are now.
Outcome ==
  /\ pc = "outcome" /\ Resolved
  /\ stored' = [stored EXCEPT !.outcome =
       [input |-> Input(Current), plan |-> my.plan, passed |-> Passed]]
  /\ Goto("ended")
  /\ UNCHANGED <<config, versions, head, answers, my, operator, events>>

\* The journal's end of the subgraph: it is not entered again.
SubgraphEnds ==
  /\ pc = "ended"
  /\ stored' = [stored EXCEPT !.ended = TRUE]
  /\ my' = Nothing /\ Goto("render")
  /\ UNCHANGED <<config, versions, head, answers, operator, events>>

Render ==
  /\ pc = "render" /\ Resolved
  /\ LET out == stored.outcome IN
     CASE ~out.passed -> Stop("COMPLETED") /\ UNCHANGED <<stored, my>>
       [] out.passed /\ (stored.plan # out.plan \/ Current # out.input[1]) ->
            Throw("FAILED") /\ UNCHANGED stored
       [] OTHER -> /\ stored' = [stored EXCEPT !.implementation = [contract |-> Current, plan |-> out.plan]]
                   /\ Stop("COMPLETED") /\ UNCHANGED my
  /\ UNCHANGED <<config, versions, head, answers, operator, events>>

----------------------------------------------------------------------------
(* The operator and the process.                                            *)

Calling == {"open", "exploring", "reviewing", "revising", "planning", "criticising", "replanning"}

\* A call ends with an error.
Fail ==
  /\ pc \in Calling /\ events < MaxEvents /\ events' = events + 1
  /\ Throw("FAILED")
  /\ UNCHANGED <<disk, operator>>

\* The process ends; the run's state is the last one recorded.
Crash ==
  /\ pc # "off" /\ events < MaxEvents /\ events' = events + 1
  /\ pc' = "off" /\ my' = Nothing
  /\ UNCHANGED <<disk, state, operator>>

Resume ==
  /\ pc = "off" /\ state # "COMPLETED"
  /\ state' = "RUNNING" /\ my' = Nothing
  /\ pc' = IF stored.ended THEN "render" ELSE "open"
  /\ UNCHANGED <<disk, operator, events>>

\* Approvals, in interactive mode, of ambiguities of the contract; a new draft; a
\* model's proposal.
Changes ==
  (IF config.mode = "interactive" THEN [kind: {"approve"}, base: {head}, as: SUBSET High[Current.draft] \ {{}}] ELSE {})
    \union [kind: {"revise"}, base: {head}, draft: Draft \ {Current.draft}]
    \union (IF stored.proposal = Null THEN {} ELSE [kind: {"apply"}, base: {stored.proposal.attempt.base}])

\* An edit is checked against the run's state, then committed.
EditBegins ==
  /\ state = "BLOCKED" /\ edit = Null /\ events < MaxEvents /\ events' = events + 1
  /\ edit' \in Changes
  /\ UNCHANGED <<disk, state, pc, my, approvals>>

EditEnds ==
  /\ edit # Null /\ edit' = Null
  /\ IF edit.base # head THEN UNCHANGED <<versions, head, approvals>>
     ELSE CASE edit.kind = "approve" ->
                 /\ Commit(Approved(Current, edit.as), head)
                 /\ approvals' = approvals \union ({head} \X edit.as)
            [] edit.kind = "revise" ->
                 Commit(Revised(config.mode, Current, edit.draft), head) /\ UNCHANGED approvals
            [] edit.kind = "apply" ->
                 Commit(Revised(config.mode, Current, stored.proposal.draft), head) /\ UNCHANGED approvals
  /\ UNCHANGED <<config, answers, stored, state, pc, my, events>>

Step ==
  \/ Open \/ ExploreBegins \/ AwaitApproval \/ ExploreEnds
  \/ ReviewBegins \/ ReviewAbsent \/ (\E r \in Reviewer : ReviewerAnswers(r)) \/ RoundEnds
  \/ ReviseBegins \/ ReviewStale \/ ReviseEnds \/ Apply
  \/ PlanBegins \/ PlanEnds \/ CriticBegins \/ CriticEnds \/ ReplanBegins \/ ReplanEnds
  \/ Outcome \/ SubgraphEnds \/ Render

Next == Step \/ Fail \/ Crash \/ Resume \/ EditBegins \/ EditEnds

\* The process keeps running; nobody has to resume or edit a run.
Spec == Init /\ [][Next]_vars /\ WF_vars(Step)

----------------------------------------------------------------------------
\* requirements-checkpoint.ts: an accepted default was approved by an operator
\* of that very draft; an approval never outlives the draft it was given for,
\* through revisions by models and operators, whatever races or crashes.
ApprovalsFollowDraft ==
  config.mode = "interactive" => \A i \in DOMAIN versions : \A a \in versions[i].contract.accepted :
    LET p == versions[i].parent IN
    /\ p # 0 /\ versions[p].contract.draft = versions[i].contract.draft
    /\ a \in versions[p].contract.accepted \/ <<p, a>> \in approvals

\* feature-pipeline.ts: a plan that is handed off was made for requirements with
\* nothing left to approve; if they needed a review, every reviewer of its last
\* round accepted those very requirements, the critic found nothing blocking in
\* that very plan, and nothing is left to ask.
HandoffIsReviewed ==
  stored.implementation # Null =>
    LET plan == stored.implementation.plan
        e == plan.input[2]
    IN  /\ Pending(config.mode, plan.input[1]) = {} /\ Pending(config.mode, stored.implementation.contract) = {}
        /\ ~plan.questions /\ ~e.limited
        /\ e.review \/ e.conflict \/ stored.ledger # <<>> =>
             /\ ~e.conflict
             /\ <<"critic", plan>> \in DOMAIN answers /\ answers[<<"critic", plan>>] = "passed"
             /\ \E n \in 1..config.rounds, context \in {Null} \union Range(stored.ledger) :
                  \A r \in Reviewer :
                    LET k == <<"review", plan.input, context, n, r>> IN
                    k \in DOMAIN answers /\ answers[k] = "accept"

\* model-requirements-revision.ts, model-feature-planning.ts: however often the run
\* stops and is resumed, models are asked for at most maximumRequirementsRevisions
\* revisions of the requirements, and a plan is revised at most once: what is on
\* record is the planner's answer or the one revision of it, asked for because
\* the critic found that answer wanting.
RevisionsBounded ==
  /\ Cardinality({k \in DOMAIN answers : k[1] = "revision"}) <= MaxRevisions
  /\ stored.plan # Null => stored.plan.revised <= 1
  /\ \A k \in DOMAIN answers : k[1] = "replan" =>
       k[2].revised = 0 /\ answers[<<"critic", k[2]>>] = "blocking"

\* An entered run comes to rest: it completes, waits for the operator or fails.
FeatureSettles == pc # "off" ~> pc = "off"

\* A handed-off plan is the outcome of a bounded review of exactly what it plans,
\* and of requirements approved in the very draft it plans.
PlanIsReviewed == HandoffIsReviewed /\ RevisionsBounded /\ ApprovalsFollowDraft
=============================================================================
