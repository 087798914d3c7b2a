--------------------------- MODULE FeatureRunProofs ---------------------------
(***************************************************************************)
(* A plan a Feature run hands off was reviewed as it is: for any drafts,   *)
(* reviewers and answers, any number of rounds, revisions, operator edits, *)
(* failed calls, crashes and resumes.                                      *)
(***************************************************************************)
EXTENDS FeatureRun, FiniteSetTheorems, TLAPS

----------------------------------------------------------------------------
(* What the run keeps, and how far it has come.                            *)

Contract == [draft: Draft, accepted: SUBSET Ambiguity]
Stages == Contract \X Exploration
Attempt == [base: Nat, input: Stages]
PlanOf == [input: Stages, questions: BOOLEAN, revised: {0, 1}]
Review == [input: Stages, found: [blocking: BOOLEAN, limited: BOOLEAN]]
Proposal == [attempt: Attempt, draft: Draft]
OutcomeOf == [input: Stages, plan: PlanOf, passed: BOOLEAN]
Handoff == [contract: Contract, plan: PlanOf]

Held ==
  [contract: Contract \union {Null}, explored: Exploration \union {Null}, context: Attempt \union {Null},
   round: Nat, required: BOOLEAN, attempt: Attempt \union {Null}, plan: PlanOf \union {Null},
   critique: {"passed", "blocking", "degraded", "skipped", Null}]

Stored ==
  [review: Review \union {Null}, ledger: Seq(Attempt), proposal: Proposal \union {Null},
   planner: PlanOf \union {Null}, revision: PlanOf \union {Null}, plan: PlanOf \union {Null},
   outcome: OutcomeOf \union {Null}, implementation: Handoff \union {Null}, ended: BOOLEAN]

\* The places of a process, in the order of the pipeline.
Reviewing == {"review", "reviewing", "unresolved", "revising", "apply"}
Planning == {"critic", "criticising", "replan", "replanning", "outcome", "ended"}
PlanPlaces == Planning \union {"plan", "planning"}
Places == {"off", "open", "explore", "exploring", "render"} \union Reviewing \union PlanPlaces

FeatureTyped ==
  /\ config \in Configs
  /\ versions \in Seq([contract: Contract, parent: Nat]) /\ head \in 0..Len(versions)
  /\ state \in {"RUNNING", "BLOCKED", "FAILED", "COMPLETED"} /\ pc \in Places
  /\ my \in Held /\ stored \in Stored

\* Requirements are on record before anything reads them.
OnRecord ==
  pc \notin {"off", "open"} \/ state = "BLOCKED" \/ stored.ended \/ edit # Null => head # 0

\* An edit is of what was there when it was checked.
EditSound ==
  edit # Null =>
    /\ edit.kind \in {"approve", "revise", "apply"} /\ edit.base \in Nat
    /\ edit.kind = "approve" => edit.as \subseteq Ambiguity
    /\ edit.kind = "revise" => edit.draft \in Draft
    /\ edit.kind = "apply" => stored.proposal \in Proposal

\* A version is made from one before it.
Parents == \A i \in DOMAIN versions : versions[i].parent <= Len(versions)

\* What an activity answered, and for what a model was asked for a revision.
CriticSays(as, plan, critique) == <<"critic", plan>> \in DOMAIN as /\ as[<<"critic", plan>>] = critique

AnswerSound(as, ledger, k, v) ==
  /\ k[1] = "draft" => v \in Draft
  /\ k[1] = "explore" => v \in Exploration
  /\ k[1] = "review" => v \in Vote
  /\ k[1] = "revision" => k = <<"revision", k[2]>> /\ k[2] \in Range(ledger) /\ v \in Draft
  /\ k[1] \in {"plan", "replan"} => v \in BOOLEAN
  /\ k[1] = "critic" => v \in {"passed", "blocking", "degraded"}
  /\ k[1] = "replan" => k[2].revised = 0 /\ CriticSays(as, k[2], "blocking")

AnswersSound == \A k \in DOMAIN answers : AnswerSound(answers, stored.ledger, k, answers[k])

\* Every reviewer of one round accepted the requirements as they are in input.
AllAccept(c, as, ledger, input) ==
  \E n \in 1..c.rounds, context \in {Null} \union Range(ledger) :
    \A r \in Reviewer :
      LET k == <<"review", input, context, n, r>> IN k \in DOMAIN as /\ as[k] = "accept"

\* What had to be reviewed was, and the critic passed the plan.
InputSound(c, as, ledger, input) ==
  /\ Pending(c.mode, input[1]) = {} /\ ~input[2].conflict
  /\ input[2].review \/ ledger # <<>> => AllAccept(c, as, ledger, input)

PlanSound(c, as, ledger, plan) ==
  /\ InputSound(c, as, ledger, plan.input) /\ ~plan.questions /\ ~plan.input[2].limited
  /\ plan.input[2].review \/ ledger # <<>> => CriticSays(as, plan, "passed")

\* The records of the stages; a review that was settled found every reviewer content.
RecordsSound ==
  /\ Len(stored.ledger) <= MaxRevisions
  /\ stored.proposal # Null => stored.proposal.attempt \in Range(stored.ledger)
  /\ stored.review # Null /\ Settled(stored.review.found) =>
       /\ AllAccept(config, answers, stored.ledger, stored.review.input)
       /\ ~stored.review.input[2].conflict

\* The outcome, once the subgraph has ended.
OutcomeSound ==
  pc = "ended" \/ stored.ended =>
    /\ stored.outcome \in OutcomeOf
    /\ stored.outcome.passed => PlanSound(config, answers, stored.ledger, stored.outcome.plan)

\* What a process holds at its place.
ReviewHeld ==
  /\ pc = "reviewing" =>
       /\ my.contract \in Contract /\ my.round \in 1..config.rounds
       /\ my.context \in {Null} \union Range(stored.ledger)
  /\ pc = "revising" => my.attempt \in Range(stored.ledger) /\ my.contract \in Contract
  /\ pc = "apply" => stored.proposal \in Proposal

ExploredHeld ==
  /\ pc = "exploring" => my.contract \in Contract
  /\ pc \in Reviewing => my.explored \in Exploration /\ my.required
  /\ pc \in PlanPlaces =>
       /\ my.explored \in Exploration /\ ~my.explored.conflict
       /\ my.explored.review \/ stored.ledger # <<>> => my.required

PlanHeld ==
  /\ pc = "planning" => my.contract \in Contract /\ InputSound(config, answers, stored.ledger, Input(my.contract))
  /\ pc \in Planning =>
       /\ my.plan \in PlanOf /\ my.plan.input[2] = my.explored
       /\ InputSound(config, answers, stored.ledger, my.plan.input)
  /\ pc \in {"replan", "replanning"} => my.plan.revised = 0 /\ CriticSays(answers, my.plan, "blocking")
  /\ my.critique = "passed" => pc \in {"outcome", "ended"} /\ CriticSays(answers, my.plan, "passed")

Ending ==
  /\ pc = "render" => stored.ended
  /\ stored.ended => pc \in {"render", "off"}

HandedOff ==
  stored.implementation # Null =>
    /\ state = "COMPLETED" /\ pc = "off"
    /\ PlanSound(config, answers, stored.ledger, stored.implementation.plan)
    /\ Pending(config.mode, stored.implementation.contract) = {}

IInv ==
  /\ FeatureTyped /\ OnRecord /\ EditSound /\ Parents /\ AnswersSound /\ RecordsSound /\ OutcomeSound
  /\ ReviewHeld /\ ExploredHeld /\ PlanHeld /\ Ending /\ HandedOff /\ ApprovalsFollowDraft

----------------------------------------------------------------------------
(* Answers, and what stays true as they are added.                         *)

Grown(as, bs) == DOMAIN as \subseteq DOMAIN bs /\ \A k \in DOMAIN as : bs[k] = as[k]

LEMMA Asked ==
  ASSUME NEW key, NEW v, NEW possible, Ask(key, v, possible)
  PROVE  /\ Grown(answers, answers') /\ DOMAIN answers' = DOMAIN answers \union {key} /\ answers'[key] = v
         /\ key \in DOMAIN answers => v = answers[key]
         /\ key \notin DOMAIN answers => v \in possible
<1>1. answers' = [k \in DOMAIN answers \union {key} |-> IF k = key THEN v ELSE answers[k]] BY DEF Ask
<1>2. DOMAIN answers' = DOMAIN answers \union {key} /\ answers'[key] = v BY <1>1
<1>3. key \in DOMAIN answers => v = answers[key] BY DEF Ask
<1>4. key \notin DOMAIN answers => v \in possible BY DEF Ask
<1>5. \A k \in DOMAIN answers : answers'[k] = answers[k] BY <1>1, <1>3
<1> QED BY <1>2, <1>3, <1>4, <1>5 DEF Grown

LEMMA GrownKeeps ==
  ASSUME NEW c, NEW as, NEW bs, NEW ledger, NEW ledger2, Grown(as, bs), Range(ledger) \subseteq Range(ledger2)
  PROVE  /\ \A input : AllAccept(c, as, ledger, input) => AllAccept(c, bs, ledger2, input)
         /\ \A plan, critique : CriticSays(as, plan, critique) => CriticSays(bs, plan, critique)
<1>1. ASSUME NEW input, AllAccept(c, as, ledger, input) PROVE AllAccept(c, bs, ledger2, input)
  BY <1>1 DEF AllAccept, Grown
<1>2. \A plan, critique : CriticSays(as, plan, critique) => CriticSays(bs, plan, critique)
  BY DEF CriticSays, Grown
<1> QED BY <1>1, <1>2

LEMMA SameLedger ==
  ASSUME NEW c, NEW as, NEW bs, NEW ledger, Grown(as, bs)
  PROVE  /\ \A input : InputSound(c, as, ledger, input) => InputSound(c, bs, ledger, input)
         /\ \A plan : PlanSound(c, as, ledger, plan) => PlanSound(c, bs, ledger, plan)
<1>1. /\ \A input : AllAccept(c, as, ledger, input) => AllAccept(c, bs, ledger, input)
      /\ \A plan, critique : CriticSays(as, plan, critique) => CriticSays(bs, plan, critique)
  BY GrownKeeps
<1>2. \A input : InputSound(c, as, ledger, input) => InputSound(c, bs, ledger, input) BY <1>1 DEF InputSound
<1> QED BY <1>1, <1>2 DEF PlanSound

LEMMA SameAnswers == Grown(answers, answers) BY DEF Grown

----------------------------------------------------------------------------
(* Versions, and approvals of the draft they were given for.               *)

Versioned == [contract: Contract, parent: Nat]

LEMMA PersistedIs ==
  ASSUME NEW V, NEW vs \in Seq(V), NEW v \in V
  PROVE  /\ Persisted(vs, v) \in Seq(V) /\ Len(vs) <= Len(Persisted(vs, v))
         /\ \A i \in DOMAIN vs : i \in DOMAIN Persisted(vs, v) /\ Persisted(vs, v)[i] = vs[i]
         /\ \A i \in DOMAIN Persisted(vs, v) : i \in DOMAIN vs \/ Persisted(vs, v)[i] = v
         /\ IdOf(Persisted(vs, v), v) \in 1..Len(Persisted(vs, v))
<1>1. CASE \E i \in DOMAIN vs : vs[i] = v BY <1>1 DEF Persisted, IdOf
<1>2. CASE ~\E i \in DOMAIN vs : vs[i] = v
  <2>1. Persisted(vs, v) = Append(vs, v) BY <1>2 DEF Persisted
  <2>2. Append(vs, v)[Len(vs) + 1] = v /\ Len(vs) + 1 \in DOMAIN Append(vs, v) OBVIOUS
  <2>3. IdOf(Append(vs, v), v) \in DOMAIN Append(vs, v) BY <2>2 DEF IdOf
  <2> QED BY <2>1, <2>2, <2>3
<1> QED BY <1>1, <1>2

\* What a commit may accept: approved in its parent, or by an operator since.
LEMMA Commits ==
  ASSUME FeatureTyped, Parents, ApprovalsFollowDraft, NEW c \in Contract, NEW p \in 0..Len(versions), Commit(c, p),
         config' = config, approvals \subseteq approvals',
         config.mode = "interactive" => \A a \in c.accepted :
           /\ p # 0 /\ versions[p].contract.draft = c.draft
           /\ a \in versions[p].contract.accepted \/ <<p, a>> \in approvals'
  PROVE  /\ versions' \in Seq(Versioned) /\ head' \in 1..Len(versions')
         /\ Parents' /\ ApprovalsFollowDraft'
<1> DEFINE v == Version(c, p)
<1>1. versions \in Seq(Versioned) /\ v \in Versioned BY DEF FeatureTyped, Versioned, Version
<1>2. versions' = Persisted(versions, v) /\ head' = IdOf(versions', v) BY DEF Commit
<1>3. /\ versions' \in Seq(Versioned) /\ Len(versions) <= Len(versions') /\ head' \in 1..Len(versions')
      /\ \A i \in DOMAIN versions : i \in DOMAIN versions' /\ versions'[i] = versions[i]
      /\ \A i \in DOMAIN versions' : i \in DOMAIN versions \/ versions'[i] = v
  <2>1. \A vs \in Seq(Versioned) : \A w \in Versioned :
          /\ Persisted(vs, w) \in Seq(Versioned) /\ Len(vs) <= Len(Persisted(vs, w))
          /\ \A i \in DOMAIN vs : i \in DOMAIN Persisted(vs, w) /\ Persisted(vs, w)[i] = vs[i]
          /\ \A i \in DOMAIN Persisted(vs, w) : i \in DOMAIN vs \/ Persisted(vs, w)[i] = w
          /\ IdOf(Persisted(vs, w), w) \in 1..Len(Persisted(vs, w))
    BY PersistedIs
  <2> HIDE DEF v
  <2> QED BY <1>1, <1>2, <2>1
<1>4. v.contract = c /\ v.parent = p BY DEF Version
<1> HIDE DEF v
<1>5. Len(versions) \in Nat /\ Len(versions') \in Nat /\ DOMAIN versions = 1..Len(versions) BY <1>1, <1>3
<1>0. \A i \in DOMAIN versions : versions[i] \in Versioned /\ versions[i].parent \in Nat
  <2>1. \A i \in DOMAIN versions : versions[i] \in Versioned BY <1>1, <1>5
  <2> QED BY <2>1 DEF Versioned
<1>6. \A i \in DOMAIN versions' : versions'[i].parent <= Len(versions')
  <2> SUFFICES ASSUME NEW i \in DOMAIN versions' PROVE versions'[i].parent <= Len(versions') OBVIOUS
  <2>1. CASE i \in DOMAIN versions
    <3>1. versions[i].parent <= Len(versions) /\ versions[i].parent \in Nat BY <2>1, <1>0 DEF Parents
    <3> QED BY <2>1, <3>1, <1>3, <1>5
  <2>2. CASE versions'[i] = v BY <2>2, <1>3, <1>4, <1>5
  <2> QED BY <2>1, <2>2, <1>3
<1>7. ASSUME config.mode = "interactive", NEW i \in DOMAIN versions', NEW a \in versions'[i].contract.accepted
      PROVE  /\ versions'[i].parent # 0
             /\ versions'[versions'[i].parent].contract.draft = versions'[i].contract.draft
             /\ a \in versions'[versions'[i].parent].contract.accepted \/ <<versions'[i].parent, a>> \in approvals'
  <2>1. CASE i \in DOMAIN versions
    <3>1. versions'[i] = versions[i] BY <2>1, <1>3
    <3>2. versions[i].parent # 0 /\ versions[versions[i].parent].contract.draft = versions[i].contract.draft
          /\ (a \in versions[versions[i].parent].contract.accepted \/ <<versions[i].parent, a>> \in approvals)
      BY <1>7, <2>1, <3>1 DEF ApprovalsFollowDraft
    <3>3. versions[i].parent \in DOMAIN versions BY <2>1, <3>2, <1>0, <1>5 DEF Parents
    <3> QED BY <3>1, <3>2, <3>3, <1>3
  <2>2. CASE versions'[i] = v
    <3>1. p # 0 /\ versions[p].contract.draft = c.draft /\ (a \in versions[p].contract.accepted \/ <<p, a>> \in approvals')
      BY <1>7, <2>2, <1>4
    <3>2. p \in DOMAIN versions BY <3>1, <1>5
    <3> QED BY <2>2, <3>1, <3>2, <1>3, <1>4
  <2> QED BY <2>1, <2>2, <1>3
<1>8. Parents' BY <1>6 DEF Parents
<1>9. ApprovalsFollowDraft' BY <1>7 DEF ApprovalsFollowDraft
<1> QED BY <1>3, <1>8, <1>9

LEMMA CurrentIs ==
  ASSUME FeatureTyped, head # 0
  PROVE  Current \in Contract /\ Current = versions[head].contract /\ head \in 0..Len(versions)
<1>1. head \in 1..Len(versions) BY DEF FeatureTyped
<1>2. versions[head] \in [contract: Contract, parent: Nat]
  <2>1. versions \in Seq(Versioned) BY DEF FeatureTyped, Versioned
  <2>2. versions[head] \in Versioned BY <1>1, <2>1
  <2> QED BY <2>2 DEF Versioned
<1> QED BY <1>1, <1>2 DEF Current

LEMMA Drafts == \A mode : \A d \in Draft : Drafted(mode, d) \in Contract
BY DraftAssumption DEF Drafted, Contract

\* An edited draft starts anew; the same draft keeps what was approved of it.
LEMMA Revisions ==
  ASSUME FeatureTyped, Parents, ApprovalsFollowDraft, head # 0, NEW d \in Draft,
         Commit(Revised(config.mode, Current, d), head), config' = config, approvals \subseteq approvals'
  PROVE  /\ versions' \in Seq(Versioned) /\ head' \in 1..Len(versions')
         /\ Parents' /\ ApprovalsFollowDraft'
<1> DEFINE c == Revised(config.mode, Current, d)
<1>1. Current \in Contract /\ Current = versions[head].contract /\ head \in 0..Len(versions) BY CurrentIs
<1>2. c \in Contract BY <1>1, Drafts DEF Revised
<1>3. c = Current \/ c = Drafted(config.mode, d) BY DEF Revised
<1>4. config.mode = "interactive" => \A a \in c.accepted :
        /\ head # 0 /\ versions[head].contract.draft = c.draft
        /\ a \in versions[head].contract.accepted \/ <<head, a>> \in approvals'
  <2>1. CASE c = Current BY <2>1, <1>1
  <2>2. CASE c = Drafted(config.mode, d)
    <3>1. config.mode = "interactive" => c.accepted = {} BY <2>2 DEF Drafted
    <3> QED BY <3>1
  <2> QED BY <1>3, <2>1, <2>2
<1> HIDE DEF c
<1>5. Commit(c, head) BY DEF c
<1> QED BY <1>1, <1>2, <1>4, <1>5, Commits

----------------------------------------------------------------------------
(* A process at rest holds nothing.                                        *)

LEMMA NothingIs ==
  /\ Nothing \in Held /\ Nothing.critique = Null
BY DEF Nothing, Held

----------------------------------------------------------------------------
(* What a step leaves in place.                                            *)

LEMMA AnswerKept ==
  ASSUME NEW as, NEW bs, NEW ledger, NEW ledger2, NEW k, NEW v, Grown(as, bs), Range(ledger) \subseteq Range(ledger2),
         AnswerSound(as, ledger, k, v)
  PROVE  AnswerSound(bs, ledger2, k, v)
<1>1. CriticSays(as, k[2], "blocking") => CriticSays(bs, k[2], "blocking") BY GrownKeeps
<1> QED BY <1>1 DEF AnswerSound

\* An answered activity replays a sound answer; a new answer has to be one.
LEMMA AskKeeps ==
  ASSUME AnswersSound, NEW key, NEW v, NEW possible, Ask(key, v, possible),
         Range(stored.ledger) \subseteq Range(stored'.ledger),
         key \notin DOMAIN answers => AnswerSound(answers, stored.ledger, key, v)
  PROVE  AnswersSound' /\ AnswerSound(answers', stored'.ledger, key, v) /\ Grown(answers, answers')
<1>1. /\ Grown(answers, answers') /\ DOMAIN answers' = DOMAIN answers \union {key} /\ answers'[key] = v
      /\ key \in DOMAIN answers => v = answers[key]
  BY Asked
<1>2. AnswerSound(answers, stored.ledger, key, v) BY <1>1 DEF AnswersSound
<1>3. \A k \in DOMAIN answers' : AnswerSound(answers, stored.ledger, k, answers'[k])
  BY <1>1, <1>2 DEF AnswersSound, Grown
<1>4. \A k, w : AnswerSound(answers, stored.ledger, k, w) => AnswerSound(answers', stored'.ledger, k, w)
  BY <1>1, AnswerKept
<1>5. AnswersSound' BY <1>3, <1>4 DEF AnswersSound
<1> QED BY <1>1, <1>2, <1>4, <1>5

\* The records are of what was answered, so they stay sound as answers are added.
LEMMA RecordsKept ==
  ASSUME RecordsSound, Grown(answers, answers'), config' = config, stored'.ledger = stored.ledger,
         stored'.proposal = stored.proposal, stored'.review = stored.review
  PROVE  RecordsSound'
<1>1. \A input : AllAccept(config, answers, stored.ledger, input) => AllAccept(config', answers', stored'.ledger, input)
  BY GrownKeeps
<1> QED BY <1>1 DEF RecordsSound

LEMMA InputsKept ==
  ASSUME Grown(answers, answers'), config' = config, stored'.ledger = stored.ledger
  PROVE  /\ \A input : InputSound(config, answers, stored.ledger, input) => InputSound(config', answers', stored'.ledger, input)
         /\ \A plan : PlanSound(config, answers, stored.ledger, plan) => PlanSound(config', answers', stored'.ledger, plan)
         /\ \A plan, critique : CriticSays(answers, plan, critique) => CriticSays(answers', plan, critique)
BY GrownKeeps, SameLedger

LEMMA Unchanged ==
  ASSUME IInv, UNCHANGED disk
  PROVE  /\ AnswersSound' /\ RecordsSound' /\ Grown(answers, answers')
         /\ \A input : InputSound(config', answers', stored'.ledger, input) = InputSound(config, answers, stored.ledger, input)
         /\ \A plan, critique : CriticSays(answers', plan, critique) = CriticSays(answers, plan, critique)
BY DEF IInv, disk, AnswersSound, RecordsSound, Grown

\* A process at work: neither ended nor handed off.
AtWork == pc \notin {"off", "render"}

LEMMA NotEnded == IInv /\ AtWork => ~stored.ended /\ stored.implementation = Null
BY DEF IInv, AtWork, Ending, HandedOff

\* What a stage changes of the records.
Amended ==
  /\ UNCHANGED config
  /\ stored' \in Stored /\ stored'.ended = stored.ended /\ stored'.implementation = stored.implementation
  /\ stored.proposal \in Proposal => stored'.proposal \in Proposal
  /\ AnswersSound' /\ RecordsSound'

LEMMA SameRecords == IInv /\ UNCHANGED disk => Amended
BY Unchanged DEF IInv, Amended, disk, FeatureTyped

LEMMA Throws ==
  ASSUME IInv, AtWork, Amended, NEW as \in {"BLOCKED", "FAILED"}, Throw(as), as = "BLOCKED" => head # 0,
         UNCHANGED <<versions, head, operator>>
  PROVE  IInv'
<1> USE DEF IInv
<1>1. ~stored.ended /\ stored.implementation = Null BY NotEnded
<1>2. my' = Nothing /\ pc' = "off" /\ state' = as BY DEF Throw, Stop
<1>3. FeatureTyped' BY <1>2, NothingIs DEF FeatureTyped, Amended, Places
<1>4. OnRecord' /\ Ending' /\ HandedOff' /\ OutcomeSound'
  BY <1>1, <1>2 DEF Amended, OnRecord, Ending, HandedOff, OutcomeSound, operator
<1>5. EditSound' BY DEF EditSound, Amended, operator
<1>6. Parents' /\ ApprovalsFollowDraft' BY DEF Parents, ApprovalsFollowDraft, operator, Amended
<1>7. ReviewHeld' /\ ExploredHeld' BY <1>2 DEF ReviewHeld, ExploredHeld, Reviewing, PlanPlaces, Planning
<1>8. PlanHeld' BY <1>2, NothingIs, FeatureAssumption DEF PlanHeld, Planning
<1> QED BY <1>3, <1>4, <1>5, <1>6, <1>7, <1>8 DEF Amended

\* The process goes on: what is left to show is what it holds.
LEMMA GoesOn ==
  ASSUME IInv, AtWork, Amended, pc # "open", pc' \in Places, pc' \notin {"off", "open", "render"}, UNCHANGED state,
         my' \in Held, UNCHANGED <<versions, head, operator>>,
         ReviewHeld', ExploredHeld', PlanHeld', OutcomeSound'
  PROVE  IInv'
<1> USE DEF IInv
<1>1. ~stored.ended /\ stored.implementation = Null BY NotEnded
<1>2. FeatureTyped' BY DEF FeatureTyped, Amended
<1>3. OnRecord' /\ Ending' /\ HandedOff' BY <1>1 DEF AtWork, Amended, OnRecord, Ending, HandedOff, operator
<1>4. EditSound' BY DEF EditSound, Amended, operator
<1>5. Parents' /\ ApprovalsFollowDraft' BY DEF Parents, ApprovalsFollowDraft, operator, Amended
<1> QED BY <1>2, <1>3, <1>4, <1>5 DEF Amended

----------------------------------------------------------------------------
(* Requirements and exploration.                                           *)

LEMMA CurrentRead ==
  ASSUME IInv, AtWork, pc # "open"
  PROVE  /\ head # 0 /\ Current \in Contract /\ my \in Held /\ config \in Configs
         /\ my.explored \in Exploration => Input(Current) \in Stages
<1>1. head # 0 BY DEF IInv, OnRecord, AtWork
<1>2. Current \in Contract BY <1>1, CurrentIs DEF IInv
<1>3. my \in Held /\ config \in Configs BY DEF IInv, FeatureTyped
<1> QED BY <1>1, <1>2, <1>3 DEF Input, Stages

LEMMA OpenStep == ASSUME IInv, Open PROVE IInv'
<1> USE DEF IInv, Open, Goto
<1>0. AtWork /\ pc = "open" BY DEF AtWork
<1>1. ~stored.ended /\ stored.implementation = Null BY <1>0, NotEnded
<1>2. /\ versions' \in Seq(Versioned) /\ head' \in 1..Len(versions') /\ Parents' /\ ApprovalsFollowDraft'
      /\ AnswersSound' /\ Grown(answers, answers')
  <2>1. CASE head # 0
    <3>1. UNCHANGED <<versions, head, answers, stored, approvals, config>> BY <2>1 DEF operator
    <3>2. versions \in Seq(Versioned) /\ head \in 1..Len(versions) BY <2>1 DEF FeatureTyped, Versioned
    <3>3. AnswersSound' /\ Grown(answers, answers') BY <3>1 DEF AnswersSound, Grown
    <3>4. Parents' BY <3>1 DEF Parents
    <3>5. ApprovalsFollowDraft' BY <3>1 DEF ApprovalsFollowDraft
    <3> QED BY <3>1, <3>2, <3>3, <3>4, <3>5
  <2>2. CASE head = 0
    <3>1. PICK d \in FirstDraft : Ask(<<"draft">>, d, FirstDraft) /\ Commit(Drafted(config.mode, d), 0) BY <2>2
    <3>2. d \in Draft BY FeatureAssumption
    <3>3. AnswerSound(answers, stored.ledger, <<"draft">>, d) BY <3>2 DEF AnswerSound
    <3>4. AnswersSound' /\ Grown(answers, answers') BY <3>1, <3>3, AskKeeps
    <3>5. Drafted(config.mode, d) \in Contract BY <3>2, Drafts
    <3>6. config.mode = "interactive" => Drafted(config.mode, d).accepted = {} BY DEF Drafted
    <3>7. approvals \subseteq approvals' /\ config' = config /\ 0 \in 0..Len(versions) BY DEF operator, FeatureTyped
    <3> QED BY <3>1, <3>4, <3>5, <3>6, <3>7, Commits
  <2> QED BY <2>1, <2>2
<1>3. FeatureTyped' BY <1>2 DEF FeatureTyped, Versioned, Places
<1>4. RecordsSound' BY <1>2, RecordsKept
<1>5. OnRecord' /\ EditSound' /\ OutcomeSound' /\ Ending' /\ HandedOff'
  BY <1>0, <1>1, <1>2 DEF OnRecord, EditSound, OutcomeSound, Ending, HandedOff, operator
<1>6. ReviewHeld' /\ ExploredHeld' BY DEF ReviewHeld, ExploredHeld, Reviewing, PlanPlaces, Planning
<1>7. PlanHeld' BY <1>0 DEF PlanHeld, Planning
<1> QED BY <1>2, <1>3, <1>4, <1>5, <1>6, <1>7

LEMMA AwaitApprovalStep == ASSUME IInv, AwaitApproval, pc # "render" PROVE IInv'
<1>1. AtWork /\ pc # "open" BY DEF AwaitApproval, AtWork
<1>2. Amended /\ UNCHANGED <<versions, head, operator>> BY SameRecords DEF AwaitApproval, disk, operator
<1>3. head # 0 BY <1>1, CurrentRead
<1> QED BY <1>1, <1>2, <1>3, Throws DEF AwaitApproval

LEMMA ExploreBeginsStep == ASSUME IInv, ExploreBegins PROVE IInv'
<1> USE DEF ExploreBegins, Goto
<1>1. AtWork /\ pc # "open" BY DEF AtWork
<1>2. Amended /\ UNCHANGED <<versions, head, operator>> BY SameRecords DEF disk, operator
<1>3. Current \in Contract /\ my \in Held BY <1>1, CurrentRead
<1>4. my' \in Held /\ my'.contract \in Contract BY <1>3 DEF Held
<1>5. ReviewHeld' /\ ExploredHeld' BY <1>4 DEF ReviewHeld, ExploredHeld, Reviewing, PlanPlaces, Planning
<1>6. PlanHeld' BY <1>3 DEF PlanHeld, Planning, IInv, Held
<1>7. OutcomeSound' BY <1>1, <1>2, NotEnded DEF OutcomeSound, Amended
<1> QED BY <1>1, <1>2, <1>4, <1>5, <1>6, <1>7, GoesOn DEF Places

\* A model is asked and nothing else is written.
LEMMA AskAmends ==
  ASSUME IInv, NEW key, NEW v, NEW possible, Ask(key, v, possible), UNCHANGED <<config, stored>>,
         key \notin DOMAIN answers => AnswerSound(answers, stored.ledger, key, v)
  PROVE  Amended /\ AnswerSound(answers', stored'.ledger, key, v) /\ Grown(answers, answers')
<1>1. AnswersSound' /\ AnswerSound(answers', stored'.ledger, key, v) /\ Grown(answers, answers')
  BY AskKeeps DEF IInv
<1>2. RecordsSound' BY <1>1, RecordsKept DEF IInv
<1> QED BY <1>1, <1>2 DEF Amended, IInv, FeatureTyped

LEMMA ExploreEndsStep == ASSUME IInv, ExploreEnds PROVE IInv'
<1> USE DEF ExploreEnds
<1>1. AtWork /\ pc # "open" BY DEF AtWork
<1>2. head # 0 /\ my \in Held /\ my.contract \in Contract BY <1>1, CurrentRead DEF IInv, ExploredHeld
<1>3. PICK e \in Explorations[my.contract.draft] :
        /\ Ask(<<"explore", my.contract>>, e, Explorations[my.contract.draft])
        /\ IF e.conflict /\ ~config.reviewers THEN Throw("BLOCKED")
           ELSE LET required == my.required \/ e.review \/ e.conflict \/ stored.ledger # <<>> IN
                /\ my' = [my EXCEPT !.explored = e, !.required = required]
                /\ Goto(IF required THEN "review" ELSE "plan")
  OBVIOUS
<1>4. e \in Exploration
  <2>1. my.contract.draft \in Draft BY <1>2 DEF Contract
  <2> QED BY <2>1, FeatureAssumption
<1>5. AnswerSound(answers, stored.ledger, <<"explore", my.contract>>, e) BY <1>4 DEF AnswerSound
<1>6. Amended /\ Grown(answers, answers') BY <1>3, <1>5, AskAmends
<1>7. UNCHANGED <<versions, head, operator>> BY DEF operator
<1>8. CASE e.conflict /\ ~config.reviewers
  <2>1. Throw("BLOCKED") BY <1>3, <1>8
  <2> QED BY <1>1, <1>2, <1>6, <1>7, <2>1, Throws
<1>9. CASE ~(e.conflict /\ ~config.reviewers)
  <2> DEFINE required == my.required \/ e.review \/ e.conflict \/ stored.ledger # <<>>
  <2>1. /\ my' = [my EXCEPT !.explored = e, !.required = required]
        /\ pc' = (IF required THEN "review" ELSE "plan") /\ UNCHANGED state
    BY <1>3, <1>9 DEF Goto
  <2>2. required \in BOOLEAN BY <1>2, <1>4 DEF Held, Exploration
  <2>3. my' \in Held /\ my'.explored = e /\ my'.required = required /\ my'.critique = my.critique
    BY <1>2, <1>4, <2>1, <2>2 DEF Held
  <2>4. ReviewHeld' BY <2>1 DEF ReviewHeld
  <2>5. ExploredHeld'
    <3>1. stored' = stored OBVIOUS
    <3> QED BY <1>4, <2>1, <2>3, <3>1 DEF ExploredHeld, Reviewing, PlanPlaces, Planning
  <2>6. PlanHeld' BY <2>1, <2>3 DEF PlanHeld, Planning, IInv
  <2>7. OutcomeSound' BY <1>1, <2>1, NotEnded DEF OutcomeSound
  <2> QED BY <1>1, <1>6, <1>7, <2>1, <2>3, <2>4, <2>5, <2>6, <2>7, GoesOn DEF Places, Reviewing, PlanPlaces
<1> QED BY <1>8, <1>9

----------------------------------------------------------------------------
(* Reviews and revisions.                                                  *)

LEMMA ReviewIsHeld ==
  ASSUME NEW h \in Held, NEW c \in Contract, NEW context \in Attempt \union {Null}
  PROVE  [h EXCEPT !.contract = c, !.context = context, !.round = 1] \in Held
<1>1. [h EXCEPT !.contract = c] \in Held BY DEF Held
<1>2. PICK g \in Held : g = [h EXCEPT !.contract = c] BY <1>1
<1>3. [g EXCEPT !.context = context, !.round = 1] \in Held BY <1>2 DEF Held
<1>4. [h EXCEPT !.contract = c, !.context = context, !.round = 1] = [g EXCEPT !.context = context, !.round = 1]
  BY <1>2
<1> QED BY <1>3, <1>4

LEMMA ReviewBeginsStep == ASSUME IInv, ReviewBegins PROVE IInv'
<1> USE DEF ReviewBegins, Goto
<1>1. AtWork /\ pc # "open" BY DEF AtWork
<1>2. Amended /\ UNCHANGED <<versions, head, operator, stored, config>> BY SameRecords DEF disk, operator
<1>3. Current \in Contract /\ my \in Held /\ config \in Configs BY <1>1, CurrentRead
<1>4. RevisionContext \in {Null} \union Range(stored.ledger) /\ RevisionContext \in Attempt \union {Null}
  <2>1. stored \in Stored /\ (stored.proposal # Null => stored.proposal.attempt \in Range(stored.ledger))
    BY DEF IInv, FeatureTyped, RecordsSound
  <2>2. stored.proposal # Null => stored.proposal.attempt \in Attempt BY <2>1 DEF Stored, Proposal
  <2> QED BY <2>1, <2>2 DEF RevisionContext
<1>5. PICK context \in Attempt \union {Null} :
        context = RevisionContext /\ my' = [my EXCEPT !.contract = Current, !.context = context, !.round = 1]
  BY <1>4
<1>6. /\ my' \in Held /\ my'.contract \in Contract /\ my'.round = 1 /\ my'.context = context
      /\ my'.explored = my.explored /\ my'.required = my.required /\ my'.critique = my.critique
  <2>1. my' \in Held
    <3>1. my \in Held /\ Current \in Contract BY <1>3
    <3>2. [my EXCEPT !.contract = Current, !.context = context, !.round = 1] \in Held BY <3>1, ReviewIsHeld, Zenon
    <3> QED BY <3>2, <1>5, Zenon
  <2>2. my'.contract = Current /\ my'.round = 1 /\ my'.context = context BY <1>3, <1>5 DEF Held
  <2>3. my'.explored = my.explored /\ my'.required = my.required /\ my'.critique = my.critique BY <1>3, <1>5 DEF Held
  <2> QED BY <1>3, <2>1, <2>2, <2>3
<1>7. 1 \in 1..config.rounds BY <1>3, FeatureAssumption
<1>8. ReviewHeld' BY <1>2, <1>4, <1>5, <1>6, <1>7 DEF ReviewHeld
<1>9. ExploredHeld' BY <1>2, <1>6 DEF ExploredHeld, Reviewing, PlanPlaces, Planning, IInv
<1>10. PlanHeld' BY <1>6 DEF PlanHeld, Planning, IInv
<1>11. OutcomeSound' BY <1>1, <1>2, NotEnded DEF OutcomeSound
<1> QED BY <1>1, <1>2, <1>6, <1>8, <1>9, <1>10, <1>11, GoesOn DEF Places, Reviewing

LEMMA ReviewAbsentStep == ASSUME IInv, ReviewAbsent \/ ReviewStale PROVE IInv'
<1>1. AtWork /\ pc # "open" /\ Throw("FAILED") /\ UNCHANGED <<disk, operator>>
  BY DEF AtWork, ReviewAbsent, ReviewStale, operator
<1>2. Amended /\ UNCHANGED <<versions, head, operator>> BY <1>1, SameRecords DEF disk
<1> QED BY <1>1, <1>2, Throws

LEMMA ReviewerAnswersStep == ASSUME IInv, NEW r \in Reviewer, ReviewerAnswers(r) PROVE IInv'
<1> USE DEF ReviewerAnswers
<1>1. AtWork /\ pc = "reviewing" BY DEF AtWork
<1>2. PICK v \in Votes[r] : Ask(ReviewKey(r), v, Votes[r]) OBVIOUS
<1>3. v \in Vote BY FeatureAssumption
<1>4. AnswerSound(answers, stored.ledger, ReviewKey(r), v) BY <1>3 DEF AnswerSound, ReviewKey
<1>5. Amended BY <1>2, <1>4, AskAmends
<1>6. UNCHANGED <<versions, head, operator, stored, my, config>> BY DEF operator
<1>7. my \in Held BY DEF IInv, FeatureTyped
<1>8. ReviewHeld' BY <1>6 DEF ReviewHeld, IInv
<1>9. ExploredHeld' BY <1>6 DEF ExploredHeld, Reviewing, PlanPlaces, Planning, IInv
<1>10. PlanHeld' BY <1>1, <1>6 DEF PlanHeld, Planning, IInv
<1>11. OutcomeSound' BY <1>1, <1>6, NotEnded DEF OutcomeSound
<1> QED BY <1>1, <1>5, <1>6, <1>7, <1>8, <1>9, <1>10, <1>11, GoesOn DEF Places, Reviewing

\* A round that settles is one in which every reviewer accepted.
LEMMA RoundSettles ==
  ASSUME IInv, pc = "reviewing", \A r \in Reviewer : ReviewKey(r) \in DOMAIN answers,
         NEW found, found = Consensus([r \in Reviewer |-> answers[ReviewKey(r)]], my.explored.conflict)
  PROVE  /\ found \in [blocking: BOOLEAN, limited: BOOLEAN]
         /\ Settled(found) =>
              AllAccept(config, answers, stored.ledger, Input(my.contract)) /\ ~my.explored.conflict
<1>0. my.explored.conflict \in BOOLEAN BY DEF IInv, ExploredHeld, Reviewing, Exploration
<1>1. /\ found.blocking = (my.explored.conflict \/ \E r \in Reviewer : answers[ReviewKey(r)] = "object")
      /\ found.limited = (\E r \in Reviewer : answers[ReviewKey(r)] = "limited")
      /\ found \in [blocking: BOOLEAN, limited: BOOLEAN]
  BY <1>0 DEF Consensus
<1>2. ASSUME Settled(found) PROVE AllAccept(config, answers, stored.ledger, Input(my.contract)) /\ ~my.explored.conflict
  <2>1. ~my.explored.conflict /\ \A r \in Reviewer : answers[ReviewKey(r)] \notin {"object", "limited"}
    BY <1>1, <1>2 DEF Settled
  <2>2. \A r \in Reviewer : answers[ReviewKey(r)] \in Vote
    <3> SUFFICES ASSUME NEW r \in Reviewer PROVE answers[ReviewKey(r)] \in Vote OBVIOUS
    <3>1. AnswerSound(answers, stored.ledger, ReviewKey(r), answers[ReviewKey(r)]) BY DEF IInv, AnswersSound
    <3>2. ReviewKey(r)[1] = "review" BY DEF ReviewKey
    <3> QED BY <3>1, <3>2 DEF AnswerSound
  <2>3. \A r \in Reviewer : answers[ReviewKey(r)] = "accept" BY <2>1, <2>2 DEF Vote
  <2>4. my.round \in 1..config.rounds /\ my.context \in {Null} \union Range(stored.ledger) BY DEF IInv, ReviewHeld
  <2>5. \A r \in Reviewer : LET k == <<"review", Input(my.contract), my.context, my.round, r>> IN
          k \in DOMAIN answers /\ answers[k] = "accept"
    BY <2>3 DEF ReviewKey
  <2> QED BY <2>1, <2>4, <2>5 DEF AllAccept
<1> QED BY <1>1, <1>2

LEMMA RoundEndsStep == ASSUME IInv, RoundEnds PROVE IInv'
<1>1. AtWork /\ pc = "reviewing" BY DEF AtWork, RoundEnds
<1>2. /\ my \in Held /\ stored \in Stored /\ config \in Configs /\ my.contract \in Contract
      /\ my.explored \in Exploration /\ my.required /\ my.round \in 1..config.rounds
  BY <1>1 DEF IInv, FeatureTyped, ReviewHeld, ExploredHeld, Reviewing
<1>3. PICK found :
        /\ found = Consensus([r \in Reviewer |-> answers[ReviewKey(r)]], my.explored.conflict)
        /\ \A r \in Reviewer : ReviewKey(r) \in DOMAIN answers
        /\ stored' = [stored EXCEPT !.review = [input |-> Input(my.contract), found |-> found]]
        /\ IF LastRound(my.round, config.rounds, found, my.explored.conflict)
           THEN Goto(IF Settled(found) THEN "plan" ELSE "unresolved") /\ UNCHANGED my
           ELSE NextRound /\ UNCHANGED <<pc, state>>
        /\ UNCHANGED <<config, versions, head, answers, operator, events>>
  BY DEF RoundEnds
<1>4. /\ found \in [blocking: BOOLEAN, limited: BOOLEAN]
      /\ Settled(found) => AllAccept(config, answers, stored.ledger, Input(my.contract)) /\ ~my.explored.conflict
  BY <1>1, <1>3, RoundSettles
<1>5. PICK review \in Review : review = [input |-> Input(my.contract), found |-> found] /\ review.found = found
                               /\ review.input = Input(my.contract) /\ review.input[2] = my.explored
  <2>1. Input(my.contract) \in Stages /\ Input(my.contract)[2] = my.explored BY <1>2 DEF Input, Stages
  <2>2. PICK input \in Stages : input = Input(my.contract) /\ input[2] = my.explored BY <2>1
  <2>3. [input |-> input, found |-> found] \in Review BY <1>4 DEF Review
  <2> QED BY <2>2, <2>3
<1>6. stored' \in Stored /\ stored'.review = review /\ stored'.ledger = stored.ledger
      /\ stored'.proposal = stored.proposal /\ stored'.ended = stored.ended
      /\ stored'.implementation = stored.implementation /\ stored'.outcome = stored.outcome
  BY <1>2, <1>3, <1>5 DEF Stored
<1>7. UNCHANGED <<config, versions, head, answers, operator>> BY <1>3
<1>8. AnswersSound' BY <1>6, <1>7 DEF AnswersSound, IInv
<1>9. RecordsSound' BY <1>4, <1>5, <1>6, <1>7 DEF RecordsSound, IInv
<1>10. Amended BY <1>6, <1>7, <1>8, <1>9 DEF Amended
<1>11. OutcomeSound' /\ pc' \in Places \ {"off", "open", "render"} /\ UNCHANGED state
  <2>1. pc' \in {"plan", "unresolved", "reviewing"} /\ state' = state BY <1>1, <1>3 DEF Goto
  <2>2. ~stored'.ended BY <1>1, <1>6, NotEnded
  <2> QED BY <2>1, <2>2 DEF OutcomeSound, Places, Reviewing, PlanPlaces
<1>12. CASE LastRound(my.round, config.rounds, found, my.explored.conflict)
  <2>1. pc' = (IF Settled(found) THEN "plan" ELSE "unresolved") /\ my' = my BY <1>3, <1>12 DEF Goto
  <2>2. ReviewHeld' BY <2>1 DEF ReviewHeld
  <2>3. ExploredHeld' BY <1>2, <1>4, <2>1 DEF ExploredHeld, Reviewing, PlanPlaces, Planning
  <2>4. PlanHeld' BY <1>1, <2>1 DEF PlanHeld, Planning, IInv
  <2> QED BY <1>1, <1>2, <1>7, <1>10, <1>11, <2>1, <2>2, <2>3, <2>4, GoesOn
<1>13. CASE ~LastRound(my.round, config.rounds, found, my.explored.conflict)
  <2>1. my' = [my EXCEPT !.round = @ + 1] /\ pc' = pc BY <1>3, <1>13 DEF NextRound
  <2>2. config.rounds \in 1..3 BY <1>2, FeatureAssumption
  <2>3. my.round + 1 \in Nat /\ my.round + 1 \in 1..config.rounds BY <1>2, <2>2, <1>13 DEF LastRound
  <2>4. my' \in Held /\ my'.round = my.round + 1 /\ my'.contract = my.contract /\ my'.context = my.context
        /\ my'.explored = my.explored /\ my'.required = my.required /\ my'.critique = my.critique
    BY <1>2, <2>1, <2>3 DEF Held
  <2>5. ReviewHeld' BY <1>1, <1>2, <1>6, <1>7, <2>1, <2>3, <2>4 DEF ReviewHeld, IInv
  <2>6. ExploredHeld' BY <1>1, <1>2, <2>1, <2>4 DEF ExploredHeld, Reviewing, PlanPlaces, Planning
  <2>7. PlanHeld' BY <1>1, <2>1, <2>4 DEF PlanHeld, Planning, IInv
  <2> QED BY <1>1, <1>7, <1>10, <1>11, <2>1, <2>4, <2>5, <2>6, <2>7, GoesOn
<1> QED BY <1>12, <1>13

LEMMA ReviseBeginsStep == ASSUME IInv, ReviseBegins PROVE IInv'
<1> DEFINE attempt == [base |-> head, input |-> Input(Current)]
           found == stored.review.found
<1>1. AtWork /\ pc = "unresolved" /\ pc # "open" BY DEF AtWork, ReviseBegins
<1>2. /\ my \in Held /\ stored \in Stored /\ stored.ledger \in Seq(Attempt) /\ my.explored \in Exploration /\ my.required
      /\ head # 0 /\ Current \in Contract /\ Input(Current) \in Stages /\ head \in Nat
  <2>1. my.explored \in Exploration /\ my.required BY <1>1 DEF IInv, ExploredHeld, Reviewing
  <2>2. stored \in Stored /\ head \in Nat BY DEF IInv, FeatureTyped
  <2> QED BY <1>1, <2>1, <2>2, CurrentRead DEF Stored
<1>3. attempt \in Attempt BY <1>2 DEF Attempt
<1>4. UNCHANGED <<config, versions, head, answers, operator>> BY DEF ReviseBegins
<1>5. CASE ~found.blocking \/ found.limited \/ ~Revisable(attempt)
  <2>1. Throw("BLOCKED") /\ stored' = stored BY <1>5 DEF ReviseBegins
  <2>2. Amended BY <1>4, <2>1, SameRecords DEF disk
  <2> QED BY <1>1, <1>2, <1>4, <2>1, <2>2, Throws
<1>6. CASE ~(~found.blocking \/ found.limited \/ ~Revisable(attempt))
  <2> HIDE DEF attempt, found
  <2>1. /\ stored' = IF attempt \in Range(stored.ledger) THEN stored
                     ELSE [stored EXCEPT !.ledger = Append(@, attempt)]
        /\ my' = [my EXCEPT !.attempt = attempt, !.contract = Current]
        /\ pc' = "revising" /\ UNCHANGED state
    BY <1>6 DEF ReviseBegins, Goto, attempt, found
  <2>2. /\ stored' \in Stored /\ attempt \in Range(stored'.ledger) /\ Range(stored.ledger) \subseteq Range(stored'.ledger)
        /\ Len(stored'.ledger) <= MaxRevisions
        /\ stored'.review = stored.review /\ stored'.proposal = stored.proposal /\ stored'.ended = stored.ended
        /\ stored'.implementation = stored.implementation
    <3>1. CASE attempt \in Range(stored.ledger)
      BY <1>2, <2>1, <3>1 DEF IInv, RecordsSound
    <3>2. CASE attempt \notin Range(stored.ledger)
      <4>1. Len(stored.ledger) < MaxRevisions BY <1>6, <3>2 DEF Revisable
      <4>2. PICK ledger : ledger = Append(stored.ledger, attempt) OBVIOUS
      <4>3. ledger \in Seq(Attempt) /\ Len(ledger) = Len(stored.ledger) + 1 /\ ledger[Len(stored.ledger) + 1] = attempt
            /\ DOMAIN ledger = 1..Len(stored.ledger) + 1
            /\ \A i \in DOMAIN stored.ledger : i \in DOMAIN ledger /\ ledger[i] = stored.ledger[i]
        BY <1>2, <1>3, <4>2
      <4>4. attempt \in Range(ledger) /\ Range(stored.ledger) \subseteq Range(ledger)
        <5>1. Len(stored.ledger) + 1 \in DOMAIN ledger BY <1>2, <4>3
        <5> QED BY <4>3, <5>1 DEF Range
      <4>5. stored' = [stored EXCEPT !.ledger = ledger] BY <2>1, <3>2, <4>2
      <4>6. Len(ledger) <= MaxRevisions BY <1>2, <4>1, <4>3, FeatureAssumption
      <4>7. /\ stored' \in Stored /\ stored'.ledger = ledger
            /\ stored'.review = stored.review /\ stored'.proposal = stored.proposal /\ stored'.ended = stored.ended
            /\ stored'.implementation = stored.implementation
        BY <1>2, <4>3, <4>5 DEF Stored
      <4> QED BY <4>4, <4>6, <4>7
    <3> QED BY <3>1, <3>2
  <2>3. my' \in Held /\ my'.attempt = attempt /\ my'.contract = Current /\ my'.explored = my.explored
        /\ my'.required = my.required /\ my'.critique = my.critique
    BY <1>2, <1>3, <2>1 DEF Held
  <2>4. Grown(answers, answers') BY <1>4 DEF Grown
  <2>5. AnswersSound' BY <1>4, <2>2, <2>4, AnswerKept DEF AnswersSound, IInv
  <2>6. RecordsSound'
    <3>1. \A input : AllAccept(config, answers, stored.ledger, input) => AllAccept(config, answers, stored'.ledger, input)
      BY <2>2, SameAnswers, GrownKeeps
    <3> QED BY <1>4, <2>2, <3>1 DEF RecordsSound, IInv
  <2>7. Amended BY <1>4, <2>2, <2>5, <2>6 DEF Amended
  <2>8. ReviewHeld' BY <1>2, <2>1, <2>2, <2>3 DEF ReviewHeld
  <2>9. ExploredHeld' BY <1>2, <2>1, <2>3 DEF ExploredHeld, Reviewing, PlanPlaces, Planning
  <2>10. PlanHeld' BY <1>1, <2>1, <2>3 DEF PlanHeld, Planning, IInv
  <2>11. OutcomeSound' BY <1>1, <2>1, <2>2, NotEnded DEF OutcomeSound
  <2> QED BY <1>1, <1>4, <2>1, <2>3, <2>7, <2>8, <2>9, <2>10, <2>11, GoesOn DEF Places, Reviewing
<1> QED BY <1>5, <1>6

LEMMA ReviseEndsStep == ASSUME IInv, ReviseEnds PROVE IInv'
<1>1. AtWork /\ pc = "revising" BY DEF AtWork, ReviseEnds
<1>2. /\ my \in Held /\ stored \in Stored /\ my.attempt \in Range(stored.ledger) /\ my.contract \in Contract
      /\ my.explored \in Exploration /\ my.required /\ head # 0
  BY <1>1, CurrentRead DEF IInv, FeatureTyped, ReviewHeld, ExploredHeld, Reviewing
<1>3. my.attempt \in Attempt
  <2>1. stored.ledger \in Seq(Attempt) BY <1>2 DEF Stored
  <2> QED BY <1>2, <2>1 DEF Range
<1>4. PICK d \in Proposable(my.contract) :
        /\ Ask(<<"revision", my.attempt>>, d, Proposable(my.contract))
        /\ IF head # my.attempt.base THEN Throw("FAILED") /\ UNCHANGED stored
           ELSE /\ stored' = [stored EXCEPT !.proposal = [attempt |-> my.attempt, draft |-> d]]
                /\ IF config.mode = "interactive" THEN Throw("BLOCKED")
                   ELSE Goto("apply") /\ UNCHANGED my
  BY DEF ReviseEnds
<1>5. d \in Draft BY DEF Proposable
<1>6. UNCHANGED <<config, versions, head, operator>> BY DEF ReviseEnds
<1>7. AnswerSound(answers, stored.ledger, <<"revision", my.attempt>>, d) BY <1>2, <1>5 DEF AnswerSound
<1>8. CASE head # my.attempt.base
  <2>1. Throw("FAILED") /\ stored' = stored BY <1>4, <1>8
  <2>2. Amended BY <1>4, <1>6, <1>7, <2>1, AskAmends
  <2> QED BY <1>1, <1>6, <2>1, <2>2, Throws
<1>9. CASE head = my.attempt.base
  <2>1. PICK proposal \in Proposal : proposal = [attempt |-> my.attempt, draft |-> d] /\ proposal.attempt = my.attempt
    <3>1. [attempt |-> my.attempt, draft |-> d] \in Proposal BY <1>3, <1>5 DEF Proposal
    <3> QED BY <3>1
  <2>2. stored' = [stored EXCEPT !.proposal = proposal] BY <1>4, <1>9, <2>1
  <2>3. stored' \in Stored /\ stored'.ledger = stored.ledger /\ stored'.proposal = proposal
        /\ stored'.review = stored.review /\ stored'.ended = stored.ended
        /\ stored'.implementation = stored.implementation
    BY <1>2, <2>2 DEF Stored
  <2>4. AnswersSound' /\ Grown(answers, answers') BY <1>4, <1>7, <2>3, AskKeeps DEF IInv
  <2>5. RecordsSound'
    <3>1. \A input : AllAccept(config, answers, stored.ledger, input) => AllAccept(config', answers', stored'.ledger, input)
      BY <1>6, <2>3, <2>4, GrownKeeps
    <3> QED BY <1>2, <2>1, <2>3, <3>1, <1>6 DEF RecordsSound, IInv
  <2>6. Amended BY <1>6, <2>3, <2>4, <2>5 DEF Amended
  <2>7. CASE config.mode = "interactive"
    <3>1. Throw("BLOCKED") BY <1>4, <1>9, <2>7
    <3> QED BY <1>1, <1>2, <1>6, <2>6, <3>1, Throws
  <2>8. CASE config.mode # "interactive"
    <3>1. pc' = "apply" /\ my' = my /\ state' = state BY <1>4, <1>9, <2>8 DEF Goto
    <3>2. ReviewHeld' BY <2>3, <3>1 DEF ReviewHeld
    <3>3. ExploredHeld' BY <1>2, <3>1 DEF ExploredHeld, Reviewing, PlanPlaces, Planning
    <3>4. PlanHeld' BY <1>1, <3>1 DEF PlanHeld, Planning, IInv
    <3>5. OutcomeSound' BY <1>1, <2>3, <3>1, NotEnded DEF OutcomeSound
    <3> QED BY <1>1, <1>2, <1>6, <2>6, <3>1, <3>2, <3>3, <3>4, <3>5, GoesOn DEF Places, Reviewing
  <2> QED BY <2>7, <2>8
<1> QED BY <1>8, <1>9

LEMMA ApplyStep == ASSUME IInv, Apply PROVE IInv'
<1>1. AtWork /\ pc = "apply" /\ pc # "open" BY DEF AtWork, Apply
<1>2. stored.proposal \in Proposal /\ head # 0 /\ my \in Held
  BY <1>1, CurrentRead DEF IInv, ReviewHeld
<1>3. UNCHANGED <<config, answers, stored, operator>> BY DEF Apply
<1>4. CASE head # stored.proposal.attempt.base
  <2>1. Throw("FAILED") /\ UNCHANGED <<versions, head>> BY <1>4 DEF Apply
  <2>2. Amended BY <1>3, <2>1, SameRecords DEF disk
  <2> QED BY <1>1, <1>3, <2>1, <2>2, Throws
<1>5. CASE head = stored.proposal.attempt.base
  <2>1. /\ Commit(Revised(config.mode, Current, stored.proposal.draft), head)
        /\ pc' = "explore" /\ state' = state /\ my' = my
    BY <1>5 DEF Apply, Goto
  <2>2. stored.proposal.draft \in Draft BY <1>2 DEF Proposal
  <2>3. approvals \subseteq approvals' BY <1>3 DEF operator
  <2>4. /\ versions' \in Seq(Versioned) /\ head' \in 1..Len(versions')
        /\ Parents' /\ ApprovalsFollowDraft'
    BY <1>2, <1>3, <2>1, <2>2, <2>3, Revisions DEF IInv
  <2>5. ~stored.ended /\ stored.implementation = Null BY <1>1, NotEnded
  <2>6. FeatureTyped' BY <1>3, <2>1, <2>4 DEF IInv, FeatureTyped, Versioned, Places
  <2>7. AnswersSound' BY <1>3 DEF AnswersSound, IInv
  <2>8. RecordsSound' BY <1>3 DEF RecordsSound, IInv
  <2>9. OnRecord' /\ EditSound' /\ OutcomeSound' /\ Ending' /\ HandedOff'
    BY <1>3, <2>1, <2>4, <2>5 DEF OnRecord, EditSound, OutcomeSound, Ending, HandedOff, operator, IInv
  <2>10. ReviewHeld' /\ ExploredHeld' BY <2>1 DEF ReviewHeld, ExploredHeld, Reviewing, PlanPlaces, Planning
  <2>11. PlanHeld' BY <1>1, <2>1 DEF PlanHeld, Planning, IInv
  <2> QED BY <2>4, <2>6, <2>7, <2>8, <2>9, <2>10, <2>11 DEF IInv
<1> QED BY <1>4, <1>5

----------------------------------------------------------------------------
(* The plan and its critic.                                                *)

LEMMA ReviewedIsSound ==
  ASSUME IInv, AtWork, pc # "open", pc \in PlanPlaces, Resolved, Reviewed(Input(Current))
  PROVE  InputSound(config, answers, stored.ledger, Input(Current))
<1>1. Input(Current)[1] = Current /\ Input(Current)[2] = my.explored BY DEF Input
<1>2. ~my.explored.conflict BY DEF IInv, ExploredHeld
<1>3. Pending(config.mode, Current) = {} BY DEF Resolved
<1>4. my.explored.review \/ stored.ledger # <<>> => AllAccept(config, answers, stored.ledger, Input(Current))
  BY DEF Reviewed, IInv, RecordsSound
<1> QED BY <1>1, <1>2, <1>3, <1>4 DEF InputSound

LEMMA PlanBeginsStep == ASSUME IInv, PlanBegins PROVE IInv'
<1>1. AtWork /\ pc = "plan" /\ pc # "open" /\ pc \in PlanPlaces BY DEF AtWork, PlanBegins, PlanPlaces
<1>2. my \in Held /\ Current \in Contract /\ my.explored \in Exploration BY <1>1, CurrentRead DEF IInv, ExploredHeld
<1>3. Amended /\ UNCHANGED <<versions, head, operator, stored, config, answers>>
  BY SameRecords DEF PlanBegins, disk, operator
<1>4. CASE ~(Reviewed(Input(Current)) /\ (my.required => config.critic # "none"))
  <2>1. Throw("FAILED") BY <1>4 DEF PlanBegins
  <2> QED BY <1>1, <1>3, <2>1, Throws
<1>5. CASE Reviewed(Input(Current)) /\ (my.required => config.critic # "none")
  <2>1. my' = [my EXCEPT !.contract = Current] /\ pc' = "planning" /\ state' = state BY <1>5 DEF PlanBegins, Goto
  <2>2. my' \in Held /\ my'.contract = Current /\ my'.explored = my.explored /\ my'.required = my.required
        /\ my'.critique = my.critique
    BY <1>2, <2>1 DEF Held
  <2>3. InputSound(config, answers, stored.ledger, Input(Current)) BY <1>1, <1>5, ReviewedIsSound DEF PlanBegins
  <2>4. ReviewHeld' BY <2>1 DEF ReviewHeld
  <2>5. ExploredHeld' BY <1>1, <1>3, <2>1, <2>2 DEF ExploredHeld, Reviewing, PlanPlaces, Planning, IInv
  <2>6. PlanHeld'
    <3>1. Input(my.contract)' = Input(Current) BY <2>2 DEF Input
    <3>2. my'.critique # "passed" BY <1>1, <2>2 DEF IInv, PlanHeld
    <3> QED BY <1>2, <1>3, <2>1, <2>2, <2>3, <3>1, <3>2 DEF PlanHeld, Planning
  <2>7. OutcomeSound' BY <1>1, <1>3, <2>1, NotEnded DEF OutcomeSound
  <2> QED BY <1>1, <1>3, <2>1, <2>2, <2>4, <2>5, <2>6, <2>7, GoesOn DEF Places, PlanPlaces
<1> QED BY <1>4, <1>5

LEMMA PlanEndsStep == ASSUME IInv, PlanEnds PROVE IInv'
<1>1. AtWork /\ pc = "planning" /\ pc # "open" BY DEF AtWork, PlanEnds
<1>2. /\ my \in Held /\ stored \in Stored /\ my.contract \in Contract /\ my.explored \in Exploration
      /\ InputSound(config, answers, stored.ledger, Input(my.contract)) /\ my.critique # "passed"
  BY <1>1 DEF IInv, FeatureTyped, ExploredHeld, PlanHeld, PlanPlaces
<1>3. PICK q \in BOOLEAN :
        /\ Ask(<<"plan", Input(my.contract)>>, q, BOOLEAN)
        /\ stored' = [stored EXCEPT !.planner = Planned(Input(my.contract), q), !.plan = Planned(Input(my.contract), q)]
        /\ my' = [my EXCEPT !.plan = Planned(Input(my.contract), q)]
  BY DEF PlanEnds
<1>4. pc' = (IF my.required THEN "critic" ELSE "outcome") /\ state' = state /\ UNCHANGED <<config, versions, head, operator>>
  BY DEF PlanEnds, Goto
<1>5. Input(my.contract) \in Stages /\ Input(my.contract)[2] = my.explored BY <1>2 DEF Input, Stages
<1>6. PICK plan \in PlanOf :
        plan = Planned(Input(my.contract), q) /\ plan.input = Input(my.contract) /\ plan.input[2] = my.explored
  <2>1. PICK input \in Stages : input = Input(my.contract) /\ input[2] = my.explored BY <1>5
  <2>2. Planned(input, q) \in PlanOf /\ Planned(input, q).input = input BY DEF Planned, Plan, PlanOf
  <2> QED BY <2>1, <2>2
<1>7. stored' \in Stored /\ stored'.ledger = stored.ledger /\ stored'.proposal = stored.proposal
      /\ stored'.review = stored.review /\ stored'.ended = stored.ended
      /\ stored'.implementation = stored.implementation
  BY <1>2, <1>3, <1>6 DEF Stored
<1>8. AnswerSound(answers, stored.ledger, <<"plan", Input(my.contract)>>, q) BY DEF AnswerSound
<1>9. AnswersSound' /\ Grown(answers, answers') BY <1>3, <1>7, <1>8, AskKeeps DEF IInv
<1>10. Amended BY <1>4, <1>7, <1>9, RecordsKept DEF Amended, IInv
<1>11. my' \in Held /\ my'.plan = plan /\ my'.explored = my.explored /\ my'.required = my.required
       /\ my'.critique = my.critique
  BY <1>2, <1>3, <1>6 DEF Held
<1>12. ReviewHeld' BY <1>4 DEF ReviewHeld
<1>13. ExploredHeld' BY <1>1, <1>4, <1>7, <1>11 DEF ExploredHeld, Reviewing, PlanPlaces, Planning, IInv
<1>14. PlanHeld'
  <2>1. InputSound(config', answers', stored'.ledger, plan.input) BY <1>2, <1>4, <1>6, <1>7, <1>9, InputsKept
  <2> QED BY <1>2, <1>4, <1>6, <1>11, <2>1 DEF PlanHeld, Planning
<1>15. OutcomeSound' BY <1>1, <1>4, <1>7, NotEnded DEF OutcomeSound
<1> QED BY <1>1, <1>4, <1>10, <1>11, <1>12, <1>13, <1>14, <1>15, GoesOn DEF Places, PlanPlaces, Planning

LEMMA CriticBeginsStep == ASSUME IInv, CriticBegins \/ ReplanBegins PROVE IInv'
<1>1. AtWork /\ pc \in {"critic", "replan"} BY DEF AtWork, CriticBegins, ReplanBegins
<1>2. Amended /\ UNCHANGED <<versions, head, operator, stored, config, answers>>
  BY SameRecords DEF CriticBegins, ReplanBegins, disk, operator
<1>3. CASE Throw("FAILED") BY <1>1, <1>2, <1>3, Throws
<1>4. CASE ~Throw("FAILED")
  <2>1. my' = my /\ state' = state /\ pc' = (IF pc = "critic" THEN "criticising" ELSE "replanning")
    BY <1>4 DEF CriticBegins, ReplanBegins, Goto
  <2>2. my \in Held BY DEF IInv, FeatureTyped
  <2>3. ReviewHeld' BY <1>1, <2>1 DEF ReviewHeld
  <2>4. ExploredHeld' BY <1>1, <1>2, <2>1 DEF ExploredHeld, Reviewing, PlanPlaces, Planning, IInv
  <2>5. PlanHeld' BY <1>1, <1>2, <2>1 DEF PlanHeld, Planning, IInv
  <2>6. OutcomeSound' BY <1>1, <1>2, <2>1, NotEnded DEF OutcomeSound
  <2> QED BY <1>1, <1>2, <2>1, <2>2, <2>3, <2>4, <2>5, <2>6, GoesOn DEF Places, PlanPlaces, Planning
<1> QED BY <1>3, <1>4

LEMMA CriticEndsStep == ASSUME IInv, CriticEnds PROVE IInv'
<1>1. AtWork /\ pc = "criticising" /\ pc # "open" /\ pc \in Planning /\ pc \in PlanPlaces
  BY DEF AtWork, CriticEnds, Planning, PlanPlaces
<1>2. /\ my \in Held /\ my.plan \in PlanOf /\ my.plan.input[2] = my.explored /\ my.explored \in Exploration
      /\ InputSound(config, answers, stored.ledger, my.plan.input)
      /\ ~my.explored.conflict /\ (my.explored.review \/ stored.ledger # <<>> => my.required)
  BY <1>1 DEF IInv, FeatureTyped, ExploredHeld, PlanHeld
<1>3. PICK c \in {"passed", "blocking", "degraded", "skipped"} :
        /\ IF config.critic = "weak" THEN c = "skipped" /\ UNCHANGED answers
           ELSE Ask(<<"critic", my.plan>>, c, {"passed", "blocking", "degraded"})
        /\ my' = [my EXCEPT !.critique = c]
        /\ Goto(IF Revises(c) THEN "replan" ELSE "outcome")
  BY DEF CriticEnds
<1>4. UNCHANGED <<config, versions, head, stored, operator>> /\ state' = state BY <1>3 DEF CriticEnds, Goto
<1>5. Amended /\ Grown(answers, answers') /\ (c # "skipped" => CriticSays(answers', my.plan, c))
  <2>1. CASE config.critic = "weak"
    <3>1. c = "skipped" /\ answers' = answers BY <1>3, <2>1
    <3>2. Amended BY <1>4, <3>1, SameRecords DEF disk
    <3> QED BY <3>1, <3>2, SameAnswers
  <2>2. CASE config.critic # "weak"
    <3>1. Ask(<<"critic", my.plan>>, c, {"passed", "blocking", "degraded"}) BY <1>3, <2>2
    <3>2. <<"critic", my.plan>> \notin DOMAIN answers =>
            AnswerSound(answers, stored.ledger, <<"critic", my.plan>>, c)
      <4>1. <<"critic", my.plan>> \notin DOMAIN answers => c \in {"passed", "blocking", "degraded"} BY <3>1 DEF Ask
      <4> QED BY <4>1 DEF AnswerSound
    <3>3. Amended /\ Grown(answers, answers') BY <1>4, <3>1, <3>2, AskAmends
    <3>4. CriticSays(answers', my.plan, c) BY <3>1 DEF CriticSays, Ask
    <3> QED BY <3>3, <3>4
  <2> QED BY <2>1, <2>2
<1>6. my' \in Held /\ my'.plan = my.plan /\ my'.explored = my.explored /\ my'.required = my.required /\ my'.critique = c
  BY <1>2, <1>3 DEF Held
<1>7. pc' = (IF c = "blocking" /\ my.plan.revised = 0 THEN "replan" ELSE "outcome") BY <1>3 DEF Goto, Revises
<1>8. ReviewHeld' BY <1>7 DEF ReviewHeld
<1>9. ExploredHeld' BY <1>2, <1>4, <1>6, <1>7 DEF ExploredHeld, Reviewing, PlanPlaces, Planning
<1>10. PlanHeld'
  <2>1. InputSound(config', answers', stored'.ledger, my.plan.input) BY <1>2, <1>4, <1>5, InputsKept
  <2> QED BY <1>2, <1>5, <1>6, <1>7, <2>1 DEF PlanHeld, Planning
<1>11. OutcomeSound' BY <1>1, <1>4, <1>7, NotEnded DEF OutcomeSound
<1> QED BY <1>1, <1>4, <1>5, <1>6, <1>7, <1>8, <1>9, <1>10, <1>11, GoesOn DEF Places, PlanPlaces, Planning

LEMMA ReplanEndsStep == ASSUME IInv, ReplanEnds PROVE IInv'
<1>1. AtWork /\ pc = "replanning" /\ pc # "open" /\ pc \in Planning /\ pc \in PlanPlaces
  BY DEF AtWork, ReplanEnds, Planning, PlanPlaces
<1>2. /\ my \in Held /\ stored \in Stored /\ my.plan \in PlanOf /\ my.plan.input[2] = my.explored
      /\ my.explored \in Exploration /\ InputSound(config, answers, stored.ledger, my.plan.input)
      /\ my.plan.revised = 0 /\ CriticSays(answers, my.plan, "blocking") /\ my.critique # "passed" /\ head # 0
  BY <1>1, CurrentRead DEF IInv, FeatureTyped, ExploredHeld, PlanHeld
<1>3. PICK q \in BOOLEAN :
        /\ Ask(<<"replan", my.plan>>, q, BOOLEAN)
        /\ \/ Throw("FAILED") /\ UNCHANGED stored
           \/ Throw("BLOCKED") /\ UNCHANGED stored
           \/ /\ stored' = [stored EXCEPT !.revision = Plan(my.plan.input, q, my.plan.revised + 1),
                                          !.plan = Plan(my.plan.input, q, my.plan.revised + 1)]
              /\ my' = [my EXCEPT !.plan = Plan(my.plan.input, q, my.plan.revised + 1)] /\ Goto("critic")
  BY DEF ReplanEnds
<1>4. UNCHANGED <<config, versions, head, operator>> BY DEF ReplanEnds
<1>5. AnswerSound(answers, stored.ledger, <<"replan", my.plan>>, q) BY <1>2 DEF AnswerSound
<1>6. CASE Throw("FAILED") /\ UNCHANGED stored
  <2>1. Amended BY <1>3, <1>4, <1>5, <1>6, AskAmends
  <2> QED BY <1>1, <1>4, <1>6, <2>1, Throws
<1>7. CASE Throw("BLOCKED") /\ UNCHANGED stored
  <2>1. Amended BY <1>3, <1>4, <1>5, <1>7, AskAmends
  <2> QED BY <1>1, <1>2, <1>4, <1>7, <2>1, Throws
<1>8. CASE /\ stored' = [stored EXCEPT !.revision = Plan(my.plan.input, q, my.plan.revised + 1),
                                       !.plan = Plan(my.plan.input, q, my.plan.revised + 1)]
           /\ my' = [my EXCEPT !.plan = Plan(my.plan.input, q, my.plan.revised + 1)] /\ Goto("critic")
  <2>1. PICK plan \in PlanOf :
          plan = Plan(my.plan.input, q, my.plan.revised + 1) /\ plan.input = my.plan.input
    <3>1. PICK input \in Stages : input = my.plan.input BY <1>2 DEF PlanOf
    <3>2. Plan(input, q, 1) \in PlanOf /\ Plan(input, q, 1).input = input BY DEF Plan, PlanOf
    <3>3. my.plan.revised + 1 = 1 BY <1>2
    <3> QED BY <3>1, <3>2, <3>3
  <2>2. stored' \in Stored /\ stored'.ledger = stored.ledger /\ stored'.proposal = stored.proposal
        /\ stored'.review = stored.review /\ stored'.ended = stored.ended
        /\ stored'.implementation = stored.implementation
    BY <1>2, <1>8, <2>1 DEF Stored
  <2>3. AnswersSound' /\ Grown(answers, answers') BY <1>3, <1>5, <2>2, AskKeeps DEF IInv
  <2>4. Amended BY <1>4, <2>2, <2>3, RecordsKept DEF Amended, IInv
  <2>5. my' \in Held /\ my'.plan = plan /\ my'.explored = my.explored /\ my'.required = my.required
        /\ my'.critique = my.critique
    BY <1>2, <1>8, <2>1 DEF Held
  <2>6. pc' = "critic" /\ state' = state BY <1>8 DEF Goto
  <2>7. ReviewHeld' BY <2>6 DEF ReviewHeld
  <2>8. ExploredHeld' BY <1>1, <2>2, <2>5, <2>6 DEF ExploredHeld, Reviewing, PlanPlaces, Planning, IInv
  <2>9. PlanHeld'
    <3>1. InputSound(config', answers', stored'.ledger, plan.input) BY <1>2, <1>4, <2>1, <2>2, <2>3, InputsKept
    <3> QED BY <1>2, <2>1, <2>5, <2>6, <3>1 DEF PlanHeld, Planning
  <2>10. OutcomeSound' BY <1>1, <2>2, <2>6, NotEnded DEF OutcomeSound
  <2> QED BY <1>1, <1>4, <2>4, <2>5, <2>6, <2>7, <2>8, <2>9, <2>10, GoesOn DEF Places, PlanPlaces, Planning
<1> QED BY <1>3, <1>6, <1>7, <1>8

----------------------------------------------------------------------------
(* The outcome and the handoff.                                            *)

\* What passes was reviewed as the plan it names.
LEMMA PassedIsSound ==
  ASSUME IInv, pc = "outcome", Passed
  PROVE  PlanSound(config, answers, stored.ledger, my.plan)
<1>1. /\ my.plan.input[2] = my.explored /\ InputSound(config, answers, stored.ledger, my.plan.input)
      /\ (my.explored.review \/ stored.ledger # <<>> => my.required)
      /\ (my.critique = "passed" => CriticSays(answers, my.plan, "passed"))
  BY DEF IInv, PlanHeld, ExploredHeld, PlanPlaces, Planning
<1> QED BY <1>1 DEF Passed, PlanSound

LEMMA OutcomeStep == ASSUME IInv, Outcome PROVE IInv'
<1>1. AtWork /\ pc = "outcome" /\ pc # "open" BY DEF AtWork, Outcome
<1>2. /\ my \in Held /\ stored \in Stored /\ my.plan \in PlanOf /\ my.explored \in Exploration /\ Current \in Contract
      /\ my.plan.input[2] = my.explored
  BY <1>1, CurrentRead DEF IInv, FeatureTyped, ExploredHeld, PlanHeld, PlanPlaces, Planning
<1>3. UNCHANGED <<config, versions, head, answers, my, state, operator>> /\ pc' = "ended" BY DEF Outcome, Goto
<1>4. PICK out \in OutcomeOf :
        out = [input |-> Input(Current), plan |-> my.plan, passed |-> Passed] /\ out.plan = my.plan /\ (out.passed => Passed)
  <2>1. Input(Current) \in Stages BY <1>2 DEF Input, Stages
  <2>2. PICK input \in Stages : input = Input(Current) BY <2>1
  <2>3. PICK plan \in PlanOf : plan = my.plan BY <1>2
  <2>4. Passed \in BOOLEAN BY DEF Passed
  <2>5. [input |-> input, plan |-> plan, passed |-> Passed] \in OutcomeOf BY <2>4 DEF OutcomeOf
  <2> QED BY <2>2, <2>3, <2>5
<1>5. stored' = [stored EXCEPT !.outcome = out] BY <1>4 DEF Outcome
<1>6. stored' \in Stored /\ stored'.ledger = stored.ledger /\ stored'.proposal = stored.proposal
      /\ stored'.review = stored.review /\ stored'.ended = stored.ended
      /\ stored'.implementation = stored.implementation /\ stored'.outcome = out
  BY <1>2, <1>5 DEF Stored
<1>7. Grown(answers, answers') BY <1>3 DEF Grown
<1>8. AnswersSound' BY <1>3, <1>6 DEF AnswersSound, IInv
<1>9. Amended BY <1>3, <1>6, <1>7, <1>8, RecordsKept DEF Amended, IInv
<1>10. ReviewHeld' BY <1>3 DEF ReviewHeld
<1>11. ExploredHeld' BY <1>1, <1>3, <1>6 DEF ExploredHeld, Reviewing, PlanPlaces, Planning, IInv
<1>12. PlanHeld' BY <1>1, <1>3, <1>6 DEF PlanHeld, Planning, IInv
<1>13. OutcomeSound'
  <2>1. out.passed => PlanSound(config, answers, stored.ledger, out.plan) BY <1>1, <1>4, PassedIsSound
  <2> QED BY <1>3, <1>6, <2>1 DEF OutcomeSound
<1> QED BY <1>1, <1>2, <1>3, <1>9, <1>10, <1>11, <1>12, <1>13, GoesOn DEF Places, PlanPlaces, Planning

LEMMA SubgraphEndsStep == ASSUME IInv, SubgraphEnds PROVE IInv'
<1>1. AtWork /\ pc = "ended" BY DEF AtWork, SubgraphEnds
<1>2. stored \in Stored /\ stored.implementation = Null /\ head # 0 BY <1>1, NotEnded, CurrentRead DEF IInv, FeatureTyped
<1>3. UNCHANGED <<config, versions, head, answers, state, operator>> /\ pc' = "render" /\ my' = Nothing
  BY DEF SubgraphEnds, Goto
<1>4. stored' = [stored EXCEPT !.ended = TRUE] BY DEF SubgraphEnds
<1>5. stored' \in Stored /\ stored'.ledger = stored.ledger /\ stored'.proposal = stored.proposal
      /\ stored'.review = stored.review /\ stored'.ended = TRUE
      /\ stored'.implementation = stored.implementation /\ stored'.outcome = stored.outcome
  BY <1>2, <1>4 DEF Stored
<1>6. FeatureTyped' BY <1>3, <1>5, NothingIs DEF FeatureTyped, Places, IInv
<1>7. OnRecord' /\ EditSound' /\ Parents' /\ ApprovalsFollowDraft'
  BY <1>2, <1>3, <1>5 DEF OnRecord, EditSound, Parents, ApprovalsFollowDraft, operator, IInv
<1>8. AnswersSound' BY <1>3, <1>5 DEF AnswersSound, IInv
<1>9. RecordsSound' BY <1>3, <1>5 DEF RecordsSound, IInv
<1>10. OutcomeSound' BY <1>1, <1>3, <1>5 DEF OutcomeSound, IInv
<1>11. ReviewHeld' /\ ExploredHeld' BY <1>3 DEF ReviewHeld, ExploredHeld, Reviewing, PlanPlaces, Planning
<1>12. PlanHeld' BY <1>3, NothingIs, FeatureAssumption DEF PlanHeld, Planning
<1>13. Ending' /\ HandedOff' BY <1>2, <1>3, <1>5 DEF Ending, HandedOff
<1> QED BY <1>6, <1>7, <1>8, <1>9, <1>10, <1>11, <1>12, <1>13 DEF IInv

\* The process stops and nothing is written.
LEMMA Rests ==
  ASSUME IInv, stored.implementation = Null, UNCHANGED <<disk, operator>>, pc' = "off",
         state' \in {"RUNNING", "BLOCKED", "FAILED", "COMPLETED"}, state' = "BLOCKED" => head # 0,
         my' \in Held, my'.critique # "passed"
  PROVE  IInv'
<1> USE DEF IInv, disk, operator
<1>1. UNCHANGED <<config, versions, head, answers, stored, edit, approvals>> OBVIOUS
<1>2. FeatureTyped' BY <1>1 DEF FeatureTyped, Places
<1>3. OnRecord' /\ EditSound' /\ Parents' /\ ApprovalsFollowDraft'
  BY <1>1 DEF OnRecord, EditSound, Parents, ApprovalsFollowDraft
<1>4. AnswersSound' BY <1>1 DEF AnswersSound
<1>5. RecordsSound' BY <1>1 DEF RecordsSound
<1>6. OutcomeSound' /\ Ending' /\ HandedOff' BY <1>1 DEF OutcomeSound, Ending, HandedOff
<1>7. ReviewHeld' /\ ExploredHeld' BY DEF ReviewHeld, ExploredHeld, Reviewing, PlanPlaces, Planning
<1>8. PlanHeld' BY DEF PlanHeld, Planning
<1> QED BY <1>2, <1>3, <1>4, <1>5, <1>6, <1>7, <1>8

LEMMA RenderStep == ASSUME IInv, Render \/ (AwaitApproval /\ pc = "render") PROVE IInv'
<1>1. pc = "render" /\ UNCHANGED <<config, versions, head, answers, operator>>
  BY DEF Render, AwaitApproval, disk, operator
<1>2. /\ stored \in Stored /\ my \in Held /\ stored.ended /\ stored.implementation = Null /\ head # 0
      /\ my.critique # "passed"
  BY <1>1 DEF IInv, FeatureTyped, Ending, HandedOff, OnRecord, PlanHeld
<1>3. stored.outcome \in OutcomeOf
      /\ (stored.outcome.passed => PlanSound(config, answers, stored.ledger, stored.outcome.plan))
  BY <1>2 DEF IInv, OutcomeSound
<1>4. CASE UNCHANGED stored
  <2>1. my' \in Held /\ my'.critique # "passed" /\ pc' = "off"
        /\ state' \in {"RUNNING", "BLOCKED", "FAILED", "COMPLETED"}
    BY <1>2, NothingIs, FeatureAssumption DEF Render, AwaitApproval, Throw, Stop
  <2>2. UNCHANGED disk BY <1>1, <1>4 DEF disk
  <2> QED BY <1>1, <1>2, <2>1, <2>2, Rests
<1>5. CASE ~UNCHANGED stored
  <2>1. /\ Resolved /\ stored.outcome.passed
        /\ stored' = [stored EXCEPT !.implementation = [contract |-> Current, plan |-> stored.outcome.plan]]
        /\ state' = "COMPLETED" /\ pc' = "off" /\ my' = my
    BY <1>3, <1>5 DEF Render, AwaitApproval, disk, Stop, OutcomeOf
  <2>2. Current \in Contract BY <1>2, CurrentIs DEF IInv
  <2>3. PICK handoff \in Handoff :
          /\ handoff = [contract |-> Current, plan |-> stored.outcome.plan]
          /\ handoff.contract = Current /\ handoff.plan = stored.outcome.plan
    <3>1. PICK c \in Contract : c = Current BY <2>2
    <3>2. PICK plan \in PlanOf : plan = stored.outcome.plan BY <1>3 DEF OutcomeOf
    <3>3. [contract |-> c, plan |-> plan] \in Handoff BY DEF Handoff
    <3> QED BY <3>1, <3>2, <3>3
  <2>4. stored' \in Stored /\ stored'.ledger = stored.ledger /\ stored'.proposal = stored.proposal
        /\ stored'.review = stored.review /\ stored'.ended = stored.ended
        /\ stored'.implementation = handoff /\ stored'.outcome = stored.outcome
    BY <1>2, <2>1, <2>3 DEF Stored
  <2>5. FeatureTyped' BY <1>1, <1>2, <2>1, <2>4 DEF FeatureTyped, Places, IInv
  <2>6. OnRecord' /\ EditSound' /\ Parents' /\ ApprovalsFollowDraft'
    BY <1>1, <1>2, <2>1, <2>4 DEF OnRecord, EditSound, Parents, ApprovalsFollowDraft, operator, IInv
  <2>7. AnswersSound' BY <1>1, <2>4 DEF AnswersSound, IInv
  <2>8. RecordsSound' BY <1>1, <2>4 DEF RecordsSound, IInv
  <2>9. OutcomeSound' BY <1>1, <1>3, <2>4 DEF OutcomeSound
  <2>10. ReviewHeld' /\ ExploredHeld' BY <2>1 DEF ReviewHeld, ExploredHeld, Reviewing, PlanPlaces, Planning
  <2>11. PlanHeld' BY <1>2, <2>1 DEF PlanHeld, Planning
  <2>12. Ending' BY <2>1 DEF Ending
  <2>13. HandedOff'
    <3>1. Pending(config.mode, Current) = {} BY <2>1 DEF Resolved
    <3>2. PlanSound(config, answers, stored.ledger, handoff.plan) BY <1>3, <2>1, <2>3
    <3> QED BY <1>1, <2>1, <2>3, <2>4, <3>1, <3>2 DEF HandedOff
  <2> QED BY <2>5, <2>6, <2>7, <2>8, <2>9, <2>10, <2>11, <2>12, <2>13 DEF IInv
<1> QED BY <1>4, <1>5

----------------------------------------------------------------------------
(* The operator and the process.                                           *)

LEMMA StopsStep == ASSUME IInv, Fail \/ Crash PROVE IInv'
<1>1. stored.implementation = Null BY DEF IInv, HandedOff, Fail, Crash, Calling
<1>2. UNCHANGED <<disk, operator>> /\ pc' = "off" /\ my' = Nothing /\ state' \in {state, "FAILED"}
  BY DEF Fail, Crash, Throw, Stop, operator
<1>3. my' \in Held /\ my'.critique # "passed" BY <1>2, NothingIs, FeatureAssumption
<1>4. state' \in {"RUNNING", "BLOCKED", "FAILED", "COMPLETED"} BY <1>2 DEF IInv, FeatureTyped
<1>5. state' = "BLOCKED" => head # 0 BY <1>2 DEF IInv, OnRecord
<1> QED BY <1>1, <1>2, <1>3, <1>4, <1>5, Rests

LEMMA ResumeStep == ASSUME IInv, Resume PROVE IInv'
<1> USE DEF IInv, disk, operator
<1>1. /\ UNCHANGED <<config, versions, head, answers, stored, edit, approvals>>
      /\ state' = "RUNNING" /\ my' = Nothing /\ pc' = (IF stored.ended THEN "render" ELSE "open")
  BY DEF Resume
<1>2. stored.implementation = Null BY DEF Resume, HandedOff
<1>3. stored.ended \in BOOLEAN BY DEF FeatureTyped, Stored
<1>4. FeatureTyped' BY <1>1, NothingIs DEF FeatureTyped, Places
<1>5. OnRecord' /\ EditSound' /\ Parents' /\ ApprovalsFollowDraft'
  BY <1>1 DEF OnRecord, EditSound, Parents, ApprovalsFollowDraft
<1>6. AnswersSound' BY <1>1 DEF AnswersSound
<1>7. RecordsSound' BY <1>1 DEF RecordsSound
<1>8. OutcomeSound' /\ Ending' /\ HandedOff' BY <1>1, <1>2 DEF OutcomeSound, Ending, HandedOff
<1>9. ReviewHeld' /\ ExploredHeld' BY <1>1 DEF ReviewHeld, ExploredHeld, Reviewing, PlanPlaces, Planning
<1>10. PlanHeld' BY <1>1, NothingIs, FeatureAssumption DEF PlanHeld, Planning
<1> QED BY <1>4, <1>5, <1>6, <1>7, <1>8, <1>9, <1>10

\* An edit changes the versions; nothing else that is kept or held reads them.
LEMMA Edits ==
  ASSUME IInv, UNCHANGED <<config, answers, stored, state, pc, my>>,
         versions' \in Seq(Versioned), head' \in 0..Len(versions'), head # 0 => head' # 0,
         edit' # Null => head' # 0, EditSound', Parents', ApprovalsFollowDraft'
  PROVE  IInv'
<1> USE DEF IInv
<1>1. UNCHANGED <<config, answers, stored, state, pc, my>> OBVIOUS
<1>2. FeatureTyped' BY <1>1 DEF FeatureTyped, Versioned
<1>3. OnRecord' BY <1>1 DEF OnRecord
<1>4. AnswersSound' BY <1>1 DEF AnswersSound
<1>5. RecordsSound' BY <1>1 DEF RecordsSound
<1>6. OutcomeSound' BY <1>1 DEF OutcomeSound
<1>7. Ending' /\ HandedOff' BY <1>1 DEF Ending, HandedOff
<1>8. ReviewHeld' BY <1>1 DEF ReviewHeld
<1>9. ExploredHeld' BY <1>1 DEF ExploredHeld
<1>10. PlanHeld'
  <2>1. Input(my.contract)' = Input(my.contract) BY <1>1 DEF Input
  <2> QED BY <1>1, <2>1 DEF PlanHeld
<1> QED BY <1>2, <1>3, <1>4, <1>5, <1>6, <1>7, <1>8, <1>9, <1>10

LEMMA EditBeginsStep == ASSUME IInv, EditBegins PROVE IInv'
<1>1. UNCHANGED <<config, versions, head, answers, stored, state, pc, my, approvals>> /\ edit' \in Changes
  BY DEF EditBegins, disk
<1>2. head # 0 /\ head \in 0..Len(versions) /\ versions \in Seq(Versioned) /\ stored \in Stored
  BY DEF IInv, OnRecord, EditBegins, FeatureTyped, Versioned
<1>3. Current \in Contract /\ High[Current.draft] \subseteq Ambiguity
  <2>1. Current \in Contract BY <1>2, CurrentIs DEF IInv
  <2> QED BY <2>1, DraftAssumption DEF Contract
<1>4. EditSound'
  <2>1. CASE edit' \in [kind: {"approve"}, base: {head}, as: SUBSET High[Current.draft] \ {{}}]
    <3>1. edit'.kind = "approve" /\ edit'.base = head /\ edit'.as \subseteq Ambiguity BY <1>3, <2>1
    <3> QED BY <1>2, <3>1 DEF EditSound
  <2>2. CASE edit' \in [kind: {"revise"}, base: {head}, draft: Draft \ {Current.draft}]
    <3>1. edit'.kind = "revise" /\ edit'.base = head /\ edit'.draft \in Draft BY <2>2
    <3> QED BY <1>2, <3>1 DEF EditSound
  <2>3. CASE stored.proposal # Null /\ edit' \in [kind: {"apply"}, base: {stored.proposal.attempt.base}]
    <3>1. edit'.kind = "apply" /\ edit'.base = stored.proposal.attempt.base BY <2>3
    <3>2. stored.proposal \in Proposal BY <1>2, <2>3 DEF Stored
    <3>3. edit'.base \in Nat BY <3>1, <3>2 DEF Proposal, Attempt
    <3> QED BY <1>1, <3>1, <3>2, <3>3 DEF EditSound
  <2> QED BY <1>1, <2>1, <2>2, <2>3 DEF Changes
<1>5. Parents' /\ ApprovalsFollowDraft' BY <1>1 DEF Parents, ApprovalsFollowDraft, IInv
<1>6. versions' \in Seq(Versioned) /\ head' \in 0..Len(versions') /\ head' # 0 BY <1>1, <1>2
<1> QED BY <1>1, <1>4, <1>5, <1>6, Edits

\* Approvals are of the version they name, and only of what is open in its draft.
LEMMA Approves ==
  ASSUME IInv, head # 0, NEW as \in SUBSET Ambiguity, Commit(Approved(Current, as), head),
         approvals' = approvals \union ({head} \X as), config' = config
  PROVE  /\ versions' \in Seq(Versioned) /\ head' \in 1..Len(versions')
         /\ Parents' /\ ApprovalsFollowDraft'
<1> DEFINE c == Approved(Current, as)
<1>1. Current \in Contract /\ Current = versions[head].contract /\ head \in 0..Len(versions)
  BY CurrentIs DEF IInv
<1>2. c = [Current EXCEPT !.accepted = (Current.accepted \union as) \intersect High[Current.draft]] BY DEF Approved
<1>3. c \in Contract /\ c.draft = Current.draft /\ c.accepted \subseteq Current.accepted \union as
  BY <1>1, <1>2 DEF Contract
<1>4. \A a \in as : <<head, a>> \in approvals' OBVIOUS
<1>5. config.mode = "interactive" => \A a \in c.accepted :
        /\ head # 0 /\ versions[head].contract.draft = c.draft
        /\ a \in versions[head].contract.accepted \/ <<head, a>> \in approvals'
  BY <1>1, <1>3, <1>4
<1>6. FeatureTyped /\ Parents /\ ApprovalsFollowDraft BY DEF IInv
<1>7. approvals \subseteq approvals' /\ Commit(c, head) OBVIOUS
<1> HIDE DEF c
<1> QED BY <1>1, <1>3, <1>5, <1>6, <1>7, Commits

LEMMA EditEndsStep == ASSUME IInv, EditEnds PROVE IInv'
<1>1. UNCHANGED <<config, answers, stored, state, pc, my>> /\ edit # Null /\ edit' = Null BY DEF EditEnds
<1>2. head # 0 /\ versions \in Seq(Versioned) /\ head \in 0..Len(versions) /\ Len(versions) \in Nat
  BY <1>1 DEF IInv, OnRecord, FeatureTyped, Versioned
<1>3. FeatureTyped /\ Parents /\ ApprovalsFollowDraft BY DEF IInv
<1>4. EditSound' BY <1>1 DEF EditSound
<1>5. versions' \in Seq(Versioned) /\ head' \in 1..Len(versions') /\ Parents' /\ ApprovalsFollowDraft'
  <2>1. CASE edit.base # head
    <3>1. UNCHANGED <<versions, head, approvals, config>> BY <1>1, <2>1 DEF EditEnds
    <3> QED BY <1>2, <1>3, <3>1 DEF Parents, ApprovalsFollowDraft
  <2>2. CASE edit.base = head /\ edit.kind = "approve"
    <3>1. Commit(Approved(Current, edit.as), head) /\ approvals' = approvals \union ({head} \X edit.as)
      BY <2>2 DEF EditEnds
    <3>2. edit.as \in SUBSET Ambiguity BY <1>1, <2>2 DEF IInv, EditSound
    <3> QED BY <1>1, <1>2, <3>1, <3>2, Approves
  <2>3. CASE edit.base = head /\ edit.kind \in {"revise", "apply"}
    <3>1. PICK d \in Draft : Commit(Revised(config.mode, Current, d), head) /\ approvals' = approvals
      <4>1. CASE edit.kind = "revise" BY <1>1, <2>3, <4>1 DEF EditEnds, IInv, EditSound
      <4>2. CASE edit.kind = "apply"
        <5>1. stored.proposal.draft \in Draft BY <1>1, <4>2 DEF IInv, EditSound, Proposal
        <5> QED BY <2>3, <4>2, <5>1 DEF EditEnds
      <4> QED BY <2>3, <4>1, <4>2
    <3> QED BY <1>1, <1>2, <1>3, <3>1, Revisions
  <2> QED BY <1>1, <2>1, <2>2, <2>3 DEF IInv, EditSound
<1>6. Len(versions') \in Nat /\ head' \in 0..Len(versions') /\ head' # 0 BY <1>5
<1> QED BY <1>1, <1>4, <1>5, <1>6, Edits

----------------------------------------------------------------------------
(* The invariant, and what it means for the plan.                          *)

LEMMA InitIInv == Init => IInv
<1> SUFFICES ASSUME Init PROVE IInv OBVIOUS
<1> USE DEF Init
<1>1. stored.ledger = <<>> /\ Len(stored.ledger) = 0 OBVIOUS
<1>2. stored \in Stored BY DEF Stored
<1>3. versions \in Seq([contract: Contract, parent: Nat]) /\ head \in 0..Len(versions) OBVIOUS
<1>4. FeatureTyped BY <1>2, <1>3, NothingIs DEF FeatureTyped, Places
<1>5. OnRecord /\ EditSound /\ Parents /\ ApprovalsFollowDraft
  BY DEF OnRecord, EditSound, Parents, ApprovalsFollowDraft
<1>6. AnswersSound BY DEF AnswersSound
<1>7. RecordsSound BY <1>1, FeatureAssumption DEF RecordsSound
<1>8. OutcomeSound /\ Ending /\ HandedOff BY DEF OutcomeSound, Ending, HandedOff
<1>9. ReviewHeld /\ ExploredHeld BY DEF ReviewHeld, ExploredHeld, Reviewing, PlanPlaces, Planning
<1>10. PlanHeld BY NothingIs, FeatureAssumption DEF PlanHeld, Planning
<1> QED BY <1>4, <1>5, <1>6, <1>7, <1>8, <1>9, <1>10 DEF IInv

LEMMA StepIInv == IInv /\ [Next]_vars => IInv'
<1> SUFFICES ASSUME IInv, [Next]_vars PROVE IInv' OBVIOUS
<1>1. CASE Step
  <2>1. CASE Open BY <2>1, OpenStep
  <2>2. CASE ExploreBegins BY <2>2, ExploreBeginsStep
  <2>3. CASE AwaitApproval BY <2>3, AwaitApprovalStep, RenderStep
  <2>4. CASE ExploreEnds BY <2>4, ExploreEndsStep
  <2>5. CASE ReviewBegins BY <2>5, ReviewBeginsStep
  <2>6. CASE ReviewAbsent \/ ReviewStale BY <2>6, ReviewAbsentStep
  <2>7. CASE \E r \in Reviewer : ReviewerAnswers(r) BY <2>7, ReviewerAnswersStep
  <2>8. CASE RoundEnds BY <2>8, RoundEndsStep
  <2>9. CASE ReviseBegins BY <2>9, ReviseBeginsStep
  <2>10. CASE ReviseEnds BY <2>10, ReviseEndsStep
  <2>11. CASE Apply BY <2>11, ApplyStep
  <2>12. CASE PlanBegins BY <2>12, PlanBeginsStep
  <2>13. CASE PlanEnds BY <2>13, PlanEndsStep
  <2>14. CASE CriticBegins \/ ReplanBegins BY <2>14, CriticBeginsStep
  <2>15. CASE CriticEnds BY <2>15, CriticEndsStep
  <2>16. CASE ReplanEnds BY <2>16, ReplanEndsStep
  <2>17. CASE Outcome BY <2>17, OutcomeStep
  <2>18. CASE SubgraphEnds BY <2>18, SubgraphEndsStep
  <2>19. CASE Render BY <2>19, RenderStep
  <2> QED BY <1>1, <2>1, <2>2, <2>3, <2>4, <2>5, <2>6, <2>7, <2>8, <2>9, <2>10, <2>11, <2>12, <2>13, <2>14,
             <2>15, <2>16, <2>17, <2>18, <2>19 DEF Step
<1>2. CASE Fail \/ Crash BY <1>2, StopsStep
<1>3. CASE Resume BY <1>3, ResumeStep
<1>4. CASE EditBegins BY <1>4, EditBeginsStep
<1>5. CASE EditEnds BY <1>5, EditEndsStep
<1>6. CASE UNCHANGED vars
  <2> USE <1>6 DEF vars
  <2>1. FeatureTyped' /\ OnRecord' /\ EditSound' /\ Parents' /\ ApprovalsFollowDraft'
    BY DEF IInv, FeatureTyped, OnRecord, EditSound, Parents, ApprovalsFollowDraft
  <2>2. AnswersSound' BY DEF IInv, AnswersSound
  <2>3. RecordsSound' BY DEF IInv, RecordsSound
  <2>4. OutcomeSound' /\ Ending' /\ HandedOff' BY DEF IInv, OutcomeSound, Ending, HandedOff
  <2>5. ReviewHeld' /\ ExploredHeld' BY DEF IInv, ReviewHeld, ExploredHeld
  <2>6. PlanHeld'
    <3>1. Input(my.contract)' = Input(my.contract) BY DEF Input
    <3> QED BY <3>1 DEF IInv, PlanHeld
  <2> QED BY <2>1, <2>2, <2>3, <2>4, <2>5, <2>6 DEF IInv
<1> QED BY <1>1, <1>2, <1>3, <1>4, <1>5, <1>6 DEF Next

\* Every revision a model was asked for is on the ledger, which is bounded.
LEMMA RevisionsAreBounded == IInv => RevisionsBounded
<1> SUFFICES ASSUME IInv PROVE RevisionsBounded OBVIOUS
<1> DEFINE Asks == {k \in DOMAIN answers : k[1] = "revision"}
           F == [i \in 1..Len(stored.ledger) |-> <<"revision", stored.ledger[i]>>]
           T == {F[i] : i \in 1..Len(stored.ledger)}
<1>1. /\ stored \in Stored /\ stored.ledger \in Seq(Attempt) /\ Len(stored.ledger) \in Nat
      /\ Len(stored.ledger) <= MaxRevisions /\ MaxRevisions \in Nat
  BY FeatureAssumption DEF IInv, FeatureTyped, Stored, RecordsSound
<1>2. Asks \subseteq T
  <2> SUFFICES ASSUME NEW k \in Asks PROVE k \in T OBVIOUS
  <2>1. k = <<"revision", k[2]>> /\ k[2] \in Range(stored.ledger) BY DEF IInv, AnswersSound, AnswerSound
  <2>2. PICK i \in 1..Len(stored.ledger) : stored.ledger[i] = k[2] BY <1>1, <2>1 DEF Range
  <2>3. F[i] = k BY <2>1, <2>2
  <2> QED BY <2>2, <2>3
<1>3. IsFiniteSet(1..Len(stored.ledger)) /\ Cardinality(1..Len(stored.ledger)) = Len(stored.ledger)
  <2>1. 1 \in Int /\ Len(stored.ledger) \in Int BY <1>1
  <2>2. /\ IsFiniteSet(1..Len(stored.ledger))
        /\ Cardinality(1..Len(stored.ledger)) =
             IF 1 > Len(stored.ledger) THEN 0 ELSE Len(stored.ledger) - 1 + 1
    BY <2>1, FS_Interval, Zenon
  <2> QED BY <1>1, <2>2
<1>4. IsFiniteSet(T) /\ Cardinality(T) <= Len(stored.ledger)
  <2>1. F \in Surjection(1..Len(stored.ledger), T) BY DEF Surjection
  <2> HIDE DEF F, T
  <2> QED BY <1>3, <2>1, FS_Surjection
<1> HIDE DEF T
<1>5. IsFiniteSet(Asks) /\ Cardinality(Asks) <= Cardinality(T) BY <1>2, <1>4, FS_Subset
<1>6. Cardinality(Asks) \in Nat /\ Cardinality(T) \in Nat BY <1>4, <1>5, FS_CardinalityType
<1>7. Cardinality(Asks) <= MaxRevisions
  <2> HIDE DEF Asks
  <2> QED BY <1>1, <1>4, <1>5, <1>6
<1>8. stored.plan # Null => stored.plan.revised <= 1 BY <1>1 DEF Stored, PlanOf
<1>9. \A k \in DOMAIN answers : k[1] = "replan" => k[2].revised = 0 /\ answers[<<"critic", k[2]>>] = "blocking"
  BY DEF IInv, AnswersSound, AnswerSound, CriticSays
<1> QED BY <1>7, <1>8, <1>9 DEF RevisionsBounded

LEMMA IInvMeans == IInv => PlanIsReviewed
<1> SUFFICES ASSUME IInv PROVE PlanIsReviewed OBVIOUS
<1>1. HandoffIsReviewed
  <2> SUFFICES ASSUME stored.implementation # Null
               PROVE  LET plan == stored.implementation.plan
                          e == plan.input[2]
                      IN  /\ Pending(config.mode, plan.input[1]) = {}
                          /\ Pending(config.mode, stored.implementation.contract) = {}
                          /\ ~plan.questions /\ ~e.limited
                          /\ e.review \/ e.conflict \/ stored.ledger # <<>> =>
                               /\ ~e.conflict
                               /\ <<"critic", plan>> \in DOMAIN answers /\ answers[<<"critic", plan>>] = "passed"
                               /\ \E n \in 1..config.rounds, context \in {Null} \union Range(stored.ledger) :
                                    \A r \in Reviewer :
                                      LET k == <<"review", plan.input, context, n, r>> IN
                                      k \in DOMAIN answers /\ answers[k] = "accept"
    BY DEF HandoffIsReviewed
  <2> DEFINE plan == stored.implementation.plan
             e == plan.input[2]
  <2>1. PlanSound(config, answers, stored.ledger, plan) /\ Pending(config.mode, stored.implementation.contract) = {}
    BY DEF IInv, HandedOff
  <2>2. /\ Pending(config.mode, plan.input[1]) = {} /\ ~e.conflict /\ ~plan.questions /\ ~e.limited
        /\ e.review \/ stored.ledger # <<>> =>
             AllAccept(config, answers, stored.ledger, plan.input) /\ CriticSays(answers, plan, "passed")
    BY <2>1 DEF PlanSound, InputSound
  <2>3. CriticSays(answers, plan, "passed") =>
          <<"critic", plan>> \in DOMAIN answers /\ answers[<<"critic", plan>>] = "passed"
    BY DEF CriticSays
  <2>4. AllAccept(config, answers, stored.ledger, plan.input) =>
          \E n \in 1..config.rounds, context \in {Null} \union Range(stored.ledger) :
            \A r \in Reviewer :
              LET k == <<"review", plan.input, context, n, r>> IN
              k \in DOMAIN answers /\ answers[k] = "accept"
    BY Zenon DEF AllAccept
  <2> QED BY <2>1, <2>2, <2>3, <2>4
<1> QED BY <1>1, RevisionsAreBounded DEF IInv, PlanIsReviewed

\* feature-pipeline.ts, model-feature-planning.ts, requirements-checkpoint.ts: the
\* plan a Feature run hands off was made for requirements approved in the very
\* draft it plans, accepted by every reviewer of its last round when they needed a
\* review, and passed by its critic; revisions of requirements and plan are
\* bounded.  For any drafts, reviewers, answers and operator edits, and however
\* often calls fail or the run stops and is resumed.
THEOREM PlansAreReviewed == Spec => []PlanIsReviewed
BY InitIInv, StepIInv, IInvMeans, PTL DEF Spec
=============================================================================
