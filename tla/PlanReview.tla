----------------------------- MODULE PlanReview -----------------------------
(***************************************************************************)
(* What happens to a plan between its first draft and the handoff: an      *)
(* interactive run waits for the operator's answers to its blocking        *)
(* questions and applies them, a critic reads the plan, its blocking items *)
(* are checked, one revision answers them and asks again about those it    *)
(* could not revise, and the gate reads the result. The run may stop or    *)
(* fail between any two steps; a resumed stage computes again over what    *)
(* was recorded, and a call asked again must be asked the same. A critique *)
(* with an item that cannot be used, or by a critic that is not            *)
(* independent of the planner, is degraded: it changes nothing, and the    *)
(* gate says so.                                                           *)
(*                                                                         *)
(* A plan is the calls that made it and its blocking questions, so two     *)
(* plans are one version exactly when they are equal. The drafts and       *)
(* revisions themselves are PlanDraft and PlanRevision.                    *)
(***************************************************************************)
EXTENDS Naturals, Sequences, FiniteSets, SequencesExt, TLC

CONSTANTS
  Setups,       \* interactive, critic (off, skipped, independent, dependent), checker, recheck
  Drafts,       \* questions a draft may ask
  Replies,      \* items a critic may report in one call: id, blocking, what it cites
  MaxTrouble,   \* bound: calls that fail or stop at the ceiling
  MaxStops,     \* bound: stops of the process and resumes of a failed run
  Null

VARIABLES
  setup,
  store, once, record, done,          \* durable: artifacts, answers by version, calls with their input, completed nodes
  state, why,                         \* of the run
  pc, phase, current, got, feedback,  \* of the node that runs
  trouble, stops

memory == <<pc, phase, current, got, feedback>>
vars == <<setup, store, once, record, done, state, why, memory, trouble, stops>>

Published(kind, value) == [store EXCEPT ![kind] = value]
Blocking(items) == {item \in items : item.blocking}
About(item) == <<"item", item.id>>     \* the question a revision asks about an item it could not revise

----------------------------------------------------------------------------
(* Calls.                                                                   *)

\* How a call may end: as recorded, refused because it is asked something else, with a new reply, or not at all.
Outcomes(id, input, replies) ==
  IF id \notin DOMAIN record
  THEN {[end |-> "reply", value |-> value] : value \in replies}
       \union {[end |-> "lost", value |-> Null] : n \in 1..(MaxTrouble - trouble)}
  ELSE IF record[id].input # input THEN {[end |-> "changed", value |-> Null]}
  ELSE {[end |-> "reply", value |-> record[id].value]}

Recorded(id, input, outcome) ==
  /\ record' = IF outcome.end = "reply" THEN (id :> [input |-> input, value |-> outcome.value]) @@ record ELSE record
  /\ trouble' = IF outcome.end = "lost" THEN trouble + 1 ELSE trouble

Idle == pc' = "idle" /\ phase' = Null /\ current' = Null /\ got' = {} /\ feedback' = {}
Fail(reason) == state' = "failed" /\ why' = reason /\ Idle /\ UNCHANGED store

Init ==
  /\ setup \in Setups
  /\ store = [kind \in {"plan-ir", "before", "checkpoint", "result", "feedback", "initial", "composition", "revision", "implementation"} |-> Null]
  /\ once = {} /\ record = <<>> /\ done = {} /\ state = "running" /\ why = Null
  /\ pc = "idle" /\ phase = Null /\ current = Null /\ got = {} /\ feedback = {} /\ trouble = 0 /\ stops = 0

----------------------------------------------------------------------------
(* The planner, and the questions of a plan.                                *)

Plan ==
  /\ state = "running" /\ pc = "idle" /\ "planner" \notin done
  /\ \E outcome \in Outcomes(<<"plan">>, "issues", Drafts) :
       /\ Recorded(<<"plan">>, "issues", outcome)
       /\ IF outcome.end = "reply"
          THEN /\ current' = [by |-> << <<"plan">> >>, questions |-> outcome.value] /\ pc' = "questions" /\ phase' = "planner"
               /\ UNCHANGED <<store, state, why, got, feedback>>
          ELSE Fail(outcome.end)
  /\ UNCHANGED <<setup, once, done, stops>>

\* The questions are answered, are asked of the operator, or wait.
Questions ==
  /\ pc = "questions"
  /\ IF ~setup.interactive \/ current.questions = {} THEN pc' = "answered" /\ UNCHANGED store
     ELSE /\ store' = Published("checkpoint", current)
          /\ pc' = IF current \in once THEN "apply" ELSE "wait"
  /\ UNCHANGED <<setup, once, record, done, state, why, phase, current, got, feedback, trouble, stops>>

Wait ==
  /\ pc = "wait"
  /\ store' = Published("plan-ir", current) /\ state' = "blocked" /\ Idle
  /\ UNCHANGED <<setup, once, record, done, why, trouble, stops>>

\* The answered questions are removed from what the call returns; it may ask new ones.
Apply ==
  /\ pc = "apply"
  /\ LET id == <<"answers", current>> IN
     \E outcome \in Outcomes(id, current, {{}, current.questions} \union (IF Len(current.by) = 1 THEN {{<<"new">>}} ELSE {})) :
       /\ Recorded(id, current, outcome)
       /\ IF outcome.end = "reply"
          THEN /\ current' = [by |-> Append(current.by, id), questions |-> outcome.value \ current.questions]
               /\ pc' = "questions" /\ UNCHANGED <<store, state, why, phase, got, feedback>>
          ELSE Fail(outcome.end)
  /\ UNCHANGED <<setup, once, done, stops>>

Answered ==
  /\ pc = "answered"
  /\ IF phase = "planner" THEN store' = Published("plan-ir", current) /\ pc' = "finish"
     ELSE store' = store /\ pc' = IF setup.recheck THEN "recheck" ELSE "settle"
  /\ UNCHANGED <<setup, once, record, done, state, why, phase, current, got, feedback, trouble, stops>>

\* The operator answers every question of one version of a blocked run's plan, once.
Respond(version) ==
  /\ state = "blocked" /\ store["checkpoint"] = version /\ version \notin once
  /\ once' = once \union {version}
  /\ UNCHANGED <<setup, store, record, done, state, why, memory, trouble, stops>>

----------------------------------------------------------------------------
(* The critic.                                                              *)

\* Mutant of Begin: a resumed critique reads the plan as it is.
BeginAgain ==
  /\ state = "running" /\ pc = "idle" /\ "planner" \in done /\ setup.critic # "off"
  /\ current' = store["plan-ir"] /\ store' = Published("before", store["plan-ir"])
  /\ phase' = "initial" /\ pc' = "critic"
  /\ UNCHANGED <<setup, once, record, done, state, why, got, feedback, trouble, stops>>

\* A critique starts from the plan it first read, which its own revision has replaced when it is resumed.
Begin ==
  /\ state = "running" /\ pc = "idle" /\ "planner" \in done /\ setup.critic # "off"
  /\ current' = IF store["before"] = Null THEN store["plan-ir"] ELSE store["before"]
  /\ store' = IF store["before"] = Null THEN Published("before", store["plan-ir"]) ELSE store
  /\ phase' = "initial" /\ pc' = "critic"
  /\ UNCHANGED <<setup, once, record, done, state, why, got, feedback, trouble, stops>>

PartId(of, part) == <<"critic", of, part>>
Read == <<current, IF phase = "initial" THEN Null ELSE store["initial"], IF phase = "initial" THEN Null ELSE store["revision"]>>
Selected == setup.critic \in {"independent", "dependent"}

\* The plan is read whole, or in parts once that call stopped at the ceiling.
OutputLimited(of) == PartId(of, 0) \in DOMAIN record /\ record[PartId(of, 0)].value = {Null}
Parts(of) == IF OutputLimited(of) THEN {1, 2} ELSE {0}

Review(part) ==
  /\ pc = "critic" /\ Selected /\ part \in Parts(phase) \ got
  /\ LET id == PartId(phase, part) IN
     \E outcome \in Outcomes(id, Read, Replies \union (IF part = 0 /\ trouble < MaxTrouble THEN {{Null}} ELSE {})) :
       /\ Recorded(id, Read, outcome)
       /\ IF outcome.end = "reply"
          THEN /\ got' = IF outcome.value = {Null} THEN {} ELSE got \union {part}
               /\ UNCHANGED <<store, state, why, pc, phase, current, feedback>>
          ELSE Fail(outcome.end)
  /\ UNCHANGED <<setup, once, done, stops>>

\* Items are named after their part when there are several.
Reported(of) ==
  UNION {{[item EXCEPT !.id = IF Parts(of) = {0} THEN @ ELSE <<part, @>>] : item \in record[PartId(of, part)].value} : part \in Parts(of)}

\* Rejected are items with one name, items that cite nothing, and items that cite a task or issue there is not.
Rejected(items) == {item \in items : item.cites # "known" \/ \E other \in items : other.id = item.id /\ other # item}
Accepted(items) == items \ Rejected(items)
Degraded(of) == setup.critic # "independent" \/ Rejected(Reported(of)) # {}

\* Mutant of Reviewed: a critique is degraded by its critic only, not by the items it loses.
ReviewedByCritic ==
  /\ pc = "critic" /\ (setup.critic = "skipped" \/ got = Parts(phase))
  /\ feedback' = IF Selected THEN Accepted(Reported(phase)) ELSE {}
  /\ store' = Published("result", [degraded |-> setup.critic # "independent"])
  /\ pc' = IF phase = "initial" /\ setup.critic = "independent" THEN "check" ELSE "feedback"
  /\ got' = {}
  /\ UNCHANGED <<setup, once, record, done, state, why, phase, current, trouble, stops>>

\* The critique is published with what it could use; only a first one that is not degraded is checked.
Reviewed ==
  /\ pc = "critic" /\ (setup.critic = "skipped" \/ got = Parts(phase))
  /\ feedback' = IF Selected THEN Accepted(Reported(phase)) ELSE {}
  /\ store' = Published("result", [degraded |-> Degraded(phase)])
  /\ pc' = IF phase = "initial" /\ ~Degraded(phase) THEN "check" ELSE "feedback"
  /\ got' = {}
  /\ UNCHANGED <<setup, once, record, done, state, why, phase, current, trouble, stops>>

\* Each blocking item is a claim a second model checks; a check that holds, or has no answer, leaves it blocking.
Check(item) ==
  /\ pc = "check" /\ setup.checker /\ item \in Blocking(feedback) \ got
  /\ LET id == <<"check", item>> IN
     \E outcome \in Outcomes(id, <<item, current>>, {"DOES_NOT_HOLD", "unanswered"}) :
       /\ Recorded(id, <<item, current>>, outcome)
       /\ IF outcome.end = "reply" THEN got' = got \union {item} /\ UNCHANGED <<store, state, why, pc, phase, current, feedback>>
          ELSE Fail(outcome.end)
  /\ UNCHANGED <<setup, once, done, stops>>

Checked ==
  /\ pc = "check" /\ (setup.checker => got = Blocking(feedback))
  /\ feedback' = {[item EXCEPT !.blocking = @ /\ (setup.checker => record[<<"check", item>>].value # "DOES_NOT_HOLD")] : item \in feedback}
  /\ pc' = "feedback" /\ got' = {}
  /\ UNCHANGED <<setup, store, once, record, done, state, why, phase, current, trouble, stops>>

\* What blocks forces one revision, unless the critique is degraded: then it stands, and the node ends.
Feedback ==
  /\ pc = "feedback"
  /\ LET revise == phase = "initial" /\ ~store["result"].degraded /\ Blocking(feedback) # {}
         kept == Published("feedback", [items |-> feedback, open |-> Null]) IN
     /\ store' = IF revise THEN [kept EXCEPT !["initial"] = feedback] ELSE kept
     /\ pc' = IF revise THEN "revise" ELSE IF phase = "initial" THEN "finish" ELSE "publish"
  /\ UNCHANGED <<setup, once, record, done, state, why, phase, current, got, feedback, trouble, stops>>

\* One revision, whole or in parts; only in parts may items stay open, each with its question.
Revise ==
  /\ pc = "revise"
  /\ LET input == <<current, Blocking(feedback)>> IN
     \E outcome \in Outcomes(<<"revise">>, input, {[parts |-> FALSE, open |-> {}]} \union {[parts |-> TRUE, open |-> some] : some \in SUBSET Blocking(feedback)}) :
       /\ Recorded(<<"revise">>, input, outcome)
       /\ IF outcome.end = "reply"
          THEN /\ store' = IF outcome.value.parts THEN Published("composition", outcome.value.open) ELSE store
               /\ current' = [by |-> Append(current.by, <<"revise">>), questions |-> current.questions \union {About(item) : item \in outcome.value.open}]
               /\ pc' = "revised" /\ UNCHANGED <<state, why, phase, got, feedback>>
          ELSE Fail(outcome.end)
  /\ UNCHANGED <<setup, once, done, stops>>

Revised ==
  /\ pc = "revised"
  /\ store' = Published("revision", [plan |-> current, resolved |-> Blocking(feedback)]) /\ pc' = "questions" /\ phase' = "revision"
  /\ UNCHANGED <<setup, once, record, done, state, why, current, got, feedback, trouble, stops>>

Recheck ==
  /\ pc = "recheck" /\ pc' = "critic" /\ feedback' = {}
  /\ UNCHANGED <<setup, store, once, record, done, state, why, phase, current, got, trouble, stops>>

\* The critique stands, with the items that stay open: those whose question nobody answered.
Settle ==
  /\ pc = "settle"
  /\ LET left == IF store["composition"] = Null THEN {} ELSE store["composition"]
         settled == store["revision"].plan.questions \ current.questions
     IN  store' = Published("feedback", [items |-> feedback, open |-> {item \in left : About(item) \notin settled}])
  /\ pc' = "publish"
  /\ UNCHANGED <<setup, once, record, done, state, why, phase, current, got, feedback, trouble, stops>>

Publish ==
  /\ pc = "publish" /\ store' = Published("plan-ir", current) /\ pc' = "finish"
  /\ UNCHANGED <<setup, once, record, done, state, why, phase, current, got, feedback, trouble, stops>>

\* The node completes; the last one hands the plan off first.
Finish ==
  /\ pc = "finish"
  /\ LET last == setup.critic = "off" \/ "planner" \in done IN
     /\ store' = IF last THEN Published("implementation", store["plan-ir"]) ELSE store
     /\ state' = IF last THEN "completed" ELSE state
  /\ done' = done \union {IF "planner" \in done THEN "critic" ELSE "planner"} /\ Idle
  /\ UNCHANGED <<setup, once, record, why, trouble, stops>>

----------------------------------------------------------------------------
\* The process stops, or a blocked or failed run is resumed; a resume after an answer is not counted.
Stop ==
  LET answered == state = "blocked" /\ store["checkpoint"] \in once IN
  /\ state # "completed" /\ (answered \/ stops < MaxStops)
  /\ stops' = IF answered THEN stops ELSE stops + 1
  /\ state' = "running" /\ why' = Null /\ Idle
  /\ UNCHANGED <<setup, store, once, record, done, trouble>>

Next ==
  \/ Plan \/ Questions \/ Wait \/ Apply \/ Answered \/ (\E version \in {store["checkpoint"]} : Respond(version))
  \/ Begin \/ (\E part \in Parts(phase) : Review(part)) \/ Reviewed \/ (\E item \in feedback : Check(item)) \/ Checked \/ Feedback
  \/ Revise \/ Revised \/ Recheck \/ Settle \/ Publish \/ Finish \/ Stop

Spec == Init /\ [][Next]_vars

----------------------------------------------------------------------------
\* gate: a completed run with no question, critique item or review left open
Gate ==
  /\ state = "completed" /\ store["plan-ir"].questions = {}
  /\ store["feedback"] # Null =>
       Blocking(store["feedback"].items) = {} \/ (store["feedback"].open # Null /\ store["feedback"].open = {})
  /\ store["result"] # Null => ~store["result"].degraded
  /\ store["checkpoint"] # Null => store["checkpoint"] \in once

Revises(plan) == <<"revise">> \in ToSet(plan.by)
FoundNotToHold(item) == <<"check", item>> \in DOMAIN record /\ record[<<"check", item>>].value = "DOES_NOT_HOLD"
Resolved(item) ==
  \/ item \notin record[<<"revise">>].value.open
  \/ \E version \in once : About(item) \in version.questions

\* A resumed stage is asked what it was asked before. What is handed off is the published plan, revised at most once;
\* every accepted answer was applied to it, and an interactive run leaves it no blocking question. A first critique
\* that is degraded changes nothing: no check and no revision follows it. A gate that passes leaves no blocking
\* item that any critic reported, in any part and whether or not it could be used, unless a check found it not to
\* hold, or it was revised or answered by the operator; of the revised plan it leaves none at all.
PlanReviewed ==
  /\ why # "changed"
  /\ state = "completed" =>
       LET final == store["implementation"] IN
       /\ final = store["plan-ir"] /\ Cardinality({i \in DOMAIN final.by : final.by[i] = <<"revise">>}) <= 1
       /\ \A version \in once : <<"answers", version>> \in ToSet(final.by)
       /\ setup.interactive => final.questions = {}
       /\ Selected =>
            /\ Degraded("initial") => ~Revises(final) /\ \A id \in DOMAIN record : id[1] # "check"
            /\ Gate =>
                 /\ \A item \in Blocking(Reported("initial")) : FoundNotToHold(item) \/ (Revises(final) /\ Resolved(item))
                 /\ setup.recheck /\ Revises(final) => Blocking(Reported("revision")) = {}
=============================================================================
