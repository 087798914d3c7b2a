---------------------------- MODULE PlanRevision ----------------------------
(***************************************************************************)
(* How a plan is revised after its critique. A plan that fits one call is  *)
(* revised in one. A larger one is revised in rounds: each call of a round *)
(* rewrites the tasks its critique items name, reads the plan as it was    *)
(* before the round, and answers with a patch; the patches are applied in  *)
(* order, what they add is renumbered, and what refers to a retired task   *)
(* moves to the tasks that carry its work on. An item no call can revise   *)
(* stays open with a question that blocks.                                 *)
(*                                                                         *)
(* Tasks and items are numbers; a task's tag says which call wrote it.     *)
(* Prose, routing and validation assertions are left out, and a reply that *)
(* breaks a rule its call checks is refused there.                         *)
(***************************************************************************)
EXTENDS Naturals, Sequences, FiniteSets, SequencesExt, TLC

CONSTANTS
  Setups,       \* plans with their critique items
  Budget,       \* what a call may hold
  MaxItems,     \* options.maximumItems
  MaxTasks,     \* options.maximumTaskCharacters, counted in tasks
  MaxTrouble,   \* bound: calls that stop at the ceiling or fail
  MaxStops,     \* bound: stops of the process
  Null

VARIABLES
  setup,
  record,                                       \* durable: how each call ended
  pc, round, pending, current, base,            \* the round, the items left, the plan now and before the round
  lineage, retiredTo, outcome, applied,         \* what became of the tasks and of the items, and the patches applied
  sent, ended,                                  \* the round's calls and how they ended
  why, trouble, stops

vars == <<setup, record, pc, round, pending, current, base, lineage, retiredTo, outcome, applied, sent, ended, why, trouble, stops>>

SameFile(first, second) == first.files \intersect second.files # {}
W == INSTANCE TaskOrder WITH Shared <- SameFile

Original == setup.plan
Items == DOMAIN setup.items
Highest(ids) == CHOOSE n \in ids : \A m \in ids : m <= n
Whole == [round |-> 0, index |-> 0, items |-> <<>>]

Issues(p) == UNION {p.tasks[t].issues : t \in DOMAIN p.tasks}
ValidPlan(p) == Issues(p) = Issues(Original) /\ W!ValidTaskGraph(p)

OutputLimited(stage) == stage \in DOMAIN record /\ record[stage].end = "ceiling"
Fits(stage, cost) == cost <= Budget /\ ~OutputLimited(stage)

----------------------------------------------------------------------------
(* The calls of a round.                                                    *)

\* The tasks an item names now: their descendants, a task retired for good itself, and the tasks of its issues.
Targets(item) ==
  UNION {IF lineage[t] = {} THEN {t} ELSE lineage[t] : t \in setup.items[item].tasks}
  \union {t \in DOMAIN current.tasks : current.tasks[t].issues \intersect setup.items[item].issues # {}}

StageOf(batches, index) == [round |-> round, index |-> index, items |-> batches[index].items]
CostOf(batch) == Cardinality(batch.tasks) + Len(batch.items)

\* An item joins the one call whose tasks it shares, within that call's limits; otherwise it waits.
Placed(plan, item) ==
  LET batches == plan.batches
      wanted == Targets(item)
      touching == {b \in DOMAIN batches :
                     IF wanted = {} THEN batches[b].tasks = {} ELSE wanted \intersect batches[b].tasks # {}}
      joined == CHOOSE b \in touching : \A c \in touching : b <= c
      grown == [items |-> Append(batches[joined].items, item), tasks |-> batches[joined].tasks \union wanted]
      more == [batches EXCEPT ![joined] = grown]
  IN  IF touching = {} THEN [plan EXCEPT !.batches = Append(@, [items |-> <<item>>, tasks |-> wanted])]
      ELSE IF /\ Cardinality(touching) = 1 /\ Len(grown.items) <= MaxItems
              /\ Cardinality(grown.tasks \intersect DOMAIN current.tasks) <= MaxTasks
              /\ Fits(StageOf(more, joined), CostOf(grown))
           THEN [plan EXCEPT !.batches = more]
      ELSE [plan EXCEPT !.waiting = Append(@, item)]

Placing ==
  LET upTo[i \in 0..Len(pending)] ==
        IF i = 0 THEN [batches |-> <<>>, waiting |-> <<>>] ELSE Placed(upTo[i - 1], pending[i])
  IN  upTo[Len(pending)]

\* A question of its own for an item that is not revised.
LeftOpen(p, items) == [p EXCEPT !.questions = @ \union items]

----------------------------------------------------------------------------
(* A patch and its application.                                             *)

\* Mutant of NamesOf: a new task keeps the number its call chose.
NamesOfSame(p, patch, call) ==
  LET new == DOMAIN patch.tasks \ (call.known \union call.tasks) IN [id \in new |-> id]

\* New tasks take the next free numbers of the plan the patch is applied to.
NamesOf(p, patch, call) ==
  LET new == DOMAIN patch.tasks \ (call.known \union call.tasks)
      highest == Highest(DOMAIN p.tasks \union DOMAIN Original.tasks)
  IN  [id \in new |-> highest + Cardinality({other \in new : other <= id})]

\* What a reference to a task becomes: its successors in this patch, or in an earlier one.
RECURSIVE Carried(_, _, _, _)
Carried(id, replaced, final, seen) ==
  IF id \in DOMAIN replaced THEN replaced[id]
  ELSE IF id \in final \union seen \/ id \notin DOMAIN retiredTo THEN {id}
  ELSE UNION {Carried(other, replaced, final, seen \union {id}) : other \in retiredTo[id]}

\* applyRevisionPatch. Null: a rule is broken.
Apply(p, patch, call) ==
  LET names == NamesOf(p, patch, call)
      N(ids) == {IF id \in DOMAIN names THEN names[id] ELSE id : id \in ids}
      Old(id) == CHOOSE local \in DOMAIN patch.tasks : id \in N({local})
      written == [id \in N(DOMAIN patch.tasks) |-> [patch.tasks[Old(id)] EXCEPT !.dependsOn = N(@)]]
      kept == [id \in DOMAIN p.tasks \ patch.retired |-> IF id \in DOMAIN written THEN written[id] ELSE p.tasks[id]]
      all == kept @@ written
      successors == [id \in DOMAIN patch.lineage |-> N(patch.lineage[id])]
      replaced == [id \in patch.retired |-> successors[id]]
      Moved(ids, self) == UNION {Carried(id, replaced, DOMAIN all, {}) : id \in ids} \ {self}
      final == [id \in DOMAIN all |-> [all[id] EXCEPT !.dependsOn = Moved(@, id)]]
      next == W!WithSharedWritesOrdered([p EXCEPT !.tasks = final, !.graph = {e \in W!Declared(final) : W!Known(final, e)}])
      added == DOMAIN final \ DOMAIN p.tasks
  IN  IF /\ DOMAIN patch.tasks \intersect call.known \subseteq call.tasks
         /\ patch.retired \subseteq DOMAIN p.tasks \intersect call.tasks /\ patch.retired \intersect DOMAIN patch.tasks = {}
         /\ DOMAIN patch.lineage = call.tasks
         /\ \A id \in call.tasks : successors[id] \subseteq DOMAIN final /\ (id \in DOMAIN final => id \in successors[id])
         /\ added \subseteq UNION {successors[id] : id \in call.tasks} \/ call.tasks = {}
         /\ ValidPlan(next)
      THEN [plan |-> next, lineage |-> successors] ELSE Null

\* Patches a call may answer with: a task rewritten, split, replaced, dropped or brought back, or made to wait.
Patches(call) ==
  LET known == DOMAIN base.tasks
      new == Highest(known) + 1
      Tag(id) == <<call.stage.round, call.stage.index, id>>
      Body(id) == IF id \in known THEN base.tasks[id] ELSE Original.tasks[id]
      Same == [id \in call.tasks |-> {id} \intersect known]
      Of(tasks, out, next) == [tasks |-> tasks, retired |-> out, lineage |-> next]
      Rewritten(id, waits) == [Body(id) EXCEPT !.dependsOn = @ \union waits, !.tag = Tag(id)]
  IN  {Of(<<>>, {}, Same)}
      \union {Of(id :> Rewritten(id, {other}), {}, Same) : id \in call.tasks \intersect known, other \in known}
      \union {Of(id :> Rewritten(id, {}) @@ new :> [Rewritten(id, {id}) EXCEPT !.tag = Tag(new)], {}, [Same EXCEPT ![id] = {id, new}]) :
                id \in call.tasks \intersect known}
      \union {Of(new :> [Rewritten(id, {}) EXCEPT !.tag = Tag(new)], {id}, [Same EXCEPT ![id] = {new}]) : id \in call.tasks \intersect known}
      \union {Of(<<>>, {id}, [Same EXCEPT ![id] = {}]) : id \in call.tasks \intersect known}
      \union {Of(id :> [Body(id) EXCEPT !.tag = Tag(id)], {}, [Same EXCEPT ![id] = {id}]) : id \in call.tasks \ known}

----------------------------------------------------------------------------
Fresh == [t \in DOMAIN Original.tasks |-> {t}]

Init ==
  /\ setup \in Setups
  /\ record = <<>> /\ why = Null /\ trouble = 0 /\ stops = 0
  /\ pc = "compose" /\ round = 1 /\ pending = [i \in Items |-> i] /\ current = setup.plan /\ base = setup.plan
  /\ lineage = [t \in DOMAIN setup.plan.tasks |-> {t}] /\ retiredTo = <<>> /\ outcome = <<>> /\ applied = {}
  /\ sent = <<>> /\ ended = <<>>

\* Everything but the records is computed again.
Again ==
  /\ pc' = "compose" /\ round' = 1 /\ pending' = [i \in Items |-> i] /\ current' = Original /\ base' = Original
  /\ lineage' = Fresh /\ retiredTo' = <<>> /\ outcome' = <<>> /\ applied' = {} /\ sent' = <<>> /\ ended' = <<>>

End(state, reason) ==
  /\ pc' = state /\ why' = reason /\ sent' = <<>> /\ ended' = <<>>
  /\ UNCHANGED <<round, pending, base, lineage, retiredTo, applied>>

\* The whole plan in one call, or the first round.
Compose ==
  /\ pc = "compose"
  /\ IF Fits(Whole, Cardinality(DOMAIN Original.tasks) + Cardinality(Items))
     THEN pc' = "whole" /\ sent' = <<[stage |-> Whole, tasks |-> DOMAIN Original.tasks, known |-> DOMAIN Original.tasks]>>
     ELSE pc' = "round" /\ sent' = sent
  /\ ended' = <<>>
  /\ UNCHANGED <<setup, record, round, pending, current, base, lineage, retiredTo, outcome, applied, why, trouble, stops>>

\* The round's calls; one item whose call stopped at the ceiling stays open before any is sent.
Round ==
  /\ pc = "round" /\ pending # <<>>
  /\ \E placing \in {Placing} :
       LET batches == placing.batches
           calls == [b \in DOMAIN batches |-> [stage |-> StageOf(batches, b), tasks |-> batches[b].tasks, known |-> DOMAIN current.tasks]]
           unsent == {b \in DOMAIN batches : ~Fits(calls[b].stage, CostOf(batches[b]))}
           open == {batches[b].items[1] : b \in unsent}
       IN  IF \E b \in unsent : Len(batches[b].items) > 1 THEN End("failed", "batch") /\ UNCHANGED <<current, outcome>>
           ELSE IF \E b \in unsent : ~OutputLimited(calls[b].stage) THEN End("failed", "limit") /\ UNCHANGED <<current, outcome>>
           ELSE /\ pc' = "calls" /\ sent' = SelectSeq(calls, LAMBDA call : call.stage.index \notin unsent) /\ ended' = <<>>
                /\ base' = current /\ current' = LeftOpen(current, open) /\ outcome' = [i \in open |-> "open"] @@ outcome
                /\ pending' = placing.waiting
                /\ UNCHANGED <<round, lineage, retiredTo, applied, why>>
  /\ UNCHANGED <<setup, record, trouble, stops>>

\* A call answers with a patch its own checks take, stops at the ceiling, or fails.
Answer(i) ==
  LET stage == sent[i].stage IN
  /\ pc \in {"whole", "calls"} /\ i \notin DOMAIN ended
  /\ \/ /\ stage \in DOMAIN record
        /\ ended' = (i :> record[stage].end) @@ ended /\ UNCHANGED <<record, trouble>>
     \/ /\ stage \notin DOMAIN record
        /\ \E patch \in IF pc = "whole" THEN {<<>>} ELSE {p \in Patches(sent[i]) : Apply(base, p, sent[i]) # Null} :
             record' = (stage :> [end |-> "reply", patch |-> patch]) @@ record
        /\ ended' = (i :> "reply") @@ ended /\ UNCHANGED trouble
     \/ /\ stage \notin DOMAIN record /\ trouble < MaxTrouble
        /\ record' = (stage :> [end |-> "ceiling", patch |-> <<>>]) @@ record
        /\ ended' = (i :> "ceiling") @@ ended /\ trouble' = trouble + 1
     \/ /\ stage \notin DOMAIN record /\ trouble < MaxTrouble
        /\ ended' = (i :> "failed") @@ ended /\ trouble' = trouble + 1 /\ UNCHANGED record
  /\ UNCHANGED <<setup, pc, round, pending, current, base, lineage, retiredTo, outcome, applied, sent, why, stops>>

\* A call at the ceiling starts the revision again over its records; a call that failed ends it.
Broken ==
  /\ \E i \in DOMAIN ended :
       /\ ended[i] # "reply" /\ \A j \in 1..(i - 1) : j \in DOMAIN ended /\ ended[j] = "reply"
       /\ IF ended[i] = "ceiling" THEN Again /\ UNCHANGED why ELSE End("failed", "call") /\ UNCHANGED <<current, outcome>>
  /\ UNCHANGED <<setup, record, trouble, stops>>

\* One plan, and a resolution for every item.
Revised ==
  /\ pc = "whole" /\ DOMAIN ended = {1} /\ ended[1] = "reply"
  /\ End("done", Null) /\ outcome' = [i \in Items |-> "applied"]
  /\ UNCHANGED <<setup, record, current, trouble, stops>>

Replaced(was, successors) ==
  [t \in DOMAIN was |->
     IF was[t] = {} THEN IF t \in DOMAIN successors THEN successors[t] ELSE {}
     ELSE UNION {IF id \in DOMAIN successors THEN successors[id] ELSE {id} : id \in was[t]}]

\* The next patch of the round, in order; one that does not join the others leaves its items open.
Join ==
  /\ pc = "calls" /\ sent # <<>> /\ DOMAIN ended = 1..Len(sent) /\ \A i \in DOMAIN ended : ended[i] = "reply"
  /\ \E call \in {Head(sent)} : \E patch \in {record[call.stage].patch} : \E joined \in {Apply(current, patch, call)} :
       IF joined = Null
       THEN /\ current' = LeftOpen(current, ToSet(call.stage.items))
            /\ outcome' = [i \in ToSet(call.stage.items) |-> "open"] @@ outcome
            /\ UNCHANGED <<lineage, retiredTo, applied>>
       ELSE /\ current' = joined.plan
            /\ outcome' = [i \in ToSet(call.stage.items) |-> "applied"] @@ outcome
            /\ lineage' = Replaced(lineage, joined.lineage)
            /\ retiredTo' = [id \in patch.retired |-> joined.lineage[id]] @@ retiredTo
            /\ applied' = applied \union {call}
  /\ sent' = Tail(sent) /\ ended' = SubSeq(ended, 2, Len(ended))
  /\ UNCHANGED <<setup, record, pc, round, pending, base, why, trouble, stops>>

\* The items that wait are the next round's; the plan of the last one is validated as a whole.
EndRound ==
  /\ pc = "calls" /\ sent = <<>>
  /\ IF pending # <<>>
     THEN /\ pc' = "round" /\ round' = round + 1
          /\ UNCHANGED <<pending, current, base, lineage, retiredTo, outcome, applied, sent, ended, why>>
     ELSE End(IF ValidPlan(current) THEN "done" ELSE "failed", IF ValidPlan(current) THEN Null ELSE "invalid") /\ UNCHANGED <<current, outcome>>
  /\ UNCHANGED <<setup, record, trouble, stops>>

\* The process ends, or the failed run is resumed.
Stop == pc # "done" /\ stops < MaxStops /\ stops' = stops + 1 /\ Again /\ why' = Null /\ UNCHANGED <<setup, record, trouble>>

Next == Compose \/ Round \/ (\E i \in DOMAIN sent : Answer(i)) \/ Broken \/ Revised \/ Join \/ EndRound \/ Stop
Spec == Init /\ [][Next]_vars

----------------------------------------------------------------------------
\* A revision settles every item once, by a patch in the plan or by a question that blocks. What one patch of
\* a round writes is never lost to another: every task it added is in the plan or was retired since, every task
\* follows from an original one, and a task no call was given keeps the text it had.
RevisionSound ==
  /\ why \notin {"invalid", "batch"}
  /\ pc = "done" =>
       /\ ValidPlan(current) /\ DOMAIN outcome = Items
       /\ \A i \in Items : outcome[i] = "open" <=> i \in current.questions
       /\ \A call \in applied : \A local \in DOMAIN record[call.stage].patch.tasks :
            \/ \E t \in DOMAIN current.tasks : current.tasks[t].tag = <<call.stage.round, call.stage.index, local>>
            \/ \E other \in applied : other.stage.round > call.stage.round
       /\ \A t \in DOMAIN Original.tasks :
            lineage[t] \subseteq DOMAIN current.tasks /\ (t \in DOMAIN current.tasks => t \in lineage[t])
       /\ DOMAIN current.tasks = UNION {lineage[t] : t \in DOMAIN Original.tasks}
       /\ \A t \in DOMAIN current.tasks : current.tasks[t].tag = <<0, 0, t>> \/ \E call \in applied : current.tasks[t].tag[1] = call.stage.round
=============================================================================
