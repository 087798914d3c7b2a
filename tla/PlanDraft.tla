----------------------------- MODULE PlanDraft -----------------------------
(***************************************************************************)
(* How an Audit's plan is drafted. Issues that fit one call are planned in *)
(* one; many are planned in sections side by side, or read in batches,     *)
(* outlined (in one call, or in sections joined by links) and expanded     *)
(* task by task. Every call has a durable record: a call that stops at the *)
(* model's output ceiling starts the whole composition again, with every   *)
(* answered call taken from its record and smaller parts in its place.     *)
(*                                                                         *)
(* An issue is its number; its size is what it adds to a call. A reply is  *)
(* the shape of its tasks and the question it asks; one that breaks a rule *)
(* its call checks is refused there and left out. Prose, routing and the   *)
(* validation assertions are left out.                                     *)
(***************************************************************************)
EXTENDS Naturals, Sequences, FiniteSets, SequencesExt, TLC

CONSTANTS
  Setups,         \* the issues and options of the runs looked at
  Budget,         \* what a call is composed to
  Required,       \* what a call that has to be sent may hold
  Concurrency,    \* maximumParallelCalls
  WholeOutline,   \* WHOLE_OUTLINE_TASKS
  MaxReplans,     \* replanOnOutputLimit's own bound
  MaxTrouble,     \* bound: calls that stop at the ceiling or fail
  MaxStops,       \* bound: stops of the process
  Null

VARIABLES
  setup,
  record,                      \* durable: how each call ended
  pc, parts, next, flying, ended,  \* the phase, its calls, the next to start, those in flight, how they ended
  retired,                     \* calls that made it compose again
  plan, why, trouble, stops

phase == <<pc, parts, next, flying, ended>>
vars == <<setup, record, phase, retired, plan, why, trouble, stops>>

SameFile(first, second) == first.files \intersect second.files # {}
W == INSTANCE TaskOrder WITH Shared <- SameFile

Stage(kind, ids) == [kind |-> kind, ids |-> ids]
Ids == [i \in 1..Len(setup.sizes) |-> i]
UpDiv(m, n) == (m + n - 1) \div n

SumOf(ids) ==
  LET upTo[i \in 0..Len(ids)] == IF i = 0 THEN 0 ELSE upTo[i - 1] + setup.sizes[ids[i]] IN upTo[Len(ids)]

\* Briefs and headers are short; every other call carries its issues whole.
Cost(stage) ==
  CASE stage.kind \in {"plan", "section", "brief", "expandScoped"} -> SumOf(stage.ids)
    [] stage.kind = "expandWhole" -> SumOf(stage.ids) + 1
    [] OTHER -> Len(stage.ids)

OutputLimited(stage) == stage \in DOMAIN record /\ record[stage].end = "ceiling"
Fits(stage) == Cost(stage) <= Budget /\ ~OutputLimited(stage)
Admits(stage) == Cost(stage) <= Required /\ ~OutputLimited(stage)
Sendable(stage) == Fits(stage) \/ Admits(stage)

----------------------------------------------------------------------------
(* What is asked for in which calls. <<Null>>: an issue fits no call.        *)

\* In order, as many as fit and as one answer holds.
Packed(kind, most) ==
  LET from[s \in Nat \X Seq(Seq(Nat)) \X Seq(Nat)] ==
        LET id == s[1]
            batches == s[2]
            current == s[3]
            full == IF current = <<>> THEN batches ELSE Append(batches, current)
        IN  IF id > Len(Ids) THEN full
            ELSE IF Len(current) < most /\ Fits(Stage(kind, Append(current, id)))
                 THEN from[<<id + 1, batches, Append(current, id)>>]
            ELSE IF Sendable(Stage(kind, <<id>>)) THEN from[<<id + 1, full, <<id>> >>]
            ELSE <<Null>>
  IN  from[<<1, <<>>, <<>> >>]

\* Issues by the file most issues cite, so issues on the same code are planned together.
Citations(file) == Cardinality({i \in DOMAIN Ids : file \in setup.files[i]})
Leading(id) ==
  SetToSortSeq(setup.files[id], LAMBDA f, g : Citations(f) > Citations(g) \/ (Citations(f) = Citations(g) /\ f < g))
KeyBefore(left, right) ==
  \E i \in 1..Len(left) :
    /\ \A j \in 1..(i - 1) : j <= Len(right) /\ left[j] = right[j]
    /\ i > Len(right) \/ left[i] < right[i]
Ordered ==
  SetToSortSeq(DOMAIN Ids, LAMBDA i, j : KeyBefore(Leading(i), Leading(j)) \/ (~KeyBefore(Leading(j), Leading(i)) /\ i < j))

\* A section that does not fit, or that stopped at the ceiling, is planned as two halves.
RECURSIVE Place(_)
Place(ids) ==
  IF Fits(Stage("section", ids)) THEN <<ids>>
  ELSE IF Len(ids) > 1
       THEN LET middle == UpDiv(Len(ids), 2)
            IN  Place(SubSeq(ids, 1, middle)) \o Place(SubSeq(ids, middle + 1, Len(ids)))
  ELSE IF Sendable(Stage("section", ids)) THEN <<ids>> ELSE <<Null>>

Sections ==
  LET count == UpDiv(Len(Ids), setup.perSection)
      size == UpDiv(Len(Ids), count)
      Cut(k) == SubSeq(Ordered, (k - 1) * size + 1, IF k * size < Len(Ids) THEN k * size ELSE Len(Ids))
      upTo[k \in 0..UpDiv(Len(Ids), size)] == IF k = 0 THEN <<>> ELSE upTo[k - 1] \o Place(Cut(k))
  IN  upTo[UpDiv(Len(Ids), size)]

Stages(kind, groups) == [i \in DOMAIN groups |-> Stage(kind, groups[i])]
Reply(stage) == record[stage].value

----------------------------------------------------------------------------
(* A reply's tasks, and the plan they are joined into.                      *)
Task(issues, waits) ==
  [issues |-> issues, files |-> UNION {setup.files[i] : i \in issues},
   dependsOn |-> waits, blocks |-> {}, conflictsWith |-> {}, resolves |-> Null, form |-> "whole", of |-> Null]

GraphOf(tasks) == UNION {{<<d, t>> : d \in tasks[t].dependsOn} : t \in DOMAIN tasks}
Ordering(p) == W!WithSharedWritesOrdered([p EXCEPT !.graph = GraphOf(p.tasks)])

\* Tasks of one part under its own ids, ordered where they write the same files; the first may settle its question.
Drawn(ids, reply) ==
  LET tasks == IF reply.shape = "all" THEN <<Task(ToSet(ids), {})>>
               ELSE [i \in DOMAIN ids |-> Task({ids[i]}, IF reply.shape = "chain" /\ i > 1 THEN {i - 1} ELSE {})]
      settled == [t \in DOMAIN tasks |-> [tasks[t] EXCEPT !.resolves = IF t = 1 /\ reply.asks = "settled" THEN "q" ELSE Null]]
  IN  Ordering([mode |-> "audit", tasks |-> settled, graph |-> {}]).tasks

\* Mutant of Renumbered: a part keeps its own numbers in its dependencies.
RenumberedIds(tasks, key, taken) ==
  [t \in DOMAIN tasks |-> [tasks[t] EXCEPT !.resolves = IF @ = Null THEN Null ELSE <<key, @>>, !.of = <<key, t>>]]

\* The next numbers of the plan, and the part's own prefix on its question.
Renumbered(tasks, key, taken) ==
  [t \in DOMAIN tasks |-> [tasks[t] EXCEPT !.dependsOn = {taken + d : d \in @},
                                           !.resolves = IF @ = Null THEN Null ELSE <<key, @>>, !.of = <<key, t>>]]

Question(key, reply) == [id |-> <<key, "q">>, blocking |-> reply.asks = "blocking"]

\* checkedGroups: questions of different sections, each in one group at most; here one group.
Groupings(questions) ==
  {group \in SUBSET {q.id : q \in ToSet(questions)} : group = {} \/ Cardinality(group) > 1}

\* A group becomes its first question, as strict as the strictest; no task settles it if it blocks.
WithQuestionsMerged(p, group) ==
  LET kept == CHOOSE q \in ToSet(p.questions) : q.id \in group /\ \A r \in ToSet(p.questions) : r.id \in group => q.id[1] <= r.id[1]
      strict == \E q \in ToSet(p.questions) : q.id \in group /\ q.blocking
      asked == SelectSeq(p.questions, LAMBDA q : q.id \notin group \ {kept.id})
      Of(settled) == IF settled = Null \/ settled \notin group THEN settled ELSE IF strict THEN Null ELSE kept.id
  IN  IF group = {} THEN p
      ELSE [p EXCEPT !.questions = [i \in DOMAIN asked |-> IF asked[i].id = kept.id THEN [asked[i] EXCEPT !.blocking = strict] ELSE asked[i]],
                     !.tasks = [t \in DOMAIN @ |-> [@[t] EXCEPT !.resolves = Of(@)]]]

\* validateTraceability: every issue has a task, no task settles a blocking question, and the order is sound.
Diagnosed(p) ==
  \/ \E id \in DOMAIN Ids : \A t \in DOMAIN p.tasks : id \notin p.tasks[t].issues
  \/ Cardinality({q.id : q \in ToSet(p.questions)}) # Len(p.questions)
  \/ \E t \in DOMAIN p.tasks, q \in ToSet(p.questions) : p.tasks[t].resolves # Null /\ q.blocking /\ p.tasks[t].resolves = q.id
  \/ ~W!ValidTaskGraph(p)

----------------------------------------------------------------------------
(* The outline, and the expansion of its tasks.                             *)
Briefs == Packed("brief", setup.maxBrief)
Hierarchical == Len(Ids) > setup.maxOutline \/ ~Fits(Stage("outline", Ids))
PerOutline == UpDiv(Len(Ids), UpDiv(Len(Ids), setup.maxOutline))
OutlineGroups == IF Hierarchical THEN Packed("outlineSection", PerOutline) ELSE <<Ids>>
OutlineKind == IF Hierarchical THEN "outlineSection" ELSE "outline"
Header == Stage("header", [k \in DOMAIN OutlineGroups |-> k])

\* One links call over all sections, or one for every two of them.
LinkGroups ==
  LET all == [k \in DOMAIN OutlineGroups |-> k]
      pairs == SetToSortSeq({p \in (DOMAIN all) \X (DOMAIN all) : p[1] < p[2]}, LAMBDA p, q : p[1] < q[1] \/ (p[1] = q[1] /\ p[2] < q[2]))
  IN  IF Len(all) < 2 THEN <<>> ELSE IF Fits(Stage("links", all)) THEN <<all>> ELSE pairs

\* The parts the plan is drawn from, in their order.
Kind == CASE pc = "whole" -> "plan" [] pc \in {"sections", "questions"} -> "section" [] OTHER -> OutlineKind
Groups == CASE pc = "whole" -> <<Ids>> [] pc \in {"sections", "questions"} -> Sections [] OTHER -> OutlineGroups

Linked == UNION {record[stage].value : stage \in {s \in DOMAIN record : s.kind = "links"} \intersect ToSet(Stages("links", LinkGroups))}

\* The parts together, with the links between them; tasks that still write the same files unordered are ordered.
Drawing ==
  LET kind == Kind
      groups == Groups
      upTo[k \in 0..Len(groups)] ==
        IF k = 0 THEN [tasks |-> <<>>, questions |-> <<>>]
        ELSE LET reply == Reply(Stage(kind, groups[k]))
                 before == upTo[k - 1]
             IN  [tasks |-> before.tasks \o Renumbered(Drawn(groups[k], reply), k, Len(before.tasks)),
                  questions |-> before.questions \o IF reply.asks = "none" THEN <<>> ELSE <<Question(k, reply)>>]
      all == upTo[Len(groups)]
  IN  Ordering([mode |-> "audit", tasks |-> IF kind = "outlineSection" THEN W!WithEdges(all.tasks, Linked) ELSE all.tasks,
                graph |-> {}, questions |-> all.questions, kind |-> kind, groups |-> groups])

\* A link between the first tasks of two of the sections it reads, either way, or none.
Links(tasks, group) ==
  LET First(k) == CHOOSE t \in DOMAIN tasks : tasks[t].of = <<k, 1>>
  IN  {{}, {<<First(group[1]), First(group[2])>>}, {<<First(group[2]), First(group[1])>>}}

\* An expansion has two forms; the one that stopped at the ceiling is not asked for again.
Expansion(task, form) == Stage(IF form = "scoped" THEN "expandScoped" ELSE "expandWhole", SetToSeq(task.issues))
FormsOf(outline) == IF Hierarchical \/ Len(outline.tasks) > WholeOutline THEN <<"scoped", "whole">> ELSE <<"whole", "scoped">>
FormOf(outline, task) ==
  LET forms == FormsOf(outline)
      first == Expansion(task, forms[1])
      second == Expansion(task, forms[2])
  IN  IF Fits(first) THEN forms[1]
      ELSE IF (forms[1] = "scoped" \/ OutputLimited(first)) /\ Fits(second) THEN forms[2]
      ELSE IF Admits(first) THEN forms[1]
      ELSE IF OutputLimited(first) /\ OutputLimited(second) THEN "none" ELSE Null

\* A task no form of which could be written keeps its outline and a blocking question.
Expanded(outline) ==
  LET forms == [t \in DOMAIN outline.tasks |-> FormOf(outline, outline.tasks[t])]
      open == SelectSeq([t \in DOMAIN forms |-> t], LAMBDA t : forms[t] = "none")
  IN  [outline EXCEPT !.tasks = [t \in DOMAIN @ |-> [@[t] EXCEPT !.form = forms[t]]],
                      !.questions = @ \o [i \in DOMAIN open |-> [id |-> <<open[i], "not-expanded">>, blocking |-> TRUE]]]

----------------------------------------------------------------------------
Init ==
  /\ setup \in Setups
  /\ record = <<>> /\ retired = {} /\ plan = Null /\ why = Null /\ trouble = 0 /\ stops = 0
  /\ pc = "compose" /\ parts = <<>> /\ next = 1 /\ flying = {} /\ ended = <<>>

Fail(reason) == pc' = "failed" /\ why' = reason /\ parts' = <<>> /\ next' = 1 /\ flying' = {} /\ ended' = <<>> /\ UNCHANGED plan
Ask(name, stages) ==
  /\ pc' = name /\ parts' = stages /\ next' = 1 /\ flying' = {} /\ ended' = <<>> /\ UNCHANGED <<plan, why>>
Enter(name, kind, groups) == IF Null \in ToSet(groups) THEN Fail("limit") ELSE Ask(name, Stages(kind, groups))
Finish(p) ==
  IF Diagnosed(p) THEN Fail("traceability")
  ELSE pc' = "done" /\ plan' = p /\ parts' = <<>> /\ next' = 1 /\ flying' = {} /\ ended' = <<>> /\ UNCHANGED why

Compose ==
  /\ pc = "compose"
  /\ IF Len(Ids) > setup.perSection THEN Enter("sections", "section", Sections)
     ELSE IF Len(Ids) <= setup.maxPlan /\ Fits(Stage("plan", Ids)) THEN Ask("whole", <<Stage("plan", Ids)>>)
     ELSE Enter("briefs", "brief", Briefs)
  /\ UNCHANGED <<setup, record, retired, trouble, stops>>

----------------------------------------------------------------------------
(* The calls of a phase run side by side; those that link sections one by   *)
(* one.                                                                     *)
\* A grouping call that is declined or cut off is no failure.
Failures == IF pc = "questions" THEN {"fatal"} ELSE {"ceiling", "fatal"}
Failed == \E i \in DOMAIN ended : ended[i] \in Failures

Start ==
  /\ next <= Len(parts) /\ ~Failed
  /\ Cardinality(flying) < (IF pc = "links" THEN 1 ELSE Concurrency)
  /\ flying' = flying \union {next} /\ next' = next + 1
  /\ UNCHANGED <<setup, record, pc, parts, ended, retired, plan, why, trouble, stops>>

Values(stage) ==
  CASE stage.kind \in {"plan", "section", "outline", "outlineSection"} -> setup.replies
    [] stage.kind \in {"links", "questions"} ->
         LET drawing == Drawing IN IF stage.kind = "links" THEN Links(drawing.tasks, stage.ids) ELSE Groupings(drawing.questions)
    [] OTHER -> {"ok"}

\* An answered call is taken from its record; a call that fails leaves none, one cut off at the ceiling does.
Answer(i) ==
  LET stage == parts[i] IN
  /\ i \in flying /\ flying' = flying \ {i}
  /\ \/ /\ stage \in DOMAIN record
        /\ ended' = (i :> record[stage].end) @@ ended /\ UNCHANGED <<record, trouble>>
     \/ /\ stage \notin DOMAIN record
        /\ \E value \in Values(stage) : record' = (stage :> [end |-> "reply", value |-> value]) @@ record
        /\ ended' = (i :> "reply") @@ ended /\ UNCHANGED trouble
     \/ /\ stage \notin DOMAIN record /\ trouble < MaxTrouble
        /\ record' = (stage :> [end |-> "ceiling", value |-> {}]) @@ record
        /\ ended' = (i :> "ceiling") @@ ended /\ trouble' = trouble + 1
     \/ /\ stage \notin DOMAIN record /\ trouble < MaxTrouble
        /\ \E end \in IF pc = "questions" THEN {"fatal", "declined"} ELSE {"fatal"} : ended' = (i :> end) @@ ended
        /\ trouble' = trouble + 1 /\ UNCHANGED record
  /\ UNCHANGED <<setup, pc, parts, next, retired, plan, why, stops>>

----------------------------------------------------------------------------
(* What follows a phase whose calls are all answered.                       *)
Expand(outline) ==
  LET forms == [t \in DOMAIN outline.tasks |-> FormOf(outline, outline.tasks[t])]
      asked == SelectSeq([t \in DOMAIN forms |-> t], LAMBDA t : forms[t] # "none")
  IN  IF Diagnosed(outline) THEN Fail("traceability")
      ELSE IF Null \in ToSet(forms) THEN Fail("limit")
      ELSE Ask("expand", [i \in DOMAIN asked |-> Expansion(outline.tasks[asked[i]], forms[asked[i]])])

\* Sections that both ask are asked which of their questions are one, when that can be sent.
Asking(questions) == Stage("questions", [i \in DOMAIN questions |-> questions[i].id[1]])

\* A grouping call that gave no groups leaves every question as its section asked it.
Grouped(joined) ==
  IF pc = "questions" /\ ended[1] = "reply" THEN WithQuestionsMerged(joined, Reply(parts[1])) ELSE joined

\* Every call that joins the sections of an outline can be sent.
Joinable == \A stage \in {Header} \union ToSet(Stages("links", LinkGroups)) : Sendable(stage)

Advance ==
  IF pc = "briefs" THEN Enter("outline", OutlineKind, OutlineGroups)
  ELSE IF pc = "outline" /\ Hierarchical THEN IF Joinable THEN Ask("header", <<Header>>) ELSE Fail("limit")
  ELSE IF pc = "header" /\ LinkGroups # <<>> THEN Ask("links", Stages("links", LinkGroups))
  ELSE \E p \in {Drawing} :
    CASE pc = "sections" /\ Len(p.questions) > 1 /\ Sendable(Asking(p.questions)) -> Ask("questions", <<Asking(p.questions)>>)
      [] pc \in {"outline", "header", "links"} -> Expand(p)
      [] OTHER -> Finish(IF pc = "expand" THEN Expanded(p) ELSE Grouped(p))

\* The first failure in order is the phase's; a call at the ceiling composes the plan again.
Settle ==
  /\ pc \notin {"compose", "done", "failed"} /\ flying = {}
  /\ next > Len(parts) \/ Failed
  /\ \E first \in {IF ~Failed THEN 0
                   ELSE CHOOSE i \in DOMAIN ended : ended[i] \in Failures /\ \A j \in 1..(i - 1) : ended[j] \notin Failures} :
       IF first = 0 THEN Advance /\ UNCHANGED retired
       ELSE IF ended[first] = "fatal" THEN Fail("call") /\ UNCHANGED retired
       ELSE IF parts[first] \in retired \/ Cardinality(retired) >= MaxReplans THEN Fail("retired") /\ UNCHANGED retired
       ELSE Ask("compose", <<>>) /\ retired' = retired \union {parts[first]}
  /\ UNCHANGED <<setup, record, trouble, stops>>

\* The process ends, or the failed run is resumed: the stage runs again over its records.
Stop ==
  /\ pc # "done" /\ stops < MaxStops /\ stops' = stops + 1
  /\ pc' = "compose" /\ parts' = <<>> /\ next' = 1 /\ flying' = {} /\ ended' = <<>> /\ retired' = {} /\ why' = Null
  /\ UNCHANGED <<setup, record, plan, trouble>>

Next == Compose \/ Start \/ (\E i \in flying : Answer(i)) \/ Settle \/ Stop
Spec == Init /\ [][Next]_vars

----------------------------------------------------------------------------
(* A reply's chain, still between the tasks it was drawn for.               *)
ChainKept(k, ids) ==
  \A i \in 2..Len(ids) :
    \E s, t \in DOMAIN plan.tasks : plan.tasks[s].of = <<k, i - 1>> /\ plan.tasks[t].of = <<k, i>> /\ s \in plan.tasks[t].dependsOn

\* Composing again never asks once more for what stopped at the ceiling, and only links can make the
\* outline unsound. A finished plan holds every issue in one task, every part's own order between the
\* tasks it drew, every question a part needs answered, and no task settles one that blocks or is gone; a
\* task is left unwritten only when both its forms stopped at the ceiling, and a question then says so.
DraftComplete ==
  /\ why # "retired"
  /\ why = "traceability" => \E stage \in DOMAIN record : stage.kind = "links" /\ Reply(stage) # {}
  /\ pc = "done" =>
       /\ \A id \in DOMAIN Ids : \E t \in DOMAIN plan.tasks : id \in plan.tasks[t].issues
                                   /\ \A s \in DOMAIN plan.tasks \ {t} : id \notin plan.tasks[s].issues
       /\ \A k \in DOMAIN plan.groups :
            LET reply == Reply(Stage(plan.kind, plan.groups[k])) IN
            /\ reply.shape = "chain" => ChainKept(k, plan.groups[k])
            /\ reply.asks = "blocking" => \E q \in ToSet(plan.questions) : q.blocking /\ q.id[1] <= k
       /\ \A t \in DOMAIN plan.tasks : plan.tasks[t].resolves # Null =>
            \E q \in ToSet(plan.questions) : q.id = plan.tasks[t].resolves /\ ~q.blocking
       /\ plan.kind \in {"outline", "outlineSection"} => \A t \in DOMAIN plan.tasks :
            LET Limited(form) == OutputLimited(Expansion(plan.tasks[t], form)) IN
            IF plan.tasks[t].form = "none"
            THEN /\ Limited("scoped") /\ Limited("whole")
                 /\ \E q \in ToSet(plan.questions) : q.blocking /\ q.id = <<t, "not-expanded">>
            ELSE Expansion(plan.tasks[t], plan.tasks[t].form) \in DOMAIN record /\ ~Limited(plan.tasks[t].form)
=============================================================================
