--------------------------- MODULE MCAudit ---------------------------
(* The parts of an Audit, one of them at a time: which says whose steps are  *)
(* taken, and the variables it does not use are Null.                        *)
EXTENDS TLC, Naturals

CONSTANTS a1, a2, a3, c1, c2, f1, f2, f3, f4, Null

VARIABLES
  which, saved, running, reference, rounds, done, fed, saves, repository, sites, status, work, flying, deferred,
  separable, broken, examined, gaps, inARow, answered, windows, pieces, followed, found, notes, cache, trouble,
  resumes, checks, limits, record, pc, parts, next, ended, retired, why, crashes, audit, panel, board, conflicts,
  round, asked, replies, outcome, cast, edits, options, groups, limited, at, spare, notAsked, calls, answers,
  disposition, stops, base, batches, records, tooLarge, verdict, published, queue, kept, checked, stated, plan,
  setup, pending, current, lineage, retiredTo, applied, sent, store, once, state, phase, got, feedback, marks,
  attempt, turn, history, tools, reports, ends, worlds, run, registry, upgrades, abreast

(* Graphs: the shipped one, with edges that feed its stages put in or left out. *)
Auditors == {"auditor-a", "auditor-b"}
Kinds(more) ==
  [n \in Auditors \union {"preflight", "consensus", "verification", "planner"} \union more |->
     CASE n = "preflight" -> "deterministic" [] n = "consensus" -> "loop" [] n = "verification" -> "subgraph"
       [] n = "human" -> "human" [] OTHER -> "model"]
Fixed == {<<"preflight", "auditor-a">>, <<"preflight", "auditor-b">>, <<"consensus", "verification">>}
Feeding == {<<"auditor-a", "consensus">>, <<"auditor-b", "consensus">>, <<"auditor-a", "auditor-b">>,
            <<"verification", "planner">>, <<"consensus", "planner">>}
Backward == {<<"planner", "verification">>, <<"auditor-b", "preflight">>}
Reviewed == {<<"planner", "critic">>, <<"verification", "human">>, <<"human", "critic">>}
Graph(edges, more, maximum, privileged) ==
  [kind |-> Kinds(more), edges |-> Fixed \union edges, maximum |-> maximum, privileged |-> privileged]
Graphs == {Graph(some, {}, 2, {}) : some \in SUBSET (Feeding \union Backward)}
          \union {Graph(Feeding \union some, {"critic", "human"}, 3, {"write"}) : some \in SUBSET Reviewed}
          \union {Graph(Feeding \union Backward, {}, 4, {})}
Shipped == {Graph(Feeding \ {<<"auditor-a", "auditor-b">>, <<"consensus", "planner">>}, {}, 3, {})}

(* A repository that fits one call, and one with a file and a line too large for it. *)
Small == << << <<1>>, <<2>> >> >>
Large == << << <<1, 3>>, <<4>> >> >>

(* Audits: overlapping edits; two conflicts at once; changed votes; three auditors; votes alone. *)
Full == [name |-> "full", quorum |-> 2, groups |-> 2]
Two == (c1 :> [sources |-> {f1, f4}, severity |-> "low"]) @@ (c2 :> [sources |-> {f2, f3}, severity |-> "high"])
One == c1 :> [sources |-> {f1, f4}, severity |-> "high"]
Votes == {"accept", "reject", "needs_verification"}
Audit(seed, orders, name, maximum, votes, others) ==
  [board |-> seed, orders |-> orders, policy |-> [Full EXCEPT !.name = name], rounds |-> maximum,
   dispositions |-> votes, edits |-> others]
Audits ==
  {Audit(Two, {<<a1, a2>>}, "full", 2, {"accept", "reject"}, 2),
   Audit(One, {<<a1, a2>>}, "full", 3, {"accept"}, 4),
   Audit(One, {<<a1, a2>>, <<a2, a1>>}, "full", 3, Votes, 1),
   Audit(Two, {<<a1, a2, a3>>, <<a3, a1, a2>>}, "risk_weighted", 1, Votes, 1),
   Audit((c1 :> [sources |-> {f1}, severity |-> "low"]) @@ Two, {<<a1, a2>>}, "minimal", 2, Votes, 0)}

(* Verification: candidates with one place or two, found and lowered, with and without votes. *)
Found(severity, now, lowered, support, votes, findings) ==
  [found |-> severity, now |-> now, loweredBy |-> lowered, support |-> support, votes |-> votes,
   findings |-> findings, fits |-> TRUE, consensus |-> "accepted"]
Asking(bound, together, second, parallel, auditors) ==
  [bound |-> bound, perCall |-> together, filesPerCall |-> 2, second |-> second, parallel |-> parallel,
   auditors |-> auditors, minimum |-> 2, skip |-> TRUE, raises |-> TRUE, reask |-> "files"]
Line(f, from, to) == <<f, from, to>>
Merged == <<Line(1, 1, 2), Line(2, 5, 6)>>
Verifications ==
  {[board |-> <<Found(1, 1, {}, 2, {"accept"}, Merged), Found(2, 3, {a1}, 1, {}, <<Line(1, 2, 4), Line(1, 4, 5)>>)>>,
    options |-> Asking(bound, 1, TRUE, 2, 2)] : bound \in {2, 4, Null}}
  \union
  {[board |-> <<Found(2, 3, {a1, a2}, 2, {}, <<Line(1, 1, 1)>>), Found(1, 1, {}, 1, {}, <<Line(1, 1, 1)>>),
               [Found(2, 2, {}, 1, {"reject"}, <<Line(1, 1, 1), Line(1, 8, 9)>>) EXCEPT !.fits = FALSE],
               Found(1, 1, {}, 2, {"reject"}, <<Line(1, 1, 1), Line(1, 8, 9)>>)>>,
    options |-> [Asking(bound, 3, TRUE, 1, bound - 1) EXCEPT !.reask = "always"]] : bound \in {2, 3}}

(* Variants of two confirmed issues of one module, one of which is the place of a rejected issue. *)
Confirmed(id, severity, place) ==
  [id |-> id, severity |-> severity, outcome |-> "CONFIRMED", disposition |-> "accepted", places |-> {place}, module |-> "m"]
Left == <<Confirmed("i1", 1, <<1, 1>>), Confirmed("i2", 2, <<2, 1>>),
          [Confirmed("i3", 2, <<3, 1>>) EXCEPT !.outcome = "REJECTED", !.disposition = "rejected"],
          Confirmed("i4", 3, <<1, 7>>)>>
Variant(id, of, severity, cites) == [id |-> id, of |-> of, severity |-> severity, places |-> cites]
Proposed == {Variant("v1", "i1", 1, {<<1, 1>>, <<3, 1>>}), Variant("v2", "i1", 1, {<<1, 5>>, <<1, 1>>}),
             Variant("v3", "i2", 2, {<<1, 5>>}), Variant("v4", "i2", 3, {<<2, 9>>})}

(* Plans: two tasks with globs and files not to touch; three tasks that state their order twice. *)
Segments(text) ==
  CASE text = "a" -> << <<"a">> >> [] text = "." -> << <<".">> >> [] text = "A/a.b" -> << <<"A">>, <<"a", ".", "b">> >>
    [] text = "*.b" -> << <<"*", ".", "b">> >> [] text = "a/**" -> << <<"a">>, <<"**">> >>
    [] text = "a/?" -> << <<"a">>, <<"?">> >> [] text = "./a/[" -> << <<".">>, <<"a">>, <<"[">> >>
    [] text = "{/{.b" -> << <<"{">>, <<"{", ".", "b">> >> [] text = "**/b/" -> << <<"**">>, <<"b">>, <<>> >>
    [] text = "b/a*" -> << <<"b">>, <<"a", "*">> >>
Texts == {"a", ".", "A/a.b", "*.b", "a/**", "a/?", "./a/[", "{/{.b", "**/b/", "b/a*"}
Names == {<<"a">>, <<"b">>, <<"a", ".", "b">>}
Files == {<<m>> : m \in Names} \union {<<m, n>> : m \in Names, n \in Names} \union {<< <<"a">>, m, n>> : m \in Names, n \in Names}
Task(likely, spared, waits, halts) ==
  [likelyFiles |-> likely, filesNotToTouch |-> spared, dependsOn |-> waits, blocks |-> halts, conflictsWith |-> {}]
Writing(text, spared) == Task({Segments(text)}, {Segments(other) : other \in spared}, {}, {})
Drafted(mode, tasks, edges) == [mode |-> mode, tasks |-> tasks, graph |-> edges]
Plans ==
  {Drafted("audit", <<Writing(one, spared), Writing(two, {})>>, {}) : one \in Texts, two \in Texts, spared \in {{}} \union {{x} : x \in Texts}}
  \union
  {Drafted(mode, <<Task({Segments("a")}, {}, {}, halts), Task({Segments(one)}, {}, waits, {}), Task({Segments("a/?")}, {}, {}, {})>>, edges) :
     mode \in {"feature", "testing"}, halts \in SUBSET {2, 3}, one \in {"a", "b/a*"}, waits \in SUBSET {1, 3},
     edges \in SUBSET {<<1, 3>>, <<3, 2>>, <<3, 4>>}}

(* Issues to plan: in one call, in sections, and through an outline of one, two and three sections. *)
Answers == {[shape |-> "chain", asks |-> "blocking"], [shape |-> "each", asks |-> "settled"]}
Draft(sized, cited, most, plain, brief, outlined, given) ==
  [sizes |-> sized, files |-> cited, perSection |-> most, maxPlan |-> plain, maxBrief |-> brief, maxOutline |-> outlined, replies |-> given]
Drafts ==
  {Draft(<<1, 1>>, <<{1}, {1}>>, 9, 4, 2, 2, Answers \union {[shape |-> "all", asks |-> "none"]}),
   Draft(<<1, 2, 1, 4>>, <<{1}, {2}, {1, 2}, {3}>>, 2, 4, 4, 4, Answers),
   Draft(<<1, 1, 2>>, <<{1}, {2}, {1}>>, 9, 2, 2, 2, {[shape |-> "chain", asks |-> "blocking"]}),
   Draft(<<1, 5>>, <<{1}, {2}>>, 1, 2, 2, 2, Answers),
   Draft(<<1, 1, 1>>, <<{1}, {2}, {1}>>, 9, 1, 4, 1, {[shape |-> "chain", asks |-> "none"]})}

(* Plans under critique: items on one task, on two, and on a task another item may retire. *)
Critiqued(number, of, cited, waits) ==
  [issues |-> of, files |-> cited, dependsOn |-> waits, blocks |-> {}, conflictsWith |-> {}, tag |-> <<0, 0, number>>]
Revision(tasks, edges, listed) == [plan |-> [mode |-> "audit", tasks |-> tasks, graph |-> edges, questions |-> {}], items |-> listed]
On(tasks, of) == [tasks |-> tasks, issues |-> of]
Revisions ==
  {Revision(<<Critiqued(1, {1}, {1}, {})>>, {}, <<On({1}, {})>>),
   Revision(<<Critiqued(1, {1}, {1}, {}), Critiqued(2, {2}, {2}, {}), Critiqued(3, {1, 2}, {1}, {1})>>, {<<1, 3>>},
            <<On({1}, {}), On({2}, {}), On({1, 2}, {}), On({}, {})>>),
   Revision(<<Critiqued(1, {1}, {1}, {}), Critiqued(2, {1, 2}, {2}, {1}), Critiqued(3, {3}, {3}, {2})>>, {<<1, 2>>, <<2, 3>>},
            <<On({3}, {}), On({1}, {}), On({3}, {}), On({}, {1})>>),
   Revision(<<Critiqued(1, {1}, {1}, {}), Critiqued(2, {1}, {2}, {}), Critiqued(3, {1}, {3}, {})>>, {}, <<On({}, {1})>>)}

(* Plans under review: with and without a critic, a checker, a second reading and an operator. *)
ReviewOf(present, critic, second, again) == [interactive |-> present, critic |-> critic, checker |-> second, recheck |-> again]
Reviewing == {ReviewOf(TRUE, "off", FALSE, FALSE), ReviewOf(TRUE, "skipped", FALSE, FALSE), ReviewOf(TRUE, "dependent", TRUE, TRUE),
              ReviewOf(TRUE, "independent", FALSE, FALSE), ReviewOf(TRUE, "independent", FALSE, TRUE), ReviewOf(FALSE, "independent", TRUE, FALSE)}
Item(id, blocking, cites) == [id |-> id, blocking |-> blocking, cites |-> cites]
Remarks == {{}, {Item(1, TRUE, "known"), Item(2, TRUE, "known")}, {Item(1, TRUE, "known"), Item(1, FALSE, "known"), Item(3, TRUE, "unknown")},
            {Item(2, TRUE, "known"), Item(3, TRUE, "nothing")}}

(* Tool calls: reads in and beyond the unit, lookups of blocks, the archive, and a tool that is not offered. *)
Reading(f, from, to) == [tool |-> "read", file |-> f, first |-> from, last |-> to]
Looking(blocks) == [tool |-> "lookup", blocks |-> blocks]
Block(f, from, to) == [file |-> f, first |-> from, last |-> to]
Calling(list) == [kind |-> "tools", calls |-> list]
Saying(kind) == [kind |-> kind, calls |-> <<>>]
Final == {Saying("answer"), Saying("invalid"), Saying("refusal")}
Conversation(most, whole, limit, again, room, turned) == [context |-> room, maximum |-> most, whole |-> whole, turns |-> limit, repairs |-> again, replies |-> Final \union {Calling(list) : list \in turned}]
Conversations ==
  {Conversation(6, TRUE, 2, 0, 14, {<<Looking(<<Block(2, 1, 2), Block(1, 1, 2), Block(3, 1, 1)>>)>>, <<Reading(2, 1, 3)>>, <<Reading(3, 1, 2), Reading(2, 3, 3)>>}),
   Conversation(9, FALSE, 2, 0, 14, {<<Looking(<<Block(1, 1, 2), Block(2, 2, 3), Block(3, 2, 2)>>), [tool |-> "artifact"]>>, <<Reading(1, 1, 2)>>, <<Looking(<<>>), Looking(<<Block(2, 3, 3)>>)>>}),
   Conversation(0, TRUE, 0, 1, 3, {<<Reading(2, 1, 1)>>}), Conversation(4, TRUE, 1, 1, 14, {<<Reading(2, 2, 3), Looking(<<Block(2, 1, 1)>>)>>, <<[tool |-> "write"]>>})}

(* Runs on one another: files that change outside a unit, settings and history that change, a Testing replay. *)
Tree(a, lib, deep, other) == [p \in {"a", "b", "lib", "deep", "other"} |->
  CASE p = "a" -> a [] p = "b" -> 1 [] p = "lib" -> lib [] p = "deep" -> deep [] p = "other" -> other]
World(of, on, tree) ==
  [mode |-> of, base |-> on, files |-> tree, manifests |-> [root |-> "1", sub |-> "1"], graph |-> 1, head |-> on + 1,
   common |-> 1, own |-> IF of = "audit" THEN <<1, 1>> ELSE <<1, 1>>, ceiling |-> 2, executes |-> of = "testing"]
First == World("audit", 0, Tree(1, 1, 1, 1))
Again(tree) == World("audit", 1, tree)
Scenario(list, halts, builds, both) == [worlds |-> list, stops |-> halts, upgrades |-> builds, abreast |-> both]
Reusing ==
  {Scenario(<<First, Again(Tree(1, 1, 1, 2)), World("audit", 2, Tree(1, 1, deep, 2))>>, 0, 0, FALSE) : deep \in {0, 1}}
  \union {Scenario(<<First, Again(Tree(1, lib, 1, 1))>>, 0, 0, FALSE) : lib \in {0, 2}}
  \union {Scenario(<<First, Again(Tree(1, 1, deep, other))>>, 1, 0, FALSE) : deep \in {0, 1, 2}, other \in {0, 1}}
  \union {Scenario(<<First, Again(Tree(2, 1, 1, 1))>>, 0, 0, TRUE), Scenario(<<First, Again(Tree(1, 1, 1, 1))>>, 1, 1, FALSE),
          Scenario(<<First, Again(Tree(1, 1, 1, 2))>>, 2, 0, FALSE)}
  \union {Scenario(<<First, [Again(Tree(1, 1, 1, 1)) EXCEPT !.manifests.sub = m, !.head = h]>>, 0, 0, FALSE) : m \in {"1", "2", "unreadable"}, h \in {Null, 0, 2}}
  \union {Scenario(<<First, [Again(Tree(1, 1, 1, 1)) EXCEPT !.common = c, !.own = o, !.ceiling = n, !.graph = c]>>, 0, 0, FALSE) : c \in {1, 2}, o \in {<<1, 1>>, <<2, 1>>, <<1, 2>>}, n \in {1, 2}}
  \union {Scenario(<<World("testing", 0, Tree(1, 1, 1, 1)), [World("testing", 1, Tree(1, 1, 1, n)) EXCEPT !.own = o, !.executes = e]>>, 1, 1, TRUE) : n \in {1, 2}, o \in {<<1, 1>>, <<1, 2>>}, e \in BOOLEAN}

G == INSTANCE AuthoredGraphs WITH
  Graphs <- Graphs, Presets <- Shipped, Auditors <- Auditors, Categories <- {"write"}, MaxSaves <- 2
D == INSTANCE AuditDiscovery WITH
  Lines <- << <<1, 1>>, <<1, 1>>, <<1>>, <<2, 5, 1, 1, 1>> >>, Repositories <- {Small, Large},
  Budget <- 4, Overlap <- 1, Concurrency <- 2, MaxInARow <- 2, Sites <- {{<<1, 1>>, <<4, 4>>}},
  Context <- [before |-> 0, after |-> 1], MaxFollowUps <- 1, MaxTrouble <- 2, MaxResumes <- 1
R == INSTANCE PeerReviewBatches WITH
  Sizes <- <<1, 2, 3, 3>>, Budget <- 5, Required <- 6, MaxCandidates <- 3, MaxSegments <- 3,
  MergeChecks <- BOOLEAN, Concurrency <- 2, MaxReplans <- 4, MaxTrouble <- 2, MaxCrashes <- 1
B == INSTANCE PeerBoard WITH
  Group <- (a1 :> "x" @@ a2 :> "y" @@ a3 :> "x"), Audits <- Audits,
  Author <- (f1 :> a1 @@ f2 :> a2 @@ f3 :> a1 @@ f4 :> a2)
V == INSTANCE AuditVerification WITH
  Audits <- Verifications, MaxTrouble <- 1, MaxStops <- 1
S == INSTANCE VariantSearch WITH
  Issues <- Left, Proposals <- Proposed, MaxProposed <- 2, SeedsPerBatch <- 2, FilesPerBatch <- 2,
  Minimum <- 2, Skip <- TRUE, MaxTrouble <- 1, MaxStops <- 2
W == INSTANCE WriteScopes WITH
  Plans <- Plans, Paths <- Files, Alternatives <- {<<"a">>, <<"b">>}, Class <- {"a"}, BraceLimit <- 2
L == INSTANCE PlanDraft WITH
  Setups <- Drafts, Budget <- 3, Required <- 4, Concurrency <- 2, WholeOutline <- 1, MaxReplans <- 4, MaxTrouble <- 2, MaxStops <- 1
N == INSTANCE PlanRevision WITH
  Setups <- Revisions, Budget <- 3, MaxItems <- 2, MaxTasks <- 2, MaxTrouble <- 1, MaxStops <- 1
K == INSTANCE PlanReview WITH
  Setups <- Reviewing, Drafts <- {{}, {<<"q">>}}, Replies <- Remarks, MaxTrouble <- 1, MaxStops <- 1
T == INSTANCE ToolLoop WITH
  Lines <- << <<2, 2>>, <<2, 3, 2>>, <<4, 12>> >>, Unit <- {1}, Setups <- Conversations,
  CallLimit <- 12, Trailer <- 4, NodeBudget <- 16, Frame <- 1, Mark <- 1, Name <- 1,
  Initial <- 2, Added <- 2, Marker <- 2, MaxTrouble <- 1, MaxStops <- 2
I == INSTANCE IncrementalAudit WITH
  Scenarios <- Reusing, Units <- <<[paths |-> {"a"}, manifests |-> {"root", "sub"}, tools |-> TRUE], [paths |-> {"b"}, manifests |-> {"root"}, tools |-> FALSE]>>,
  Stages <- [audit |-> <<TRUE, TRUE>>, testing |-> <<TRUE, FALSE>>], Readable <- <<{"other"}, {}>>, Ceiling <- 2,
  Targets <- [a |-> <<{"lib"}, {}>>, b |-> <<{"a"}, {}>>, lib |-> <<{"deep"}, {}>>, deep |-> <<{}, {"other"}>>, other |-> <<{}, {}>>]

ASSUME AuditAssumption == B!BoardAssumption

NotG == <<
  repository, sites, status, work, flying, deferred, separable, broken, examined, gaps, inARow, answered, windows,
  pieces, followed, found, notes, cache, trouble, resumes, checks, limits, record, pc, parts, next, ended, retired,
  why, crashes, audit, panel, board, conflicts, round, asked, replies, outcome, cast, edits, options, groups,
  limited, at, spare, notAsked, calls, answers, disposition, stops, base, batches, records, tooLarge, verdict,
  published, queue, kept, checked, stated, plan, setup, pending, current, lineage, retiredTo, applied, sent, store,
  once, state, phase, got, feedback, marks, attempt, turn, history, tools, reports, ends, worlds, run, registry,
  upgrades, abreast>>
NotD == <<
  saved, running, reference, rounds, done, fed, saves, checks, limits, record, pc, parts, next, ended, retired,
  why, crashes, audit, panel, board, conflicts, round, asked, replies, outcome, cast, edits, options, groups,
  limited, at, spare, notAsked, calls, answers, disposition, stops, base, batches, records, tooLarge, verdict,
  published, queue, kept, checked, stated, plan, setup, pending, current, lineage, retiredTo, applied, sent, store,
  once, state, phase, got, feedback, marks, attempt, turn, history, tools, reports, ends, worlds, run, registry,
  upgrades, abreast>>
NotR == <<
  saved, running, reference, rounds, done, fed, saves, repository, sites, status, work, deferred, separable,
  broken, examined, gaps, inARow, answered, windows, pieces, followed, found, notes, cache, resumes, audit, panel,
  board, conflicts, round, asked, replies, outcome, cast, edits, options, groups, limited, at, spare, notAsked,
  calls, answers, disposition, stops, base, batches, records, tooLarge, verdict, published, queue, kept, checked,
  stated, plan, setup, pending, current, lineage, retiredTo, applied, sent, store, once, state, phase, got,
  feedback, marks, attempt, turn, history, tools, reports, ends, worlds, run, registry, upgrades, abreast>>
NotB == <<
  saved, running, reference, rounds, done, fed, saves, repository, sites, status, work, flying, deferred,
  separable, broken, examined, gaps, inARow, answered, windows, pieces, followed, found, notes, cache, trouble,
  resumes, checks, limits, record, parts, next, ended, retired, why, crashes, options, groups, limited, at, spare,
  notAsked, calls, answers, disposition, stops, base, batches, records, tooLarge, verdict, published, queue, kept,
  checked, stated, plan, setup, pending, current, lineage, retiredTo, applied, sent, store, once, state, phase,
  got, feedback, marks, attempt, turn, history, tools, reports, ends, worlds, run, registry, upgrades, abreast>>
NotV == <<
  saved, running, reference, rounds, done, fed, saves, repository, sites, work, flying, deferred, separable,
  broken, examined, gaps, inARow, answered, windows, pieces, followed, found, notes, cache, resumes, checks,
  limits, record, pc, parts, next, ended, retired, why, crashes, audit, panel, conflicts, round, asked, replies,
  outcome, cast, edits, base, batches, records, tooLarge, verdict, published, queue, kept, checked, stated, plan,
  setup, pending, current, lineage, retiredTo, applied, sent, store, once, state, phase, got, feedback, marks,
  attempt, turn, history, tools, reports, ends, worlds, run, registry, upgrades, abreast>>
NotS == <<
  saved, running, reference, rounds, done, fed, saves, repository, sites, status, work, flying, deferred,
  separable, broken, examined, gaps, inARow, answered, windows, pieces, followed, notes, cache, resumes, checks,
  limits, record, parts, next, ended, retired, why, crashes, audit, panel, board, conflicts, round, asked, replies,
  outcome, cast, edits, options, groups, limited, at, spare, notAsked, calls, answers, disposition, stated, plan,
  setup, pending, current, lineage, retiredTo, applied, sent, store, once, state, phase, got, feedback, marks,
  attempt, turn, history, tools, reports, ends, worlds, run, registry, upgrades, abreast>>
NotW == <<
  saved, running, reference, rounds, done, fed, saves, repository, sites, status, work, flying, deferred,
  separable, broken, examined, gaps, inARow, answered, windows, pieces, followed, found, notes, cache, trouble,
  resumes, checks, limits, record, pc, parts, next, ended, retired, why, crashes, audit, panel, board, conflicts,
  round, asked, replies, outcome, cast, edits, options, groups, limited, at, spare, notAsked, calls, answers,
  disposition, stops, base, batches, records, tooLarge, published, queue, kept, checked, setup, pending, current,
  lineage, retiredTo, applied, sent, store, once, state, phase, got, feedback, marks, attempt, turn, history,
  tools, reports, ends, worlds, run, registry, upgrades, abreast>>
NotL == <<
  saved, running, reference, rounds, done, fed, saves, repository, sites, status, work, deferred, separable,
  broken, examined, gaps, inARow, answered, windows, pieces, followed, found, notes, cache, resumes, checks,
  limits, crashes, audit, panel, board, conflicts, round, asked, replies, outcome, cast, edits, options, groups,
  limited, at, spare, notAsked, calls, answers, disposition, base, batches, records, tooLarge, verdict, published,
  queue, kept, checked, stated, pending, current, lineage, retiredTo, applied, sent, store, once, state, phase,
  got, feedback, marks, attempt, turn, history, tools, reports, ends, worlds, run, registry, upgrades, abreast>>
NotN == <<
  saved, running, reference, rounds, done, fed, saves, repository, sites, status, work, flying, deferred,
  separable, broken, examined, gaps, inARow, answered, windows, pieces, followed, found, notes, cache, resumes,
  checks, limits, parts, next, retired, crashes, audit, panel, board, conflicts, asked, replies, cast, edits,
  options, groups, limited, at, spare, notAsked, calls, answers, disposition, batches, records, tooLarge, verdict,
  published, queue, kept, checked, stated, plan, store, once, state, phase, got, feedback, marks, attempt, turn,
  history, tools, reports, ends, worlds, run, registry, upgrades, abreast>>
NotK == <<
  saved, running, reference, rounds, fed, saves, repository, sites, status, work, flying, deferred, separable,
  broken, examined, gaps, inARow, answered, windows, pieces, followed, found, notes, cache, resumes, checks,
  limits, parts, next, ended, retired, crashes, audit, panel, board, conflicts, round, asked, replies, outcome,
  cast, edits, options, groups, limited, at, spare, notAsked, calls, answers, disposition, base, batches, records,
  tooLarge, verdict, published, queue, kept, checked, stated, plan, pending, lineage, retiredTo, applied, sent,
  marks, attempt, turn, history, tools, reports, ends, worlds, run, registry, upgrades, abreast>>
NotT == <<
  saved, running, reference, rounds, done, fed, saves, repository, sites, status, work, flying, deferred,
  separable, broken, examined, gaps, inARow, answered, windows, pieces, followed, found, notes, cache, resumes,
  checks, limits, record, parts, next, ended, retired, crashes, audit, panel, board, conflicts, round, asked,
  replies, outcome, cast, edits, options, groups, limited, at, spare, notAsked, calls, answers, disposition, base,
  batches, tooLarge, verdict, published, queue, kept, checked, stated, plan, pending, current, lineage, retiredTo,
  applied, sent, store, once, state, phase, got, feedback, worlds, run, registry, upgrades, abreast>>
NotI == <<
  saved, running, reference, rounds, done, fed, saves, repository, sites, status, work, flying, deferred,
  separable, broken, examined, gaps, inARow, answered, windows, pieces, followed, found, notes, cache, trouble,
  resumes, checks, limits, record, pc, parts, next, ended, retired, why, crashes, audit, panel, board, conflicts,
  round, asked, replies, outcome, cast, edits, options, groups, limited, spare, notAsked, calls, answers,
  disposition, base, batches, records, tooLarge, verdict, published, queue, kept, checked, stated, plan, setup,
  pending, current, lineage, retiredTo, applied, sent, store, once, state, phase, got, feedback, marks, attempt,
  turn, history, tools, reports, ends>>
vars == <<which,
  saved, running, reference, rounds, done, fed, saves, repository, sites, status, work, flying, deferred,
  separable, broken, examined, gaps, inARow, answered, windows, pieces, followed, found, notes, cache, trouble,
  resumes, checks, limits, record, pc, parts, next, ended, retired, why, crashes, audit, panel, board, conflicts,
  round, asked, replies, outcome, cast, edits, options, groups, limited, at, spare, notAsked, calls, answers,
  disposition, stops, base, batches, records, tooLarge, verdict, published, queue, kept, checked, stated, plan,
  setup, pending, current, lineage, retiredTo, applied, sent, store, once, state, phase, got, feedback, marks,
  attempt, turn, history, tools, reports, ends, worlds, run, registry, upgrades, abreast>>

Init ==
  \/ /\ which = "graphs" /\ G!Init
     /\ repository = Null /\ sites = Null /\ status = Null /\ work = Null /\ flying = Null /\ deferred = Null
     /\ separable = Null /\ broken = Null /\ examined = Null /\ gaps = Null /\ inARow = Null /\ answered = Null
     /\ windows = Null /\ pieces = Null /\ followed = Null /\ found = Null /\ notes = Null /\ cache = Null
     /\ trouble = Null /\ resumes = Null /\ checks = Null /\ limits = Null /\ record = Null /\ pc = Null
     /\ parts = Null /\ next = Null /\ ended = Null /\ retired = Null /\ why = Null /\ crashes = Null
     /\ audit = Null /\ panel = Null /\ board = Null /\ conflicts = Null /\ round = Null /\ asked = Null
     /\ replies = Null /\ outcome = Null /\ cast = Null /\ edits = Null /\ options = Null /\ groups = Null
     /\ limited = Null /\ at = Null /\ spare = Null /\ notAsked = Null /\ calls = Null /\ answers = Null
     /\ disposition = Null /\ stops = Null /\ base = Null /\ batches = Null /\ records = Null /\ tooLarge = Null
     /\ verdict = Null /\ published = Null /\ queue = Null /\ kept = Null /\ checked = Null /\ stated = Null
     /\ plan = Null /\ setup = Null /\ pending = Null /\ current = Null /\ lineage = Null /\ retiredTo = Null
     /\ applied = Null /\ sent = Null /\ store = Null /\ once = Null /\ state = Null /\ phase = Null /\ got = Null
     /\ feedback = Null /\ marks = Null /\ attempt = Null /\ turn = Null /\ history = Null /\ tools = Null
     /\ reports = Null /\ ends = Null /\ worlds = Null /\ run = Null /\ registry = Null /\ upgrades = Null
     /\ abreast = Null
  \/ /\ which = "discovery" /\ D!Init
     /\ saved = Null /\ running = Null /\ reference = Null /\ rounds = Null /\ done = Null /\ fed = Null
     /\ saves = Null /\ checks = Null /\ limits = Null /\ record = Null /\ pc = Null /\ parts = Null /\ next = Null
     /\ ended = Null /\ retired = Null /\ why = Null /\ crashes = Null /\ audit = Null /\ panel = Null
     /\ board = Null /\ conflicts = Null /\ round = Null /\ asked = Null /\ replies = Null /\ outcome = Null
     /\ cast = Null /\ edits = Null /\ options = Null /\ groups = Null /\ limited = Null /\ at = Null
     /\ spare = Null /\ notAsked = Null /\ calls = Null /\ answers = Null /\ disposition = Null /\ stops = Null
     /\ base = Null /\ batches = Null /\ records = Null /\ tooLarge = Null /\ verdict = Null /\ published = Null
     /\ queue = Null /\ kept = Null /\ checked = Null /\ stated = Null /\ plan = Null /\ setup = Null
     /\ pending = Null /\ current = Null /\ lineage = Null /\ retiredTo = Null /\ applied = Null /\ sent = Null
     /\ store = Null /\ once = Null /\ state = Null /\ phase = Null /\ got = Null /\ feedback = Null
     /\ marks = Null /\ attempt = Null /\ turn = Null /\ history = Null /\ tools = Null /\ reports = Null
     /\ ends = Null /\ worlds = Null /\ run = Null /\ registry = Null /\ upgrades = Null /\ abreast = Null
  \/ /\ which = "batches" /\ R!Init
     /\ saved = Null /\ running = Null /\ reference = Null /\ rounds = Null /\ done = Null /\ fed = Null
     /\ saves = Null /\ repository = Null /\ sites = Null /\ status = Null /\ work = Null /\ deferred = Null
     /\ separable = Null /\ broken = Null /\ examined = Null /\ gaps = Null /\ inARow = Null /\ answered = Null
     /\ windows = Null /\ pieces = Null /\ followed = Null /\ found = Null /\ notes = Null /\ cache = Null
     /\ resumes = Null /\ audit = Null /\ panel = Null /\ board = Null /\ conflicts = Null /\ round = Null
     /\ asked = Null /\ replies = Null /\ outcome = Null /\ cast = Null /\ edits = Null /\ options = Null
     /\ groups = Null /\ limited = Null /\ at = Null /\ spare = Null /\ notAsked = Null /\ calls = Null
     /\ answers = Null /\ disposition = Null /\ stops = Null /\ base = Null /\ batches = Null /\ records = Null
     /\ tooLarge = Null /\ verdict = Null /\ published = Null /\ queue = Null /\ kept = Null /\ checked = Null
     /\ stated = Null /\ plan = Null /\ setup = Null /\ pending = Null /\ current = Null /\ lineage = Null
     /\ retiredTo = Null /\ applied = Null /\ sent = Null /\ store = Null /\ once = Null /\ state = Null
     /\ phase = Null /\ got = Null /\ feedback = Null /\ marks = Null /\ attempt = Null /\ turn = Null
     /\ history = Null /\ tools = Null /\ reports = Null /\ ends = Null /\ worlds = Null /\ run = Null
     /\ registry = Null /\ upgrades = Null /\ abreast = Null
  \/ /\ which = "board" /\ B!Init
     /\ saved = Null /\ running = Null /\ reference = Null /\ rounds = Null /\ done = Null /\ fed = Null
     /\ saves = Null /\ repository = Null /\ sites = Null /\ status = Null /\ work = Null /\ flying = Null
     /\ deferred = Null /\ separable = Null /\ broken = Null /\ examined = Null /\ gaps = Null /\ inARow = Null
     /\ answered = Null /\ windows = Null /\ pieces = Null /\ followed = Null /\ found = Null /\ notes = Null
     /\ cache = Null /\ trouble = Null /\ resumes = Null /\ checks = Null /\ limits = Null /\ record = Null
     /\ parts = Null /\ next = Null /\ ended = Null /\ retired = Null /\ why = Null /\ crashes = Null
     /\ options = Null /\ groups = Null /\ limited = Null /\ at = Null /\ spare = Null /\ notAsked = Null
     /\ calls = Null /\ answers = Null /\ disposition = Null /\ stops = Null /\ base = Null /\ batches = Null
     /\ records = Null /\ tooLarge = Null /\ verdict = Null /\ published = Null /\ queue = Null /\ kept = Null
     /\ checked = Null /\ stated = Null /\ plan = Null /\ setup = Null /\ pending = Null /\ current = Null
     /\ lineage = Null /\ retiredTo = Null /\ applied = Null /\ sent = Null /\ store = Null /\ once = Null
     /\ state = Null /\ phase = Null /\ got = Null /\ feedback = Null /\ marks = Null /\ attempt = Null
     /\ turn = Null /\ history = Null /\ tools = Null /\ reports = Null /\ ends = Null /\ worlds = Null
     /\ run = Null /\ registry = Null /\ upgrades = Null /\ abreast = Null
  \/ /\ which = "verification" /\ V!Init
     /\ saved = Null /\ running = Null /\ reference = Null /\ rounds = Null /\ done = Null /\ fed = Null
     /\ saves = Null /\ repository = Null /\ sites = Null /\ work = Null /\ flying = Null /\ deferred = Null
     /\ separable = Null /\ broken = Null /\ examined = Null /\ gaps = Null /\ inARow = Null /\ answered = Null
     /\ windows = Null /\ pieces = Null /\ followed = Null /\ found = Null /\ notes = Null /\ cache = Null
     /\ resumes = Null /\ checks = Null /\ limits = Null /\ record = Null /\ pc = Null /\ parts = Null
     /\ next = Null /\ ended = Null /\ retired = Null /\ why = Null /\ crashes = Null /\ audit = Null
     /\ panel = Null /\ conflicts = Null /\ round = Null /\ asked = Null /\ replies = Null /\ outcome = Null
     /\ cast = Null /\ edits = Null /\ base = Null /\ batches = Null /\ records = Null /\ tooLarge = Null
     /\ verdict = Null /\ published = Null /\ queue = Null /\ kept = Null /\ checked = Null /\ stated = Null
     /\ plan = Null /\ setup = Null /\ pending = Null /\ current = Null /\ lineage = Null /\ retiredTo = Null
     /\ applied = Null /\ sent = Null /\ store = Null /\ once = Null /\ state = Null /\ phase = Null /\ got = Null
     /\ feedback = Null /\ marks = Null /\ attempt = Null /\ turn = Null /\ history = Null /\ tools = Null
     /\ reports = Null /\ ends = Null /\ worlds = Null /\ run = Null /\ registry = Null /\ upgrades = Null
     /\ abreast = Null
  \/ /\ which = "variants" /\ S!Init
     /\ saved = Null /\ running = Null /\ reference = Null /\ rounds = Null /\ done = Null /\ fed = Null
     /\ saves = Null /\ repository = Null /\ sites = Null /\ status = Null /\ work = Null /\ flying = Null
     /\ deferred = Null /\ separable = Null /\ broken = Null /\ examined = Null /\ gaps = Null /\ inARow = Null
     /\ answered = Null /\ windows = Null /\ pieces = Null /\ followed = Null /\ notes = Null /\ cache = Null
     /\ resumes = Null /\ checks = Null /\ limits = Null /\ record = Null /\ parts = Null /\ next = Null
     /\ ended = Null /\ retired = Null /\ why = Null /\ crashes = Null /\ audit = Null /\ panel = Null
     /\ board = Null /\ conflicts = Null /\ round = Null /\ asked = Null /\ replies = Null /\ outcome = Null
     /\ cast = Null /\ edits = Null /\ options = Null /\ groups = Null /\ limited = Null /\ at = Null
     /\ spare = Null /\ notAsked = Null /\ calls = Null /\ answers = Null /\ disposition = Null /\ stated = Null
     /\ plan = Null /\ setup = Null /\ pending = Null /\ current = Null /\ lineage = Null /\ retiredTo = Null
     /\ applied = Null /\ sent = Null /\ store = Null /\ once = Null /\ state = Null /\ phase = Null /\ got = Null
     /\ feedback = Null /\ marks = Null /\ attempt = Null /\ turn = Null /\ history = Null /\ tools = Null
     /\ reports = Null /\ ends = Null /\ worlds = Null /\ run = Null /\ registry = Null /\ upgrades = Null
     /\ abreast = Null
  \/ /\ which = "scopes" /\ W!Init
     /\ saved = Null /\ running = Null /\ reference = Null /\ rounds = Null /\ done = Null /\ fed = Null
     /\ saves = Null /\ repository = Null /\ sites = Null /\ status = Null /\ work = Null /\ flying = Null
     /\ deferred = Null /\ separable = Null /\ broken = Null /\ examined = Null /\ gaps = Null /\ inARow = Null
     /\ answered = Null /\ windows = Null /\ pieces = Null /\ followed = Null /\ found = Null /\ notes = Null
     /\ cache = Null /\ trouble = Null /\ resumes = Null /\ checks = Null /\ limits = Null /\ record = Null
     /\ pc = Null /\ parts = Null /\ next = Null /\ ended = Null /\ retired = Null /\ why = Null /\ crashes = Null
     /\ audit = Null /\ panel = Null /\ board = Null /\ conflicts = Null /\ round = Null /\ asked = Null
     /\ replies = Null /\ outcome = Null /\ cast = Null /\ edits = Null /\ options = Null /\ groups = Null
     /\ limited = Null /\ at = Null /\ spare = Null /\ notAsked = Null /\ calls = Null /\ answers = Null
     /\ disposition = Null /\ stops = Null /\ base = Null /\ batches = Null /\ records = Null /\ tooLarge = Null
     /\ published = Null /\ queue = Null /\ kept = Null /\ checked = Null /\ setup = Null /\ pending = Null
     /\ current = Null /\ lineage = Null /\ retiredTo = Null /\ applied = Null /\ sent = Null /\ store = Null
     /\ once = Null /\ state = Null /\ phase = Null /\ got = Null /\ feedback = Null /\ marks = Null
     /\ attempt = Null /\ turn = Null /\ history = Null /\ tools = Null /\ reports = Null /\ ends = Null
     /\ worlds = Null /\ run = Null /\ registry = Null /\ upgrades = Null /\ abreast = Null
  \/ /\ which = "draft" /\ L!Init
     /\ saved = Null /\ running = Null /\ reference = Null /\ rounds = Null /\ done = Null /\ fed = Null
     /\ saves = Null /\ repository = Null /\ sites = Null /\ status = Null /\ work = Null /\ deferred = Null
     /\ separable = Null /\ broken = Null /\ examined = Null /\ gaps = Null /\ inARow = Null /\ answered = Null
     /\ windows = Null /\ pieces = Null /\ followed = Null /\ found = Null /\ notes = Null /\ cache = Null
     /\ resumes = Null /\ checks = Null /\ limits = Null /\ crashes = Null /\ audit = Null /\ panel = Null
     /\ board = Null /\ conflicts = Null /\ round = Null /\ asked = Null /\ replies = Null /\ outcome = Null
     /\ cast = Null /\ edits = Null /\ options = Null /\ groups = Null /\ limited = Null /\ at = Null
     /\ spare = Null /\ notAsked = Null /\ calls = Null /\ answers = Null /\ disposition = Null /\ base = Null
     /\ batches = Null /\ records = Null /\ tooLarge = Null /\ verdict = Null /\ published = Null /\ queue = Null
     /\ kept = Null /\ checked = Null /\ stated = Null /\ pending = Null /\ current = Null /\ lineage = Null
     /\ retiredTo = Null /\ applied = Null /\ sent = Null /\ store = Null /\ once = Null /\ state = Null
     /\ phase = Null /\ got = Null /\ feedback = Null /\ marks = Null /\ attempt = Null /\ turn = Null
     /\ history = Null /\ tools = Null /\ reports = Null /\ ends = Null /\ worlds = Null /\ run = Null
     /\ registry = Null /\ upgrades = Null /\ abreast = Null
  \/ /\ which = "revision" /\ N!Init
     /\ saved = Null /\ running = Null /\ reference = Null /\ rounds = Null /\ done = Null /\ fed = Null
     /\ saves = Null /\ repository = Null /\ sites = Null /\ status = Null /\ work = Null /\ flying = Null
     /\ deferred = Null /\ separable = Null /\ broken = Null /\ examined = Null /\ gaps = Null /\ inARow = Null
     /\ answered = Null /\ windows = Null /\ pieces = Null /\ followed = Null /\ found = Null /\ notes = Null
     /\ cache = Null /\ resumes = Null /\ checks = Null /\ limits = Null /\ parts = Null /\ next = Null
     /\ retired = Null /\ crashes = Null /\ audit = Null /\ panel = Null /\ board = Null /\ conflicts = Null
     /\ asked = Null /\ replies = Null /\ cast = Null /\ edits = Null /\ options = Null /\ groups = Null
     /\ limited = Null /\ at = Null /\ spare = Null /\ notAsked = Null /\ calls = Null /\ answers = Null
     /\ disposition = Null /\ batches = Null /\ records = Null /\ tooLarge = Null /\ verdict = Null
     /\ published = Null /\ queue = Null /\ kept = Null /\ checked = Null /\ stated = Null /\ plan = Null
     /\ store = Null /\ once = Null /\ state = Null /\ phase = Null /\ got = Null /\ feedback = Null
     /\ marks = Null /\ attempt = Null /\ turn = Null /\ history = Null /\ tools = Null /\ reports = Null
     /\ ends = Null /\ worlds = Null /\ run = Null /\ registry = Null /\ upgrades = Null /\ abreast = Null
  \/ /\ which = "review" /\ K!Init
     /\ saved = Null /\ running = Null /\ reference = Null /\ rounds = Null /\ fed = Null /\ saves = Null
     /\ repository = Null /\ sites = Null /\ status = Null /\ work = Null /\ flying = Null /\ deferred = Null
     /\ separable = Null /\ broken = Null /\ examined = Null /\ gaps = Null /\ inARow = Null /\ answered = Null
     /\ windows = Null /\ pieces = Null /\ followed = Null /\ found = Null /\ notes = Null /\ cache = Null
     /\ resumes = Null /\ checks = Null /\ limits = Null /\ parts = Null /\ next = Null /\ ended = Null
     /\ retired = Null /\ crashes = Null /\ audit = Null /\ panel = Null /\ board = Null /\ conflicts = Null
     /\ round = Null /\ asked = Null /\ replies = Null /\ outcome = Null /\ cast = Null /\ edits = Null
     /\ options = Null /\ groups = Null /\ limited = Null /\ at = Null /\ spare = Null /\ notAsked = Null
     /\ calls = Null /\ answers = Null /\ disposition = Null /\ base = Null /\ batches = Null /\ records = Null
     /\ tooLarge = Null /\ verdict = Null /\ published = Null /\ queue = Null /\ kept = Null /\ checked = Null
     /\ stated = Null /\ plan = Null /\ pending = Null /\ lineage = Null /\ retiredTo = Null /\ applied = Null
     /\ sent = Null /\ marks = Null /\ attempt = Null /\ turn = Null /\ history = Null /\ tools = Null
     /\ reports = Null /\ ends = Null /\ worlds = Null /\ run = Null /\ registry = Null /\ upgrades = Null
     /\ abreast = Null
  \/ /\ which = "loop" /\ T!Init
     /\ saved = Null /\ running = Null /\ reference = Null /\ rounds = Null /\ done = Null /\ fed = Null
     /\ saves = Null /\ repository = Null /\ sites = Null /\ status = Null /\ work = Null /\ flying = Null
     /\ deferred = Null /\ separable = Null /\ broken = Null /\ examined = Null /\ gaps = Null /\ inARow = Null
     /\ answered = Null /\ windows = Null /\ pieces = Null /\ followed = Null /\ found = Null /\ notes = Null
     /\ cache = Null /\ resumes = Null /\ checks = Null /\ limits = Null /\ record = Null /\ parts = Null
     /\ next = Null /\ ended = Null /\ retired = Null /\ crashes = Null /\ audit = Null /\ panel = Null
     /\ board = Null /\ conflicts = Null /\ round = Null /\ asked = Null /\ replies = Null /\ outcome = Null
     /\ cast = Null /\ edits = Null /\ options = Null /\ groups = Null /\ limited = Null /\ at = Null
     /\ spare = Null /\ notAsked = Null /\ calls = Null /\ answers = Null /\ disposition = Null /\ base = Null
     /\ batches = Null /\ tooLarge = Null /\ verdict = Null /\ published = Null /\ queue = Null /\ kept = Null
     /\ checked = Null /\ stated = Null /\ plan = Null /\ pending = Null /\ current = Null /\ lineage = Null
     /\ retiredTo = Null /\ applied = Null /\ sent = Null /\ store = Null /\ once = Null /\ state = Null
     /\ phase = Null /\ got = Null /\ feedback = Null /\ worlds = Null /\ run = Null /\ registry = Null
     /\ upgrades = Null /\ abreast = Null
  \/ /\ which = "incremental" /\ I!Init
     /\ saved = Null /\ running = Null /\ reference = Null /\ rounds = Null /\ done = Null /\ fed = Null
     /\ saves = Null /\ repository = Null /\ sites = Null /\ status = Null /\ work = Null /\ flying = Null
     /\ deferred = Null /\ separable = Null /\ broken = Null /\ examined = Null /\ gaps = Null /\ inARow = Null
     /\ answered = Null /\ windows = Null /\ pieces = Null /\ followed = Null /\ found = Null /\ notes = Null
     /\ cache = Null /\ trouble = Null /\ resumes = Null /\ checks = Null /\ limits = Null /\ record = Null
     /\ pc = Null /\ parts = Null /\ next = Null /\ ended = Null /\ retired = Null /\ why = Null /\ crashes = Null
     /\ audit = Null /\ panel = Null /\ board = Null /\ conflicts = Null /\ round = Null /\ asked = Null
     /\ replies = Null /\ outcome = Null /\ cast = Null /\ edits = Null /\ options = Null /\ groups = Null
     /\ limited = Null /\ spare = Null /\ notAsked = Null /\ calls = Null /\ answers = Null /\ disposition = Null
     /\ base = Null /\ batches = Null /\ records = Null /\ tooLarge = Null /\ verdict = Null /\ published = Null
     /\ queue = Null /\ kept = Null /\ checked = Null /\ stated = Null /\ plan = Null /\ setup = Null
     /\ pending = Null /\ current = Null /\ lineage = Null /\ retiredTo = Null /\ applied = Null /\ sent = Null
     /\ store = Null /\ once = Null /\ state = Null /\ phase = Null /\ got = Null /\ feedback = Null
     /\ marks = Null /\ attempt = Null /\ turn = Null /\ history = Null /\ tools = Null /\ reports = Null
     /\ ends = Null

Next ==
  \/ which = "graphs" /\ G!Next /\ UNCHANGED <<which, NotG>>
  \/ which = "discovery" /\ D!Next /\ UNCHANGED <<which, NotD>>
  \/ which = "batches" /\ R!Next /\ UNCHANGED <<which, NotR>>
  \/ which = "board" /\ B!Next /\ UNCHANGED <<which, NotB>>
  \/ which = "verification" /\ V!Next /\ UNCHANGED <<which, NotV>>
  \/ which = "variants" /\ S!Next /\ UNCHANGED <<which, NotS>>
  \/ which = "scopes" /\ W!Next /\ UNCHANGED <<which, NotW>>
  \/ which = "draft" /\ L!Next /\ UNCHANGED <<which, NotL>>
  \/ which = "revision" /\ N!Next /\ UNCHANGED <<which, NotN>>
  \/ which = "review" /\ K!Next /\ UNCHANGED <<which, NotK>>
  \/ which = "loop" /\ T!Next /\ UNCHANGED <<which, NotT>>
  \/ which = "incremental" /\ I!Next /\ UNCHANGED <<which, NotI>>

Spec == Init /\ [][Next]_vars

(* The properties of the modules. *)
ReuseSound == which = "incremental" => I!ReuseSound
StagesFed == which = "graphs" => G!StagesFed
DiscoveryComplete == which = "discovery" => D!DiscoveryComplete
ReviewedOnce == which = "batches" => R!ReviewedOnce
PanelSound == which = "board" => B!PanelSound
VerifiedForReason == which = "verification" => V!VerifiedForReason
VariantsJoinOnce == which = "variants" => S!VariantsJoinOnce
WritesOrdered == which = "scopes" => W!WritesOrdered
DraftComplete == which = "draft" => L!DraftComplete
RevisionSound == which = "revision" => N!RevisionSound
PlanReviewed == which = "review" => K!PlanReviewed
ToolLoopSound == which = "loop" => T!ToolLoopSound
=============================================================================
