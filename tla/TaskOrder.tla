----------------------------- MODULE TaskOrder -----------------------------
(***************************************************************************)
(* The order of a plan's tasks. It is stated in two places, the tasks and  *)
(* the task graph; what one of them states is added to the other, tasks    *)
(* that write the same files and have no order are put in a chain, and the *)
(* result is validated. Task ids are numbers.                              *)
(***************************************************************************)
EXTENDS Naturals, FiniteSets

CONSTANT Shared(_, _)   \* whether two tasks may write the same file

Declared(tasks) ==
  UNION {{<<from, t>> : from \in tasks[t].dependsOn} \union {<<t, to>> : to \in tasks[t].blocks} : t \in DOMAIN tasks}

RECURSIVE Reach(_, _)
Reach(edges, ids) ==
  LET more == {edge[2] : edge \in {e \in edges : e[1] \in ids}} IN IF more \subseteq ids THEN ids ELSE Reach(edges, ids \union more)
Reaches(edges, from, to) == to \in Reach(edges, {edge[2] : edge \in {e \in edges : e[1] = from}})
Related(edges, one, other) == Reaches(edges, one, other) \/ Reaches(edges, other, one)

Known(tasks, edge) == edge[1] # edge[2] /\ {edge[1], edge[2]} \subseteq DOMAIN tasks

\* Every edge's later task waits for the earlier one.
WithEdges(tasks, edges) ==
  [t \in DOMAIN tasks |-> [tasks[t] EXCEPT !.dependsOn = @ \union {edge[1] : edge \in {e \in edges : e[2] = t}}]]

Matching(p, declared) ==
  [p EXCEPT !.tasks = WithEdges(@, {edge \in p.graph \ declared : Known(p.tasks, edge)}),
            !.graph = @ \union {edge \in declared : Known(p.tasks, edge)}]

\* withGraphMatchingDependencies
WithGraphMatchingDependencies(p) == Matching(p, Declared(p.tasks))

DependencyEdges(p) == {edge \in Declared(p.tasks) \union p.graph : Known(p.tasks, edge)}

\* The edges of a chain of the tasks that write the same files: to each task from its earlier writers, the nearest first.
AddedTo(p, edges) ==
  LET from[first \in Nat, second \in Nat, more \in SUBSET (Nat \X Nat)] ==
        IF second \notin DOMAIN p.tasks THEN IF \A t \in DOMAIN p.tasks : t < second THEN more ELSE from[second, second + 1, more]
        ELSE IF first = 0 THEN from[second, second + 1, more]
        ELSE from[first - 1, second,
                  IF /\ first \in DOMAIN p.tasks /\ Shared(p.tasks[first], p.tasks[second])
                     /\ ~Related(edges \union more, first, second)
                  THEN more \union {<<first, second>>} ELSE more]
  IN  from[0, 1, {}]

Extended(p, added) == [p EXCEPT !.tasks = WithEdges(@, added), !.graph = @ \union added]
Chained(p) == Extended(p, AddedTo(p, DependencyEdges(p)))
WithSharedWritesOrdered(p) ==
  IF p.mode = "testing" THEN WithGraphMatchingDependencies(p) ELSE Chained(WithGraphMatchingDependencies(p))

Acyclic(edges) == \A edge \in edges : ~Reaches(edges, edge[2], edge[1]) /\ edge[1] # edge[2]

\* validateTaskGraph with validateSharedWriteOrder
ValidOrder(p, declared) ==
  /\ \A edge \in declared : Known(p.tasks, edge)
  /\ declared = p.graph
  /\ \A t \in DOMAIN p.tasks : p.tasks[t].conflictsWith \subseteq DOMAIN p.tasks \ {t}
  /\ Acyclic(declared)
  /\ p.mode # "testing" => \A first \in DOMAIN p.tasks, second \in DOMAIN p.tasks :
       first < second /\ Shared(p.tasks[first], p.tasks[second]) => Related(declared, first, second)

ValidTaskGraph(p) == ValidOrder(p, Declared(p.tasks))
=============================================================================
