--------------------------- MODULE AuthoredGraphs ---------------------------
(***************************************************************************)
(* Workflow graphs an operator writes: validated, saved as versions that   *)
(* never change, resolved and validated again when a run starts, changed   *)
(* by the critic and variant-search switches (presets only), and walked by *)
(* the runner.  An audit's stages hand over through named artifacts, so    *)
(* the validator has to order them as those artifacts flow.                *)
(*                                                                         *)
(* A version is the graph it is the hash of.  Shapes and messages are left *)
(* out; a model role is bound or not.                                      *)
(***************************************************************************)
EXTENDS Naturals, FiniteSets

CONSTANTS
  Graphs,      \* graphs proposed: nodes with a kind, edges, a loop bound, privileged marks
  Presets,     \* graphs that are shipped
  Auditors, Categories,
  MaxSaves,    \* bound: saves
  Null

MaximumLoopIterations == 3

VARIABLES
  saved,       \* version records: the graph and the authorizations recorded with it
  running,     \* the graph of the run, or Null
  reference,   \* the version a run of a saved graph was started from, or Null
  rounds,      \* the consensus rounds the run allows
  done, fed,   \* nodes completed; history: nodes that found what they read
  saves

vars == <<saved, running, reference, rounds, done, fed, saves>>

Init ==
  /\ saved = {} /\ running = Null /\ reference = Null /\ rounds = 0
  /\ done = {} /\ fed = {} /\ saves = 0

----------------------------------------------------------------------------
(* Validation.                                                              *)

Entry == "preflight"
Of(g, kind) == {n \in DOMAIN g.kind : g.kind[n] = kind}
AuditorsOf(g) == Of(g, "model") \intersect Auditors

\* ancestorsOf: the nodes from which a path leads to n.
Before(g, nodes) == {e[1] : e \in {x \in g.edges : x[2] \in nodes}}
Ancestors(g, n) ==
  LET up[k \in Nat] == IF k = 0 THEN Before(g, {n})
                       ELSE LET u == up[k - 1] IN u \union Before(g, u)
  IN  up[Cardinality(DOMAIN g.kind)]

\* validateGraphStructure: acyclic, all of it reachable, nothing before the entry.
Structure(g) ==
  /\ \A n \in DOMAIN g.kind : n \notin Ancestors(g, n) /\ <<n, Entry>> \notin g.edges
  /\ \A n \in DOMAIN g.kind \ {Entry} : Entry \in Ancestors(g, n)
  /\ g.maximum <= MaximumLoopIterations

\* Mutant of AuditorsFirst: an edge from one auditor to the consensus is enough.
AnyAuditorFirst(g, loop) == \E a \in AuditorsOf(g) : a \in Ancestors(g, loop)
AuditorsFirst(g, loop) == \A a \in AuditorsOf(g) : a \in Ancestors(g, loop)

\* auditDispatchContract: every auditor before the one loop, verification after it,
\* then the planner, then the critic.
DispatchContract(g) ==
  /\ g.kind[Entry] = "deterministic" /\ Of(g, "deterministic") = {Entry}
  /\ Of(g, "model") \subseteq Auditors \union {"planner", "critic"} /\ AuditorsOf(g) # {}
  /\ \E loop \in Of(g, "loop"), ver \in Of(g, "subgraph") :
       /\ Of(g, "loop") = {loop} /\ Of(g, "subgraph") = {ver}
       /\ AuditorsFirst(g, loop)
       /\ loop \in Ancestors(g, ver)
       /\ "planner" \in Of(g, "model") => ver \in Ancestors(g, "planner")
       /\ "critic" \in Of(g, "model") => "planner" \in Of(g, "model") /\ "planner" \in Ancestors(g, "critic")

\* A privileged change needs its category authorized.
Valid(g, authorized) == Structure(g) /\ DispatchContract(g) /\ g.privileged \subseteq authorized

\* Model roles are checked when there is a configuration to check them against.
Roles(g, bound) == Of(g, "model") \subseteq bound

----------------------------------------------------------------------------
(* saveWorkflowGraph and WorkflowGraphStore.save: one record per version,   *)
(* with what was needed of the authorizations, under a parent that exists.  *)

Save(g, authorized, parent) ==
  /\ saves < MaxSaves /\ saves' = saves + 1
  /\ Valid(g, authorized)
  /\ parent # Null => \E r \in saved : r.graph = parent
  /\ saved' = IF \E r \in saved : r.graph = g THEN saved
              ELSE saved \union {[graph |-> g, authorized |-> authorized \intersect g.privileged, parent |-> parent]}
  /\ UNCHANGED <<running, reference, rounds, done, fed>>

----------------------------------------------------------------------------
(* Starting a run.                                                          *)

MinOf(m, n) == IF m <= n THEN m ELSE n

\* The loop's own maximum caps the configured rounds.
BoundedRounds(g, configured) == IF Of(g, "loop") = {} THEN configured ELSE MinOf(configured, g.maximum)

StartSaved(bound, configured) ==
  /\ running = Null
  /\ \E r \in saved :
       /\ Valid(r.graph, r.authorized) /\ Roles(r.graph, bound)
       /\ running' = r.graph /\ reference' = r.graph
       /\ rounds' = BoundedRounds(r.graph, configured)
  /\ UNCHANGED <<saved, done, fed, saves>>

\* withCritic: the critic follows the graph's planner, or goes with its edges.
WithCritic(g, enabled) ==
  IF ("critic" \in DOMAIN g.kind) = enabled THEN g
  ELSE IF enabled
  THEN [g EXCEPT !.kind = [n \in DOMAIN g.kind \union {"critic"} |-> IF n = "critic" THEN "model" ELSE g.kind[n]],
                 !.edges = @ \union {<<"planner", "critic">>}]
  ELSE [g EXCEPT !.kind = [n \in DOMAIN g.kind \ {"critic"} |-> g.kind[n]],
                 !.edges = {e \in @ : e[1] # "critic" /\ e[2] # "critic"}]

\* withVariantSearch: between the verification and the planner.
WithVariantSearch(g, enabled) ==
  IF ~enabled THEN g
  ELSE [g EXCEPT !.kind = [n \in DOMAIN g.kind \union {"variant-search"} |->
                             IF n = "variant-search" THEN "model" ELSE g.kind[n]],
                 !.edges = (@ \ {<<"verification", "planner">>})
                           \union {<<"verification", "variant-search">>, <<"variant-search", "planner">>}]

StartPreset(critic, variants, configured) ==
  /\ running = Null
  /\ \E g \in Presets : running' = WithVariantSearch(WithCritic(g, critic), variants)
  /\ rounds' = configured
  /\ UNCHANGED <<saved, reference, done, fed, saves>>

----------------------------------------------------------------------------
(* The runner: a node is dispatched when all before it are done, several    *)
(* at a time.  What a stage reads is what earlier stages published.         *)

Reads(g, n) ==
  CASE n = Entry -> {}
    [] n \in Auditors -> {Entry}
    [] g.kind[n] = "loop" -> AuditorsOf(g)
    [] g.kind[n] = "subgraph" -> Of(g, "loop")
    [] n = "variant-search" -> Of(g, "subgraph")
    [] n = "planner" -> Of(g, "subgraph")
                        \union ({"variant-search"} \intersect DOMAIN g.kind)
    [] n = "critic" -> {"planner"} \union Of(g, "subgraph")
    [] OTHER -> {}

Ready(n) == n \notin done /\ \A e \in running.edges : e[2] = n => e[1] \in done

Complete(n) ==
  /\ running # Null /\ n \in DOMAIN running.kind
  /\ Ready(n)
  /\ done' = done \union {n}
  /\ fed' = IF Reads(running, n) \subseteq done THEN fed \union {n} ELSE fed
  /\ UNCHANGED <<saved, running, reference, rounds, saves>>

\* The run is over; the graphs stay.
End ==
  /\ running # Null /\ done = DOMAIN running.kind
  /\ running' = Null /\ reference' = Null /\ rounds' = 0 /\ done' = {} /\ fed' = {}
  /\ UNCHANGED <<saved, saves>>

Roleset == Auditors \union {"planner", "critic"}

Next ==
  \/ \E g \in Graphs, authorized \in SUBSET Categories : Save(g, authorized, Null)
  \/ \E g \in Graphs, r \in saved : Save(g, Categories, r.graph)
  \/ \E bound \in {Roleset, Roleset \ {"critic"}}, n \in 0..3 : StartSaved(bound, n)
  \/ \E critic, variants \in BOOLEAN : StartPreset(critic, variants, 3)
  \/ \E n \in Roleset \union {Entry, "consensus", "verification", "variant-search", "human"} : Complete(n)
  \/ End

Spec == Init /\ [][Next]_vars

----------------------------------------------------------------------------
\* authored-graphs.ts, graphs.ts: whatever graph was accepted or switched together,
\* and in whatever order its ready nodes finish, no stage starts before what it
\* reads was published, the run never stands still before its last node, and
\* nothing privileged runs that its version was not saved with.
StagesFed ==
  /\ done = fed
  /\ running # Null /\ done # DOMAIN running.kind => \E n \in DOMAIN running.kind : Ready(n)
  /\ reference # Null => \E r \in saved : r.graph = reference /\ running.privileged \subseteq r.authorized
  /\ \A r \in saved : r.parent # Null => \E s \in saved : s.graph = r.parent
=============================================================================
