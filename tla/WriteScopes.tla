---------------------------- MODULE WriteScopes ----------------------------
(***************************************************************************)
(* How a plan's tasks that write the same files come to be ordered: an     *)
(* order stated in one of the plan's two places is added to the other, two *)
(* write scopes (paths, folders and globs, less the files not to touch)    *)
(* are compared for a common file, and what the plan leaves unordered is   *)
(* put in a chain; the plan is then validated.                             *)
(*                                                                         *)
(* A path is a sequence of segments, a segment a sequence of characters.   *)
(* The character "[" stands for a class of characters, "{" for a group of  *)
(* alternatives; Alternatives and Class say which. Task ids are numbers.   *)
(***************************************************************************)
EXTENDS Naturals, Sequences, FiniteSets, SequencesExt

CONSTANTS
  Plans,          \* the plans as a model states them
  Paths,          \* the files of the repository
  Alternatives,   \* what the brace group stands for: a set of sequences of characters
  Class,          \* the characters of the character class
  BraceLimit,     \* how many alternatives an entry is expanded to
  Null

VARIABLES stated, plan, verdict

vars == <<stated, plan, verdict>>

Deep == <<"**">>
Lower(character) == IF character = "A" THEN "a" ELSE character

\* scopeKey: no leading "./", no trailing "/**" or "/", lower case; "." is the whole repository.
ScopeKey(path) ==
  LET local == IF Len(path) > 1 /\ path[1] = <<".">> THEN Tail(path) ELSE path
      folder == IF Len(local) > 1 /\ Last(local) = Deep THEN Front(local) ELSE local
      kept == {n \in DOMAIN folder : folder[n] # <<>>}
      named == SubSeq(folder, 1, CHOOSE n \in kept \union {0} : \A k \in kept : k <= n)
  IN  IF named \in {<<>>, << <<".">> >>} THEN <<Deep>>
      ELSE [i \in DOMAIN named |-> [j \in DOMAIN named[i] |-> Lower(named[i][j])]]

IsGlob(entry) == \E i \in DOMAIN entry : \E c \in ToSet(entry[i]) : c \in {"*", "**", "?", "[", "{"}

HasExtension(entry) ==
  LET name == Last(entry)
  IN  \E i \in 2..(Len(name) - 1) : name[i] = "." /\ \A j \in (i + 1)..Len(name) : name[j] # "."

ScopeSegments(entry) ==
  (IF Len(entry) = 1 THEN <<Deep>> ELSE <<>>) \o entry \o (IF HasExtension(entry) THEN <<>> ELSE <<Deep>>)

\* An entry's first brace group in turn replaced; past the limit by "*", or the entry is left out.
RECURSIVE ExpandBraces(_, _, _)
ExpandBraces(entry, limit, widen) ==
  LET braced == {i \in DOMAIN entry : "{" \in ToSet(entry[i])}
      at == CHOOSE i \in braced : \A k \in braced : i <= k
      group == CHOOSE j \in DOMAIN entry[at] : entry[at][j] = "{" /\ \A k \in 1..(j - 1) : entry[at][k] # "{"
      Put(text) == [entry EXCEPT ![at] = SubSeq(@, 1, group - 1) \o text \o SubSeq(@, group + 1, Len(@))]
  IN  IF braced = {} THEN {entry}
      ELSE IF Cardinality(Alternatives) > limit THEN IF widen THEN ExpandBraces(Put(<<"*">>), limit, TRUE) ELSE {}
      ELSE UNION {ExpandBraces(Put(text), limit \div Cardinality(Alternatives), widen) : text \in Alternatives}

\* segmentMeet: whether two segments can match one name; a class is read as any character.
RECURSIVE SegmentMeet(_, _)
SegmentMeet(a, b) ==
  IF a = <<>> /\ b = <<>> THEN TRUE
  ELSE IF a # <<>> /\ a[1] = "*" THEN SegmentMeet(Tail(a), b) \/ (b # <<>> /\ SegmentMeet(a, Tail(b)))
  ELSE IF b # <<>> /\ b[1] = "*" THEN SegmentMeet(a, Tail(b)) \/ (a # <<>> /\ SegmentMeet(Tail(a), b))
  ELSE /\ a # <<>> /\ b # <<>> /\ SegmentMeet(Tail(a), Tail(b))
       /\ a[1] = b[1] \/ {a[1], b[1]} \intersect {"?", "["} # {}

\* Mutant of SegmentsMeet: a "**" is one segment.
RECURSIVE SegmentsMeetOne(_, _)
SegmentsMeetOne(left, right) ==
  IF left = <<>> /\ right = <<>> THEN TRUE
  ELSE /\ left # <<>> /\ right # <<>> /\ SegmentsMeetOne(Tail(left), Tail(right))
       /\ Deep \in {left[1], right[1]} \/ SegmentMeet(left[1], right[1])

RECURSIVE SegmentsMeet(_, _)
SegmentsMeet(left, right) ==
  IF left = <<>> /\ right = <<>> THEN TRUE
  ELSE IF left # <<>> /\ left[1] = Deep THEN SegmentsMeet(Tail(left), right) \/ (right # <<>> /\ SegmentsMeet(left, Tail(right)))
  ELSE IF right # <<>> /\ right[1] = Deep THEN SegmentsMeet(left, Tail(right)) \/ (left # <<>> /\ SegmentsMeet(Tail(left), right))
  ELSE left # <<>> /\ right # <<>> /\ SegmentMeet(left[1], right[1]) /\ SegmentsMeet(Tail(left), Tail(right))

\* covers: whether two entries can name a common file.
Covers(a, b) ==
  \/ a = b
  \/ ~IsGlob(a) /\ ~IsGlob(b) /\ (IsPrefix(a, b) \/ IsPrefix(b, a))
  \/ /\ IsGlob(a) \/ IsGlob(b)
     /\ \E left \in ExpandBraces(a, BraceLimit, TRUE), right \in ExpandBraces(b, BraceLimit, TRUE) :
          SegmentsMeet(ScopeSegments(left), ScopeSegments(right))

SegmentWithin(inner, outer) ==
  \/ inner = outer \/ outer = <<"*">>
  \/ ToSet(inner) \intersect {"*", "**", "?", "["} = {} /\ "[" \notin ToSet(outer) /\ SegmentMeet(inner, outer)

RECURSIVE SegmentsWithin(_, _)
SegmentsWithin(inner, outer) ==
  IF outer # <<>> /\ outer[1] = Deep
  THEN SegmentsWithin(inner, Tail(outer)) \/ (inner # <<>> /\ SegmentsWithin(Tail(inner), outer))
  ELSE IF inner = <<>> \/ outer = <<>> THEN inner = outer
  ELSE inner[1] # Deep /\ SegmentWithin(inner[1], outer[1]) /\ SegmentsWithin(Tail(inner), Tail(outer))

\* within: every file of inner is one of outer, for sure; a plain entry is anchored at the root.
Anchored(entry) ==
  IF IsGlob(entry) THEN ScopeSegments(entry) ELSE entry \o IF HasExtension(entry) THEN <<>> ELSE <<Deep>>
Within(inner, outer) ==
  \A one \in ExpandBraces(inner, BraceLimit, TRUE) :
    \E other \in ExpandBraces(outer, BraceLimit, FALSE) : SegmentsWithin(Anchored(one), Anchored(other))

----------------------------------------------------------------------------
(* A plan: its mode, its tasks by id, and its task graph.                   *)
Excluded(task) == {ScopeKey(path) : path \in task.filesNotToTouch}
WriteScope(task) ==
  {key \in {ScopeKey(path) : path \in task.likelyFiles} : \A exclusion \in Excluded(task) : ~Within(key, exclusion)}

SharedWrites(first, second) ==
  {path \in WriteScope(first) :
     \E other \in WriteScope(second) :
       /\ Covers(path, other)
       /\ \A exclusion \in Excluded(first) \union Excluded(second) : ~Within(path, exclusion) /\ ~Within(other, exclusion)}

Meet(first, second) == SharedWrites(first, second) # {}

INSTANCE TaskOrder WITH Shared <- Meet

----------------------------------------------------------------------------
Init == stated \in Plans /\ plan = Null /\ verdict = Null

Order ==
  /\ plan = Null
  /\ plan' = WithSharedWritesOrdered(stated)
  /\ UNCHANGED <<stated, verdict>>

Validate ==
  /\ plan # Null /\ verdict = Null
  /\ verdict' = IF ValidTaskGraph(plan) THEN "valid" ELSE "refused"
  /\ UNCHANGED <<stated, plan>>

Next == Order \/ Validate
Spec == Init /\ [][Next]_vars

----------------------------------------------------------------------------
(* The files an entry names, by matching each file against it.              *)
RECURSIVE NameMatches(_, _)
NameMatches(name, pattern) ==
  IF pattern = <<>> THEN name = <<>>
  ELSE IF pattern[1] = "*" THEN NameMatches(name, Tail(pattern)) \/ (name # <<>> /\ NameMatches(Tail(name), pattern))
  ELSE /\ name # <<>> /\ NameMatches(Tail(name), Tail(pattern))
       /\ pattern[1] = "?" \/ name[1] = pattern[1] \/ (pattern[1] = "[" /\ name[1] \in Class)

RECURSIVE PathMatches(_, _)
PathMatches(path, pattern) ==
  IF pattern = <<>> THEN path = <<>>
  ELSE IF pattern[1] = Deep THEN PathMatches(path, Tail(pattern)) \/ (path # <<>> /\ PathMatches(Tail(path), pattern))
  ELSE path # <<>> /\ NameMatches(path[1], pattern[1]) /\ PathMatches(Tail(path), Tail(pattern))

FilesOf(entries) ==
  {path \in Paths : \E entry \in entries : \E one \in ExpandBraces(ScopeKey(entry), 1000, TRUE) :
     PathMatches(path, IF IsGlob(ScopeKey(entry)) THEN ScopeSegments(one) ELSE Anchored(one))}

Writes(task) == FilesOf(task.likelyFiles) \ FilesOf(task.filesNotToTouch)

(* In a plan that passes validation, any two tasks that write a common file, by   *)
(* the files their globs really match, are ordered by a path of dependencies, so  *)
(* no edit is made on top of a stale copy; ordering loses no order the planner    *)
(* stated, invents none against it, and never turns a sound plan into one that is *)
(* refused (traceability.ts withSharedWritesOrdered, covers, within).              *)
WritesOrdered ==
  plan # Null =>
    LET before == DependencyEdges(stated)
        after == DependencyEdges(plan)
    IN  /\ before \subseteq after
        /\ Acyclic(before) => Acyclic(after)
        /\ (verdict = "valid" /\ plan.mode # "testing") =>
             \A first \in DOMAIN plan.tasks, second \in DOMAIN plan.tasks :
               first # second /\ Writes(plan.tasks[first]) \intersect Writes(plan.tasks[second]) # {}
                 => Reaches(after, first, second) \/ Reaches(after, second, first)
        /\ verdict = "refused" =>
             \/ ~Acyclic(before)
             \/ \E edge \in Declared(stated.tasks) \union stated.graph : ~Known(stated.tasks, edge)
             \/ \E t \in DOMAIN stated.tasks : ~(stated.tasks[t].conflictsWith \subseteq DOMAIN stated.tasks \ {t})
=============================================================================
