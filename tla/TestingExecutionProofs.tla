---------------------- MODULE TestingExecutionProofs -----------------------
(***************************************************************************)
(* The executor of a Testing plan keeps its evidence: what it hands off    *)
(* passed its final checks on the very bytes it delivers, its journal      *)
(* explains its worktree, writers that work side by side stay out of each  *)
(* other's way, and every repair rests on a failed check.  For every plan, *)
(* every answer of the writers and the checks, any number of attempts,     *)
(* rounds and retries, and wherever the executor stops.                    *)
(***************************************************************************)
EXTENDS TestingExecution, SequenceTheorems, FiniteSetTheorems, WellFoundedInduction, TLAPS

----------------------------------------------------------------------------
(* What the executor keeps.                                                *)

Files == [File -> Content]
Updates == {<<>>} \union (UNION {[S -> Content] : S \in SUBSET File})
WriteOf == [op: Task \X Nat \X File, before: Content, after: Content,
            state: {"reserved", "completed", "interrupted", "unrecorded"}]
AttemptOf == [state: {"reserved", "verified"}, result: {"none", "passed", "failed", "incomplete"},
              halted: BOOLEAN, invalidated: (Nat \X Files) \union {Null}]
RunOf == [state: {"none", "pinned", "dispatched", "collected", "finished"}, base: Files \union {Null},
          updates: Updates, limit: {"none", "limited", "conflict"}]
ExecOf == [state: {"reserved", "prepared", "completed", "interrupted"},
           result: {"none", "passed", "failed", "unavailable"}]
RoundOf == [snapshot: Files, reopened: [Task -> Nat], state: {"reopening", "reopened"}]
Under == [task: Task, file: File, renamed: BOOLEAN]

\* The places of the executor: those of a worktree that is open, and the others.
Opened == {"pass", "batch", "reserve", "write", "verify", "final", "decide", "handoff"}
Places == Opened \union
  {"off", "recover", "prepare", "create", "cleanup", "close", "delete", "done", "failed", "skipped"}

WorkOf == [state: {"none", "reserved", "prepared", "ready", "closed"}, journal: Seq(WriteOf), tree: Files \union {Null}]
RepairOf == [rounds: Seq(RoundOf), terminal: Files \union {Null}]
DoneOf == [gate: {"none", "passed", "no_selected_gaps", "planning_failed"}, outcome: {"none", "passed", "failed"},
           completion: Files \union {Null}]
Memory == [pc: Places, batch: DOMAIN Schedule, todo: SUBSET Task, busy: SUBSET Task, native: SUBSET Task,
           writing: Under \union {Null}, handoff: BOOLEAN]

ExecutorTyped ==
  /\ work \in WorkOf /\ ledger \in [Task -> Seq(AttemptOf)] /\ run \in [Task -> RunOf]
  /\ execs \in [DOMAIN execs -> ExecOf] /\ repair \in RepairOf /\ done \in DoneOf
  /\ m \in Memory /\ spent \in [Task -> Nat]

Whole(j) == Replayed(j)[Len(j)]
Unended(j) == j # <<>> /\ j[Len(j)].state = "reserved"
With(files, f, x) == [files EXCEPT ![f] = x]

\* Every write found what it says, and the bytes are those of the writes, or of the last one also.
Journaled(j, files) ==
  /\ \A n \in 1..Len(j) : Replayed(j)[n - 1][j[n].op[3]] = j[n].before /\ (j[n].state = "reserved" => n = Len(j))
  /\ IF Unended(j) THEN files \in {Whole(j), With(Whole(j), j[Len(j)].op[3], j[Len(j)].after)} ELSE files = Whole(j)

\* The worktree is that of its record, none yet or its journal's, where the executor needs it.
TreeKept ==
  /\ work.state \in {"none", "reserved", "prepared"} => work.journal = <<>> /\ work.tree \in {Null, Baseline}
  /\ work.state = "ready" => work.tree \in Files /\ Journaled(work.journal, work.tree)
PlacesKept ==
  /\ m.pc \in Opened \union {"close"} => work.state = "ready"
  /\ m.pc = "create" => work.state \in {"reserved", "prepared"}
  /\ m.pc = "delete" => work.state = "closed"
WorktreeKept == TreeKept /\ PlacesKept

\* The write under way is the last one of the journal, and in the tree once it was renamed.
WriteUnderWay ==
  /\ m.writing # Null =>
       /\ m.pc = "write" /\ m.writing.task \in m.busy /\ run[m.writing.task].state = "collected"
       /\ m.writing.file \in DOMAIN run[m.writing.task].updates
       /\ Unended(work.journal)
       /\ LET w == work.journal[Len(work.journal)] IN
          /\ w.op[3] = m.writing.file /\ w.after = run[m.writing.task].updates[m.writing.file]
          /\ work.tree = IF m.writing.renamed THEN With(Whole(work.journal), w.op[3], w.after) ELSE Whole(work.journal)
  /\ m.writing = Null /\ m.pc \in Opened => ~Unended(work.journal)

\* What a writer was given are files.
RunsSound == \A t \in Task : run[t].state # "none" => run[t].base \in Files

BatchAlone ==
  /\ m.pc = "reserve" => m.todo \subseteq Schedule[m.batch]
  /\ m.pc \in {"reserve", "write"} => m.busy \subseteq Schedule[m.batch] /\ \A t \in m.busy : ledger[t] # <<>>
  /\ m.pc \notin {"reserve", "write"} => m.busy = {}

LaunchesCounted ==
  \A t \in Task :
    /\ spent[t] <= Len(ledger[t])
    /\ run[t].state \in {"none", "pinned"} /\ ledger[t] # <<>> => spent[t] < Len(ledger[t])

ChecksEnded ==
  /\ live \subseteq Unfinished
  /\ m.pc \notin {"off", "recover", "cleanup", "verify", "final", "skipped"} => Unfinished = {}
  /\ m.pc \in {"verify", "final"} =>
       \A c \in Unfinished : m.todo # {} /\ c = Check(Min(m.todo), Current(Min(m.todo)))

Ended(c, how) == c \in DOMAIN execs /\ execs[c] = [state |-> "completed", result |-> how]
PassedOn(files) == \A t \in Task : \E r \in 0..Retries : Ended(<<t, Final(r), files>>, "passed")

HandedOff ==
  /\ m.pc = "handoff" => PassedOn(work.tree)
  /\ done.completion # Null =>
       /\ m.pc \in {"off", "skipped", "cleanup", "prepare", "close", "delete", "done"}
       /\ work.state \in {"ready", "closed"} /\ PassedOn(done.completion)
       /\ work.tree = done.completion \/ (work.tree = Null /\ work.state = "closed")

\* An invalidation names a final check that failed.
FailedAt(i) == \E r \in 0..Retries : Ended(<<i[1], Final(r), i[2]>>, "failed")

\* Every invalidation rests on a final check that failed on the bytes it names.
InvalidationsRest ==
  \A t \in Task : \A n \in 1..Len(ledger[t]) :
    ledger[t][n].invalidated # Null => FailedAt(ledger[t][n].invalidated)

RoundsApart == \A i, j \in DOMAIN repair.rounds : repair.rounds[i].snapshot = repair.rounds[j].snapshot => i = j

TestingInv ==
  /\ ExecutorTyped /\ WorktreeKept /\ WriteUnderWay /\ RunsSound /\ BatchAlone /\ LaunchesCounted
  /\ ChecksEnded /\ HandedOff /\ InvalidationsRest /\ RoundsApart

\* A nonempty set of naturals has a least element.
LEMMA LeastNatural ==
  ASSUME NEW S \in SUBSET Nat, S # {}
  PROVE  \E x \in S : \A y \in S : x <= y
<1>1. PICK x \in S : \A y \in S : <<y, x>> \notin OpToRel(<, Nat)
  BY WFMin, NatLessThanWellFounded, Zenon
<1>2. \A y \in S : y \in Nat /\ x \in Nat OBVIOUS
<1>3. \A y \in S : ~(y < x)
  BY <1>1, <1>2, Zenon DEF OpToRel
<1> QED BY <1>2, <1>3

\* The least of a set of tasks or of retries.
LEMMA MinIs ==
  ASSUME NEW S \in SUBSET Nat, S # {}
  PROVE  Min(S) \in S /\ \A y \in S : Min(S) <= y
<1>1. \E x \in S : \A y \in S : x <= y BY LeastNatural
<1> QED BY <1>1 DEF Min

----------------------------------------------------------------------------
(* The batches.                                                            *)

\* Tasks that may be written side by side.
Alone(tasks) ==
  /\ tasks \subseteq Task
  /\ \A t, u \in tasks : t # u => Scope[t] \cap Scope[u] = {} /\ ~DeclaredConflict(t, u)

Added(completed, b, n) ==
  IF /\ Ready(n, completed) /\ Cardinality(b) < Parallel
     /\ \A u \in b : ~DeclaredConflict(n, u) /\ ~Busy(n, b)
  THEN b \cup {n} ELSE b

\* A batch stays one of tasks that may be written side by side as a task joins it.
LEMMA AddedAlone ==
  ASSUME NEW completed, NEW b, Alone(b), NEW n \in Task
  PROVE  Alone(Added(completed, b, n))
<1>1. CASE Added(completed, b, n) = b BY <1>1
<1>2. CASE Added(completed, b, n) = b \cup {n} /\ \A u \in b : ~DeclaredConflict(n, u) /\ ~Busy(n, b)
  <2>1. \A u \in b : Scope[n] \cap Scope[u] = {} /\ Scope[u] \cap Scope[n] = {} BY <1>2 DEF Busy
  <2>2. \A u \in b : ~DeclaredConflict(n, u) /\ ~DeclaredConflict(u, n) BY <1>2 DEF DeclaredConflict
  <2> QED BY <1>2, <2>1, <2>2 DEF Alone
<1> QED BY <1>1, <1>2 DEF Added

\* The batch as built from the first k tasks.
Building(completed, g, k) == g[0] = {} /\ \A n \in 1..k : g[n] = Added(completed, g[n - 1], n)

\* The recursive definition of a batch has a solution for every plan.
LEMMA BatchIsBuilt ==
  ASSUME NEW completed, Tasks \in Nat
  PROVE  \E g : g = [i \in 0..Tasks |-> g[i]] /\ Building(completed, g, Tasks)
<1> DEFINE Upto(k) == \E g : g = [i \in 0..k |-> g[i]] /\ Building(completed, g, k)
           Missing == {k \in 0..Tasks : ~Upto(k)}
<1> SUFFICES ASSUME Missing # {} PROVE FALSE
  <2>1. Tasks \in 0..Tasks OBVIOUS
  <2>2. Upto(Tasks) BY <2>1
  <2> QED BY <2>2
<1>2. PICK k \in Missing : \A l \in Missing : k <= l
  <2>1. Missing \in SUBSET Nat OBVIOUS
  <2> HIDE DEF Missing
  <2> QED BY <2>1, LeastNatural
<1>3. k # 0
  <2> DEFINE z == [i \in 0..0 |-> {}]
  <2>1. z = [i \in 0..0 |-> z[i]] /\ z[0] = {} /\ \A n \in 1..0 : FALSE OBVIOUS
  <2>2. Upto(0)
    <3> HIDE DEF z
    <3> QED BY <2>1 DEF Building
  <2> QED BY <1>2, <2>2
<1>4. k \in 1..Tasks /\ k - 1 \in 0..Tasks /\ Upto(k - 1)
  <2>1. k \in 0..Tasks OBVIOUS
  <2>2. k \in 1..Tasks /\ k - 1 \in 0..Tasks BY <1>3, <2>1
  <2>3. k - 1 \notin Missing
    <3> HIDE DEF Missing
    <3> QED BY <1>2, <2>1, <2>2
  <2> QED BY <2>2, <2>3
<1>5. PICK g : g = [i \in 0..k - 1 |-> g[i]] /\ Building(completed, g, k - 1) BY <1>4
<1>6. Upto(k)
  <2> DEFINE h == [i \in 0..k |-> IF i = k THEN Added(completed, g[k - 1], k) ELSE g[i]]
  <2>1. h = [i \in 0..k |-> h[i]] /\ h[k] = Added(completed, g[k - 1], k) /\ \A i \in 0..k - 1 : h[i] = g[i] BY <1>4
  <2> HIDE DEF h
  <2>2. h[0] = {}
    <3>1. 0 \in 0..k - 1 BY <1>4
    <3> QED BY <1>5, <2>1, <3>1 DEF Building
  <2>3. \A n \in 1..k : h[n] = Added(completed, h[n - 1], n)
    <3> TAKE n \in 1..k
    <3>1. CASE n = k
      <4>1. k - 1 \in 0..k - 1 BY <1>4
      <4> QED BY <2>1, <3>1, <4>1
    <3>2. CASE n # k
      <4>1. n \in 1..k - 1 /\ n \in 0..k - 1 /\ n - 1 \in 0..k - 1 BY <1>4, <3>2
      <4> QED BY <1>5, <2>1, <4>1 DEF Building
    <3> QED BY <3>1, <3>2
  <2> QED BY <2>1, <2>2, <2>3 DEF Building
<1> QED BY <1>2, <1>6

\* testingWriteSchedule: the tasks of a batch may be written side by side.
LEMMA BatchIsAlone ==
  ASSUME NEW completed, Tasks \in Nat
  PROVE  Alone(BatchUpTo(completed))
<1> DEFINE Is(g) == g = [n \in 0..Tasks |-> IF n = 0 THEN {} ELSE Added(completed, g[n - 1], n)]
           B == CHOOSE g : Is(g)
<1>1. \E g : Is(g)
  <2>1. PICK g : g = [i \in 0..Tasks |-> g[i]] /\ Building(completed, g, Tasks) BY BatchIsBuilt
  <2>2. \A n \in 0..Tasks : g[n] = IF n = 0 THEN {} ELSE Added(completed, g[n - 1], n)
    <3> TAKE n \in 0..Tasks
    <3>1. CASE n = 0 BY <2>1, <3>1 DEF Building
    <3>2. CASE n # 0
      <4>1. n \in 1..Tasks BY <3>2
      <4> QED BY <2>1, <3>2, <4>1 DEF Building
    <3> QED BY <3>1, <3>2
  <2>3. Is(g) BY <2>1, <2>2
  <2> QED BY <2>3
<1>2. Is(B) BY <1>1
<1>3. BatchUpTo(completed) = B[Tasks] BY DEF BatchUpTo, Added
<1> HIDE DEF B
<1>4. B[0] = {} /\ \A n \in 1..Tasks : B[n] = Added(completed, B[n - 1], n)
  <2>1. \A n \in 0..Tasks : B[n] = IF n = 0 THEN {} ELSE Added(completed, B[n - 1], n) BY <1>2
  <2>2. 0 \in 0..Tasks /\ \A n \in 1..Tasks : n \in 0..Tasks /\ n # 0 OBVIOUS
  <2>3. B[0] = {} BY <2>1, <2>2
  <2>4. \A n \in 1..Tasks : B[n] = Added(completed, B[n - 1], n) BY <2>1, <2>2
  <2> QED BY <2>3, <2>4
<1> DEFINE Wrong == {n \in 0..Tasks : ~Alone(B[n])}
<1>5. ASSUME Wrong # {} PROVE FALSE
  <2>1. PICK k \in Wrong : \A l \in Wrong : k <= l
    <3>1. Wrong \in SUBSET Nat OBVIOUS
    <3> HIDE DEF Wrong
    <3> QED BY <1>5, <3>1, LeastNatural
  <2>2. Alone({}) BY DEF Alone
  <2>3. k # 0 BY <1>4, <2>1, <2>2
  <2>4. k \in 1..Tasks /\ k - 1 \in 0..Tasks BY <2>3
  <2>5. Alone(B[k - 1])
    <3>1. k - 1 \notin Wrong
      <4> HIDE DEF Wrong
      <4> QED BY <2>1, <2>4
    <3> QED BY <2>4, <3>1
  <2>6. Alone(B[k]) BY <1>4, <2>4, <2>5, AddedAlone DEF Task
  <2> QED BY <2>6
<1> QED BY <1>3, <1>5

\* The schedule is a sequence of such batches, and has a first one.
LEMMA ScheduleIs ==
  /\ 1 \in DOMAIN Schedule /\ Len(Schedule) \in Nat /\ DOMAIN Schedule = 1..Len(Schedule)
  /\ \A n \in DOMAIN Schedule : Alone(Schedule[n]) /\ Schedule[n] \subseteq Task
<1> DEFINE before == CHOOSE d : d = [n \in 0..Tasks |-> IF n = 0 THEN {} ELSE d[n - 1] \cup BatchUpTo(d[n - 1])]
           left == {k \in 1..Tasks : before[k - 1] # Task}
<1>0. Tasks \in Nat \ {0} BY PlanAssumption
<1>1. Schedule = [n \in 1..Cardinality(left) |-> BatchUpTo(before[n - 1])] BY DEF Schedule
<1>2. Cardinality(left) \in Nat
  <2>1. IsFiniteSet(1..Tasks) BY <1>0, FS_Interval
  <2>2. left \in SUBSET (1..Tasks) OBVIOUS
  <2> HIDE DEF left
  <2> QED BY <2>1, <2>2, FS_Subset, FS_CardinalityType
<1> HIDE DEF before, left
<1>3. DOMAIN Schedule = 1..Cardinality(left) BY <1>1
<1>4. \A n \in DOMAIN Schedule : Alone(Schedule[n]) BY <1>0, <1>1, <1>3, BatchIsAlone
<1>5. Schedule \in Seq(SUBSET Task) /\ Len(Schedule) = Cardinality(left)
  <2> DEFINE k == Cardinality(left)
  <2>1. \A n \in 1..k : Schedule[n] \in SUBSET Task BY <1>3, <1>4 DEF Alone
  <2>2. Schedule = [n \in 1..k |-> Schedule[n]] BY <1>1
  <2> HIDE DEF k
  <2>3. Schedule \in [1..k -> SUBSET Task] BY <2>1, <2>2
  <2>4. Schedule \in Seq(SUBSET Task) BY <1>2, <2>3, SeqDef DEF k
  <2> QED BY <1>2, <1>3, <2>4, LenProperties
<1>6. 1 \in Task BY <1>0 DEF Task
<1>7. 1 \in DOMAIN Schedule BY <1>2, <1>3, <1>6, ScheduleAssumption
<1> QED BY <1>2, <1>3, <1>4, <1>5, <1>7 DEF Alone

----------------------------------------------------------------------------
(* The files a journal's writes leave.                                     *)

----------------------------------------------------------------------------
(* The journal replayed.                                                   *)

Applied(files, w) == IF w.state = "completed" THEN [files EXCEPT ![w.op[3]] = w.after] ELSE files

\* The tree after each of the first k writes.
Replaying(j, g, k) == g[0] = Baseline /\ \A n \in 1..k : g[n] = Applied(g[n - 1], j[n])

LEMMA AppliedIs ==
  ASSUME NEW files \in Files, NEW w \in WriteOf
  PROVE  Applied(files, w) \in Files
BY DEF Applied, Files, WriteOf

\* The recursive definition of a replay has a solution for every journal.
LEMMA ReplayExists ==
  ASSUME NEW j \in Seq(WriteOf)
  PROVE  \E g : g = [i \in 0..Len(j) |-> g[i]] /\ Replaying(j, g, Len(j))
<1> DEFINE Upto(k) == \E g : g = [i \in 0..k |-> g[i]] /\ Replaying(j, g, k)
           Missing == {k \in 0..Len(j) : ~Upto(k)}
<1>1. Len(j) \in Nat OBVIOUS
<1> SUFFICES ASSUME Missing # {} PROVE FALSE
  <2>1. Len(j) \in 0..Len(j) BY <1>1
  <2>2. Upto(Len(j)) BY <2>1
  <2> QED BY <2>2
<1>2. PICK k \in Missing : \A l \in Missing : k <= l
  <2>1. Missing \in SUBSET Nat BY <1>1
  <2> HIDE DEF Missing
  <2> QED BY <2>1, LeastNatural
<1>3. k # 0
  <2> DEFINE z == [i \in 0..0 |-> Baseline]
  <2>1. z = [i \in 0..0 |-> z[i]] /\ z[0] = Baseline /\ \A n \in 1..0 : FALSE OBVIOUS
  <2>2. Upto(0)
    <3> HIDE DEF z
    <3> QED BY <2>1 DEF Replaying
  <2> QED BY <1>2, <2>2
<1>4. k \in 1..Len(j) /\ k - 1 \in 0..Len(j) /\ Upto(k - 1)
  <2>1. k \in 0..Len(j) OBVIOUS
  <2>2. k \in 1..Len(j) /\ k - 1 \in 0..Len(j) BY <1>1, <1>3, <2>1
  <2>3. k - 1 \notin Missing
    <3> HIDE DEF Missing
    <3> QED BY <1>1, <1>2, <2>1, <2>2
  <2> QED BY <2>2, <2>3
<1>5. PICK g : g = [i \in 0..k - 1 |-> g[i]] /\ Replaying(j, g, k - 1) BY <1>4
<1>6. Upto(k)
  <2> DEFINE h == [i \in 0..k |-> IF i = k THEN Applied(g[k - 1], j[k]) ELSE g[i]]
  <2>1. h = [i \in 0..k |-> h[i]] /\ h[k] = Applied(g[k - 1], j[k]) /\ \A i \in 0..k - 1 : h[i] = g[i] BY <1>1, <1>4
  <2> HIDE DEF h
  <2>2. h[0] = Baseline
    <3>1. 0 \in 0..k - 1 BY <1>1, <1>4
    <3> QED BY <1>5, <2>1, <3>1 DEF Replaying
  <2>3. \A n \in 1..k : h[n] = Applied(h[n - 1], j[n])
    <3> TAKE n \in 1..k
    <3>1. CASE n = k
      <4>1. k - 1 \in 0..k - 1 BY <1>1, <1>4
      <4> QED BY <2>1, <3>1, <4>1
    <3>2. CASE n # k
      <4>1. n \in 1..k - 1 /\ n \in 0..k - 1 /\ n - 1 \in 0..k - 1 BY <1>1, <1>4, <3>2
      <4> QED BY <1>5, <2>1, <4>1 DEF Replaying
    <3> QED BY <3>1, <3>2
  <2> QED BY <2>1, <2>2, <2>3 DEF Replaying
<1> QED BY <1>2, <1>6

\* A replay applies the completed writes one after the other.
LEMMA ReplayedIs ==
  ASSUME NEW j \in Seq(WriteOf), ExecutionAssumption
  PROVE  Replaying(j, Replayed(j), Len(j)) /\ \A n \in 0..Len(j) : Replayed(j)[n] \in Files
<1> DEFINE N == Len(j)
           Is(g) == g = [n \in 0..N |-> IF n = 0 THEN Baseline ELSE Applied(g[n - 1], j[n])]
           B == CHOOSE g : Is(g)
<1>0. N \in Nat /\ \A n \in 1..N : j[n] \in WriteOf OBVIOUS
<1>1. \E g : Is(g)
  <2>1. PICK g : g = [i \in 0..N |-> g[i]] /\ Replaying(j, g, N) BY ReplayExists
  <2> HIDE DEF N
  <2>2. \A n \in 0..N : g[n] = IF n = 0 THEN Baseline ELSE Applied(g[n - 1], j[n])
    <3> TAKE n \in 0..N
    <3>1. CASE n = 0 BY <2>1, <3>1 DEF Replaying
    <3>2. CASE n # 0
      <4>1. n \in 1..N BY <1>0, <3>2
      <4> QED BY <2>1, <3>2, <4>1 DEF Replaying
    <3> QED BY <3>1, <3>2
  <2>3. Is(g) BY <2>1, <2>2
  <2> QED BY <2>3
<1>2. Is(B) BY <1>1
<1>3. Replayed(j) = B BY DEF Replayed, Applied
<1> HIDE DEF B, N
<1>4. B[0] = Baseline /\ \A n \in 1..N : B[n] = Applied(B[n - 1], j[n])
  <2>1. \A n \in 0..N : B[n] = IF n = 0 THEN Baseline ELSE Applied(B[n - 1], j[n]) BY <1>2
  <2>2. 0 \in 0..N /\ \A n \in 1..N : n \in 0..N /\ n # 0 BY <1>0
  <2>3. B[0] = Baseline BY <2>1, <2>2
  <2>4. \A n \in 1..N : B[n] = Applied(B[n - 1], j[n]) BY <2>1, <2>2
  <2> QED BY <2>3, <2>4
<1> DEFINE Wrong == {n \in 0..N : B[n] \notin Files}
<1>5. ASSUME Wrong # {} PROVE FALSE
  <2>1. PICK k \in Wrong : \A l \in Wrong : k <= l
    <3>1. Wrong \in SUBSET Nat BY <1>0
    <3> HIDE DEF Wrong
    <3> QED BY <1>5, <3>1, LeastNatural
  <2>2. Baseline \in Files BY DEF Baseline, Files, ExecutionAssumption
  <2>3. k # 0 BY <1>4, <2>1, <2>2
  <2>4. k \in 1..N /\ k - 1 \in 0..N BY <1>0, <2>3
  <2>5. B[k - 1] \in Files
    <3>1. k - 1 \notin Wrong
      <4> HIDE DEF Wrong
      <4> QED BY <1>0, <2>1, <2>4
    <3> QED BY <2>4, <3>1
  <2>6. B[k] \in Files BY <1>0, <1>4, <2>4, <2>5, AppliedIs
  <2> QED BY <2>6
<1> QED BY <1>3, <1>4, <1>5 DEF Replaying, N

\* The first p writes of two journals do the same to the tree.
SameWrites(j, k, p) ==
  /\ p <= Len(j) /\ p <= Len(k)
  /\ \A n \in 1..p : /\ j[n].op = k[n].op /\ j[n].after = k[n].after
                     /\ j[n].state = "completed" <=> k[n].state = "completed"

\* What completed the same writes left the same files.
LEMMA ReplayedSame ==
  ASSUME ExecutionAssumption, NEW j \in Seq(WriteOf), NEW k \in Seq(WriteOf), NEW p \in Nat, SameWrites(j, k, p)
  PROVE  \A n \in 0..p : Replayed(j)[n] = Replayed(k)[n]
<1> DEFINE R == Replayed(j)  S == Replayed(k)
           Apart == {n \in 0..p : R[n] # S[n]}
<1>0. Replaying(j, R, Len(j)) /\ Replaying(k, S, Len(k)) BY ReplayedIs
<1>1. Len(j) \in Nat /\ Len(k) \in Nat OBVIOUS
<1>2. R[0] = S[0] /\ \A n \in 1..p : R[n] = Applied(R[n - 1], j[n]) /\ S[n] = Applied(S[n - 1], k[n])
  <2>1. \A n \in 1..p : n \in 1..Len(j) /\ n \in 1..Len(k) BY <1>1 DEF SameWrites
  <2> HIDE DEF R, S
  <2> QED BY <1>0, <2>1 DEF Replaying
<1> HIDE DEF R, S
<1> SUFFICES ASSUME Apart # {} PROVE FALSE BY DEF R, S
<1>3. PICK l \in Apart : \A i \in Apart : l <= i
  <2>1. Apart \in SUBSET Nat OBVIOUS
  <2> HIDE DEF Apart
  <2> QED BY <2>1, LeastNatural
<1>4. l # 0 BY <1>2, <1>3
<1>5. l \in 1..p /\ l - 1 \in 0..p BY <1>4
<1>6. R[l - 1] = S[l - 1]
  <2>1. l - 1 \notin Apart
    <3> HIDE DEF Apart
    <3> QED BY <1>3, <1>5
  <2> QED BY <1>5, <2>1
<1>7. Applied(R[l - 1], j[l]) = Applied(S[l - 1], k[l]) BY <1>5, <1>6 DEF Applied, SameWrites
<1>8. R[l] = S[l] BY <1>2, <1>5, <1>7
<1> QED BY <1>8

----------------------------------------------------------------------------
(* Settling the last write, and writing the next intent.                   *)

\* A journal whose last write was settled, and the writes it has.
Settles(j, r, s) ==
  /\ r \in Seq(WriteOf) /\ Len(r) = Len(j)
  /\ \A n \in 1..Len(j) - 1 : r[n] = j[n]
  /\ r[Len(j)] \in WriteOf /\ r[Len(j)].op = j[Len(j)].op /\ r[Len(j)].before = j[Len(j)].before
  /\ r[Len(j)].after = j[Len(j)].after /\ r[Len(j)].state = s

LEMMA SettledIs ==
  ASSUME NEW j \in Seq(WriteOf), Unended(j), NEW s \in {"completed", "interrupted", "unrecorded"}
  PROVE  Settles(j, [j EXCEPT ![Len(j)].state = s], s)
<1> DEFINE N == Len(j)  w == [j[N] EXCEPT !.state = s]  r == [j EXCEPT ![N] = w]
<1>1. N \in Nat /\ N \in 1..N /\ j[N] \in WriteOf BY EmptySeq DEF Unended
<1>2. w \in WriteOf /\ w.op = j[N].op /\ w.before = j[N].before /\ w.after = j[N].after /\ w.state = s
  <2> HIDE DEF N
  <2> QED BY <1>1 DEF WriteOf
<1>3. [j EXCEPT ![Len(j)].state = s] = r OBVIOUS
<1> HIDE DEF w
<1>4. r \in Seq(WriteOf) /\ Len(r) = N /\ r[N] = w /\ \A n \in 1..N - 1 : r[n] = j[n] BY <1>1, <1>2
<1> QED BY <1>2, <1>3, <1>4 DEF Settles

\* Settling the last write leaves the replay up to it as it was.
LEMMA SettledReplay ==
  ASSUME ExecutionAssumption, NEW j \in Seq(WriteOf), Unended(j), NEW s \in {"completed", "interrupted", "unrecorded"},
         NEW r, Settles(j, r, s)
  PROVE  /\ \A n \in 0..Len(j) - 1 : Replayed(r)[n] = Replayed(j)[n]
         /\ Whole(j) \in Files /\ Whole(j) = Replayed(j)[Len(j) - 1]
         /\ Whole(r) = IF s = "completed" THEN With(Whole(j), j[Len(j)].op[3], j[Len(j)].after) ELSE Whole(j)
<1> DEFINE N == Len(j)
<1>1. N \in Nat /\ N \in 1..N /\ j[N] \in WriteOf /\ N - 1 \in Nat /\ N - 1 \in 0..N - 1 BY EmptySeq DEF Unended
<1>2. r \in Seq(WriteOf) /\ Len(r) = N BY DEF Settles
<1>3. \A n \in 0..N - 1 : Replayed(r)[n] = Replayed(j)[n]
  <2>1. SameWrites(r, j, N - 1)
    <3>1. \A n \in 1..N - 1 : r[n] = j[n] BY DEF Settles
    <3>2. N - 1 <= Len(r) /\ N - 1 <= Len(j) BY <1>1, <1>2
    <3> HIDE DEF N
    <3> QED BY <3>1, <3>2 DEF SameWrites
  <2> HIDE DEF N
  <2> QED BY <1>1, <1>2, <2>1, ReplayedSame
<1>4. /\ Whole(j) \in Files /\ Whole(j) = Applied(Replayed(j)[N - 1], j[N])
  BY <1>1, ReplayedIs DEF Whole, Replaying
<1>5. Whole(r) = Applied(Replayed(r)[N - 1], r[N]) BY <1>1, <1>2, ReplayedIs DEF Whole, Replaying
<1>6. Applied(Replayed(j)[N - 1], j[N]) = Replayed(j)[N - 1] BY DEF Applied, Unended
<1>7. Replayed(r)[N - 1] = Whole(j) BY <1>1, <1>3, <1>4, <1>6
<1>8. r[N].state = s /\ r[N].op = j[N].op /\ r[N].after = j[N].after BY DEF Settles
<1>9. Whole(r) = IF s = "completed" THEN With(Whole(j), j[N].op[3], j[N].after) ELSE Whole(j)
  BY <1>5, <1>7, <1>8 DEF Applied, With
<1> QED BY <1>3, <1>4, <1>6, <1>9

\* A journal that is settled as the bytes say explains them.
LEMMA SettledJournal ==
  ASSUME ExecutionAssumption, NEW j \in Seq(WriteOf), NEW files \in Files, Journaled(j, files), Unended(j),
         NEW s \in {"completed", "interrupted", "unrecorded"}, NEW r, Settles(j, r, s), files = Whole(r)
  PROVE  Journaled(r, files) /\ ~Unended(r)
<1> DEFINE N == Len(j)
<1>1. N \in Nat /\ N \in 1..N BY EmptySeq DEF Unended
<1>2. r \in Seq(WriteOf) /\ Len(r) = N /\ r[N].state = s BY DEF Settles
<1>3. ~Unended(r) BY <1>2 DEF Unended
<1>4. ASSUME NEW n \in 1..N PROVE Replayed(r)[n - 1][r[n].op[3]] = r[n].before /\ r[n].state # "reserved"
  <2>1. n - 1 \in 0..N - 1 BY <1>1
  <2>2. Replayed(r)[n - 1] = Replayed(j)[n - 1] BY <2>1, SettledReplay
  <2>3. r[n].op = j[n].op /\ r[n].before = j[n].before
    <3>1. CASE n = N BY <3>1 DEF Settles
    <3>2. CASE n # N
      <4>1. n \in 1..N - 1 BY <1>1, <3>2
      <4> QED BY <4>1 DEF Settles
    <3> QED BY <3>1, <3>2
  <2>4. r[n].state # "reserved"
    <3>1. CASE n = N BY <1>2, <3>1
    <3>2. CASE n # N
      <4>1. n \in 1..N - 1 BY <1>1, <3>2
      <4>2. r[n] = j[n] BY <4>1 DEF Settles
      <4> QED BY <3>2, <4>2 DEF Journaled
    <3> QED BY <3>1, <3>2
  <2> QED BY <2>2, <2>3, <2>4 DEF Journaled
<1> QED BY <1>2, <1>3, <1>4 DEF Journaled

\* What the property says of the journal follows from what the invariant says.
LEMMA JournaledExplains ==
  ASSUME ExecutionAssumption, NEW j \in Seq(WriteOf), NEW files \in Files, Journaled(j, files)
  PROVE  /\ Explains(j, files)
         /\ Resolved(j, files) \in Seq(WriteOf) /\ Journaled(Resolved(j, files), files)
         /\ ~Unended(Resolved(j, files))
<1> DEFINE r == Resolved(j, files)
<1>1. r \in Seq(WriteOf) /\ Journaled(r, files) /\ ~Unended(r) /\ Len(r) = Len(j)
      /\ \A n \in 0..Len(j) : n < Len(j) => Replayed(r)[n] = Replayed(j)[n]
  <2>1. CASE ~Unended(j)
    <3>1. r = j BY <2>1 DEF Resolved, Unended
    <3> QED BY <2>1, <3>1
  <2>2. CASE Unended(j)
    <3> DEFINE N == Len(j)  w == j[N]
               s == IF files[w.op[3]] = w.after THEN "completed"
                    ELSE IF files[w.op[3]] = w.before THEN "interrupted" ELSE "unrecorded"
    <3>1. r = [j EXCEPT ![Len(j)].state = s] BY <2>2 DEF Resolved, Unended
    <3>2. s \in {"completed", "interrupted", "unrecorded"} OBVIOUS
    <3>3. Settles(j, r, s)
      <4> HIDE DEF s
      <4>1. Settles(j, [j EXCEPT ![Len(j)].state = s], s) BY <2>2, <3>2, SettledIs
      <4> QED BY <3>1, <4>1
    <3>4. N \in Nat /\ N \in 1..N /\ w \in WriteOf BY <2>2, EmptySeq DEF Unended
    <3>5. /\ \A n \in 0..N - 1 : Replayed(r)[n] = Replayed(j)[n]
          /\ Whole(j) \in Files /\ Whole(j) = Replayed(j)[N - 1]
          /\ Whole(r) = IF s = "completed" THEN With(Whole(j), w.op[3], w.after) ELSE Whole(j)
      <4> HIDE DEF s, r
      <4> QED BY <2>2, <3>2, <3>3, SettledReplay
    <3>6. Whole(j)[w.op[3]] = w.before /\ files \in {Whole(j), With(Whole(j), w.op[3], w.after)} /\ w.op[3] \in File
      BY <2>2, <3>4, <3>5 DEF Journaled, WriteOf
    <3>7. files = Whole(r)
      <4>1. With(Whole(j), w.op[3], w.after)[w.op[3]] = w.after BY <3>5, <3>6 DEF With, Files
      <4>2. Whole(j)[w.op[3]] = w.after => With(Whole(j), w.op[3], w.after) = Whole(j) BY <3>5, <3>6 DEF With, Files
      <4> HIDE DEF r, w
      <4> QED BY <3>5, <3>6, <4>1, <4>2
    <3>8. Journaled(r, files) /\ ~Unended(r)
      <4> HIDE DEF s, r
      <4> QED BY <2>2, <3>2, <3>3, <3>7, SettledJournal
    <3>9. r \in Seq(WriteOf) /\ Len(r) = N BY <3>3 DEF Settles
    <3>10. \A n \in 0..N : n < N => n \in 0..N - 1 BY <3>4
    <3> HIDE DEF r
    <3> QED BY <3>5, <3>8, <3>9, <3>10
  <2> QED BY <2>1, <2>2
<1> HIDE DEF r
<1>2. Explains(j, files)
  <2>1. Len(j) \in Nat /\ DOMAIN j = 1..Len(j) OBVIOUS
  <2>2. ASSUME NEW n \in DOMAIN j
        PROVE  Replayed(r)[n - 1][j[n].op[3]] = j[n].before /\ (j[n].state = "reserved" => n = Len(j))
    <3>1. n \in 1..Len(j) /\ n - 1 \in 0..Len(j) /\ n - 1 < Len(j) BY <2>1
    <3> QED BY <1>1, <3>1 DEF Journaled
  <2>3. Replayed(r)[Len(r)] = files BY <1>1 DEF Journaled, Whole
  <2> QED BY <2>2, <2>3 DEF Explains, r
<1> QED BY <1>1, <1>2 DEF r

\* A write's intent changes no file.
LEMMA Intended ==
  ASSUME ExecutionAssumption, NEW j \in Seq(WriteOf), NEW files \in Files, Journaled(j, files), ~Unended(j),
         NEW w \in WriteOf, w.state = "reserved", files[w.op[3]] = w.before
  PROVE  LET k == Append(j, w) IN
         /\ k \in Seq(WriteOf) /\ Len(k) = Len(j) + 1 /\ k[Len(k)] = w
         /\ Journaled(k, files) /\ Unended(k) /\ Whole(k) = files
<1> DEFINE N == Len(j)  k == Append(j, w)
<1>1. N \in Nat /\ k \in Seq(WriteOf) /\ Len(k) = N + 1 /\ k[N + 1] = w /\ \A n \in 1..N : k[n] = j[n] OBVIOUS
<1> HIDE DEF k
<1>2. \A n \in 0..N : Replayed(j)[n] = Replayed(k)[n]
  <2>1. N <= Len(j) /\ N <= Len(k) BY <1>1
  <2>2. SameWrites(j, k, N)
    <3> HIDE DEF N
    <3> QED BY <1>1, <2>1 DEF SameWrites
  <2> HIDE DEF N
  <2> QED BY <1>1, <2>2, ReplayedSame
<1>3. Replayed(k)[N + 1] = Applied(Replayed(k)[N], k[N + 1])
  <2>1. N + 1 \in 1..Len(k) /\ N + 1 - 1 = N BY <1>1
  <2>2. \A n \in 1..Len(k) : Replayed(k)[n] = Applied(Replayed(k)[n - 1], k[n]) BY <1>1, ReplayedIs DEF Replaying
  <2>3. Replayed(k)[N + 1] = Applied(Replayed(k)[N + 1 - 1], k[N + 1]) BY <2>1, <2>2
  <2> QED BY <2>1, <2>3
<1>4. Replayed(j)[N] = files BY DEF Journaled, Whole
<1>5. N \in 0..N BY <1>1
<1>6. Replayed(k)[N] = files /\ Whole(k) = files BY <1>1, <1>2, <1>3, <1>4, <1>5 DEF Applied, Whole
<1>7. k # <<>> BY <1>1, EmptySeq
<1>8. Unended(k) BY <1>1, <1>7 DEF Unended
<1>9. ASSUME NEW n \in 1..N + 1
      PROVE  Replayed(k)[n - 1][k[n].op[3]] = k[n].before /\ (k[n].state = "reserved" => n = N + 1)
  <2>1. CASE n = N + 1
    <3>1. n - 1 = N BY <1>1, <2>1
    <3> QED BY <1>1, <1>6, <2>1, <3>1
  <2>2. CASE n # N + 1
    <3>1. n \in 1..N /\ n - 1 \in 0..N BY <1>1, <2>2
    <3>2. j[n].state # "reserved"
      <4>1. j[n].state = "reserved" => n = N BY <3>1 DEF Journaled
      <4>2. n = N => j # <<>> BY <3>1, EmptySeq
      <4> QED BY <4>1, <4>2 DEF Unended
    <3> QED BY <1>1, <1>2, <3>1, <3>2 DEF Journaled
  <2> QED BY <2>1, <2>2
<1>10. Journaled(k, files)
  <2>1. \A n \in 1..Len(k) : Replayed(k)[n - 1][k[n].op[3]] = k[n].before /\ (k[n].state = "reserved" => n = Len(k))
    BY <1>1, <1>9
  <2> QED BY <1>6, <1>8, <2>1 DEF Journaled
<1> QED BY <1>1, <1>6, <1>8, <1>10 DEF k

----------------------------------------------------------------------------
(* The steps that change each record.                                      *)

\* The steps that change work.
WorkSteps ==
  \/ PrepareReserve
  \/ Create
  \/ Open
  \/ Rename
  \/ Commit
  \/ Close
  \/ Delete
  \/ \E t \in Task : Intend(t)

\* Every other step leaves the record it is about alone; so do the six lemmas below.
LEMMA WorkChanges ==
  ASSUME [Next]_vars PROVE WorkSteps \/ UNCHANGED work
<1>1. CASE Executor
  <2>1. (Plan \/ Begin \/ Recovered \/ RecoverCheck \/ CompleteReopening \/ StartPass \/ NextBatch \/ ReserveAttempt
         \/ Settled \/ Reopen \/ Fail \/ Pass \/ HandOff \/ CleanUp) => UNCHANGED work
    BY DEF Plan, Begin, Recovered, RecoverCheck, CompleteReopening, StartPass, NextBatch, ReserveAttempt, Settled,
      Reopen, Fail, Pass, HandOff, CleanUp
  <2>2. \A t \in Task : (Pin(t) \/ Dispatch(t) \/ Interrupted(t) \/ Collect(t) \/ Converse(t) \/ Finish(t)
                         \/ ReserveCheck(t) \/ PrepareCheck(t) \/ RunCheck(t) \/ Record(t)
                         \/ FinalCheck(t)) => UNCHANGED work
    BY DEF Pin, Dispatch, Interrupted, Collect, Converse, Finish, ReserveCheck, PrepareCheck, RunCheck, Record,
      FinalCheck
  <2> QED BY <1>1, <2>1, <2>2 DEF Executor, Writer, Checks, WorkSteps
<1>2. CASE Stop \/ Over \/ UNCHANGED vars BY <1>2 DEF Stop, Over, vars
<1> QED BY <1>1, <1>2 DEF Next

\* The steps that change ledger.
LedgerSteps ==
  \/ ReserveAttempt
  \/ CompleteReopening
  \/ \E t \in Task : Record(t)

LEMMA LedgerChanges ==
  ASSUME [Next]_vars PROVE LedgerSteps \/ UNCHANGED ledger
<1>1. CASE Executor
  <2>1. (Plan \/ Begin \/ Recovered \/ RecoverCheck \/ PrepareReserve \/ Create \/ Open \/ StartPass \/ NextBatch
         \/ Settled \/ Rename \/ Commit \/ Reopen \/ Fail \/ Pass \/ HandOff \/ CleanUp \/ Close
         \/ Delete) => UNCHANGED ledger
    BY DEF Plan, Begin, Recovered, RecoverCheck, PrepareReserve, Create, Open, StartPass, NextBatch, Settled, Rename,
      Commit, Reopen, Fail, Pass, HandOff, CleanUp, Close, Delete
  <2>2. \A t \in Task : (Pin(t) \/ Dispatch(t) \/ Interrupted(t) \/ Collect(t) \/ Converse(t) \/ Intend(t)
                         \/ Finish(t) \/ ReserveCheck(t) \/ PrepareCheck(t) \/ RunCheck(t)
                         \/ FinalCheck(t)) => UNCHANGED ledger
    BY DEF Pin, Dispatch, Interrupted, Collect, Converse, Intend, Finish, ReserveCheck, PrepareCheck, RunCheck,
      FinalCheck
  <2> QED BY <1>1, <2>1, <2>2 DEF Executor, Writer, Checks, LedgerSteps
<1>2. CASE Stop \/ Over \/ UNCHANGED vars BY <1>2 DEF Stop, Over, vars
<1> QED BY <1>1, <1>2 DEF Next

\* The steps that change run.
RunSteps ==
  \/ ReserveAttempt
  \/ \E t \in Task : Pin(t) \/ Dispatch(t) \/ Interrupted(t) \/ Collect(t) \/ Converse(t) \/ Finish(t)

LEMMA RunChanges ==
  ASSUME [Next]_vars PROVE RunSteps \/ UNCHANGED run
<1>1. CASE Executor
  <2>1. (Plan \/ Begin \/ Recovered \/ RecoverCheck \/ PrepareReserve \/ Create \/ Open \/ CompleteReopening
         \/ StartPass \/ NextBatch \/ Settled \/ Rename \/ Commit \/ Reopen \/ Fail \/ Pass \/ HandOff \/ CleanUp
         \/ Close \/ Delete) => UNCHANGED run
    BY DEF Plan, Begin, Recovered, RecoverCheck, PrepareReserve, Create, Open, CompleteReopening, StartPass,
      NextBatch, Settled, Rename, Commit, Reopen, Fail, Pass, HandOff, CleanUp, Close, Delete
  <2>2. \A t \in Task : (Intend(t) \/ ReserveCheck(t) \/ PrepareCheck(t) \/ RunCheck(t) \/ Record(t)
                         \/ FinalCheck(t)) => UNCHANGED run
    BY DEF Intend, ReserveCheck, PrepareCheck, RunCheck, Record, FinalCheck
  <2> QED BY <1>1, <2>1, <2>2 DEF Executor, Writer, Checks, RunSteps
<1>2. CASE Stop \/ Over \/ UNCHANGED vars BY <1>2 DEF Stop, Over, vars
<1> QED BY <1>1, <1>2 DEF Next

\* The steps that change execs.
ExecsSteps ==
  \/ RecoverCheck
  \/ \E t \in Task : ReserveCheck(t) \/ PrepareCheck(t) \/ RunCheck(t)

LEMMA ExecsChanges ==
  ASSUME [Next]_vars PROVE ExecsSteps \/ UNCHANGED execs
<1>1. CASE Executor
  <2>1. (Plan \/ Begin \/ Recovered \/ PrepareReserve \/ Create \/ Open \/ CompleteReopening \/ StartPass \/ NextBatch
         \/ ReserveAttempt \/ Settled \/ Rename \/ Commit \/ Reopen \/ Fail \/ Pass \/ HandOff \/ CleanUp \/ Close
         \/ Delete) => UNCHANGED execs
    BY DEF Plan, Begin, Recovered, PrepareReserve, Create, Open, CompleteReopening, StartPass, NextBatch,
      ReserveAttempt, Settled, Rename, Commit, Reopen, Fail, Pass, HandOff, CleanUp, Close, Delete
  <2>2. \A t \in Task : (Pin(t) \/ Dispatch(t) \/ Interrupted(t) \/ Collect(t) \/ Converse(t) \/ Intend(t)
                         \/ Finish(t) \/ Record(t) \/ FinalCheck(t)) => UNCHANGED execs
    BY DEF Pin, Dispatch, Interrupted, Collect, Converse, Intend, Finish, Record, FinalCheck
  <2> QED BY <1>1, <2>1, <2>2 DEF Executor, Writer, Checks, ExecsSteps
<1>2. CASE Stop \/ Over \/ UNCHANGED vars BY <1>2 DEF Stop, Over, vars
<1> QED BY <1>1, <1>2 DEF Next

\* The steps that change repair.
RepairSteps ==
  \/ CompleteReopening
  \/ Reopen

LEMMA RepairChanges ==
  ASSUME [Next]_vars PROVE RepairSteps \/ UNCHANGED repair
<1>1. CASE Executor
  <2>1. (Plan \/ Begin \/ Recovered \/ RecoverCheck \/ PrepareReserve \/ Create \/ Open \/ StartPass \/ NextBatch
         \/ ReserveAttempt \/ Settled \/ Rename \/ Commit \/ Fail \/ Pass \/ HandOff \/ CleanUp \/ Close
         \/ Delete) => UNCHANGED repair
    BY DEF Plan, Begin, Recovered, RecoverCheck, PrepareReserve, Create, Open, StartPass, NextBatch, ReserveAttempt,
      Settled, Rename, Commit, Fail, Pass, HandOff, CleanUp, Close, Delete
  <2>2. \A t \in Task : (Pin(t) \/ Dispatch(t) \/ Interrupted(t) \/ Collect(t) \/ Converse(t) \/ Intend(t)
                         \/ Finish(t) \/ ReserveCheck(t) \/ PrepareCheck(t) \/ RunCheck(t) \/ Record(t)
                         \/ FinalCheck(t)) => UNCHANGED repair
    BY DEF Pin, Dispatch, Interrupted, Collect, Converse, Intend, Finish, ReserveCheck, PrepareCheck, RunCheck,
      Record, FinalCheck
  <2> QED BY <1>1, <2>1, <2>2 DEF Executor, Writer, Checks, RepairSteps
<1>2. CASE Stop \/ Over \/ UNCHANGED vars BY <1>2 DEF Stop, Over, vars
<1> QED BY <1>1, <1>2 DEF Next

\* The steps that change done.
DoneSteps ==
  \/ Plan
  \/ NextBatch
  \/ Fail
  \/ Pass
  \/ HandOff

LEMMA DoneChanges ==
  ASSUME [Next]_vars PROVE DoneSteps \/ UNCHANGED done
<1>1. CASE Executor
  <2>1. (Begin \/ Recovered \/ RecoverCheck \/ PrepareReserve \/ Create \/ Open \/ CompleteReopening \/ StartPass
         \/ ReserveAttempt \/ Settled \/ Rename \/ Commit \/ Reopen \/ CleanUp \/ Close \/ Delete) => UNCHANGED done
    BY DEF Begin, Recovered, RecoverCheck, PrepareReserve, Create, Open, CompleteReopening, StartPass,
      ReserveAttempt, Settled, Rename, Commit, Reopen, CleanUp, Close, Delete
  <2>2. \A t \in Task : (Pin(t) \/ Dispatch(t) \/ Interrupted(t) \/ Collect(t) \/ Converse(t) \/ Intend(t)
                         \/ Finish(t) \/ ReserveCheck(t) \/ PrepareCheck(t) \/ RunCheck(t) \/ Record(t)
                         \/ FinalCheck(t)) => UNCHANGED done
    BY DEF Pin, Dispatch, Interrupted, Collect, Converse, Intend, Finish, ReserveCheck, PrepareCheck, RunCheck,
      Record, FinalCheck
  <2> QED BY <1>1, <2>1, <2>2 DEF Executor, Writer, Checks, DoneSteps
<1>2. CASE Stop \/ Over \/ UNCHANGED vars BY <1>2 DEF Stop, Over, vars
<1> QED BY <1>1, <1>2 DEF Next

LEMMA LiveChanges ==
  ASSUME [Next]_vars PROVE ExecsSteps \/ UNCHANGED live
<1>1. CASE Executor
  <2>1. (Plan \/ Begin \/ Recovered \/ PrepareReserve \/ Create \/ Open \/ CompleteReopening \/ StartPass \/ NextBatch
         \/ ReserveAttempt \/ Settled \/ Rename \/ Commit \/ Reopen \/ Fail \/ Pass \/ HandOff \/ CleanUp \/ Close
         \/ Delete) => UNCHANGED live
    BY DEF Plan, Begin, Recovered, PrepareReserve, Create, Open, CompleteReopening, StartPass, NextBatch,
      ReserveAttempt, Settled, Rename, Commit, Reopen, Fail, Pass, HandOff, CleanUp, Close, Delete
  <2>2. \A t \in Task : (Pin(t) \/ Dispatch(t) \/ Interrupted(t) \/ Collect(t) \/ Converse(t) \/ Intend(t)
                         \/ Finish(t) \/ Record(t) \/ FinalCheck(t)) => UNCHANGED live
    BY DEF Pin, Dispatch, Interrupted, Collect, Converse, Intend, Finish, Record, FinalCheck
  <2> QED BY <1>1, <2>1, <2>2 DEF Executor, Writer, Checks, ExecsSteps
<1>2. CASE Stop \/ Over \/ UNCHANGED vars BY <1>2 DEF Stop, Over, vars
<1> QED BY <1>1, <1>2 DEF Next

----------------------------------------------------------------------------
(* The executor's memory and its worktree are of their types.              *)

LEMMA UpdatesAre ==
  ASSUME NEW u \in Updates
  PROVE  DOMAIN u \subseteq File /\ \A f \in DOMAIN u : u[f] \in Content
<1>1. CASE u = <<>> BY <1>1
<1>2. CASE u # <<>>
  <2>1. u \in UNION {[S -> Content] : S \in SUBSET File} BY <1>2 DEF Updates
  <2>2. PICK S \in SUBSET File : u \in [S -> Content] BY <2>1
  <2> QED BY <2>2
<1> QED BY <1>1, <1>2

\* The intent that is saved before a write.
IntentOf(t, w) ==
  /\ w.state = "reserved" /\ work.tree \in Files /\ work.tree[w.op[3]] = w.before
  /\ run[t].state = "collected" /\ w.op[3] \in DOMAIN run[t].updates /\ w.after = run[t].updates[w.op[3]]
  /\ work' = [work EXCEPT !.journal = Append(@, w)]
  /\ m' = [m EXCEPT !.writing = [task |-> t, file |-> w.op[3], renamed |-> FALSE]]

\* Intend adds a reserved write of what the writer was given.
LEMMA IntentIs ==
  ASSUME ExecutorTyped, WorktreeKept, RunsSound, NEW t \in Task, Intend(t)
  PROVE  \E w \in WriteOf : IntentOf(t, w)
<1>1. PICK f \in DOMAIN run[t].updates :
        /\ work.tree[f] = run[t].base[f]
        /\ work' = [work EXCEPT !.journal = Append(@,
                       [op |-> Op(t, f), before |-> run[t].base[f], after |-> run[t].updates[f],
                                                       state |-> "reserved"])]
        /\ m' = [m EXCEPT !.writing = [task |-> t, file |-> f, renamed |-> FALSE]]
  BY DEF Intend
<1> DEFINE w == [op |-> Op(t, f), before |-> run[t].base[f], after |-> run[t].updates[f], state |-> "reserved"]
<1>2. run[t] \in RunOf /\ run[t].state = "collected" /\ m.pc = "write" /\ ledger[t] \in Seq(AttemptOf)
  BY DEF ExecutorTyped, Intend, Writing
<1>3. run[t].updates \in Updates BY <1>2 DEF RunOf
<1>4. f \in File /\ run[t].updates[f] \in Content BY <1>1, <1>3, UpdatesAre
<1>5. run[t].base \in Files BY <1>2 DEF RunsSound
<1>6. work.tree \in Files BY <1>2 DEF WorktreeKept, TreeKept, PlacesKept, Opened
<1>7. run[t].base[f] \in Content BY <1>4, <1>5 DEF Files
<1>8. Op(t, f) \in Task \X Nat \X File /\ Op(t, f)[3] = f BY <1>2, <1>4 DEF Op
<1>9. w \in WriteOf BY <1>4, <1>7, <1>8 DEF WriteOf
<1>10. IntentOf(t, w) BY <1>1, <1>2, <1>6, <1>8 DEF IntentOf
<1> QED BY <1>9, <1>10

\* Rename moves the new bytes into place.
LEMMA RenameIs ==
  ASSUME ExecutorTyped, WorktreeKept, WriteUnderWay, Rename
  PROVE  /\ work.state = "ready" /\ work.tree \in Files /\ m.writing.file \in File
         /\ run[m.writing.task].updates[m.writing.file] \in Content
<1>1. m.writing \in Under /\ m.writing # Null BY DEF Rename, ExecutorTyped, Memory
<1>2. m.pc = "write" /\ m.writing.file \in DOMAIN run[m.writing.task].updates BY <1>1 DEF WriteUnderWay
<1>3. m.writing.task \in Task BY <1>1 DEF Under
<1>4. run[m.writing.task].updates \in Updates BY <1>3 DEF ExecutorTyped, RunOf
<1>5. work.state = "ready" /\ work.tree \in Files BY <1>2 DEF WorktreeKept, TreeKept, PlacesKept, Opened
<1> QED BY <1>2, <1>4, <1>5, UpdatesAre

\* What the invariant says of each variable's type.
LEMMA MemoryKept ==
  ASSUME PlanAssumption, ExecutorTyped, [Next]_vars
  PROVE  m' \in Memory
<1>0. m \in Memory /\ Tasks \in Nat BY DEF ExecutorTyped, PlanAssumption
<1>1. 1 \in DOMAIN Schedule /\ Len(Schedule) \in Nat /\ DOMAIN Schedule = 1..Len(Schedule)
      /\ \A n \in DOMAIN Schedule : Schedule[n] \subseteq Task BY ScheduleIs
<1>2. (Plan \/ RecoverCheck \/ CompleteReopening \/ Over \/ UNCHANGED vars) => UNCHANGED m
  BY DEF Plan, RecoverCheck, CompleteReopening, Over, vars
<1>3. \A t \in Task : (Pin(t) \/ Converse(t) \/ ReserveCheck(t) \/ PrepareCheck(t) \/ RunCheck(t)) => UNCHANGED m
  BY DEF Pin, Converse, ReserveCheck, PrepareCheck, RunCheck
<1>4. \A x \in Places : Go(x) => m' \in Memory BY <1>0 DEF Go, Memory
<1>5. CASE Begin \/ Recovered \/ PrepareReserve \/ Create \/ Open \/ CleanUp \/ Close \/ Delete \/ Fail \/ HandOff
           \/ Reopen
  <2>1. UNCHANGED m
        \/ \E x \in {"skipped", "recover", "cleanup", "prepare", "create",
                      "pass", "close", "delete", "failed", "done"} : Go(x)
    BY <1>5 DEF Begin, Recovered, PrepareReserve, Create, Open, CleanUp, Close, Delete, Fail, HandOff, Reopen
  <2> QED BY <1>0, <1>4, <2>1 DEF Places, Opened
<1>6. CASE StartPass BY <1>0, <1>1, <1>6 DEF StartPass, Memory, Places, Opened
<1>7. CASE NextBatch
  <2>1. CASE Go("failed") BY <1>4, <2>1 DEF Places
  <2>2. CASE m.batch < Len(Schedule) /\ m' = [m EXCEPT !.batch = @ + 1]
    <3>1. m.batch + 1 \in DOMAIN Schedule BY <1>0, <1>1, <2>2 DEF Memory
    <3> QED BY <1>0, <2>2, <3>1 DEF Memory
  <2>3. CASE m' = [m EXCEPT !.pc = "final", !.todo = Task] BY <1>0, <2>3 DEF Memory, Places, Opened
  <2>4. CASE m' = [m EXCEPT !.pc = "reserve", !.todo = Schedule[m.batch]]
    <3>1. Schedule[m.batch] \subseteq Task BY <1>0, <1>1 DEF Memory
    <3> QED BY <1>0, <2>4, <3>1 DEF Memory, Places, Opened
  <2> QED BY <1>7, <2>1, <2>2, <2>3, <2>4 DEF NextBatch
<1>8. CASE ReserveAttempt
  <2>1. PICK t \in m.todo : m' = [m EXCEPT !.todo = @ \ {t},
                    !.busy = IF Completed(t) \/ Blocked(t) THEN @ ELSE @ \cup {t},
                    !.pc = IF m.todo = {t} THEN "write" ELSE "reserve"] BY <1>8 DEF ReserveAttempt
  <2>2. t \in Task BY <1>0 DEF Memory
  <2> QED BY <1>0, <2>1, <2>2 DEF Memory, Places, Opened
<1>9. CASE Settled
  <2>1. {t \in Schedule[m.batch] : Running(t)} \subseteq Task BY <1>0, <1>1 DEF Memory
  <2> QED BY <1>0, <1>9, <2>1 DEF Settled, Memory, Places, Opened
<1>10. CASE Rename
  <2>1. m.writing \in Under BY <1>0, <1>10 DEF Rename, Memory
  <2>2. [m.writing EXCEPT !.renamed = TRUE] \in Under BY <2>1 DEF Under
  <2>3. m' = [m EXCEPT !.writing = [m.writing EXCEPT !.renamed = TRUE]] BY <1>10 DEF Rename
  <2> QED BY <1>0, <2>2, <2>3 DEF Memory
<1>16. CASE Commit BY <1>0, <1>16 DEF Commit, Memory
<1>11. CASE Pass BY <1>0, <1>11 DEF Pass, Memory, Places, Opened
<1>12. CASE Stop
  <2>1. Idle \in Memory BY <1>1 DEF Idle, Memory, Places
  <2> QED BY <1>12, <2>1 DEF Stop
<1>13. ASSUME NEW t \in Task, Dispatch(t) \/ Interrupted(t) \/ Collect(t) \/ Finish(t) PROVE m' \in Memory
  <2>1. /\ m.busy \ {t} \in SUBSET Task /\ m.native \ {t} \in SUBSET Task /\ m.native \cup {t} \in SUBSET Task
    BY <1>0 DEF Memory
  <2>2. \/ m' = [m EXCEPT !.native = @ \cup {t}] \/ m' = [m EXCEPT !.busy = @ \ {t}]
        \/ m' = [m EXCEPT !.native = @ \ {t}]
        \/ m' = [m EXCEPT !.native = @ \ {t}, !.busy = @ \ {t}]
    BY <1>13 DEF Dispatch, Interrupted, Collect, Finish
  <2> QED BY <1>0, <2>1, <2>2 DEF Memory
<1>14. ASSUME NEW t \in Task, Intend(t) PROVE m' \in Memory
  <2>1. PICK f \in DOMAIN run[t].updates : m' = [m EXCEPT !.writing = [task |-> t, file |-> f, renamed |-> FALSE]]
    BY <1>14 DEF Intend
  <2>2. run[t].updates \in Updates BY DEF ExecutorTyped, RunOf
  <2>3. f \in File BY <2>1, <2>2, UpdatesAre
  <2> QED BY <1>0, <2>1, <2>3 DEF Memory, Under
<1>15. ASSUME NEW t \in Task, Record(t) \/ FinalCheck(t) PROVE m' \in Memory
  <2>1. m.todo \ {t} \in SUBSET Task BY <1>0 DEF Memory
  <2>2. \E x \in {"batch", "verify", "decide", "final"} : m' = [m EXCEPT !.todo = m.todo \ {t}, !.pc = x]
    BY <1>15 DEF Record, FinalCheck
  <2> QED BY <1>0, <2>1, <2>2 DEF Memory, Places, Opened
<1> QED BY <1>0, <1>2, <1>3, <1>5, <1>6, <1>7, <1>8, <1>9, <1>10, <1>16, <1>11, <1>12, <1>13, <1>14, <1>15
        DEF Next, Executor, Writer, Checks

LEMMA WorkTypeKept ==
  ASSUME ExecutionAssumption, ExecutorTyped, WorktreeKept, WriteUnderWay, RunsSound, [Next]_vars
  PROVE  work' \in WorkOf
<1>0. work \in WorkOf /\ work.journal \in Seq(WriteOf) /\ Baseline \in Files
  BY DEF ExecutorTyped, WorkOf, Baseline, Files, ExecutionAssumption
<1>1. CASE UNCHANGED work BY <1>0, <1>1
<1>2. CASE PrepareReserve \/ Create \/ Close \/ Delete
  BY <1>0, <1>2 DEF PrepareReserve, Create, Close, Delete, WorkOf
<1>3. CASE Open
  <2>1. work.state = "ready" /\ work.tree \in Files /\ Journaled(work.journal, work.tree)
    BY <1>3 DEF Open, WorktreeKept, TreeKept, PlacesKept
  <2>2. Resolved(work.journal, work.tree) \in Seq(WriteOf) BY <1>0, <2>1, JournaledExplains
  <2>3. work' = [work EXCEPT !.journal = Resolved(work.journal, work.tree)] BY <1>3 DEF Open
  <2> QED BY <1>0, <2>2, <2>3 DEF WorkOf
<1>4. ASSUME NEW t \in Task, Intend(t) PROVE work' \in WorkOf
  <2>1. PICK w \in WriteOf : w.state = "reserved" /\ work' = [work EXCEPT !.journal = Append(@, w)]
    BY <1>4, IntentIs DEF IntentOf
  <2>2. Append(work.journal, w) \in Seq(WriteOf) BY <1>0
  <2> QED BY <1>0, <2>1, <2>2 DEF WorkOf
<1>5. CASE Rename
  <2>1. work' = [work EXCEPT !.tree =
                  [work.tree EXCEPT ![m.writing.file] = run[m.writing.task].updates[m.writing.file]]]
    BY <1>5 DEF Rename
  <2>2. work.tree \in Files /\ m.writing.file \in File /\ run[m.writing.task].updates[m.writing.file] \in Content
    BY <1>5, RenameIs
  <2>3. [work.tree EXCEPT ![m.writing.file] = run[m.writing.task].updates[m.writing.file]] \in Files BY <2>2 DEF Files
  <2> QED BY <1>0, <2>1, <2>3 DEF WorkOf
<1>6. CASE Commit
  <2>1. work' = [work EXCEPT !.journal = [work.journal EXCEPT ![Len(work.journal)].state = "completed"]]
    BY <1>6 DEF Commit
  <2>2. Unended(work.journal) BY <1>6 DEF Commit, WriteUnderWay
  <2>3. [work.journal EXCEPT ![Len(work.journal)].state = "completed"] \in Seq(WriteOf)
    BY <1>0, <2>2, SettledIs DEF Settles
  <2> QED BY <1>0, <2>1, <2>3 DEF WorkOf
<1> QED BY <1>1, <1>2, <1>3, <1>4, <1>5, <1>6, WorkChanges DEF WorkSteps

----------------------------------------------------------------------------
(* The ledger's attempts and the runs are of their types.                  *)

LEMMA LastAttempt ==
  ASSUME ExecutorTyped, NEW t \in Task, ledger[t] # <<>>
  PROVE  Len(ledger[t]) \in 1..Len(ledger[t]) /\ Last(t) \in AttemptOf
<1>1. ledger[t] \in Seq(AttemptOf) BY DEF ExecutorTyped
<1>2. Len(ledger[t]) \in 1..Len(ledger[t]) BY <1>1, EmptySeq
<1> QED BY <1>1, <1>2 DEF Last

\* The last attempt of a task becomes a.
Rewritten(t, a) ==
  /\ a \in AttemptOf /\ ledger[t] # <<>>
  /\ ledger' = [ledger EXCEPT ![t] = [ledger[t] EXCEPT ![Len(ledger[t])] = a]]

\* What that leaves of the ledger.
LedgerKept(t, a) ==
  /\ ledger' \in [Task -> Seq(AttemptOf)]
  /\ \A u \in Task : Len(ledger'[u]) = Len(ledger[u])
  /\ \A u \in Task : \A n \in 1..Len(ledger[u]) :
       IF u = t /\ n = Len(ledger[u]) THEN ledger'[u][n] = a ELSE ledger'[u][n] = ledger[u][n]

\* A last attempt that is rewritten leaves the earlier ones.
LEMMA RewrittenKeeps ==
  ASSUME ExecutorTyped, NEW t \in Task, NEW a, Rewritten(t, a)
  PROVE  LedgerKept(t, a)
<1> DEFINE L == ledger[t]  K == [L EXCEPT ![Len(L)] = a]
<1>1. ledger \in [Task -> Seq(AttemptOf)] /\ L \in Seq(AttemptOf) /\ a \in AttemptOf BY DEF ExecutorTyped, Rewritten
<1>2. K \in Seq(AttemptOf) /\ Len(K) = Len(L) /\ \A n \in 1..Len(L) : K[n] = IF n = Len(L) THEN a ELSE L[n]
  <2>1. L \in Seq(AttemptOf) /\ a \in AttemptOf /\ DOMAIN L = 1..Len(L) /\ Len(L) \in 1..Len(L)
    BY <1>1, EmptySeq DEF Rewritten
  <2> HIDE DEF L
  <2>2. \A n \in 1..Len(L) : K[n] = IF n = Len(L) THEN a ELSE L[n] BY <2>1
  <2>3. K \in Seq(AttemptOf) /\ Len(K) = Len(L) BY <2>1
  <2> QED BY <2>2, <2>3
<1>3. ledger' = [ledger EXCEPT ![t] = K] BY DEF Rewritten
<1>4. \A u \in Task : ledger'[u] = IF u = t THEN K ELSE ledger[u] BY <1>1, <1>3
<1>5. ledger' \in [Task -> Seq(AttemptOf)] BY <1>1, <1>2, <1>3
<1> HIDE DEF K
<1> QED BY <1>2, <1>4, <1>5 DEF LedgerKept

LEMMA VerdictIs ==
  ASSUME ExecutorTyped, NEW t, NEW at, NEW limit
  PROVE  Verdict(t, at, limit) \in {"none", "passed", "failed", "incomplete"}
<1> DEFINE c == Check(t, at)
<1>1. c \in DOMAIN execs => execs[c] \in ExecOf BY DEF ExecutorTyped
<1>2. c \in DOMAIN execs => execs[c].result \in {"none", "passed", "failed", "unavailable"} BY <1>1 DEF ExecOf
<1> QED BY <1>2 DEF Verdict

\* recordVerification rewrites the last attempt, but not whether it was invalidated.
LEMMA RecordIs ==
  ASSUME ExecutorTyped, NEW t \in Task, Record(t)
  PROVE  UNCHANGED ledger \/ \E a : Rewritten(t, a) /\ a.invalidated = Last(t).invalidated
<1> DEFINE v == Verdict(t, AttemptId(t), run[t].limit)
           a == [Last(t) EXCEPT !.state = "verified", !.result = v, !.halted = run[t].limit = "conflict"]
<1>0. ledger \in [Task -> Seq(AttemptOf)] BY DEF ExecutorTyped
<1>1. ledger' = [ledger EXCEPT ![t] = [ledger[t] EXCEPT ![Len(ledger[t])] = a]] BY <1>0 DEF Record, Last
<1>2. CASE ledger[t] = <<>>
  <2>1. [ledger[t] EXCEPT ![Len(ledger[t])] = a] = ledger[t]
    <3> HIDE DEF a
    <3>1. Len(ledger[t]) \notin DOMAIN ledger[t] BY <1>2
    <3> QED BY <1>0, <3>1
  <2> HIDE DEF a
  <2> QED BY <1>0, <1>1, <2>1
<1>3. CASE ledger[t] # <<>>
  <2>1. Last(t) \in AttemptOf BY <1>3, LastAttempt
  <2>2. v \in {"none", "passed", "failed", "incomplete"} BY VerdictIs
  <2>3. a \in AttemptOf /\ a.invalidated = Last(t).invalidated
    <3> HIDE DEF v
    <3> QED BY <2>1, <2>2 DEF AttemptOf
  <2> HIDE DEF a
  <2> QED BY <1>1, <1>3, <2>3 DEF Rewritten
<1> QED BY <1>2, <1>3

LEMMA RoundIs ==
  ASSUME ExecutorTyped, repair.rounds # <<>>
  PROVE  Round \in RoundOf
<1>1. repair.rounds \in Seq(RoundOf) BY DEF ExecutorTyped, RepairOf
<1>2. Len(repair.rounds) \in 1..Len(repair.rounds) BY <1>1, EmptySeq
<1> QED BY <1>1, <1>2 DEF Round

LEMMA InvalidationIs ==
  ASSUME ExecutorTyped, CompleteReopening
  PROVE  UNCHANGED ledger \/ \E t \in Task : \E a : Rewritten(t, a) /\ FailedAt(a.invalidated)
<1> DEFINE t == NextReopened(Round.reopened, ToReopen)
           i == <<Round.reopened[t], Round.snapshot>>
           a == [Last(t) EXCEPT !.invalidated = i]
<1>0. ledger \in [Task -> Seq(AttemptOf)] BY DEF ExecutorTyped
<1>1. Round \in RoundOf BY RoundIs DEF CompleteReopening, Reopening
<1>2. SUFFICES ASSUME ~UNCHANGED ledger
               PROVE  t \in Task /\ Rewritten(t, a) /\ FailedAt(a.invalidated)
  <2> HIDE DEF a, t
  <2> QED OBVIOUS
<1>3. /\ \E r \in 0..Retries : Evidence(Round.reopened[t], Final(r), Round.snapshot, "failed")
      /\ ledger' = [ledger EXCEPT ![t][Len(ledger[t])].invalidated = i]
  BY <1>2 DEF CompleteReopening
<1>4. t \in Task
  <2> HIDE DEF t, i
  <2> QED BY <1>0, <1>2, <1>3
<1>5. ledger' = [ledger EXCEPT ![t] = [ledger[t] EXCEPT ![Len(ledger[t])] = a]]
  <2> HIDE DEF t, i
  <2> QED BY <1>0, <1>3, <1>4 DEF Last
<1>6. ledger[t] # <<>>
  <2> HIDE DEF t, a
  <2>1. ASSUME ledger[t] = <<>> PROVE FALSE
    <3>1. Len(ledger[t]) \notin DOMAIN ledger[t] BY <2>1
    <3>2. [ledger[t] EXCEPT ![Len(ledger[t])] = a] = ledger[t] BY <1>0, <1>4, <3>1
    <3> QED BY <1>0, <1>2, <1>4, <1>5, <3>2
  <2> QED BY <2>1
<1>7. Last(t) \in AttemptOf
  <2> HIDE DEF t
  <2> QED BY <1>4, <1>6, LastAttempt
<1>8. i \in Nat \X Files
  <2> HIDE DEF t
  <2> QED BY <1>1, <1>4 DEF RoundOf
<1>9. a \in AttemptOf /\ a.invalidated = i
  <2> HIDE DEF t, i
  <2> QED BY <1>7, <1>8 DEF AttemptOf
<1>10. FailedAt(a.invalidated)
  <2>1. i[1] = Round.reopened[t] /\ i[2] = Round.snapshot OBVIOUS
  <2> HIDE DEF t, i, a
  <2> QED BY <1>3, <1>9, <2>1 DEF FailedAt, Evidence, Ended
<1> HIDE DEF t, a, i
<1> QED BY <1>4, <1>5, <1>6, <1>9, <1>10 DEF Rewritten

\* Attempts are only ever added by reserve.
Reserved(t) ==
  /\ ledger' = [ledger EXCEPT ![t] =
                   Append(@, [state |-> "reserved", result |-> "none", halted |-> FALSE, invalidated |-> Null])]
  /\ run' = [run EXCEPT ![t] = NoRun]

\* What a step does to the ledger: an attempt is added, or the last one of a task is rewritten.
LEMMA LedgerMoves ==
  ASSUME ExecutorTyped, [Next]_vars
  PROVE  \/ UNCHANGED ledger
         \/ /\ \E t \in Task : \E a :
                 Rewritten(t, a) /\ (a.invalidated = Last(t).invalidated \/ FailedAt(a.invalidated))
            /\ UNCHANGED <<run, spent>>
         \/ \E t \in Task : Reserved(t) /\ UNCHANGED spent
<1>1. m \in Memory BY DEF ExecutorTyped
<1>2. CASE ReserveAttempt BY <1>1, <1>2 DEF ReserveAttempt, Reserved, Memory
<1>3. CASE CompleteReopening
  <2>1. UNCHANGED <<run, spent>> BY <1>3 DEF CompleteReopening
  <2> QED BY <1>3, <2>1, InvalidationIs
<1>4. ASSUME NEW t \in Task, Record(t)
      PROVE  UNCHANGED ledger
             \/ ((\E a : Rewritten(t, a) /\ a.invalidated = Last(t).invalidated) /\ UNCHANGED <<run, spent>>)
  <2>1. UNCHANGED <<run, spent>> BY <1>4 DEF Record
  <2> QED BY <1>4, <2>1, RecordIs
<1> QED BY <1>2, <1>3, <1>4, LedgerChanges DEF LedgerSteps

LEMMA LedgerTypeKept ==
  ASSUME ExecutorTyped, [Next]_vars
  PROVE  ledger' \in [Task -> Seq(AttemptOf)]
<1>0. ledger \in [Task -> Seq(AttemptOf)] BY DEF ExecutorTyped
<1>1. ASSUME NEW t \in Task, Reserved(t) PROVE ledger' \in [Task -> Seq(AttemptOf)]
  <2>1. [state |-> "reserved", result |-> "none", halted |-> FALSE, invalidated |-> Null] \in AttemptOf
    BY DEF AttemptOf
  <2> QED BY <1>0, <1>1, <2>1 DEF Reserved
<1>2. ASSUME NEW t \in Task, NEW a, Rewritten(t, a) PROVE ledger' \in [Task -> Seq(AttemptOf)]
  BY <1>2, RewrittenKeeps DEF LedgerKept
<1> QED BY <1>0, <1>1, <1>2, LedgerMoves

LEMMA RunTypeKept ==
  ASSUME PlanAssumption, ExecutionAssumption, ExecutorTyped, WorktreeKept, RunsSound, [Next]_vars
  PROVE  run' \in [Task -> RunOf] /\ RunsSound'
<1>0. run \in [Task -> RunOf] /\ NoRun \in RunOf /\ m \in Memory BY DEF ExecutorTyped, NoRun, RunOf, Updates
<1>1. CASE UNCHANGED run BY <1>0, <1>1 DEF RunsSound
<1>2. ASSUME NEW t \in Task, NEW r \in RunOf, Save(t, r), r.state # "none" => r.base \in Files
      PROVE  run' \in [Task -> RunOf] /\ RunsSound'
  BY <1>0, <1>2 DEF Save, RunsSound
<1>3. CASE ReserveAttempt
  <2>1. UNCHANGED run \/ \E t \in Task : Save(t, NoRun) BY <1>0, <1>3 DEF ReserveAttempt, Memory, Save
  <2>2. NoRun.state = "none" BY DEF NoRun
  <2> QED BY <1>0, <1>1, <1>2, <2>1, <2>2
<1>4. ASSUME NEW t \in Task, Pin(t) PROVE run' \in [Task -> RunOf] /\ RunsSound'
  <2> DEFINE r == [run[t] EXCEPT !.state = "pinned", !.base = work.tree]
  <2>1. work.tree \in Files BY <1>4 DEF Pin, Writing, WorktreeKept, TreeKept, PlacesKept, Opened
  <2>2. r \in RunOf /\ r.base \in Files BY <1>0, <2>1 DEF RunOf
  <2>3. Save(t, r) BY <1>4 DEF Pin
  <2> HIDE DEF r
  <2> QED BY <1>2, <2>2, <2>3
<1>5. ASSUME NEW t \in Task, Dispatch(t) \/ Interrupted(t) \/ Finish(t)
             \/ (Collect(t) /\ ~\E a \in Answers[t] : Collected(t, a))
      PROVE run' \in [Task -> RunOf] /\ RunsSound'
  <2>1. run[t] \in RunOf /\ run[t].base \in Files
    BY <1>0, <1>5 DEF Dispatch, Interrupted, Finish, Collect, RunsSound
  <2>2. \/ Save(t, [run[t] EXCEPT !.state = "dispatched"]) \/ Save(t, [run[t] EXCEPT !.state = "finished"])
        \/ Save(t, [run[t] EXCEPT !.state = "finished", !.limit = "limited"])
    BY <1>5 DEF Dispatch, Interrupted, Finish, Collect
  <2>3. \A r \in {[run[t] EXCEPT !.state = "dispatched"], [run[t] EXCEPT !.state = "finished"],
                  [run[t] EXCEPT !.state = "finished", !.limit = "limited"]} : r \in RunOf /\ r.base \in Files
    BY <2>1 DEF RunOf
  <2> QED BY <1>2, <2>2, <2>3
<1>6. ASSUME NEW t \in Task, NEW a \in Answers[t], Collected(t, a), run[t].state # "none"
      PROVE  run' \in [Task -> RunOf] /\ RunsSound'
  <2> DEFINE r == [run[t] EXCEPT !.state = "collected", !.updates = a.updates, !.limit = a.limit]
  <2>1. run[t] \in RunOf /\ run[t].base \in Files BY <1>0, <1>6 DEF RunsSound
  <2>2. a.limit \in {"none", "limited", "conflict"} /\ a.updates \in UNION {[S -> Content] : S \in SUBSET Scope[t]}
    BY DEF ExecutionAssumption
  <2>3. Scope[t] \subseteq File BY DEF PlanAssumption
  <2>4. a.updates \in Updates BY <2>2, <2>3 DEF Updates
  <2>5. r \in RunOf /\ r.base \in Files BY <2>1, <2>2, <2>4 DEF RunOf
  <2>6. Save(t, r) BY <1>6 DEF Collected
  <2> HIDE DEF r
  <2> QED BY <1>2, <2>5, <2>6
<1>7. \A t \in Task : Collect(t) \/ Converse(t) => run[t].state # "none" BY DEF Collect, Converse
<1>8. \A t \in Task : Converse(t) => \E a \in Answers[t] : Collected(t, a) BY DEF Converse
<1> QED BY <1>1, <1>3, <1>4, <1>5, <1>6, <1>7, <1>8, RunChanges DEF RunSteps

----------------------------------------------------------------------------
(* The verification executions.                                            *)

\* An execution is added, or one that was not finished becomes x.
ExecutionIs(c, x) ==
  /\ c \notin DOMAIN execs \/ c \in Unfinished
  /\ x \in ExecOf
  /\ execs' \in [DOMAIN execs \cup {c} -> ExecOf] /\ execs'[c] = x
  /\ \A d \in DOMAIN execs : d # c => execs'[d] = execs[d]

LEMMA ExecutionChanged ==
  ASSUME ExecutorTyped, NEW c \in Unfinished, NEW x \in ExecOf, execs' = [execs EXCEPT ![c] = x]
  PROVE  ExecutionIs(c, x)
<1>1. execs \in [DOMAIN execs -> ExecOf] /\ c \in DOMAIN execs BY DEF ExecutorTyped, Unfinished
<1>2. execs' \in [DOMAIN execs \cup {c} -> ExecOf] BY <1>1
<1> QED BY <1>1, <1>2 DEF ExecutionIs

LEMMA ExecutionAdded ==
  ASSUME ExecutorTyped, NEW c, c \notin DOMAIN execs, NEW x \in ExecOf,
         execs' = [d \in DOMAIN execs \cup {c} |-> IF d = c THEN x ELSE execs[d]]
  PROVE  ExecutionIs(c, x)
<1>1. execs \in [DOMAIN execs -> ExecOf] BY DEF ExecutorTyped
<1>2. execs' \in [DOMAIN execs \cup {c} -> ExecOf] /\ execs'[c] = x
      /\ \A d \in DOMAIN execs : d # c => execs'[d] = execs[d]
  BY <1>1
<1> QED BY <1>2 DEF ExecutionIs

LEMMA ReserveCheckIs ==
  ASSUME ExecutorTyped, NEW t, ReserveCheck(t)
  PROVE  Check(t, Current(t)) \notin DOMAIN execs
         /\ ExecutionIs(Check(t, Current(t)), [state |-> "reserved", result |-> "none"])
<1>1. [state |-> "reserved", result |-> "none"] \in ExecOf BY DEF ExecOf
<1>2. Check(t, Current(t)) \notin DOMAIN execs /\ execs' = [d \in DOMAIN execs \cup {Check(t, Current(t))} |->
                    IF d = Check(t, Current(t)) THEN [state |-> "reserved", result |-> "none"] ELSE execs[d]]
  BY DEF ReserveCheck
<1> QED BY <1>1, <1>2, ExecutionAdded

\* An unfinished execution is given another state.
Advanced(c, s) == /\ c \in Unfinished
                  /\ ExecutionIs(c, [execs[c] EXCEPT !.state = s]) /\ execs'[c].state = s

LEMMA AdvancedIs ==
  ASSUME ExecutorTyped, NEW c \in Unfinished, NEW s \in {"reserved", "prepared", "completed", "interrupted"},
         execs' = [execs EXCEPT ![c].state = s]
  PROVE  Advanced(c, s)
<1> DEFINE x == [execs[c] EXCEPT !.state = s]
<1>1. execs[c] \in ExecOf BY DEF ExecutorTyped, Unfinished
<1>2. x \in ExecOf /\ x.state = s BY <1>1 DEF ExecOf
<1>3. execs' = [execs EXCEPT ![c] = x] OBVIOUS
<1> HIDE DEF x
<1>4. ExecutionIs(c, x) BY <1>2, <1>3, ExecutionChanged
<1>5. execs'[c] = x BY <1>4 DEF ExecutionIs
<1> QED BY <1>2, <1>4, <1>5 DEF Advanced, x

LEMMA PrepareCheckIs ==
  ASSUME ExecutorTyped, NEW t, PrepareCheck(t)
  PROVE  Advanced(Check(t, Current(t)), "prepared")
<1> DEFINE c == Check(t, Current(t))
<1>1. c \in Unfinished /\ execs' = [execs EXCEPT ![c].state = "prepared"] BY DEF PrepareCheck, Unfinished
<1> HIDE DEF c
<1>2. Advanced(c, "prepared") BY <1>1, AdvancedIs
<1> QED BY <1>2 DEF c

\* What RunCheck does to the execution c.
RanIs(c) ==
  /\ c \in Unfinished /\ execs[c].state = "prepared"
  /\ \/ live' = live \cup {c} /\ UNCHANGED execs
     \/ /\ live' = live \ {c}
        /\ \E r \in {"passed", "failed", "unavailable"} : ExecutionIs(c, [state |-> "completed", result |-> r])

LEMMA RunCheckIs ==
  ASSUME ExecutionAssumption, ExecutorTyped, NEW t \in Task, RunCheck(t)
  PROVE  RanIs(Check(t, Current(t)))
<1> DEFINE c == Check(t, Current(t))
<1>1. /\ c \in Unfinished /\ execs[c].state = "prepared"
      /\ \/ live' = live \cup {c} /\ UNCHANGED execs
         \/ /\ live' = live \ {c}
            /\ \E r \in Results[t] : execs' = [execs EXCEPT ![c] = [state |-> "completed", result |-> r]]
  BY DEF RunCheck, Unfinished
<1>2. Results[t] \subseteq {"passed", "failed", "unavailable"} BY DEF ExecutionAssumption
<1> HIDE DEF c
<1>3. ASSUME NEW r \in Results[t], execs' = [execs EXCEPT ![c] = [state |-> "completed", result |-> r]]
      PROVE  ExecutionIs(c, [state |-> "completed", result |-> r])
  <2>1. [state |-> "completed", result |-> r] \in ExecOf BY <1>2 DEF ExecOf
  <2> QED BY <1>1, <1>3, <2>1, ExecutionChanged
<1>4. RanIs(c) BY <1>1, <1>2, <1>3 DEF RanIs
<1> QED BY <1>4 DEF c

RecoveredIs == \E c : Advanced(c, "interrupted") /\ live' = live \ {c}

LEMMA RecoverCheckIs ==
  ASSUME ExecutorTyped, RecoverCheck
  PROVE  RecoveredIs
<1>1. PICK c \in Unfinished : execs' = [execs EXCEPT ![c].state = "interrupted"] /\ live' = live \ {c}
  BY DEF RecoverCheck
<1>2. Advanced(c, "interrupted") BY <1>1, AdvancedIs
<1> QED BY <1>1, <1>2 DEF RecoveredIs

\* What a step does to the executions: at most one is added or advanced.
LEMMA ExecsMoves ==
  ASSUME ExecutionAssumption, ExecutorTyped, [Next]_vars
  PROVE  UNCHANGED execs \/ \E c, x : ExecutionIs(c, x)
<1>1. ASSUME NEW t \in Task, ReserveCheck(t) PROVE \E c, x : ExecutionIs(c, x) BY <1>1, ReserveCheckIs
<1>2. ASSUME NEW t \in Task, PrepareCheck(t) PROVE \E c, x : ExecutionIs(c, x) BY <1>2, PrepareCheckIs DEF Advanced
<1>3. ASSUME NEW t \in Task, RunCheck(t) PROVE UNCHANGED execs \/ \E c, x : ExecutionIs(c, x)
  BY <1>3, RunCheckIs DEF RanIs
<1>4. CASE RecoverCheck BY <1>4, RecoverCheckIs DEF RecoveredIs, Advanced
<1> QED BY <1>1, <1>2, <1>3, <1>4, ExecsChanges DEF ExecsSteps

LEMMA ExecsTypeKept ==
  ASSUME ExecutionAssumption, ExecutorTyped, [Next]_vars
  PROVE  execs' \in [DOMAIN execs' -> ExecOf]
<1>1. execs \in [DOMAIN execs -> ExecOf] BY DEF ExecutorTyped
<1>2. ASSUME NEW c, NEW x, ExecutionIs(c, x) PROVE execs' \in [DOMAIN execs' -> ExecOf]
  <2>1. execs' \in [DOMAIN execs \cup {c} -> ExecOf] BY <1>2 DEF ExecutionIs
  <2> QED BY <2>1
<1> QED BY <1>1, <1>2, ExecsMoves

\* What is so of an execution after the step.
EndedAfter(c, how) == c \in DOMAIN execs' /\ execs'[c] = [state |-> "completed", result |-> how]

\* An execution that ended stays as it ended.
LEMMA EndedStays ==
  ASSUME ExecutionAssumption, ExecutorTyped, [Next]_vars, NEW d, NEW how, Ended(d, how)
  PROVE  EndedAfter(d, how)
<1>1. d \in DOMAIN execs /\ execs[d] = [state |-> "completed", result |-> how] BY DEF Ended, EndedAfter
<1>2. d \notin Unfinished BY <1>1 DEF Unfinished
<1>3. ASSUME NEW c, NEW x, ExecutionIs(c, x) PROVE EndedAfter(d, how)
  <2>1. d # c BY <1>1, <1>2, <1>3 DEF ExecutionIs
  <2>2. d \in DOMAIN execs' /\ execs'[d] = execs[d] BY <1>1, <1>3, <2>1 DEF ExecutionIs
  <2> QED BY <1>1, <2>2 DEF Ended, EndedAfter
<1> QED BY <1>1, <1>3, ExecsMoves DEF Ended, EndedAfter

\* What passed stays passed: an execution that ended is never taken back.
LEMMA PassedOnStays ==
  ASSUME ExecutionAssumption, ExecutorTyped, [Next]_vars, NEW files, PassedOn(files)
  PROVE  \A t \in Task : \E r \in 0..Retries : EndedAfter(<<t, Final(r), files>>, "passed")
<1> SUFFICES ASSUME NEW t \in Task PROVE \E r \in 0..Retries : EndedAfter(<<t, Final(r), files>>, "passed") OBVIOUS
<1>1. PICK r \in 0..Retries : Ended(<<t, Final(r), files>>, "passed") BY DEF PassedOn
<1>2. EndedAfter(<<t, Final(r), files>>, "passed") BY <1>1, EndedStays
<1> QED BY <1>2

\* Neither is one that failed.
LEMMA FailedStays ==
  ASSUME ExecutionAssumption, ExecutorTyped, [Next]_vars, NEW i, FailedAt(i)
  PROVE  \E r \in 0..Retries : EndedAfter(<<i[1], Final(r), i[2]>>, "failed")
<1>1. PICK r \in 0..Retries : Ended(<<i[1], Final(r), i[2]>>, "failed") BY DEF FailedAt
<1>2. EndedAfter(<<i[1], Final(r), i[2]>>, "failed") BY <1>1, EndedStays
<1> QED BY <1>2

----------------------------------------------------------------------------
(* The rounds of repair, the outcome, and the launches.                    *)

LEMMA ReopenedIs ==
  ASSUME PlanAssumption, NEW failed \in SUBSET Task, NEW written
  PROVE  Reopened(failed, written) \in [Task -> Nat]
<1>1. Task \subseteq Nat BY DEF PlanAssumption, Task
<1>2. ASSUME NEW S \in SUBSET failed, S # {} PROVE Min(S) \in Nat
  <2>1. S \in SUBSET Nat BY <1>1
  <2> QED BY <1>2, <2>1, MinIs
<1> DEFINE related(u) == {t \in failed : Reaches(t, u, written)}
<1>3. ASSUME NEW u \in Task PROVE (IF u \in failed THEN u ELSE IF related(u) = {} THEN 0 ELSE Min(related(u))) \in Nat
  <2>1. related(u) \in SUBSET failed OBVIOUS
  <2> HIDE DEF related
  <2> QED BY <1>1, <1>2, <2>1
<1> QED BY <1>3 DEF Reopened

\* A round is given for bytes no round was given for.
NewRound(n) ==
  /\ n \in RoundOf /\ \A k \in DOMAIN repair.rounds : repair.rounds[k].snapshot # n.snapshot
  /\ repair' = [repair EXCEPT !.rounds = Append(@, n)]

LEMMA ReopenIs ==
  ASSUME PlanAssumption, ExecutorTyped, WorktreeKept, Reopen
  PROVE  (repair' = [repair EXCEPT !.terminal = work.tree]) \/ \E n : NewRound(n)
<1> DEFINE reopened == Reopened(Failed, [t \in Task |-> Written(t)])
           n == [snapshot |-> work.tree, reopened |-> reopened, state |-> "reopening"]
<1>1. reopened \in [Task -> Nat] BY ReopenedIs DEF Failed
<1>2. work.tree \in Files BY DEF Reopen, WorktreeKept, TreeKept, PlacesKept, Opened
<1>3. n \in RoundOf /\ n.snapshot = work.tree
  <2> HIDE DEF reopened
  <2> QED BY <1>1, <1>2 DEF RoundOf
<1>4. \/ repair' = [repair EXCEPT !.terminal = work.tree]
      \/ ~Exhausted(reopened) /\ repair' = [repair EXCEPT !.rounds = Append(@, n)] BY DEF Reopen
<1> HIDE DEF n, reopened
<1> QED BY <1>3, <1>4 DEF Exhausted, NewRound

\* A round is opened on a snapshot no earlier round was opened on.
LEMMA RepairKept ==
  ASSUME PlanAssumption, ExecutorTyped, WorktreeKept, [Next]_vars,
         RoundsApart
  PROVE  repair' \in RepairOf /\ RoundsApart'
<1>0. repair \in RepairOf /\ repair.rounds \in Seq(RoundOf) /\ work.tree \in Files \union {Null}
  BY DEF ExecutorTyped, RepairOf, WorkOf
<1> DEFINE R == repair.rounds
<1>1. CASE CompleteReopening /\ ~UNCHANGED repair
  <2> DEFINE n == [Round EXCEPT !.state = "reopened"]
  <2>1. repair' = [repair EXCEPT !.rounds = [R EXCEPT ![Len(R)] = n]] /\ R # <<>>
    BY <1>0, <1>1 DEF CompleteReopening, Reopening, Round
  <2>2. Round \in RoundOf /\ Len(R) \in 1..Len(R) BY <1>0, <2>1, RoundIs, EmptySeq
  <2>3. n \in RoundOf /\ n.snapshot = R[Len(R)].snapshot BY <2>2 DEF RoundOf, Round
  <2> HIDE DEF n
  <2>4. [R EXCEPT ![Len(R)] = n] \in Seq(RoundOf) /\ DOMAIN [R EXCEPT ![Len(R)] = n] = DOMAIN R
        /\ \A k \in DOMAIN R : [R EXCEPT ![Len(R)] = n][k].snapshot = R[k].snapshot BY <1>0, <2>2, <2>3
  <2>5. repair' \in RepairOf /\ repair'.rounds = [R EXCEPT ![Len(R)] = n] BY <1>0, <2>1, <2>4 DEF RepairOf
  <2> QED BY <2>4, <2>5 DEF RoundsApart
<1>2. CASE repair' = [repair EXCEPT !.terminal = work.tree] BY <1>0, <1>2 DEF RepairOf, RoundsApart
<1>3. ASSUME NEW n, NewRound(n)
      PROVE  repair' \in RepairOf /\ RoundsApart'
  <2>1. n \in RoundOf /\ repair' = [repair EXCEPT !.rounds = Append(R, n)]
        /\ \A k \in DOMAIN R : R[k].snapshot # n.snapshot
    BY <1>3 DEF NewRound
  <2>2. Append(R, n) \in Seq(RoundOf) /\ DOMAIN Append(R, n) = DOMAIN R \cup {Len(R) + 1}
        /\ Append(R, n)[Len(R) + 1] = n
        /\ \A k \in DOMAIN R : Append(R, n)[k] = R[k] BY <1>0, <2>1
  <2>3. repair' \in RepairOf /\ repair'.rounds = Append(R, n) BY <1>0, <2>1, <2>2 DEF RepairOf
  <2> DEFINE S == Append(R, n)
  <2> HIDE DEF S
  <2>4. \A i, j \in DOMAIN S : S[i].snapshot = S[j].snapshot => i = j BY <2>1, <2>2 DEF S, RoundsApart
  <2> QED BY <2>3, <2>4 DEF S, RoundsApart
<1> QED BY <1>0, <1>1, <1>2, <1>3, ReopenIs, RepairChanges DEF RepairSteps, RoundsApart

LEMMA DoneTypeKept ==
  ASSUME ExecutorTyped, [Next]_vars
  PROVE  done' \in DoneOf
<1>0. done \in DoneOf /\ work.tree \in Files \union {Null} BY DEF ExecutorTyped, WorkOf
<1>1. CASE Plan BY <1>0, <1>1 DEF Plan, DoneOf
<1>2. CASE NextBatch \/ Fail \/ Pass BY <1>0, <1>2 DEF NextBatch, Fail, Pass, Publish, DoneOf
<1>3. CASE HandOff BY <1>0, <1>3 DEF HandOff, DoneOf
<1> QED BY <1>0, <1>1, <1>2, <1>3, DoneChanges DEF DoneSteps

\* Only a dispatch launches a native process.
SpentSteps == \E t \in Task : Dispatch(t)

LEMMA SpentChanges == ASSUME [Next]_vars PROVE SpentSteps \/ UNCHANGED spent
<1>1. CASE Executor
  <2>1. (Plan \/ Begin \/ Recovered \/ RecoverCheck \/ PrepareReserve \/ Create \/ Open \/ CompleteReopening
         \/ StartPass
         \/ NextBatch \/ ReserveAttempt \/ Settled \/ Rename \/ Commit \/ Reopen \/ Fail \/ Pass \/ HandOff \/ CleanUp
         \/ Close \/ Delete)
        => UNCHANGED spent
    BY DEF Plan, Begin, Recovered, RecoverCheck, PrepareReserve, Create, Open, CompleteReopening, StartPass,
      NextBatch,
           ReserveAttempt, Settled, Rename, Commit, Reopen, Fail, Pass, HandOff, CleanUp, Close, Delete
  <2>2. \A t \in Task : (Pin(t) \/ Interrupted(t) \/ Collect(t) \/ Converse(t) \/ Intend(t) \/ Finish(t)
                         \/ ReserveCheck(t) \/ PrepareCheck(t) \/ RunCheck(t) \/ Record(t)
                            \/ FinalCheck(t)) => UNCHANGED spent
    BY DEF Pin, Interrupted, Collect, Converse, Intend, Finish, ReserveCheck, PrepareCheck, RunCheck, Record,
      FinalCheck
  <2> QED BY <1>1, <2>1, <2>2 DEF Executor, Writer, Checks, SpentSteps
<1>2. CASE Stop \/ Over \/ UNCHANGED vars BY <1>2 DEF Stop, Over, vars
<1> QED BY <1>1, <1>2 DEF Next

\* What each attempt was paid for: a native process is launched for an attempt that was pinned and not yet dispatched.
LEMMA LaunchesKept ==
  ASSUME PlanAssumption, ExecutionAssumption, ExecutorTyped, BatchAlone, LaunchesCounted, [Next]_vars
  PROVE  spent' \in [Task -> Nat] /\ LaunchesCounted'
<1>0. /\ spent \in [Task -> Nat] /\ run \in [Task -> RunOf] /\ ledger \in [Task -> Seq(AttemptOf)]
      /\ \A t \in Task : Len(ledger[t]) \in Nat BY DEF ExecutorTyped
<1>1. ASSUME NEW t \in Task, Dispatch(t) PROVE spent' \in [Task -> Nat] /\ LaunchesCounted'
  <2>1. /\ t \in m.busy /\ m.pc = "write" /\ run[t].state = "pinned" /\ UNCHANGED ledger
        /\ spent' = [spent EXCEPT ![t] = @ + 1]
        /\ run' = [run EXCEPT ![t] = [run[t] EXCEPT !.state = "dispatched"]]
    BY <1>1 DEF Dispatch, Writing, Save
  <2>2. ledger[t] # <<>> BY <2>1 DEF BatchAlone
  <2>3. spent[t] < Len(ledger[t]) BY <2>1, <2>2 DEF LaunchesCounted
  <2>4. run'[t].state = "dispatched" /\ spent'[t] = spent[t] + 1 /\ \A u \in Task \ {t} : run'[u] = run[u]
        /\ spent'[u] = spent[u]
    BY <1>0, <2>1 DEF RunOf
  <2>5. spent' \in [Task -> Nat] BY <1>0, <2>1
  <2>6. ASSUME NEW u \in Task
        PROVE  spent'[u] <= Len(ledger[u])
               /\ (run'[u].state \in {"none", "pinned"} /\ ledger[u] # <<>> => spent'[u] < Len(ledger[u]))
    <3>1. CASE u = t BY <1>0, <2>3, <2>4, <3>1
    <3>2. CASE u # t BY <2>4, <3>2 DEF LaunchesCounted
    <3> QED BY <3>1, <3>2
  <2> QED BY <2>1, <2>5, <2>6 DEF LaunchesCounted
<1>2. CASE UNCHANGED spent
  <2>0. SUFFICES LaunchesCounted' BY <1>0, <1>2
  <2>1. ASSUME NEW t \in Task, Reserved(t) PROVE LaunchesCounted'
    <3>1. /\ Len(ledger'[t]) = Len(ledger[t]) + 1 /\ run'[t].state = "none"
          /\ \A u \in Task \ {t} : ledger'[u] = ledger[u] /\ run'[u] = run[u] BY <1>0, <2>1 DEF Reserved, NoRun
    <3> QED BY <1>0, <1>2, <3>1 DEF LaunchesCounted
  <2>2. ASSUME NEW t \in Task, NEW a, Rewritten(t, a), UNCHANGED run PROVE LaunchesCounted'
    <3>1. LedgerKept(t, a) BY <2>2, RewrittenKeeps
    <3>2. \A u \in Task : Len(ledger'[u]) = Len(ledger[u]) /\ (ledger'[u] # <<>> => ledger[u] # <<>>)
      BY <1>0, <3>1, EmptySeq DEF LedgerKept
    <3> QED BY <1>2, <2>2, <3>2 DEF LaunchesCounted
  <2>3. ASSUME NEW t \in Task, NEW r, Save(t, r), r.state \in {"none", "pinned"} => run[t].state = "none",
               UNCHANGED ledger
        PROVE  LaunchesCounted'
    <3>1. run'[t] = r /\ \A u \in Task \ {t} : run'[u] = run[u] BY <1>0, <2>3 DEF Save
    <3> QED BY <1>2, <2>3, <3>1 DEF LaunchesCounted
  <2>4. ASSUME run' = run, ledger' = ledger PROVE LaunchesCounted'
    <3>1. spent' = spent BY <1>2
    <3> QED BY <2>4, <3>1 DEF LaunchesCounted
  <2>5. CASE UNCHANGED run
    <3>1. run' = run BY <2>5
    <3>2. CASE ledger' = ledger BY <2>4, <3>1, <3>2
    <3>3. (\E t \in Task : Reserved(t)) => LaunchesCounted' BY <2>1
    <3>4. (\E t \in Task : \E a : Rewritten(t, a)) => LaunchesCounted' BY <2>2, <2>5
    <3> HIDE DEF LaunchesCounted
    <3> QED BY <3>2, <3>3, <3>4, LedgerMoves
  <2>6. ASSUME NEW t \in Task, Pin(t) \/ Interrupted(t) \/ Collect(t) \/ Converse(t)
               \/ Finish(t) PROVE LaunchesCounted'
    <3>1. UNCHANGED ledger BY <2>6 DEF Pin, Interrupted, Collect, Converse, Finish
    <3>2. run[t] \in RunOf BY <1>0
    <3>3. CASE Pin(t)
      <4>1. Save(t, [run[t] EXCEPT !.state = "pinned", !.base = work.tree]) /\ run[t].state = "none" BY <3>3 DEF Pin
      <4> QED BY <2>3, <3>1, <4>1
    <3>4. CASE Interrupted(t) \/ Finish(t) \/ (Collect(t) /\ ~\E a \in Answers[t] : Collected(t, a))
      <4>1. \E r \in {[run[t] EXCEPT !.state = "finished"],
                      [run[t] EXCEPT !.state = "finished", !.limit = "limited"]} : Save(t, r)
        BY <3>4 DEF Interrupted, Finish, Collect
      <4>2. \A r \in {[run[t] EXCEPT !.state = "finished"], [run[t] EXCEPT !.state = "finished", !.limit = "limited"]} :
              r.state = "finished" BY <3>2 DEF RunOf
      <4> QED BY <2>3, <3>1, <4>1, <4>2
    <3>5. ASSUME NEW a, Collected(t, a) PROVE LaunchesCounted'
      <4> DEFINE r == [run[t] EXCEPT !.state = "collected", !.updates = a.updates, !.limit = a.limit]
      <4>1. r.state = "collected" BY <3>2 DEF RunOf
      <4>2. Save(t, r) BY <3>5 DEF Collected
      <4> HIDE DEF r
      <4> QED BY <2>3, <3>1, <4>1, <4>2
    <3> QED BY <2>6, <3>3, <3>4, <3>5 DEF Converse
  <2>7. ReserveAttempt => UNCHANGED run \/ \E t \in Task : Reserved(t)
    <3>1. m \in Memory BY DEF ExecutorTyped
    <3> QED BY <3>1 DEF ReserveAttempt, Reserved, Memory
  <2>8. ASSUME NEW t \in Task, Dispatch(t) PROVE FALSE
    <3>1. spent' = [spent EXCEPT ![t] = spent[t] + 1] BY <2>8 DEF Dispatch
    <3> QED BY <1>0, <1>2, <3>1
  <2> QED BY <1>0, <1>2, <2>1, <2>5, <2>6, <2>7, <2>8, RunChanges DEF RunSteps
<1> QED BY <1>1, <1>2, SpentChanges DEF SpentSteps

----------------------------------------------------------------------------
(* The batch that is written.                                              *)

\* No attempt is taken from the ledger.
LEMMA LedgerGrows ==
  ASSUME ExecutorTyped, [Next]_vars
  PROVE  \A t \in Task : ledger[t] # <<>> => ledger'[t] # <<>>
<1>0. ledger \in [Task -> Seq(AttemptOf)] BY DEF ExecutorTyped
<1>1. ASSUME NEW u \in Task, Reserved(u), NEW t \in Task, ledger[t] # <<>> PROVE ledger'[t] # <<>>
  <2> DEFINE a == [state |-> "reserved", result |-> "none", halted |-> FALSE, invalidated |-> Null]
  <2>1. Append(ledger[u], a) # <<>>
    <3>1. a \in AttemptOf BY DEF AttemptOf
    <3> HIDE DEF a
    <3>2. Append(ledger[u], a) \in Seq(AttemptOf) /\ Len(Append(ledger[u], a)) = Len(ledger[u]) + 1
          /\ Len(ledger[u]) \in Nat
      BY <1>0, <3>1
    <3> QED BY <3>2, EmptySeq
  <2>2. ledger' = [ledger EXCEPT ![u] = Append(ledger[u], a)] BY <1>1 DEF Reserved
  <2> HIDE DEF a
  <2> QED BY <1>0, <1>1, <2>1, <2>2
<1>2. ASSUME NEW u \in Task, NEW a, Rewritten(u, a), NEW t \in Task, ledger[t] # <<>> PROVE ledger'[t] # <<>>
  <2>1. Len(ledger'[t]) = Len(ledger[t]) /\ ledger'[t] \in Seq(AttemptOf) BY <1>2, RewrittenKeeps DEF LedgerKept
  <2> QED BY <1>0, <1>2, <2>1, EmptySeq
<1> QED BY <1>0, <1>1, <1>2, LedgerMoves

\* The steps that leave the executor's memory as it is.
Still ==
  \/ Plan \/ RecoverCheck \/ CompleteReopening \/ Over \/ UNCHANGED vars
  \/ \E t \in Task : Pin(t) \/ Converse(t) \/ ReserveCheck(t) \/ PrepareCheck(t) \/ RunCheck(t)

LEMMA StillIs == Still => UNCHANGED m
BY DEF Still, Plan, RecoverCheck, CompleteReopening, Over, vars, Pin, Converse, ReserveCheck, PrepareCheck, RunCheck

\* The steps between two places where no writer runs.
Goes == Begin \/ Recovered \/ PrepareReserve \/ Create \/ Open \/ CleanUp \/ Close \/ Delete \/ Fail \/ HandOff
        \/ Reopen \/ StartPass \/ Pass

LEMMA GoesIs ==
  ASSUME ExecutorTyped, Goes
  PROVE  /\ m.pc \notin {"reserve", "write"} /\ m'.pc \notin {"reserve", "write"}
         /\ m'.busy = m.busy /\ m'.writing = m.writing
<1>0. m \in Memory BY DEF ExecutorTyped
<1>1. CASE StartPass BY <1>0, <1>1 DEF StartPass, Memory
<1>2. CASE Pass BY <1>0, <1>2 DEF Pass, Memory
<1>3. CASE Goes /\ ~StartPass /\ ~Pass
  <2>1. m.pc \notin {"reserve", "write"}
    BY <1>3 DEF Goes, Begin, Recovered, PrepareReserve, Create, Open, CleanUp, Close, Delete, Fail, HandOff, Reopen
  <2>2. UNCHANGED m
        \/ \E x \in {"skipped", "recover", "cleanup", "prepare", "create",
                      "pass", "close", "delete", "failed", "done"} : Go(x)
    BY <1>3 DEF Goes, Begin, Recovered, PrepareReserve, Create, Open, CleanUp, Close, Delete, Fail, HandOff, Reopen
  <2> QED BY <1>0, <2>1, <2>2 DEF Go, Memory
<1> QED BY <1>1, <1>2, <1>3

\* The steps that are neither.
Works ==
  \/ NextBatch \/ ReserveAttempt \/ Settled \/ Rename \/ Commit \/ Stop
  \/ \E t \in Task : Dispatch(t) \/ Interrupted(t) \/ Collect(t) \/ Intend(t) \/ Finish(t) \/ Record(t)
     \/ FinalCheck(t)

\* What a step does to the memory: nothing, it goes on to another place, or it works in the batch.
LEMMA StepIs == [Next]_vars => Still \/ Goes \/ Works
BY DEF Next, Executor, Writer, Checks, Still, Goes, Works

\* The writers at work are of the batch, each with an attempt.
LEMMA BatchAloneKept ==
  ASSUME PlanAssumption, ExecutorTyped, WriteUnderWay, BatchAlone, [Next]_vars
  PROVE  BatchAlone'
<1>0. m \in Memory /\ ledger \in [Task -> Seq(AttemptOf)] /\ \A t \in Task : ledger[t] # <<>> => ledger'[t] # <<>>
  BY LedgerGrows DEF ExecutorTyped
<1>1. CASE Still
  <2>1. m' = m BY <1>1, StillIs
  <2>2. m.busy \subseteq Task BY <1>0 DEF Memory
  <2> QED BY <1>0, <2>1, <2>2 DEF BatchAlone
<1>2. CASE Goes BY <1>2, GoesIs DEF BatchAlone
<1>3. CASE NextBatch
  <2>1. m.busy = {} BY <1>3 DEF NextBatch, BatchAlone
  <2>2. m'.busy = {} /\ (m'.pc = "reserve" => m'.todo = Schedule[m'.batch]) /\ m'.pc # "write"
    BY <1>0, <1>3, <2>1 DEF NextBatch, Go, Memory
  <2> QED BY <2>2 DEF BatchAlone
<1>4. CASE ReserveAttempt
  <2>1. PICK t \in m.todo :
          /\ m.pc = "reserve"
          /\ IF Running(t) \/ Completed(t) \/ Blocked(t) THEN UNCHANGED ledger ELSE Reserved(t)
          /\ m' = [m EXCEPT !.todo = @ \ {t}, !.busy = IF Completed(t) \/ Blocked(t) THEN @ ELSE @ \cup {t},
                            !.pc = IF m.todo = {t} THEN "write" ELSE "reserve"]
    BY <1>4 DEF ReserveAttempt, Reserved
  <2>2. t \in Task /\ m.busy \subseteq Task BY <1>0, <2>1 DEF Memory
  <2>3. ~Completed(t) /\ ~Blocked(t) => ledger'[t] # <<>>
    <3>1. CASE Running(t) BY <1>0, <2>2, <3>1 DEF Running
    <3>2. CASE Reserved(t)
      <4> DEFINE a == [state |-> "reserved", result |-> "none", halted |-> FALSE, invalidated |-> Null]
      <4>1. ledger'[t] = Append(ledger[t], a) BY <1>0, <2>2, <3>2 DEF Reserved
      <4>2. a \in AttemptOf BY DEF AttemptOf
      <4>3. ledger[t] \in Seq(AttemptOf) BY <1>0, <2>2
      <4> HIDE DEF a
      <4> QED BY <4>1, <4>2, <4>3
    <3> QED BY <2>1, <3>1, <3>2
  <2>4. /\ m'.batch = m.batch /\ m'.todo \subseteq m.todo /\ m'.pc \in {"reserve", "write"}
        /\ m'.busy \subseteq m.busy \cup {t} /\ (t \in m'.busy => t \in m.busy \/ ledger'[t] # <<>>)
    BY <1>0, <2>1, <2>3 DEF Memory
  <2> QED BY <1>0, <2>1, <2>2, <2>4 DEF BatchAlone
<1>5. CASE Settled
  <2>1. m'.busy = {} /\ m'.pc = "verify" BY <1>0, <1>5 DEF Settled, Memory
  <2> QED BY <2>1 DEF BatchAlone
<1>6. ASSUME m'.pc = m.pc, m'.batch = m.batch, m'.todo = m.todo, m'.busy \subseteq m.busy PROVE BatchAlone'
  <2>1. m.busy \subseteq Task BY <1>0 DEF Memory
  <2> QED BY <1>0, <1>6, <2>1 DEF BatchAlone
<1>7. CASE Rename \/ Commit
  BY <1>0, <1>6, <1>7 DEF Rename, Commit, Memory
<1>8. CASE Stop
  <2>1. m'.busy = {} /\ m'.pc = "off" BY <1>8 DEF Stop, Idle
  <2> QED BY <2>1 DEF BatchAlone
<1>9. ASSUME NEW t \in Task, Dispatch(t) \/ Interrupted(t) \/ Collect(t) \/ Intend(t) \/ Finish(t) PROVE BatchAlone'
  <2>1. \/ m' = [m EXCEPT !.native = @ \cup {t}] \/ m' = [m EXCEPT !.busy = @ \ {t}]
        \/ m' = [m EXCEPT !.native = @ \ {t}]
        \/ m' = [m EXCEPT !.native = @ \ {t}, !.busy = @ \ {t}] \/ \E w : m' = [m EXCEPT !.writing = w]
    BY <1>9 DEF Dispatch, Interrupted, Collect, Intend, Finish
  <2> QED BY <1>0, <1>6, <2>1 DEF Memory
<1>10. ASSUME NEW t \in Task, Record(t) \/ FinalCheck(t) PROVE BatchAlone'
  <2>1. m.pc \in {"verify", "final"} /\ m.busy = {} BY <1>10 DEF Record, FinalCheck, BatchAlone
  <2>2. \E x \in {"batch", "verify", "decide", "final"} : m' = [m EXCEPT !.todo = m.todo \ {t}, !.pc = x]
    BY <1>10 DEF Record, FinalCheck
  <2>3. m'.busy = {} /\ m'.pc \in {"batch", "verify", "decide", "final"} BY <1>0, <2>1, <2>2 DEF Memory
  <2> QED BY <2>3 DEF BatchAlone
<1> QED BY <1>1, <1>2, <1>3, <1>4, <1>5, <1>7, <1>8, <1>9, <1>10, StepIs DEF Works

----------------------------------------------------------------------------
(* The worktree and the places of the executor.                            *)

\* Where the executor may be after a step that is not one of the worktree's.
PlaceKept ==
  /\ m'.pc \in Opened \union {"close"} => m.pc \in Opened \union {"close"}
  /\ m'.pc \in Opened => m.pc \in Opened
  /\ m'.pc = "create" => m.pc = "create"
  /\ m'.pc = "delete" => m.pc = "delete" \/ work.state = "closed"

\* A step that is not one of the worktree keeps the executor off an open worktree it did not have.
LEMMA Placed ==
  ASSUME ExecutorTyped, [Next]_vars, ~WorkSteps
  PROVE  PlaceKept
<1>0. m \in Memory BY DEF ExecutorTyped
<1>1. CASE Still
  <2>1. m' = m BY <1>1, StillIs
  <2> QED BY <2>1 DEF PlaceKept
<1>2. CASE Begin \/ Recovered \/ CleanUp \/ Fail \/ HandOff
  <2>1. \/ \E x \in {"skipped", "recover", "cleanup", "prepare", "failed"} : Go(x)
        \/ Go("delete") /\ work.state = "closed"
    BY <1>2 DEF Begin, Recovered, CleanUp, Fail, HandOff
  <2> QED BY <1>0, <2>1 DEF Go, Memory, PlaceKept, Opened
<1>3. CASE Reopen \/ StartPass \/ Pass BY <1>0, <1>3 DEF Reopen, StartPass, Pass, Go, Memory, PlaceKept, Opened
<1>4. CASE NextBatch BY <1>0, <1>4 DEF NextBatch, Go, Memory, PlaceKept, Opened
<1>5. CASE ReserveAttempt BY <1>0, <1>5 DEF ReserveAttempt, Memory, PlaceKept, Opened
<1>6. CASE Settled BY <1>0, <1>6 DEF Settled, Memory, PlaceKept, Opened
<1>7. CASE Stop BY <1>7 DEF Stop, Idle, PlaceKept, Opened
<1>8. ASSUME NEW t \in Task, Dispatch(t) \/ Interrupted(t) \/ Collect(t) \/ Finish(t) PROVE PlaceKept
  <2>1. \/ m' = [m EXCEPT !.native = @ \cup {t}] \/ m' = [m EXCEPT !.busy = @ \ {t}]
        \/ m' = [m EXCEPT !.native = @ \ {t}]
        \/ m' = [m EXCEPT !.native = @ \ {t}, !.busy = @ \ {t}]
    BY <1>8 DEF Dispatch, Interrupted, Collect, Finish
  <2>2. m'.pc = m.pc BY <1>0, <2>1 DEF Memory
  <2> QED BY <2>2 DEF PlaceKept
<1>9. ASSUME NEW t \in Task, Record(t) \/ FinalCheck(t) PROVE PlaceKept
  <2>1. m.pc \in {"verify", "final"} BY <1>9 DEF Record, FinalCheck
  <2>2. \E x \in {"batch", "verify", "decide", "final"} : m' = [m EXCEPT !.todo = m.todo \ {t}, !.pc = x]
    BY <1>9 DEF Record, FinalCheck
  <2>3. m'.pc \in {"batch", "verify", "decide", "final"} BY <1>0, <2>2 DEF Memory
  <2> QED BY <2>1, <2>3 DEF PlaceKept, Opened
<1> QED BY <1>1, <1>2, <1>3, <1>4, <1>5, <1>6, <1>7, <1>8, <1>9, StepIs DEF Works, Goes, WorkSteps

LEMMA EmptyJournal ==
  ASSUME ExecutionAssumption
  PROVE  Baseline \in Files /\ Journaled(<<>>, Baseline) /\ ~Unended(<<>>)
<1>1. <<>> \in Seq(WriteOf) /\ Len(<<>>) = 0 OBVIOUS
<1>2. Replayed(<<>>)[0] = Baseline BY <1>1, ReplayedIs DEF Replaying
<1>3. Baseline \in Files BY DEF Baseline, Files, ExecutionAssumption
<1>4. ~Unended(<<>>) BY DEF Unended
<1>5. \A n \in 1..Len(<<>>) : FALSE BY <1>1
<1>6. Whole(<<>>) = Baseline BY <1>1, <1>2 DEF Whole
<1> QED BY <1>3, <1>4, <1>5, <1>6 DEF Journaled

\* The write under way as the worktree has it.
LEMMA UnderWayIs ==
  ASSUME ExecutionAssumption, ExecutorTyped, WorktreeKept, WriteUnderWay, m.writing # Null
  PROVE  LET j == work.journal  w == j[Len(j)]  x == run[m.writing.task].updates[m.writing.file] IN
         /\ work.state = "ready" /\ work.tree \in Files /\ Journaled(j, work.tree)
         /\ j \in Seq(WriteOf) /\ Unended(j) /\ Whole(j) \in Files
         /\ w.op[3] = m.writing.file /\ w.after = x /\ w \in WriteOf /\ m.writing \in Under
<1>1. work.journal \in Seq(WriteOf) /\ m.writing \in Under BY DEF ExecutorTyped, WorkOf, Memory
<1>2. m.pc = "write" /\ Unended(work.journal) BY DEF WriteUnderWay
<1>3. work.state = "ready" /\ work.tree \in Files /\ Journaled(work.journal, work.tree)
  BY <1>2 DEF WorktreeKept, TreeKept, PlacesKept, Opened
<1>4. Len(work.journal) \in 1..Len(work.journal) BY <1>1, <1>2, EmptySeq DEF Unended
<1>5. Whole(work.journal) \in Files BY <1>1, ReplayedIs DEF Whole
<1>6. work.journal[Len(work.journal)] \in WriteOf BY <1>1, <1>4
<1> QED BY <1>1, <1>2, <1>3, <1>5, <1>6 DEF WriteUnderWay

\* A rename gives the file the write's bytes, and leaves the journal.
LEMMA RenameKeeps ==
  ASSUME ExecutionAssumption, ExecutorTyped, WorktreeKept, WriteUnderWay, Rename
  PROVE  LET j == work.journal  w == j[Len(j)] IN
         /\ work'.journal = j /\ work'.state = work.state /\ work'.tree = With(Whole(j), w.op[3], w.after)
         /\ work'.tree \in Files /\ Journaled(j, work'.tree)
<1> DEFINE j == work.journal  w == j[Len(j)]  x == run[m.writing.task].updates[m.writing.file]
<1>1. m.writing # Null /\ ~m.writing.renamed
      /\ work' = [work EXCEPT !.tree = [work.tree EXCEPT ![m.writing.file] = x]]
  BY DEF Rename
<1>2. /\ work.state = "ready" /\ work.tree \in Files /\ Journaled(j, work.tree)
      /\ j \in Seq(WriteOf) /\ Unended(j) /\ Whole(j) \in Files
      /\ w.op[3] = m.writing.file /\ w.after = x /\ w \in WriteOf BY <1>1, UnderWayIs
<1>3. work.tree = Whole(j) BY <1>1 DEF WriteUnderWay
<1>4. work \in WorkOf BY DEF ExecutorTyped
<1> HIDE DEF j, w, x
<1>5. work'.journal = work.journal /\ work'.state = work.state /\ work'.tree = With(Whole(j), w.op[3], w.after)
  BY <1>1, <1>2, <1>3, <1>4 DEF WorkOf, With
<1>6. With(Whole(j), w.op[3], w.after) \in Files BY <1>2 DEF With, Files, WriteOf
<1>7. Journaled(j, With(Whole(j), w.op[3], w.after)) BY <1>2 DEF Journaled, w
<1> QED BY <1>5, <1>6, <1>7 DEF j, w

\* A commit settles the write that was renamed.
LEMMA CommitKeeps ==
  ASSUME ExecutionAssumption, ExecutorTyped, WorktreeKept, WriteUnderWay, Commit
  PROVE  /\ work'.tree = work.tree /\ work.tree \in Files /\ work'.state = work.state
         /\ Journaled(work'.journal, work.tree) /\ ~Unended(work'.journal)
<1> DEFINE j == work.journal  w == j[Len(j)]  r == [j EXCEPT ![Len(j)].state = "completed"]
<1>1. m.writing # Null /\ m.writing.renamed /\ work' = [work EXCEPT !.journal = r] BY DEF Commit
<1>2. /\ work.state = "ready" /\ work.tree \in Files /\ Journaled(j, work.tree)
      /\ j \in Seq(WriteOf) /\ Unended(j) /\ Whole(j) \in Files BY <1>1, UnderWayIs
<1>3. work.tree = With(Whole(j), w.op[3], w.after) BY <1>1 DEF WriteUnderWay
<1>4. Settles(j, r, "completed") BY <1>2, SettledIs
<1>5. work \in WorkOf BY DEF ExecutorTyped
<1> HIDE DEF r
<1>6. work'.journal = r /\ work'.tree = work.tree /\ work'.state = work.state BY <1>1, <1>5 DEF WorkOf
<1> HIDE DEF j
<1>7. Whole(r) = work.tree BY <1>2, <1>3, <1>4, SettledReplay DEF j
<1>8. Journaled(r, work.tree) /\ ~Unended(r) BY <1>2, <1>4, <1>7, SettledJournal
<1> QED BY <1>2, <1>6, <1>8

\* An intent is the next write under way.
LEMMA IntendKeeps ==
  ASSUME ExecutionAssumption, ExecutorTyped, WorktreeKept, WriteUnderWay, RunsSound, NEW t \in Task, Intend(t)
  PROVE  \E w \in WriteOf :
           LET k == Append(work.journal, w) IN
           /\ IntentOf(t, w) /\ work'.journal = k /\ work'.tree = work.tree /\ work.tree \in Files
           /\ work'.state = work.state
           /\ Journaled(k, work.tree) /\ Unended(k) /\ Whole(k) = work.tree /\ k[Len(k)] = w
<1>1. PICK w \in WriteOf : IntentOf(t, w) BY IntentIs
<1>2. work \in WorkOf /\ work.journal \in Seq(WriteOf) BY DEF ExecutorTyped, WorkOf
<1>3. m.pc = "write" /\ m.writing = Null BY DEF Intend, Writing
<1>4. ~Unended(work.journal) /\ Journaled(work.journal, work.tree)
  BY <1>3 DEF WriteUnderWay, WorktreeKept, TreeKept, PlacesKept, Opened
<1>5. w.state = "reserved" /\ work.tree \in Files /\ work.tree[w.op[3]] = w.before
      /\ work' = [work EXCEPT !.journal = Append(work.journal, w)]
  BY <1>1 DEF IntentOf
<1>6. work'.journal = Append(work.journal, w) /\ work'.tree = work.tree /\ work'.state = work.state
  BY <1>2, <1>5 DEF WorkOf
<1>7. LET k == Append(work.journal, w) IN k[Len(k)] = w /\ Journaled(k, work.tree) /\ Unended(k)
      /\ Whole(k) = work.tree
  BY <1>2, <1>4, <1>5, Intended
<1> QED BY <1>1, <1>5, <1>6, <1>7

\* openTestingWorktree settles the write a stop left under way.
LEMMA OpenKeeps ==
  ASSUME ExecutionAssumption, ExecutorTyped, WorktreeKept, Open
  PROVE  /\ work'.tree = work.tree /\ work.tree \in Files /\ work'.state = "ready"
         /\ Journaled(work'.journal, work.tree) /\ ~Unended(work'.journal)
<1>1. work.state = "ready" /\ work' = [work EXCEPT !.journal = Resolved(work.journal, work.tree)] BY DEF Open
<1>2. work \in WorkOf /\ work.journal \in Seq(WriteOf) BY DEF ExecutorTyped, WorkOf
<1>3. work.tree \in Files /\ Journaled(work.journal, work.tree) BY <1>1 DEF WorktreeKept, TreeKept, PlacesKept
<1>4. work'.journal = Resolved(work.journal, work.tree) /\ work'.tree = work.tree /\ work'.state = "ready"
  BY <1>1, <1>2 DEF WorkOf
<1> QED BY <1>2, <1>3, <1>4, JournaledExplains

\* The journal explains the bytes of the worktree, whatever is under way.
LEMMA TreeStaysKept ==
  ASSUME ExecutionAssumption, ExecutorTyped, WorktreeKept, WriteUnderWay, RunsSound, [Next]_vars
  PROVE  TreeKept'
<1>0. work \in WorkOf /\ Baseline \in Files BY EmptyJournal DEF ExecutorTyped, WorkOf
<1>1. CASE UNCHANGED work BY <1>1 DEF WorktreeKept, TreeKept
<1>2. CASE PrepareReserve
  <2>1. work.journal = <<>> /\ work' = [work EXCEPT !.state = "reserved", !.tree = Null]
    BY <1>2 DEF PrepareReserve, WorktreeKept, TreeKept, PlacesKept
  <2> QED BY <1>0, <2>1 DEF TreeKept, WorkOf
<1>3. CASE Create
  <2>1. work.state \in {"reserved", "prepared"} /\ work.journal = <<>> /\ work.tree \in {Null, Baseline}
    BY <1>3 DEF Create, WorktreeKept, TreeKept, PlacesKept
  <2>2. \/ work' = [work EXCEPT !.state = "prepared"]
        \/ work' = [work EXCEPT !.tree = Baseline] /\ work.state = "prepared"
        \/ work.tree = Baseline /\ work' = [work EXCEPT !.state = "ready"]
    BY <1>3, <2>1 DEF Create
  <2> QED BY <1>0, <2>1, <2>2, EmptyJournal DEF TreeKept, WorkOf
<1>4. CASE Open BY <1>4, OpenKeeps DEF TreeKept
<1>5. ASSUME NEW t \in Task, Intend(t) PROVE TreeKept'
  <2>1. work'.tree = work.tree /\ work.tree \in Files /\ work'.state = work.state
        /\ Journaled(work'.journal, work.tree)
    BY <1>5, IntendKeeps
  <2>2. work.state = "ready" BY <1>5 DEF Intend, Writing, WorktreeKept, TreeKept, PlacesKept, Opened
  <2> QED BY <2>1, <2>2 DEF TreeKept
<1>6. CASE Rename
  <2>1. work.state = "ready" BY <1>6, RenameIs
  <2> QED BY <1>6, <2>1, RenameKeeps DEF TreeKept
<1>7. CASE Commit
  <2>1. work.state = "ready" BY <1>7, UnderWayIs DEF Commit
  <2> QED BY <1>7, <2>1, CommitKeeps DEF TreeKept
<1>8. CASE Close BY <1>0, <1>8 DEF Close, TreeKept, WorkOf
<1>9. CASE Delete
  <2>1. work.state = "closed" /\ work' = [work EXCEPT !.tree = Null]
    BY <1>9 DEF Delete, WorktreeKept, TreeKept, PlacesKept
  <2> QED BY <1>0, <2>1 DEF TreeKept, WorkOf
<1> QED BY <1>1, <1>2, <1>3, <1>4, <1>5, <1>6, <1>7, <1>8, <1>9, WorkChanges DEF WorkSteps

LEMMA PlacesStayKept ==
  ASSUME ExecutionAssumption, ExecutorTyped, WorktreeKept, WriteUnderWay, RunsSound, [Next]_vars
  PROVE  PlacesKept'
<1>0. work \in WorkOf /\ m \in Memory BY DEF ExecutorTyped
<1>1. CASE ~WorkSteps
  <2>1. PlaceKept /\ UNCHANGED work BY <1>1, Placed, WorkChanges
  <2> QED BY <2>1 DEF PlaceKept, WorktreeKept, TreeKept, PlacesKept
<1>2. CASE PrepareReserve
  <2>1. m'.pc = "create" /\ work'.state = "reserved" BY <1>0, <1>2 DEF PrepareReserve, Go, Memory, WorkOf
  <2> QED BY <2>1 DEF PlacesKept, Opened
<1>3. CASE Create
  <2>1. \/ m'.pc = "create" /\ work'.state = "prepared"
        \/ m'.pc = "pass" /\ work'.state = "ready"
    BY <1>0, <1>3 DEF Create, Go, Memory, WorkOf
  <2> QED BY <2>1 DEF PlacesKept, Opened
<1>4. CASE Open
  <2>1. m'.pc \in {"pass", "close"} /\ work'.state = "ready" BY <1>0, <1>4, OpenKeeps DEF Open, Go, Memory
  <2> QED BY <2>1 DEF PlacesKept, Opened
<1>5. ASSUME NEW t \in Task, Intend(t) PROVE PlacesKept'
  <2>1. work.state = "ready" BY <1>5 DEF Intend, Writing, WorktreeKept, TreeKept, PlacesKept, Opened
  <2>2. work'.state = "ready" BY <1>5, <2>1, IntendKeeps
  <2>3. m'.pc = "write" BY <1>0, <1>5 DEF Intend, Writing, Memory
  <2> QED BY <2>2, <2>3 DEF PlacesKept
<1>6. CASE Rename \/ Commit
  <2>1. work.state = "ready" /\ m.pc = "write"
    <3>1. m.writing # Null BY <1>6 DEF Rename, Commit
    <3>2. m.pc = "write" BY <3>1 DEF WriteUnderWay
    <3> QED BY <3>2 DEF WorktreeKept, TreeKept, PlacesKept, Opened
  <2>2. work'.state = "ready" BY <1>0, <1>6, <2>1, RenameKeeps, CommitKeeps
  <2>3. m'.pc = "write" BY <1>0, <1>6, <2>1 DEF Rename, Commit, Memory
  <2> QED BY <2>2, <2>3 DEF PlacesKept
<1>7. CASE Close
  <2>1. m'.pc = "delete" /\ work'.state = "closed" BY <1>0, <1>7 DEF Close, Go, Memory, WorkOf
  <2> QED BY <2>1 DEF PlacesKept, Opened
<1>8. CASE Delete
  <2>1. m'.pc = "done" BY <1>0, <1>8 DEF Delete, Go, Memory
  <2> QED BY <2>1 DEF PlacesKept, Opened
<1> QED BY <1>1, <1>2, <1>3, <1>4, <1>5, <1>6, <1>7, <1>8 DEF WorkSteps

----------------------------------------------------------------------------
(* The write under way.                                                    *)

\* While a write is under way its writer waits: nobody else changes it, and it alone is the journal's.
WriterWaits ==
  /\ m'.writing = m.writing /\ m'.pc = "write" /\ m.writing.task \in m'.busy
  /\ run'[m.writing.task] = run[m.writing.task]

LEMMA WriterWaiting ==
  ASSUME ExecutorTyped, WriteUnderWay, [Next]_vars, ~WorkSteps, ~Stop, m.writing # Null
  PROVE  WriterWaits
<1> DEFINE u == m.writing.task
<1>0. m \in Memory /\ run \in [Task -> RunOf] /\ m.pc = "write" /\ u \in m.busy /\ run[u].state = "collected"
  BY DEF ExecutorTyped, WriteUnderWay
<1>1. CASE UNCHANGED m /\ UNCHANGED run BY <1>0, <1>1 DEF WriterWaits
<1>2. ~Goes BY <1>0, GoesIs
<1>3. ~NextBatch /\ ~ReserveAttempt /\ ~Settled BY <1>0 DEF NextBatch, ReserveAttempt, Settled
<1>4. ASSUME NEW t \in Task, Pin(t) \/ Finish(t) \/ Record(t) \/ FinalCheck(t) PROVE FALSE
  BY <1>0, <1>4 DEF Pin, Finish, Record, FinalCheck
<1>5. ASSUME NEW t \in Task, ReserveCheck(t) \/ PrepareCheck(t) \/ RunCheck(t) PROVE FALSE
  BY <1>0, <1>5 DEF ReserveCheck, PrepareCheck, RunCheck, Checking
<1>6. ASSUME NEW t \in Task, NEW r, Save(t, r), t # u, m'.writing = m.writing, m'.pc = m.pc,
             m'.busy = m.busy \/ m'.busy = m.busy \ {t} PROVE WriterWaits
  <2>1. run'[u] = run[u] BY <1>0, <1>6 DEF Save
  <2> QED BY <1>0, <1>6, <2>1 DEF WriterWaits
<1>7. ASSUME NEW t \in Task, Converse(t) PROVE WriterWaits
  <2>1. t # u /\ m' = m /\ \E r : Save(t, r) BY <1>0, <1>7 DEF Converse, Collected
  <2> QED BY <1>6, <2>1
<1>8. ASSUME NEW t \in Task, Dispatch(t) \/ Interrupted(t) \/ Collect(t) PROVE WriterWaits
  <2>1. t # u /\ \E r : Save(t, r) BY <1>0, <1>8 DEF Dispatch, Interrupted, Collect, Collected
  <2>2. \/ m' = [m EXCEPT !.native = @ \cup {t}] \/ m' = [m EXCEPT !.busy = @ \ {t}]
        \/ m' = [m EXCEPT !.native = @ \ {t}]
        \/ m' = [m EXCEPT !.native = @ \ {t}, !.busy = @ \ {t}]
    BY <1>8 DEF Dispatch, Interrupted, Collect
  <2>3. m'.writing = m.writing /\ m'.pc = m.pc /\ (m'.busy = m.busy \/ m'.busy = m.busy \ {t})
    BY <1>0, <2>2 DEF Memory
  <2> QED BY <1>6, <2>1, <2>3
<1>9. ~Plan /\ ~RecoverCheck /\ ~CompleteReopening /\ ~Over BY <1>0 DEF Plan, RecoverCheck, CompleteReopening, Over
<1>10. UNCHANGED vars => UNCHANGED m /\ UNCHANGED run BY DEF vars
<1> QED BY <1>1, <1>2, <1>3, <1>4, <1>5, <1>7, <1>8, <1>9, <1>10, StepIs DEF Still, Works, WorkSteps

\* Where no write is under way nothing begins one but an intent.
LEMMA NobodyWrites ==
  ASSUME ExecutorTyped, WriteUnderWay, [Next]_vars, \A t \in Task : ~Intend(t), m.writing = Null
  PROVE  m'.writing = Null
<1>0. m \in Memory BY DEF ExecutorTyped
<1>1. CASE Still BY <1>1, StillIs
<1>2. CASE Goes BY <1>2, GoesIs
<1>3. CASE NextBatch BY <1>0, <1>3 DEF NextBatch, Go, Memory
<1>4. CASE ReserveAttempt BY <1>0, <1>4 DEF ReserveAttempt, Memory
<1>5. CASE Settled BY <1>0, <1>5 DEF Settled, Memory
<1>6. CASE Rename \/ Commit BY <1>6 DEF Rename, Commit
<1>7. CASE Stop BY <1>7 DEF Stop, Idle
<1>8. ASSUME NEW t \in Task, Dispatch(t) \/ Interrupted(t) \/ Collect(t) \/ Finish(t) PROVE m'.writing = Null
  <2>1. \/ m' = [m EXCEPT !.native = @ \cup {t}] \/ m' = [m EXCEPT !.busy = @ \ {t}]
        \/ m' = [m EXCEPT !.native = @ \ {t}]
        \/ m' = [m EXCEPT !.native = @ \ {t}, !.busy = @ \ {t}]
    BY <1>8 DEF Dispatch, Interrupted, Collect, Finish
  <2> QED BY <1>0, <2>1 DEF Memory
<1>9. ASSUME NEW t \in Task, Record(t) \/ FinalCheck(t) PROVE m'.writing = Null
  <2>1. \E x \in {"batch", "verify", "decide", "final"} : m' = [m EXCEPT !.todo = m.todo \ {t}, !.pc = x]
    BY <1>9 DEF Record, FinalCheck
  <2> QED BY <1>0, <2>1 DEF Memory
<1> QED BY <1>1, <1>2, <1>3, <1>4, <1>5, <1>6, <1>7, <1>8, <1>9, StepIs DEF Works

\* The write under way is the last of the journal, and nothing else writes.
LEMMA WriteUnderWayKept ==
  ASSUME ExecutionAssumption, ExecutorTyped, WorktreeKept, WriteUnderWay, RunsSound, [Next]_vars
  PROVE  WriteUnderWay'
<1>0. m \in Memory /\ work \in WorkOf /\ run \in [Task -> RunOf] BY DEF ExecutorTyped
<1>1. \A w \in Under : w # Null BY DEF ExecutionAssumption, Under
<1>2. ASSUME m'.writing = Null, m'.pc \in Opened => ~Unended(work'.journal) PROVE WriteUnderWay'
  BY <1>2 DEF WriteUnderWay
<1>3. ASSUME m'.writing # Null, m'.pc = "write", m'.writing.task \in m'.busy, run'[m'.writing.task].state = "collected",
             m'.writing.file \in DOMAIN run'[m'.writing.task].updates, Unended(work'.journal),
             work'.journal[Len(work'.journal)].op[3] = m'.writing.file,
             work'.journal[Len(work'.journal)].after = run'[m'.writing.task].updates[m'.writing.file],
             work'.tree = IF m'.writing.renamed
                          THEN With(Whole(work'.journal), m'.writing.file, work'.journal[Len(work'.journal)].after)
                          ELSE Whole(work'.journal)
      PROVE  WriteUnderWay'
  BY <1>3 DEF WriteUnderWay
<1>4. ASSUME NEW t \in Task, Intend(t) PROVE WriteUnderWay'
  <2>1. PICK w \in WriteOf :
           LET k == Append(work.journal, w) IN
           /\ IntentOf(t, w) /\ work'.journal = k /\ work'.tree = work.tree
           /\ Unended(k) /\ Whole(k) = work.tree /\ k[Len(k)] = w BY <1>4, IntendKeeps
  <2>2. /\ m'.writing = [task |-> t, file |-> w.op[3], renamed |-> FALSE] /\ m'.pc = "write" /\ t \in m'.busy
        /\ run' = run /\ run[t].state = "collected" /\ w.op[3] \in DOMAIN run[t].updates
        /\ w.after = run[t].updates[w.op[3]]
    BY <1>0, <1>4, <2>1 DEF IntentOf, Memory, Intend, Writing
  <2>3. m'.writing \in Under BY <2>1, <2>2 DEF Under, WriteOf
  <2> DEFINE K == work'.journal
  <2>4. Unended(K) /\ K[Len(K)] = w /\ work'.tree = Whole(K) BY <2>1
  <2> HIDE DEF K
  <2>5. m'.writing.task = t /\ m'.writing.file = w.op[3] /\ m'.writing.renamed = FALSE BY <2>2
  <2>6. m'.writing # Null BY <1>1, <2>3
  <2>7. run'[m'.writing.task].state = "collected" /\ m'.writing.file \in DOMAIN run'[m'.writing.task].updates
        /\ K[Len(K)].op[3] = m'.writing.file /\ K[Len(K)].after = run'[m'.writing.task].updates[m'.writing.file]
        /\ m'.writing.task \in m'.busy
    BY <2>2, <2>4, <2>5
  <2>8. work'.tree = IF m'.writing.renamed THEN With(Whole(K), m'.writing.file, K[Len(K)].after) ELSE Whole(K)
    BY <2>4, <2>5
  <2> QED BY <1>3, <2>2, <2>4, <2>6, <2>7, <2>8 DEF K
<1>5. CASE Rename
  <2>1. m.writing # Null /\ m' = [m EXCEPT !.writing = [m.writing EXCEPT !.renamed = TRUE]] /\ UNCHANGED run
    BY <1>5 DEF Rename
  <2>2. /\ m.writing \in Under /\ m.pc = "write" /\ m.writing.task \in m.busy
        /\ run[m.writing.task].state = "collected"
        /\ m.writing.file \in DOMAIN run[m.writing.task].updates
        /\ work.journal[Len(work.journal)].op[3] = m.writing.file /\ Unended(work.journal)
        /\ work.journal[Len(work.journal)].after = run[m.writing.task].updates[m.writing.file]
    BY <2>1, UnderWayIs DEF WriteUnderWay
  <2>3. /\ m'.pc = "write" /\ m'.busy = m.busy /\ m'.writing \in Under /\ m'.writing.task = m.writing.task
        /\ m'.writing.file = m.writing.file /\ m'.writing.renamed = TRUE BY <1>0, <2>1, <2>2 DEF Memory, Under
  <2>4. work'.journal = work.journal
        /\ work'.tree = With(Whole(work.journal), m.writing.file, work.journal[Len(work.journal)].after)
    BY <1>5, <2>2, RenameKeeps
  <2> QED BY <1>1, <1>3, <2>1, <2>2, <2>3, <2>4
<1>6. CASE Commit
  <2>1. m'.writing = Null BY <1>0, <1>6 DEF Commit, Memory
  <2> QED BY <1>2, <1>6, <2>1, CommitKeeps
<1>7. CASE PrepareReserve \/ Create \/ Open \/ Close \/ Delete
  <2>1. m.writing = Null BY <1>7 DEF WriteUnderWay, PrepareReserve, Create, Open, Close, Delete
  <2>2. \A t \in Task : ~Intend(t) BY <1>7 DEF Intend, Writing, PrepareReserve, Create, Open, Close, Delete
  <2>3. m'.writing = Null BY <2>1, <2>2, NobodyWrites
  <2>4. CASE Open BY <1>2, <2>3, <2>4, OpenKeeps
  <2>5. CASE Create
    <3>1. work.journal = <<>> /\ work'.journal = work.journal
      BY <1>0, <2>5 DEF Create, WorktreeKept, TreeKept, PlacesKept, WorkOf
    <3> QED BY <1>2, <2>3, <3>1, EmptyJournal
  <2>6. CASE PrepareReserve \/ Close \/ Delete
    <3>1. m'.pc \notin Opened BY <1>0, <2>6 DEF PrepareReserve, Close, Delete, Go, Memory, Opened
    <3> QED BY <1>2, <2>3, <3>1
  <2> QED BY <1>7, <2>4, <2>5, <2>6
<1>8. CASE ~WorkSteps
  <2>1. UNCHANGED work /\ PlaceKept /\ \A t \in Task : ~Intend(t) BY <1>8, Placed, WorkChanges DEF WorkSteps
  <2>2. CASE Stop
    <3>1. m'.writing = Null /\ m'.pc \notin Opened BY <2>2 DEF Stop, Idle, Opened
    <3> QED BY <1>2, <3>1
  <2>3. CASE m.writing = Null
    <3>1. m'.writing = Null BY <2>1, <2>3, NobodyWrites
    <3> QED BY <1>2, <2>1, <2>3, <3>1 DEF PlaceKept, WriteUnderWay
  <2>4. CASE ~Stop /\ m.writing # Null
    <3>1. WriterWaits BY <1>8, <2>4, WriterWaiting
    <3>2. /\ run[m.writing.task].state = "collected" /\ m.writing.file \in DOMAIN run[m.writing.task].updates
          /\ work.journal[Len(work.journal)].op[3] = m.writing.file /\ Unended(work.journal)
          /\ work.journal[Len(work.journal)].after = run[m.writing.task].updates[m.writing.file]
          /\ work.tree = IF m.writing.renamed
                         THEN With(Whole(work.journal), m.writing.file, work.journal[Len(work.journal)].after)
                         ELSE Whole(work.journal)
      BY <2>4 DEF WriteUnderWay
    <3> QED BY <1>3, <2>1, <2>4, <3>1, <3>2 DEF WriterWaits
  <2> QED BY <2>2, <2>3, <2>4
<1> QED BY <1>4, <1>5, <1>6, <1>7, <1>8 DEF WorkSteps

----------------------------------------------------------------------------
(* The handoff and the invalidations.                                      *)

\* After a handoff, the executor is only where these steps are.
AfterHandoff == {"off", "skipped", "cleanup", "prepare", "close", "delete", "done"}

LEMMA StepsAfterHandoff ==
  ASSUME ExecutorTyped, WriteUnderWay, [Next]_vars, m.pc \in AfterHandoff
  PROVE  Plan \/ Begin \/ RecoverCheck \/ PrepareReserve \/ Open \/ CleanUp \/ Close \/ Delete \/ Over \/ Stop
         \/ UNCHANGED vars
<1>1. ~Recovered /\ ~Create /\ ~CompleteReopening /\ ~StartPass /\ ~NextBatch /\ ~ReserveAttempt /\ ~Settled
      /\ ~Reopen /\ ~Fail /\ ~Pass /\ ~HandOff
  BY DEF AfterHandoff, Recovered, Create, CompleteReopening, StartPass, NextBatch, ReserveAttempt, Settled, Reopen,
    Fail, Pass, HandOff
<1>2. ~Rename /\ ~Commit BY DEF AfterHandoff, Rename, Commit, WriteUnderWay
<1>3. \A t \in Task : ~Writer(t)
  BY DEF AfterHandoff, Writer, Pin, Dispatch, Interrupted, Collect, Converse, Intend, Finish, Writing
<1>4. \A t \in Task : ~Checks(t)
  BY DEF AfterHandoff, Checks, ReserveCheck, PrepareCheck, RunCheck, Record, FinalCheck, Checking
<1> QED BY <1>1, <1>2, <1>3, <1>4 DEF Next, Executor

\* The bytes a handoff left, and what they rest on.
Handed ==
  /\ m.pc \in AfterHandoff /\ work.state \in {"ready", "closed"}
  /\ work.tree = done.completion \/ (work.tree = Null /\ work.state = "closed")

\* What was handed off stays as it was handed off, until its worktree is deleted.
LEMMA HandedStays ==
  ASSUME ExecutorTyped, WorktreeKept, WriteUnderWay, [Next]_vars, done.completion # Null, Handed
  PROVE  done'.completion = done.completion /\ Handed'
<1>0. m \in Memory /\ work \in WorkOf /\ done \in DoneOf BY DEF ExecutorTyped
<1>1. CASE Plan
  <2>1. done'.completion = done.completion /\ work' = work /\ m' = m BY <1>0, <1>1 DEF Plan, DoneOf
  <2> QED BY <2>1 DEF Handed
<1>2. CASE Begin \/ CleanUp
  <2>1. done' = done /\ work' = work /\ \E x \in {"skipped", "cleanup", "prepare", "delete"} : Go(x)
    BY <1>2 DEF Begin, CleanUp
  <2>2. m'.pc \in AfterHandoff BY <1>0, <2>1 DEF Go, Memory, AfterHandoff
  <2> QED BY <2>1, <2>2 DEF Handed
<1>3. CASE RecoverCheck \/ Over \/ UNCHANGED vars
  <2>1. done' = done /\ work' = work /\ m' = m BY <1>3 DEF RecoverCheck, Over, vars
  <2> QED BY <2>1 DEF Handed
<1>4. CASE PrepareReserve BY <1>4 DEF PrepareReserve, Handed
<1>5. CASE Open
  <2>1. done' = done /\ m'.pc = "close" /\ work.state = "ready" BY <1>0, <1>5 DEF Open, Go, Memory
  <2>2. work'.tree = work.tree /\ work'.state = "ready" BY <1>0, <1>5 DEF Open, WorkOf
  <2>3. work.tree = done.completion BY <2>1 DEF Handed
  <2> QED BY <2>1, <2>2, <2>3 DEF Handed, AfterHandoff
<1>6. CASE Close
  <2>1. done' = done /\ m'.pc = "delete" /\ work'.tree = work.tree /\ work'.state = "closed"
    BY <1>0, <1>6 DEF Close, Go, Memory, WorkOf
  <2> QED BY <2>1 DEF Handed, AfterHandoff
<1>7. CASE Delete
  <2>1. done' = done /\ m'.pc = "done" /\ work'.tree = Null /\ work'.state = work.state
    BY <1>0, <1>7 DEF Delete, Go, Memory, WorkOf
  <2>2. work.state = "closed" BY <1>7 DEF Delete, WorktreeKept, TreeKept, PlacesKept
  <2> QED BY <2>1, <2>2 DEF Handed, AfterHandoff
<1>8. CASE Stop
  <2>1. done' = done /\ work' = work /\ m'.pc = "off" BY <1>8 DEF Stop, Idle
  <2> QED BY <2>1 DEF Handed, AfterHandoff
<1>9. m.pc \in AfterHandoff BY DEF Handed
<1> QED BY <1>1, <1>2, <1>3, <1>4, <1>5, <1>6, <1>7, <1>8, <1>9, StepsAfterHandoff

\* The retries at which a task's final check may stand, and the first of them.
Stands(t) ==
  {r \in 0..Retries : r = Retries \/ ~(/\ Check(t, Final(r)) \in DOMAIN execs /\ Written(t) # {}
                                       /\ Observed(t, Final(r)) /\ Verdict(t, Final(r), "none") = "incomplete")}

LEMMA FirstStanding ==
  ASSUME ExecutionAssumption, NEW S \in SUBSET (0..Retries), Retries \in S
  PROVE  Min(S) \in S /\ Min(S) \in 0..Retries /\ \A r \in S : Min(S) <= r
<1>1. Retries \in Nat BY DEF ExecutionAssumption
<1>2. S \in SUBSET Nat /\ S # {} BY <1>1
<1> QED BY <1>2, MinIs

\* The retry a final check is at: the first that stands.
LEMMA FinalRetryIn ==
  ASSUME ExecutionAssumption, NEW t
  PROVE  FinalRetry(t) = Min(Stands(t)) /\ FinalRetry(t) \in Stands(t) /\ FinalRetry(t) \in 0..Retries
         /\ \A r \in Stands(t) : FinalRetry(t) <= r
<1>1. Retries \in Nat BY DEF ExecutionAssumption
<1>2. Stands(t) \in SUBSET (0..Retries) /\ Retries \in Stands(t) BY <1>1 DEF Stands
<1>3. FinalRetry(t) = Min(Stands(t)) BY DEF FinalRetry, Stands
<1> QED BY <1>2, <1>3, FirstStanding

\* A passed final check is a completed execution that passed on the worktree's bytes.
LEMMA PassIs ==
  ASSUME ExecutionAssumption, ExecutorTyped, Pass
  PROVE  PassedOn(work.tree)
<1> SUFFICES ASSUME NEW t \in Task PROVE \E r \in 0..Retries : Ended(<<t, Final(r), work.tree>>, "passed")
  BY DEF PassedOn
<1>1. FinalVerdict(t) = "passed" BY DEF Pass
<1> DEFINE r == FinalRetry(t)  c == <<t, Final(r), work.tree>>
<1>2. r \in 0..Retries BY FinalRetryIn
<1>3. Verdict(t, Final(r), "none") = "passed" BY <1>1 DEF FinalVerdict
<1>4. c \in DOMAIN execs /\ execs[c].state = "completed" /\ execs[c].result = "passed"
  <2> HIDE DEF r
  <2> QED BY <1>3 DEF Verdict, Check
<1>5. execs[c] \in ExecOf BY <1>4 DEF ExecutorTyped
<1>6. Ended(c, "passed")
  <2> HIDE DEF c
  <2> QED BY <1>4, <1>5 DEF Ended, ExecOf
<1> QED BY <1>2, <1>6

\* The executor comes to the handoff only past the final checks of every task.
LEMMA HandoffPlace ==
  ASSUME ExecutorTyped, WriteUnderWay, [Next]_vars, m'.pc = "handoff", ~Pass
  PROVE  m.pc = "handoff"
<1>0. m \in Memory BY DEF ExecutorTyped
<1>1. CASE Still BY <1>1, StillIs
<1>2. CASE Goes /\ ~StartPass
  <2>1. UNCHANGED m
        \/ \E x \in {"skipped", "recover", "cleanup", "prepare", "create",
                      "pass", "close", "delete", "failed", "done"} : Go(x)
    BY <1>2 DEF Goes, Begin, Recovered, PrepareReserve, Create, Open, CleanUp, Close, Delete, Fail, HandOff, Reopen
  <2> QED BY <1>0, <2>1 DEF Go, Memory
<1>3. CASE StartPass BY <1>0, <1>3 DEF StartPass, Memory
<1>4. CASE NextBatch BY <1>0, <1>4 DEF NextBatch, Go, Memory
<1>5. CASE ReserveAttempt BY <1>0, <1>5 DEF ReserveAttempt, Memory
<1>6. CASE Settled BY <1>0, <1>6 DEF Settled, Memory
<1>7. CASE Rename \/ Commit BY <1>0, <1>7 DEF Rename, Commit, Memory
<1>8. CASE Stop BY <1>8 DEF Stop, Idle
<1>9. ASSUME NEW t \in Task, Dispatch(t) \/ Interrupted(t) \/ Collect(t) \/ Intend(t) \/ Finish(t) PROVE m'.pc = m.pc
  <2>1. \/ m' = [m EXCEPT !.native = @ \cup {t}] \/ m' = [m EXCEPT !.busy = @ \ {t}]
        \/ m' = [m EXCEPT !.native = @ \ {t}]
        \/ m' = [m EXCEPT !.native = @ \ {t}, !.busy = @ \ {t}] \/ \E w : m' = [m EXCEPT !.writing = w]
    BY <1>9 DEF Dispatch, Interrupted, Collect, Intend, Finish
  <2> QED BY <1>0, <2>1 DEF Memory
<1>10. ASSUME NEW t \in Task, Record(t) \/ FinalCheck(t) PROVE m'.pc # "handoff"
  <2>1. \E x \in {"batch", "verify", "decide", "final"} : m' = [m EXCEPT !.todo = m.todo \ {t}, !.pc = x]
    BY <1>10 DEF Record, FinalCheck
  <2> QED BY <1>0, <2>1 DEF Memory
<1> QED BY <1>1, <1>2, <1>3, <1>4, <1>5, <1>6, <1>7, <1>8, <1>9, <1>10, StepIs DEF Works

\* What is handed off passed the final checks of every task, on its very bytes.
LEMMA HandedOffKept ==
  ASSUME ExecutionAssumption, ExecutorTyped, WorktreeKept, WriteUnderWay, HandedOff, [Next]_vars
  PROVE  HandedOff'
<1>0. m \in Memory /\ done \in DoneOf BY DEF ExecutorTyped
<1>1. ASSUME m'.pc = "handoff" PROVE PassedOn(work.tree)'
  <2>1. PassedOn(work.tree)
    <3>1. CASE Pass BY <3>1, PassIs
    <3>2. CASE ~Pass BY <1>1, <3>2, HandoffPlace DEF HandedOff
    <3> QED BY <3>1, <3>2
  <2>2. work' = work
    <3>1. CASE Pass BY <3>1 DEF Pass
    <3>2. CASE ~Pass
      <4>1. m.pc = "handoff" BY <1>1, <3>2, HandoffPlace
      <4>2. ~WorkSteps
        BY <4>1 DEF WorkSteps, PrepareReserve, Create, Open, Rename, Commit, Close, Delete, Intend, Writing,
          WriteUnderWay
      <4> QED BY <4>2, WorkChanges
    <3> QED BY <3>1, <3>2
  <2>3. \A t \in Task : \E r \in 0..Retries : EndedAfter(<<t, Final(r), work.tree>>, "passed") BY <2>1, PassedOnStays
  <2> QED BY <2>2, <2>3 DEF PassedOn, Final, Ended, EndedAfter
<1>2. ASSUME done'.completion # Null
      PROVE  Handed' /\ PassedOn(done.completion)'
  <2>1. CASE done.completion # Null
    <3>1. Handed /\ PassedOn(done.completion) BY <2>1 DEF HandedOff, Handed, AfterHandoff
    <3>2. Handed' /\ done'.completion = done.completion BY <2>1, <3>1, HandedStays
    <3>3. \A t \in Task : \E r \in 0..Retries : EndedAfter(<<t, Final(r), done.completion>>, "passed")
      BY <3>1, PassedOnStays
    <3> QED BY <3>2, <3>3 DEF PassedOn, Final, Ended, EndedAfter
  <2>2. CASE done.completion = Null
    <3>1. HandOff
      <4>1. (Plan \/ NextBatch \/ Fail \/ Pass) => done'.completion = done.completion
        BY <1>0 DEF Plan, NextBatch, Fail, Pass, Publish, DoneOf
      <4> QED BY <1>2, <2>2, <4>1, DoneChanges DEF DoneSteps
    <3>2. m.pc = "handoff" /\ done' = [done EXCEPT !.completion = work.tree] /\ Go("cleanup") /\ work' = work
      BY <1>2, <2>2, <3>1 DEF HandOff
    <3>3. work.state = "ready" /\ PassedOn(work.tree)
      BY <3>2 DEF WorktreeKept, TreeKept, PlacesKept, Opened, HandedOff
    <3>4. done'.completion = work.tree /\ m'.pc = "cleanup" BY <1>0, <3>2 DEF DoneOf, Go, Memory
    <3>5. \A t \in Task : \E r \in 0..Retries : EndedAfter(<<t, Final(r), work.tree>>, "passed")
      BY <3>3, PassedOnStays
    <3> QED BY <3>2, <3>3, <3>4, <3>5 DEF Handed, AfterHandoff, PassedOn, Final, Ended, EndedAfter
  <2> QED BY <2>1, <2>2
<1> QED BY <1>1, <1>2 DEF HandedOff, Handed, AfterHandoff

\* Every invalidation rests on a final check that failed on the bytes it names.
LEMMA InvalidationsKept ==
  ASSUME ExecutionAssumption, ExecutorTyped, InvalidationsRest, [Next]_vars
  PROVE  InvalidationsRest'
<1>0. ledger \in [Task -> Seq(AttemptOf)] /\ \A t \in Task : Len(ledger[t]) \in Nat BY DEF ExecutorTyped
<1>1. ASSUME NEW i, FailedAt(i) PROVE \E r \in 0..Retries : EndedAfter(<<i[1], Final(r), i[2]>>, "failed")
  BY <1>1, FailedStays
<1> DEFINE Rests(i) == i # Null => \E r \in 0..Retries : EndedAfter(<<i[1], Final(r), i[2]>>, "failed")
<1>2. \A t \in Task : \A n \in 1..Len(ledger[t]) : Rests(ledger[t][n].invalidated) BY <1>1 DEF InvalidationsRest
<1>3. SUFFICES ASSUME NEW t \in Task, NEW n \in 1..Len(ledger'[t]) PROVE Rests(ledger'[t][n].invalidated)
  BY DEF InvalidationsRest, FailedAt, Final, Ended, EndedAfter
<1>4. CASE UNCHANGED ledger
  <2> HIDE DEF Rests
  <2> QED BY <1>2, <1>4
<1>5. ASSUME NEW u \in Task, NEW a, Rewritten(u, a), a.invalidated = Last(u).invalidated \/ FailedAt(a.invalidated)
      PROVE  Rests(ledger'[t][n].invalidated)
  <2>1. LedgerKept(u, a) /\ ledger[u] # <<>> BY <1>5, RewrittenKeeps DEF Rewritten
  <2>2. n \in 1..Len(ledger[t]) BY <2>1 DEF LedgerKept
  <2>3. ledger'[t][n] = a \/ ledger'[t][n] = ledger[t][n] BY <2>1, <2>2 DEF LedgerKept
  <2>4. Rests(a.invalidated)
    <3>1. CASE FailedAt(a.invalidated) BY <1>1, <3>1
    <3>2. CASE a.invalidated = Last(u).invalidated
      <4>1. Len(ledger[u]) \in 1..Len(ledger[u]) BY <2>1, LastAttempt
      <4> HIDE DEF Rests
      <4> QED BY <1>2, <3>2, <4>1 DEF Last
    <3> QED BY <1>5, <3>1, <3>2
  <2> HIDE DEF Rests
  <2> QED BY <1>2, <2>2, <2>3, <2>4
<1>6. ASSUME NEW u \in Task, Reserved(u) PROVE Rests(ledger'[t][n].invalidated)
  <2> DEFINE a == [state |-> "reserved", result |-> "none", halted |-> FALSE, invalidated |-> Null]
  <2>1. ledger' = [ledger EXCEPT ![u] = Append(ledger[u], a)] BY <1>6 DEF Reserved
  <2>2. a.invalidated = Null OBVIOUS
  <2> HIDE DEF a
  <2>3. (n \in 1..Len(ledger[t]) /\ ledger'[t][n] = ledger[t][n]) \/ ledger'[t][n] = a
    <3>1. CASE t # u BY <1>0, <2>1, <3>1
    <3>2. CASE t = u
      <4>1. ledger'[t] = Append(ledger[t], a) /\ ledger[t] \in Seq(AttemptOf) BY <1>0, <2>1, <3>2
      <4>2. Len(ledger'[t]) = Len(ledger[t]) + 1 /\ ledger'[t][Len(ledger[t]) + 1] = a
            /\ \A k \in 1..Len(ledger[t]) : ledger'[t][k] = ledger[t][k] BY <4>1
      <4> QED BY <1>0, <4>2
    <3> QED BY <3>1, <3>2
  <2>4. Rests(a.invalidated) BY <2>2
  <2> HIDE DEF Rests
  <2> QED BY <1>2, <2>3, <2>4
<1> QED BY <1>4, <1>5, <1>6, LedgerMoves

----------------------------------------------------------------------------
(* Only the check that is waited for is unfinished.                        *)

\* A final check stays at its retry until its execution ends.
LEMMA FinalRetryStays ==
  ASSUME ExecutionAssumption, ExecutorTyped, NEW t, UNCHANGED work,
         NEW x, x.state \in {"reserved", "prepared"}, ExecutionIs(Check(t, Final(FinalRetry(t))), x)
  PROVE  FinalRetry(t)' = FinalRetry(t)
<1>1. PICK k \in 0..Retries : k = FinalRetry(t) /\ k \in Stands(t) /\ \A r \in Stands(t) : k <= r BY FinalRetryIn
<1> DEFINE c == Check(t, Final(k))  S == Stands(t)'
<1>2. Retries \in Nat BY DEF ExecutionAssumption
<1>3. FinalRetry(t)' = Min(S) BY DEF FinalRetry, Stands
<1>4. S \in SUBSET (0..Retries) /\ Retries \in S BY <1>2 DEF Stands
<1>5. execs' \in [DOMAIN execs \cup {c} -> ExecOf] /\ execs'[c] = x
      /\ \A d \in DOMAIN execs : d # c => execs'[d] = execs[d]
  BY <1>1 DEF ExecutionIs
<1>6. Written(t)' = Written(t) /\ \A r : Check(t, Final(r))' = Check(t, Final(r)) BY DEF Written, Check, Final
<1>7. k \in S
  <2>1. Check(t, Final(k))' = c BY <1>6
  <2>2. ~(c \in DOMAIN execs' /\ execs'[c].state \in {"completed", "interrupted"}) BY <1>5
  <2>3. Check(t, Final(k))' \in DOMAIN execs' => ~(Observed(t, Final(k))') BY <2>1, <2>2 DEF Observed
  <2> QED BY <1>1, <2>3 DEF Stands
<1>8. ASSUME NEW r \in 0..Retries, r < k PROVE r \notin S
  <2>1. r \notin Stands(t) BY <1>1, <1>2, <1>8
  <2> DEFINE d == Check(t, Final(r))
  <2>2. d \in DOMAIN execs /\ Written(t) # {} /\ Observed(t, Final(r)) /\ Verdict(t, Final(r), "none") = "incomplete"
        /\ r # Retries
    BY <2>1 DEF Stands
  <2>3. d # c BY <1>8 DEF Check, Final
  <2>4. d \in DOMAIN execs' /\ execs'[d] = execs[d] BY <1>5, <2>2, <2>3
  <2>5. d' = d BY <1>6
  <2>6. Observed(t, Final(r))' BY <2>2, <2>4, <2>5 DEF Observed
  <2>7. Verdict(t, Final(r), "none")' = "incomplete" BY <1>6, <2>2, <2>4, <2>5 DEF Verdict
  <2> QED BY <1>6, <2>2, <2>4, <2>5, <2>6, <2>7 DEF Stands
<1> HIDE DEF S
<1>9. Min(S) \in S /\ Min(S) \in 0..Retries /\ \A r \in S : Min(S) <= r BY <1>4, FirstStanding
<1>10. Min(S) = k BY <1>1, <1>2, <1>7, <1>8, <1>9
<1> QED BY <1>1, <1>3, <1>10

\* The execution the executor waits for.
Waited == Check(Min(m.todo), Current(Min(m.todo)))

LEMMA UnfinishedIs ==
  ASSUME NEW c, NEW x, ExecutionIs(c, x)
  PROVE  Unfinished' = IF x.state \in {"reserved", "prepared"} THEN Unfinished \cup {c} ELSE Unfinished \ {c}
<1>1. execs' \in [DOMAIN execs \cup {c} -> ExecOf] /\ execs'[c] = x
      /\ \A d \in DOMAIN execs : d # c => execs'[d] = execs[d]
  BY DEF ExecutionIs
<1>2. DOMAIN execs' = DOMAIN execs \cup {c} BY <1>1
<1> QED BY <1>1, <1>2 DEF Unfinished

\* While a check is judged nothing but the execution it waits for is unfinished.
LEMMA OnlyWaited ==
  ASSUME ChecksEnded, NEW t, Checking(t)
  PROVE  Waited = Check(t, Current(t)) /\ Unfinished \subseteq {Check(t, Current(t))}
         /\ live \subseteq {Check(t, Current(t))}
BY DEF ChecksEnded, Checking, Waited

\* An observed check has ended.
LEMMA ObservedEnded ==
  ASSUME ChecksEnded, NEW t, Checking(t), Observed(t, Current(t))
  PROVE  Unfinished = {}
<1>1. Check(t, Current(t)) \notin Unfinished BY DEF Observed, Unfinished
<1> QED BY <1>1, OnlyWaited

LEMMA CurrentStays ==
  ASSUME ExecutionAssumption, ExecutorTyped, NEW t, Checking(t), UNCHANGED <<work, ledger, m>>,
         UNCHANGED execs \/ \E x : x.state \in {"reserved", "prepared"} /\ ExecutionIs(Check(t, Current(t)), x)
  PROVE  Waited' = Check(t, Current(t))
<1>1. work' = work /\ ledger' = ledger /\ m' = m /\ t = Min(m.todo) /\ m.pc \in {"verify", "final"} BY DEF Checking
<1>2. Current(t)' = Current(t)
  <2>1. CASE m.pc = "verify" BY <1>1, <2>1 DEF Current, AttemptId
  <2>2. CASE m.pc # "verify"
    <3>1. Current(t) = Final(FinalRetry(t)) /\ Current(t)' = Final(FinalRetry(t)') BY <1>1, <2>2 DEF Current, Final
    <3>2. CASE execs' = execs
      <4>1. FinalRetry(t)' = FinalRetry(t)
        BY <1>1, <3>2 DEF FinalRetry, Check, Written, Observed, Verdict, Budget, Final
      <4> QED BY <3>1, <4>1
    <3>3. CASE \E x : x.state \in {"reserved", "prepared"} /\ ExecutionIs(Check(t, Current(t)), x)
      <4>1. FinalRetry(t)' = FinalRetry(t) BY <1>1, <3>1, <3>3, FinalRetryStays
      <4> QED BY <3>1, <4>1
    <3> QED BY <3>2, <3>3
  <2> QED BY <2>1, <2>2
<1> QED BY <1>1, <1>2 DEF Waited, Check

\* Only the check that is waited for may be unfinished.
LEMMA ChecksEndedKept ==
  ASSUME ExecutionAssumption, ExecutorTyped, WriteUnderWay, ChecksEnded, [Next]_vars
  PROVE  ChecksEnded'
<1>0. m \in Memory BY DEF ExecutorTyped
<1>1. ASSUME NEW t \in Task, Checking(t), UNCHANGED <<work, ledger, m>>,
             Unfinished' \subseteq {Check(t, Current(t))}, live' \subseteq Unfinished',
             Unfinished' # {} => Waited' = Check(t, Current(t))
      PROVE  ChecksEnded'
  <2>1. m' = m /\ m.pc \in {"verify", "final"} /\ m.todo # {} BY <1>1 DEF Checking
  <2> QED BY <1>1, <2>1 DEF ChecksEnded, Waited
<1>2. ASSUME NEW t \in Task, ReserveCheck(t) PROVE ChecksEnded'
  <2> DEFINE c == Check(t, Current(t))
  <2>1. Checking(t) /\ UNCHANGED <<work, ledger, m>> /\ live' = live BY <1>2 DEF ReserveCheck
  <2>2. c \notin DOMAIN execs /\ ExecutionIs(c, [state |-> "reserved", result |-> "none"]) BY <1>2, ReserveCheckIs
  <2>3. Unfinished' = Unfinished \cup {c} BY <2>2, UnfinishedIs
  <2>4. Unfinished = {} /\ live = {}
    <3>1. c \notin Unfinished BY <2>2 DEF Unfinished
    <3> QED BY <2>1, <3>1, OnlyWaited DEF ChecksEnded
  <2>5. Waited' = c BY <2>1, <2>2, CurrentStays
  <2> QED BY <1>1, <2>1, <2>3, <2>4, <2>5
<1>3. ASSUME NEW t \in Task, PrepareCheck(t) PROVE ChecksEnded'
  <2> DEFINE c == Check(t, Current(t))
  <2>1. Checking(t) /\ UNCHANGED <<work, ledger, m>> /\ live' = live BY <1>3 DEF PrepareCheck
  <2>2. PICK x : c \in Unfinished /\ ExecutionIs(c, x) /\ x.state = "prepared"
    <3>1. Advanced(c, "prepared") BY <1>3, PrepareCheckIs
    <3> QED BY <3>1 DEF Advanced, ExecutionIs
  <2>3. Unfinished' = Unfinished \cup {c} BY <2>2, UnfinishedIs
  <2>4. Waited' = c BY <2>1, <2>2, CurrentStays
  <2> QED BY <1>1, <2>1, <2>3, <2>4, OnlyWaited DEF ChecksEnded
<1>4. ASSUME NEW t \in Task, RunCheck(t) PROVE ChecksEnded'
  <2> DEFINE c == Check(t, Current(t))
  <2>1. Checking(t) /\ UNCHANGED <<work, ledger, m>> BY <1>4 DEF RunCheck
  <2>2. RanIs(c) BY <1>4, RunCheckIs
  <2>3. CASE live' = live \cup {c} /\ UNCHANGED execs
    <3>1. Unfinished' = Unfinished BY <2>3 DEF Unfinished
    <3>2. Waited' = c BY <2>1, <2>3, CurrentStays
    <3> QED BY <1>1, <2>1, <2>2, <2>3, <3>1, <3>2, OnlyWaited DEF RanIs
  <2>4. ASSUME NEW r, live' = live \ {c}, ExecutionIs(c, [state |-> "completed", result |-> r]) PROVE ChecksEnded'
    <3>1. Unfinished' = Unfinished \ {c} BY <2>4, UnfinishedIs
    <3>2. Unfinished' = {} /\ live' = {} BY <2>1, <2>4, <3>1, OnlyWaited
    <3> QED BY <1>1, <2>1, <3>2
  <2> QED BY <2>2, <2>3, <2>4 DEF RanIs
<1>5. CASE RecoverCheck
  <2>1. PICK c : Advanced(c, "interrupted") /\ live' = live \ {c} BY <1>5, RecoverCheckIs DEF RecoveredIs
  <2>2. Unfinished' = Unfinished \ {c}
    <3>1. PICK x : ExecutionIs(c, x) /\ x.state = "interrupted" BY <2>1 DEF Advanced, ExecutionIs
    <3> QED BY <3>1, UnfinishedIs
  <2>3. m' = m /\ m.pc \in {"recover", "cleanup"} BY <1>5 DEF RecoverCheck
  <2> QED BY <2>1, <2>2, <2>3 DEF ChecksEnded
<1>6. CASE ~ExecsSteps
  <2>1. execs' = execs BY <1>6, ExecsChanges
  <2>2. live' = live BY <1>6, LiveChanges
  <2>3. Unfinished' = Unfinished BY <2>1 DEF Unfinished
  <2>4. CASE Unfinished = {} BY <2>2, <2>3, <2>4 DEF ChecksEnded
  <2>5. CASE m'.pc \in {"off", "recover", "cleanup", "skipped"} BY <2>2, <2>3, <2>5 DEF ChecksEnded
  <2>6. CASE UNCHANGED vars
    <3>1. ChecksEnded' <=> ChecksEnded
      BY <2>6 DEF vars, ChecksEnded, Unfinished, Check, Current, AttemptId, Final, FinalRetry, Written, Observed,
        Verdict, Budget
    <3> QED BY <3>1
  <2>7. \A t \in Task : Record(t) \/ FinalCheck(t) => Unfinished = {}
    <3> SUFFICES ASSUME NEW t \in Task, Record(t) \/ FinalCheck(t) PROVE Unfinished = {} OBVIOUS
    <3>1. Checking(t) /\ Observed(t, Current(t)) BY DEF Record, FinalCheck, Current
    <3> QED BY <3>1, ObservedEnded
  <2>8. m.pc \notin {"off", "recover", "cleanup", "verify", "final", "skipped"} => Unfinished = {} BY DEF ChecksEnded
  <2>9. CASE Still
    <3>1. m' = m BY <2>9, StillIs
    <3>2. Over => UNCHANGED vars BY DEF Over
    <3>3. Plan => m.pc = "off" BY DEF Plan
    <3>4. CompleteReopening => Unfinished = {} BY <2>8 DEF CompleteReopening
    <3>5. \A t \in Task : Pin(t) \/ Converse(t) => Unfinished = {} BY <2>8 DEF Pin, Converse, Writing
    <3> QED BY <1>6, <2>4, <2>5, <2>6, <2>9, <3>1, <3>2, <3>3, <3>4, <3>5 DEF Still, ExecsSteps
  <2>10. CASE Goes
    <3>1. Begin => \E x \in {"skipped", "recover", "cleanup"} : Go(x) BY DEF Begin
    <3>2. Begin => m'.pc \in {"off", "recover", "cleanup", "skipped"} BY <1>0, <3>1 DEF Go, Memory
    <3>3. Recovered \/ CleanUp => Unfinished = {} BY DEF Recovered, CleanUp
    <3>4. Goes /\ ~Begin /\ ~Recovered /\ ~CleanUp => Unfinished = {}
      BY <2>8 DEF Goes, PrepareReserve, Create, Open, Close, Delete, Fail, HandOff, Reopen, StartPass, Pass
    <3> QED BY <2>4, <2>5, <2>10, <3>2, <3>3, <3>4
  <2>11. CASE Works
    <3>1. Stop => m'.pc = "off" BY DEF Stop, Idle
    <3>2. NextBatch \/ ReserveAttempt \/ Settled => Unfinished = {} BY <2>8 DEF NextBatch, ReserveAttempt, Settled
    <3>3. Rename \/ Commit => Unfinished = {} BY <2>8 DEF Rename, Commit, WriteUnderWay
    <3>4. \A t \in Task : Dispatch(t) \/ Interrupted(t) \/ Collect(t) \/ Intend(t) \/ Finish(t) => Unfinished = {}
      BY <2>8 DEF Dispatch, Interrupted, Collect, Intend, Finish, Writing
    <3> QED BY <2>4, <2>5, <2>7, <2>11, <3>1, <3>2, <3>3, <3>4 DEF Works
  <2> QED BY <2>9, <2>10, <2>11, StepIs
<1> QED BY <1>2, <1>3, <1>4, <1>5, <1>6 DEF ExecsSteps

----------------------------------------------------------------------------
(* The invariant.                                                          *)

\* The inductive invariant.
LEMMA TestingInvHolds ==
  ASSUME PlanAssumption, ExecutionAssumption
  PROVE  /\ Init => TestingInv
         /\ TestingInv /\ [Next]_vars => TestingInv'
<1>1. ASSUME Init PROVE TestingInv
  <2>1. 1 \in DOMAIN Schedule BY ScheduleIs
  <2>2. Idle \in Memory /\ Idle.pc = "off" /\ Idle.busy = {} /\ Idle.writing = Null BY <2>1 DEF Idle, Memory, Places
  <2>3. NoRun \in RunOf BY DEF NoRun, RunOf, Updates
  <2>4. <<>> \in Seq(AttemptOf) /\ <<>> \in Seq(WriteOf) /\ <<>> \in Seq(RoundOf) /\ Len(<<>>) = 0
        /\ DOMAIN <<>> = {} OBVIOUS
  <2>5. work \in WorkOf /\ ledger \in [Task -> Seq(AttemptOf)] /\ run \in [Task -> RunOf]
    BY <1>1, <2>3, <2>4 DEF Init, WorkOf
  <2>6. execs \in [DOMAIN execs -> ExecOf] /\ DOMAIN execs = {} BY <1>1 DEF Init
  <2>7. repair \in RepairOf /\ done \in DoneOf /\ spent \in [Task -> Nat] BY <1>1, <2>4 DEF Init, RepairOf, DoneOf
  <2>8. ExecutorTyped BY <1>1, <2>2, <2>5, <2>6, <2>7 DEF Init, ExecutorTyped
  <2>9. WorktreeKept BY <1>1, <2>2 DEF Init, WorktreeKept, TreeKept, PlacesKept, Opened
  <2>10. WriteUnderWay BY <1>1, <2>2 DEF Init, WriteUnderWay, Opened
  <2>11. RunsSound BY <1>1 DEF Init, RunsSound, NoRun
  <2>12. BatchAlone BY <1>1, <2>2 DEF Init, BatchAlone
  <2>13. LaunchesCounted BY <1>1, <2>4 DEF Init, LaunchesCounted
  <2>14. ChecksEnded BY <1>1, <2>2, <2>6 DEF Init, ChecksEnded, Unfinished
  <2>15. HandedOff BY <1>1, <2>2 DEF Init, HandedOff
  <2>16. InvalidationsRest BY <1>1, <2>4 DEF Init, InvalidationsRest
  <2>17. RoundsApart BY <1>1, <2>4 DEF Init, RoundsApart
  <2> QED BY <2>8, <2>9, <2>10, <2>11, <2>12, <2>13, <2>14, <2>15, <2>16, <2>17 DEF TestingInv
<1>2. ASSUME TestingInv, [Next]_vars PROVE TestingInv'
  <2>1. /\ ExecutorTyped /\ WorktreeKept /\ WriteUnderWay /\ RunsSound /\ BatchAlone /\ LaunchesCounted
        /\ ChecksEnded /\ HandedOff /\ InvalidationsRest /\ RoundsApart BY <1>2 DEF TestingInv
  <2>2. ExecutorTyped'
    <3>1. m' \in Memory BY <1>2, <2>1, MemoryKept
    <3>2. work' \in WorkOf BY <1>2, <2>1, WorkTypeKept
    <3>3. ledger' \in [Task -> Seq(AttemptOf)] BY <1>2, <2>1, LedgerTypeKept
    <3>4. run' \in [Task -> RunOf] BY <1>2, <2>1, RunTypeKept
    <3>5. execs' \in [DOMAIN execs' -> ExecOf] BY <1>2, <2>1, ExecsTypeKept
    <3>6. repair' \in RepairOf BY <1>2, <2>1, RepairKept
    <3>7. done' \in DoneOf BY <1>2, <2>1, DoneTypeKept
    <3>8. spent' \in [Task -> Nat] BY <1>2, <2>1, LaunchesKept
    <3> QED BY <3>1, <3>2, <3>3, <3>4, <3>5, <3>6, <3>7, <3>8 DEF ExecutorTyped
  <2>3. WorktreeKept' BY <1>2, <2>1, TreeStaysKept, PlacesStayKept DEF WorktreeKept
  <2>4. WriteUnderWay' BY <1>2, <2>1, WriteUnderWayKept
  <2>5. RunsSound' BY <1>2, <2>1, RunTypeKept
  <2>6. BatchAlone' BY <1>2, <2>1, BatchAloneKept
  <2>7. LaunchesCounted' BY <1>2, <2>1, LaunchesKept
  <2>8. ChecksEnded' BY <1>2, <2>1, ChecksEndedKept
  <2>9. HandedOff' BY <1>2, <2>1, HandedOffKept
  <2>10. InvalidationsRest' BY <1>2, <2>1, InvalidationsKept
  <2>11. RoundsApart' BY <1>2, <2>1, RepairKept
  <2> QED BY <2>2, <2>3, <2>4, <2>5, <2>6, <2>7, <2>8, <2>9, <2>10, <2>11 DEF TestingInv
<1> QED BY <1>1, <1>2

\* What the run checks follows from it.
LEMMA TestingInvShows ==
  ASSUME PlanAssumption, ExecutionAssumption, TestingInv
  PROVE  EvidenceHolds
<1>0. /\ ExecutorTyped /\ WorktreeKept /\ WriteUnderWay /\ RunsSound /\ BatchAlone /\ LaunchesCounted
      /\ ChecksEnded /\ HandedOff /\ InvalidationsRest /\ RoundsApart BY DEF TestingInv
<1>1. VerifiedHandoff BY <1>0 DEF HandedOff, VerifiedHandoff, PassedOn, Ended
<1>2. ReopenedByFailure
  <2>1. ASSUME NEW t \in Task, NEW n \in 1..MaxAttempts, n <= Len(ledger[t]), ledger[t][n].invalidated # Null
        PROVE  FailedAt(ledger[t][n].invalidated)
    <3>1. Len(ledger[t]) \in Nat BY <1>0 DEF ExecutorTyped
    <3>2. n \in 1..Len(ledger[t])
      <4>1. MaxAttempts \in Nat BY DEF ExecutionAssumption
      <4> QED BY <2>1, <3>1, <4>1
    <3> QED BY <1>0, <2>1, <3>2 DEF InvalidationsRest
  <2>2. \A t \in Task, n \in 1..MaxAttempts :
          n <= Len(ledger[t]) /\ ledger[t][n].invalidated # Null =>
            LET e == ledger[t][n].invalidated IN
            \E r \in 0..Retries : LET c == <<e[1], Final(r), e[2]>> IN c \in DOMAIN execs
            /\ execs[c].result = "failed"
    BY <2>1 DEF FailedAt, Ended
  <2> QED BY <1>0, <2>2 DEF ReopenedByFailure, RoundsApart
<1>3. WritersAlone
  <2>1. m \in Memory BY <1>0 DEF ExecutorTyped
  <2>2. Alone(Schedule[m.batch]) BY <2>1, ScheduleIs DEF Memory
  <2>3. m.busy # {} => m.pc \in {"reserve", "write"} /\ m.busy \subseteq Schedule[m.batch] BY <1>0 DEF BatchAlone
  <2>4. m.pc \in {"reserve", "write", "done", "failed"} => Unfinished = {} /\ live = {} BY <1>0 DEF ChecksEnded
  <2>5. \A t, u \in m.busy : t # u => Scope[t] \cap Scope[u] = {} /\ ~DeclaredConflict(t, u) BY <2>2, <2>3 DEF Alone
  <2> QED BY <2>3, <2>4, <2>5 DEF WritersAlone
<1>4. JournalExplainsTree
  <2>1. work.journal \in Seq(WriteOf) BY <1>0 DEF ExecutorTyped, WorkOf
  <2> QED BY <1>0, <2>1, JournaledExplains DEF JournalExplainsTree, WorktreeKept, TreeKept
<1>5. LaunchedOnce BY <1>0 DEF LaunchesCounted, LaunchedOnce
<1> QED BY <1>1, <1>2, <1>3, <1>4, <1>5 DEF EvidenceHolds, StopsAreSafe

\* testing-execution.ts: an executor's evidence, wherever it stops: what it handed off passed on the
\* bytes it delivers, its journal explains its worktree, its writers work alone, a repair rests on a
\* failed check, and no attempt is launched twice.
THEOREM EvidenceAlwaysHolds == Spec => []EvidenceHolds
<1>1. Init => TestingInv BY PlanAssumption, ExecutionAssumption, TestingInvHolds
<1>2. TestingInv /\ [Next]_vars => TestingInv' BY PlanAssumption, ExecutionAssumption, TestingInvHolds
<1>3. TestingInv => EvidenceHolds BY PlanAssumption, ExecutionAssumption, TestingInvShows
<1> QED BY <1>1, <1>2, <1>3, PTL DEF Spec
=============================================================================
