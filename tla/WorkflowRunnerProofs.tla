------------------------ MODULE WorkflowRunnerProofs ------------------------
(***************************************************************************)
(* The runner's invariants for every graph, concurrency limit and number   *)
(* of crashes, and its refinement of DurableRun.                           *)
(***************************************************************************)
EXTENDS WorkflowRunner, FiniteSetsExt, WellFoundedInduction, TLAPS

----------------------------------------------------------------------------
(* Least and greatest elements of sets of naturals.  The library states    *)
(* induction over an operator, which the installed provers cannot          *)
(* instantiate; well-foundedness of < over sets gives the same facts.      *)

\* A nonempty set of naturals has a least element.
LEMMA LeastNatural ==
  ASSUME NEW S \in SUBSET Nat, S # {}
  PROVE  \E x \in S : \A y \in S : x <= y
<1>1. PICK x \in S : \A y \in S : <<y, x>> \notin OpToRel(<, Nat)
  BY WFMin, NatLessThanWellFounded, Zenon
<1>2. \A y \in S : y \in Nat /\ x \in Nat OBVIOUS
<1>3. \A y \in S : ~(y < x)
  BY <1>1, <1>2, Zenon DEF OpToRel
<1> QED BY <1>2, <1>3

\* Max of a nonempty bounded set of naturals is its greatest element.
LEMMA MaxOfBounded ==
  ASSUME NEW S \in SUBSET Nat, S # {}, NEW u \in Nat, \A x \in S : x <= u
  PROVE  Max(S) \in S /\ \A y \in S : Max(S) >= y
<1> DEFINE U == {v \in Nat : \A x \in S : x <= v}
<1>1. PICK m \in U : \A v \in U : m <= v
  <2>1. u \in U /\ U \in SUBSET Nat OBVIOUS
  <2> QED BY <2>1, LeastNatural
<1>2. m \in S
  <2> SUFFICES ASSUME m \notin S PROVE FALSE OBVIOUS
  <2>1. PICK s \in S : TRUE OBVIOUS
  <2>2. s < m BY <1>1, <2>1
  <2>3. m - 1 \in Nat BY <2>2
  <2>4. m - 1 \in U BY <1>1, <2>3
  <2> QED BY <2>4, <1>1
<1>3. \E x \in S : \A y \in S : x >= y BY <1>1, <1>2
<1> QED BY <1>3 DEF Max

\* Finitely many naturals are bounded.
LEMMA FiniteFamilyBounded ==
  ASSUME NEW f, NEW N \in Nat, \A i \in 1..N : f[i] \in Nat
  PROVE  \E u \in Nat : \A i \in 1..N : f[i] <= u
<1> DEFINE Unbounded == {k \in 0..N : ~ \E u \in Nat : \A i \in 1..k : f[i] <= u}
<1> SUFFICES ASSUME Unbounded # {} PROVE FALSE
  <2>1. N \in 0..N OBVIOUS
  <2> QED BY <2>1
<1>1. PICK k \in Unbounded : \A l \in Unbounded : k <= l
  <2>1. Unbounded \in SUBSET Nat OBVIOUS
  <2> QED BY <2>1, LeastNatural
<1>2. k # 0
  <2>1. \A i \in 1..0 : f[i] <= 0 OBVIOUS
  <2>2. 0 \in Nat OBVIOUS
  <2> QED BY <2>1, <2>2
<1>3. k - 1 \in 0..N /\ k - 1 \notin Unbounded
  <2>1. k \in 0..N OBVIOUS
  <2>2. k - 1 \in 0..N BY <1>2, <2>1
  <2> HIDE DEF Unbounded
  <2>3. k - 1 \notin Unbounded BY <1>1, <2>1, <2>2
  <2> QED BY <2>2, <2>3
<1>4. PICK u \in Nat : \A i \in 1..(k-1) : f[i] <= u BY <1>3
<1>5. f[k] \in Nat BY <1>1, <1>2
<1>6. PICK v \in Nat : u <= v /\ f[k] <= v
  <2>1. u <= u + f[k] /\ f[k] <= u + f[k] /\ u + f[k] \in Nat BY <1>5
  <2> QED BY <2>1
<1>7. \A i \in 1..k : f[i] <= v
  <2> SUFFICES ASSUME NEW i \in 1..k PROVE f[i] <= v OBVIOUS
  <2>1. CASE i = k BY <2>1, <1>6
  <2>2. CASE i # k
    <3>1. i \in 1..(k-1) BY <2>2
    <3>2. f[i] <= u /\ f[i] \in Nat BY <3>1, <1>4
    <3> QED BY <3>2, <1>6
  <2> QED BY <2>1, <2>2
<1> QED BY <1>7

\* What a journal projects to is well typed.
LEMMA ProjectionTyped ==
  ASSUME journal \in Seq(Record), NEW n \in Node
  PROVE  ProjectCompleted(n) \in Nat /\ ProjectAttempts(n) \in Nat
<1> DEFINE N == Len(journal)
<1>0. N \in Nat /\ \A i \in 1..N : journal[i] \in Record OBVIOUS
<1>1. \A i \in 1..N : journal[i].attempt \in Nat BY <1>0 DEF Record
<1>2. ProjectCompleted(n) \in Nat
  <2>1. CASE EndsOf(n) = {} BY <2>1 DEF ProjectCompleted
  <2>2. CASE EndsOf(n) # {}
    <3>1. EndsOf(n) \in SUBSET Nat /\ \A i \in EndsOf(n) : i <= N
      BY <1>0 DEF EndsOf
    <3>2. Max(EndsOf(n)) \in EndsOf(n) BY <1>0, <2>2, <3>1, MaxOfBounded
    <3>3. Max(EndsOf(n)) \in 1..N BY <3>2 DEF EndsOf
    <3> QED BY <1>1, <2>2, <3>3 DEF ProjectCompleted
  <2> QED BY <2>1, <2>2
<1>3. ProjectAttempts(n) \in Nat
  <2> DEFINE A == {journal[i].attempt : i \in StartsOf(n)}
  <2>1. CASE StartsOf(n) = {} BY <2>1 DEF ProjectAttempts
  <2>2. CASE StartsOf(n) # {}
    <3>0. \A i \in StartsOf(n) : journal[i].attempt \in Nat
      BY <1>1 DEF StartsOf
    <3>1. A \in SUBSET Nat /\ A # {}
      <4>1. \A x \in A : x \in Nat BY <3>0
      <4>2. PICK i \in StartsOf(n) : TRUE BY <2>2
      <4>3. journal[i].attempt \in A BY <4>2
      <4> QED BY <4>1, <4>3
    <3>2. PICK u \in Nat : \A i \in 1..N : journal[i].attempt <= u
      <4> DEFINE f == [i \in 1..N |-> journal[i].attempt]
      <4>1. \A i \in 1..N : f[i] \in Nat BY <1>1
      <4>2. \E u \in Nat : \A i \in 1..N : f[i] <= u
        <5> HIDE DEF f
        <5> QED BY <1>0, <4>1, FiniteFamilyBounded
      <4> QED BY <4>2
    <3>3. \A x \in A : x <= u BY <3>2 DEF StartsOf
    <3>4. Max(A) \in A
      <4> HIDE DEF A
      <4> QED BY <3>1, <3>3, MaxOfBounded
    <3>5. ProjectAttempts(n) = Max(A) BY <2>2 DEF ProjectAttempts
    <3> QED BY <3>1, <3>4, <3>5
  <2> QED BY <2>1, <2>2
<1> QED BY <1>2, <1>3

\* The events the runner writes, and their places in the queue, are well typed.
LEMMA EventsTyped ==
  /\ \A s \in RunState : Transition(s) \in RunEvent
  /\ \A n \in Node : Dispatched(n) \in RunEvent /\ Completed(n) \in RunEvent
  /\ \A e \in RunEvent, x \in Node \union {Run} : Waiting(e, x) \in QueueEntry
  /\ \A q \in QueueEntry : q.event \in RunEvent
BY DEF Transition, Dispatched, Completed, Waiting, RunEvent, QueueEntry

LEMMA FinalsTyped ==
  /\ "CREATED" \in RunState /\ "CANCELLED" \in RunState /\ "COMPLETED" \in RunState
  /\ Failures \subseteq RunState /\ Stages \subseteq RunState
  /\ "FAILED" \in Failures
BY DEF RunState, Finals, Failures

\* The state a batch leaves the handle in, and the appends it begins with.
LEMMA BatchTyped ==
  ASSUME TypeOK, NEW k \in Nat, NEW b \in [1..k -> Node]
  PROVE  /\ StateAfter(b, k) \in RunState
         /\ \A i \in 1..k : FirstAppend(b, i) \in QueueEntry
<1>1. \A n \in Node : StageOf(n) \in Stages \union {NoStage}
  BY GraphAssumption DEF StageOf
<1>2. StateAfter(b, k) \in RunState
  <2> DEFINE staged == {j \in 1..k : StageOf(b[j]) # NoStage}
  <2>1. CASE staged = {} BY <2>1 DEF StateAfter, TypeOK
  <2>2. CASE staged # {}
    <3>1. staged \in SUBSET Nat /\ \A x \in staged : x <= k OBVIOUS
    <3>2. Max(staged) \in staged
      <4> HIDE DEF staged
      <4> QED BY <2>2, <3>1, MaxOfBounded
    <3>3. StateAfter(b, k) = StageOf(b[Max(staged)]) BY <2>2 DEF StateAfter
    <3>4. StageOf(b[Max(staged)]) \in Stages
      <4>1. \A j \in staged : StageOf(b[j]) \in Stages BY <1>1
      <4> HIDE DEF staged
      <4> QED BY <4>1, <3>2
    <3> QED BY <3>3, <3>4, FinalsTyped
  <2> QED BY <2>1, <2>2
<1>3. ASSUME NEW i \in 1..k PROVE FirstAppend(b, i) \in QueueEntry
  <2>1. b[i] \in Node OBVIOUS
  <2>2. RecordsStage(b, i) => StageOf(b[i]) \in RunState
    BY <1>1, <2>1, FinalsTyped DEF RecordsStage
  <2>3. CASE RecordsStage(b, i)
    <3>1. FirstAppend(b, i) = Waiting(Transition(StageOf(b[i])), b[i])
      BY <2>3 DEF FirstAppend
    <3> QED BY <2>1, <2>2, <2>3, <3>1, EventsTyped
  <2>4. CASE ~RecordsStage(b, i)
    <3>1. FirstAppend(b, i) = Waiting(Dispatched(b[i]), b[i])
      BY <2>4 DEF FirstAppend
    <3> QED BY <2>1, <3>1, EventsTyped
  <2> QED BY <2>3, <2>4
<1> QED BY <1>2, <1>3

\* Among nodes some of which are rejected, one comes first in plan order.
LEMMA RejectedHasFirst ==
  ASSUME TypeOK, Rejected # {}
  PROVE  FirstRejected \in Rejected /\ FirstRejected \in Node
<1>1. Rejected \subseteq Node BY DEF Rejected, InBatch, TypeOK
<1> DEFINE P == {Position[n] : n \in Rejected}
<1>2. P \in SUBSET Nat /\ P # {}
  <2>1. \A n \in Rejected : Position[n] \in Nat BY <1>1, GraphAssumption
  <2>2. PICK n \in Rejected : TRUE OBVIOUS
  <2>3. Position[n] \in P BY <2>2
  <2> QED BY <2>1, <2>3
<1>3. PICK x \in P : \A y \in P : x <= y
  <2> HIDE DEF P
  <2> QED BY <1>2, LeastNatural
<1>4. \E n \in Rejected : \A m \in Rejected : Position[n] <= Position[m] BY <1>3
<1> QED BY <1>1, <1>4 DEF FirstRejected

\* The records an activity appends are well typed.
LEMMA RecordsTyped ==
  \A n \in Node, k \in Nat, t \in {"attempt_start", "end", "attempt_error"} :
    [t |-> t, id |-> n, attempt |-> k] \in Record
BY DEF Record

\* Cutting a sequence back to a prefix of it.
LEMMA PrefixTyped ==
  ASSUME NEW S, NEW s \in Seq(S), NEW k \in 0..Len(s)
  PROVE  /\ SubSeq(s, 1, k) \in Seq(S) /\ Len(SubSeq(s, 1, k)) = k
         /\ \A i \in 1..k : SubSeq(s, 1, k)[i] = s[i]
OBVIOUS

\* Appending to a sequence and dropping its head.
LEMMA AppendTyped ==
  ASSUME NEW S, NEW s \in Seq(S), NEW e \in S
  PROVE  /\ Append(s, e) \in Seq(S) /\ Len(Append(s, e)) = Len(s) + 1
         /\ s # <<>> => Tail(s) \in Seq(S) /\ Append(Tail(s), e) \in Seq(S)
OBVIOUS

\* A node's record extends the journal by one.
LEMMA RecordAppended ==
  ASSUME TypeOK, NEW n \in Node, WriteRecord("attempt_start", n)
           \/ WriteRecord("end", n) \/ WriteRecord("attempt_error", n)
  PROVE  journal' \in Seq(Record) /\ Len(journal') = Len(journal) + 1
<1>1. PICK t \in {"attempt_start", "end", "attempt_error"} : WriteRecord(t, n)
  OBVIOUS
<1>2. [t |-> t, id |-> n, attempt |-> attempts[n]] \in Record
  BY RecordsTyped DEF TypeOK
<1> QED BY <1>1, <1>2, AppendTyped DEF TypeOK, WriteRecord

\* Moving one node leaves every node in a known place.
LEMMA GotoTyped ==
  ASSUME TypeOK, NEW n \in Node, NEW at \in NodePhase
  PROVE  [nodePhase EXCEPT ![n] = at] \in [Node -> NodePhase]
BY DEF TypeOK

\* What a process without a handle holds is well typed.
LEMMA ForgetTyped ==
  ASSUME Forget
  PROVE  /\ liveState' \in RunState /\ cancelled' \in BOOLEAN
         /\ outputs' \subseteq Node /\ batch' \in Seq(Node)
         /\ nodePhase' \in [Node -> NodePhase]
         /\ nodeError' \in [Node -> Failures]
         /\ completed' \in [Node -> Nat] /\ attempts' \in [Node -> Nat]
         /\ eventQueue' \in Seq(QueueEntry)
<1>1. \A S : <<>> \in Seq(S) OBVIOUS
<1>2. /\ batch' \in Seq(Node) /\ eventQueue' \in Seq(QueueEntry)
      /\ liveState' \in RunState /\ cancelled' \in BOOLEAN /\ outputs' \subseteq Node
  BY <1>1, FinalsTyped DEF Forget
<1>3. nodePhase' \in [Node -> NodePhase] BY DEF Forget, NodePhase
<1>4. nodeError' \in [Node -> Failures] BY FinalsTyped DEF Forget
<1>5. completed' \in [Node -> Nat] /\ attempts' \in [Node -> Nat] BY DEF Forget
<1> QED BY <1>2, <1>3, <1>4, <1>5

LEMMA TypeStep == TypeOK /\ [Next]_vars => TypeOK'
<1> SUFFICES ASSUME TypeOK, [Next]_vars PROVE TypeOK' OBVIOUS
<1> USE FinalsTyped DEF TypeOK, disk, bounds
<1>1. CASE UNCHANGED vars BY <1>1 DEF vars
<1>2. CASE Start BY <1>2, ForgetTyped DEF Start, RunPhase
<1>3. CASE Resume BY SMTT(30), <1>3, ForgetTyped DEF Resume, RunPhase
<1>4. CASE SaveDefinition BY <1>4 DEF SaveDefinition, RunPhase
<1>5. CASE Load
  <2>1. \A n \in Node : ProjectCompleted(n) \in Nat /\ ProjectAttempts(n) \in Nat
    BY ProjectionTyped
  <2>2. Waiting(Transition("CREATED"), Run) \in QueueEntry BY EventsTyped
  <2> QED BY SMTT(20), <1>5, <2>1, <2>2 DEF Load, RunPhase
<1>6. CASE WriteRunEvent
  <2>1. Head(eventQueue).event \in RunEvent
    BY <1>6, EventsTyped DEF WriteRunEvent, RunEventAtHead
  <2> QED BY SMTT(20), <1>6, <2>1 DEF WriteRunEvent, RunEventAtHead, RunPhase
<1>7. CASE StartBatch
  <2>0. PICK k \in 1..ConcurrencyLimit : \E b \in [1..k -> Ready] :
          /\ batch' = b
          /\ nodePhase' = [n \in Node |->
               IF \E i \in 1..k : b[i] = n /\ RecordsStage(b, i) THEN "staging"
               ELSE IF \E i \in 1..k : b[i] = n THEN "dispatching"
               ELSE nodePhase[n]]
          /\ liveState' = StateAfter(b, k)
          /\ eventQueue' = eventQueue \o [i \in 1..k |-> FirstAppend(b, i)]
    BY <1>7 DEF StartBatch
  <2>1. PICK b \in [1..k -> Ready] :
          /\ batch' = b
          /\ nodePhase' = [n \in Node |->
               IF \E i \in 1..k : b[i] = n /\ RecordsStage(b, i) THEN "staging"
               ELSE IF \E i \in 1..k : b[i] = n THEN "dispatching"
               ELSE nodePhase[n]]
          /\ liveState' = StateAfter(b, k)
          /\ eventQueue' = eventQueue \o [i \in 1..k |-> FirstAppend(b, i)]
    BY <2>0
  <2>2. k \in Nat /\ b \in [1..k -> Node]
    BY BoundAssumption DEF Ready, Pending
  <2>3. /\ StateAfter(b, k) \in RunState
        /\ \A i \in 1..k : FirstAppend(b, i) \in QueueEntry
    BY <2>2, BatchTyped
  <2>4. [i \in 1..k |-> FirstAppend(b, i)] \in Seq(QueueEntry)
    BY <2>2, <2>3
  <2>5. eventQueue' \in Seq(QueueEntry) BY <2>1, <2>4
  <2>6. batch' \in Seq(Node) BY <2>1, <2>2
  <2>7. nodePhase' \in [Node -> NodePhase] BY <2>1 DEF NodePhase
  <2> QED BY <1>7, <2>1, <2>3, <2>5, <2>6, <2>7 DEF StartBatch
<1>8. CASE EndLoop
  <2>1. \A s \in RunState : Waiting(Transition(s), Run) \in QueueEntry
    BY EventsTyped
  <2>2. nodeError[FirstRejected] \in RunState \/ Rejected = {}
    <3>1. CASE Rejected # {}
      <4>1. FirstRejected \in Node
        BY <3>1, RejectedHasFirst
      <4> QED BY <4>1
    <3> QED BY <3>1
  <2>3. PICK s \in RunState, q \in {"finishing", "failing"} : Conclude(s, q)
    BY <1>8, <2>2 DEF EndLoop
  <2>4. eventQueue' \in Seq(QueueEntry)
    BY <2>1, <2>3, AppendTyped DEF Conclude
  <2> QED BY <1>8, <2>3, <2>4 DEF EndLoop, Conclude, RunPhase
<1>9. CASE InitialiseFails
  <2>1. \A s \in RunState : Waiting(Transition(s), Run) \in QueueEntry
    BY EventsTyped
  <2>2. PICK s \in RunState : Conclude(s, "failing")
    BY <1>9, FinalsTyped DEF InitialiseFails, Catch
  <2>3. eventQueue' \in Seq(QueueEntry)
    BY <2>1, <2>2, AppendTyped DEF Conclude
  <2>4. phase' \in RunPhase /\ liveState' \in RunState
    BY <2>2 DEF Conclude, RunPhase
  <2> QED BY SMTT(20), <1>9, <2>3, <2>4 DEF InitialiseFails, Fault
<1>10. CASE RunEventFails
  <2>1. \A s \in RunState : Waiting(Transition(s), Run) \in QueueEntry
    BY EventsTyped
  <2>2. eventQueue' \in Seq(QueueEntry)
    <3>1. PICK s \in RunState : eventQueue' \in {Tail(eventQueue),
            Append(Tail(eventQueue), Waiting(Transition(s), Run))}
      BY <1>10 DEF RunEventFails
    <3>2. eventQueue # <<>> BY <1>10 DEF RunEventFails, RunEventAtHead
    <3>3. eventQueue \in Seq(QueueEntry) OBVIOUS
    <3>4. /\ Waiting(Transition(s), Run) \in QueueEntry
      BY <2>1
    <3>5. /\ Tail(eventQueue) \in Seq(QueueEntry)
          /\ Append(Tail(eventQueue), Waiting(Transition(s), Run)) \in Seq(QueueEntry)
      BY <3>2, <3>3, <3>4, AppendTyped
    <3> QED BY <3>1, <3>5
  <2>3. phase' \in RunPhase /\ liveState' \in RunState
    BY <1>10 DEF RunEventFails, RunPhase
  <2> QED BY <1>10, <2>2, <2>3 DEF RunEventFails, Fault
<1>11. CASE Cancel BY <1>11 DEF Cancel
<1>12. CASE Crash
  <2>1. PICK k \in journalSynced..Len(journal) : journal' = SubSeq(journal, 1, k)
    BY <1>12 DEF Crash, Retained
  <2>2. PICK l \in eventsSynced..Len(events) : events' = SubSeq(events, 1, l)
    BY <1>12 DEF Crash
  <2>3. journal' \in Seq(Record) /\ journalSynced \in 0..Len(journal')
    BY <2>1, PrefixTyped
  <2>4. events' \in Seq(RunEvent) /\ eventsSynced \in 0..Len(events')
    BY <2>2, PrefixTyped
  <2> QED BY <1>12, <2>3, <2>4, ForgetTyped DEF Crash, RunPhase
<1>13. CASE LoseArtifact BY <1>13 DEF LoseArtifact, memory
<1>14. ASSUME NEW n \in Node, NodeStep(n) PROVE TypeOK'
  <2>1. CASE WriteStage(n)
    <3>1. Head(eventQueue).event \in RunEvent
      BY <2>1, EventsTyped DEF WriteStage, NodeEventAtHead
    <3>2. Waiting(Dispatched(n), n) \in QueueEntry BY EventsTyped
    <3>3. eventQueue' \in Seq(QueueEntry)
      BY <2>1, <3>2, AppendTyped DEF WriteStage, NodeEventAtHead
    <3>4. events' \in Seq(RunEvent) /\ Len(events') = Len(events) + 1
      BY <2>1, <3>1, AppendTyped DEF WriteStage, WriteNodeEvent
    <3>5. nodePhase' \in [Node -> NodePhase]
      BY <2>1, GotoTyped DEF WriteStage, Goto, NodePhase
    <3> QED BY SMTT(30), <2>1, <3>3, <3>4, <3>5 DEF WriteStage, WriteNodeEvent
  <2>2. CASE WriteDispatched(n)
    <3>1. Head(eventQueue).event \in RunEvent
      BY <2>2, EventsTyped DEF WriteDispatched, NodeEventAtHead
    <3>2. eventQueue' \in Seq(QueueEntry)
      BY <2>2, <3>1 DEF WriteDispatched, NodeEventAtHead
    <3>3. events' \in Seq(RunEvent) /\ Len(events') = Len(events) + 1
      BY <2>2, <3>1, AppendTyped DEF WriteDispatched, WriteNodeEvent
    <3>4. nodePhase' \in [Node -> NodePhase]
      BY <2>2, GotoTyped DEF WriteDispatched, Goto, NodePhase
    <3> QED BY SMTT(30), <2>2, <3>2, <3>3, <3>4 DEF WriteDispatched, WriteNodeEvent
  <2>3. CASE WriteCompleted(n)
    <3>1. Head(eventQueue).event \in RunEvent
      BY <2>3, EventsTyped DEF WriteCompleted, NodeEventAtHead
    <3>2. eventQueue' \in Seq(QueueEntry)
      BY <2>3, <3>1 DEF WriteCompleted, NodeEventAtHead
    <3>3. events' \in Seq(RunEvent) /\ Len(events') = Len(events) + 1
      BY <2>3, <3>1, AppendTyped DEF WriteCompleted, WriteNodeEvent
    <3>4. nodePhase' \in [Node -> NodePhase]
      BY <2>3, GotoTyped DEF WriteCompleted, Goto, NodePhase
    <3> QED BY SMTT(30), <2>3, <3>2, <3>3, <3>4 DEF WriteCompleted, WriteNodeEvent
  <2>4. CASE Replay(n)
    <3>1. Waiting(Completed(n), n) \in QueueEntry BY EventsTyped
    <3> QED BY <2>4, <3>1 DEF Replay, Deliver, Goto, NodePhase
  <2>5. CASE BeginAttempt(n)
    <3>1. nodePhase' \in [Node -> NodePhase]
      BY <2>5, GotoTyped DEF BeginAttempt, Goto, NodePhase
    <3>2. completed' \in [Node -> Nat] /\ attempts' \in [Node -> Nat]
      BY <2>5 DEF BeginAttempt
    <3> QED BY <2>5, <3>1, <3>2 DEF BeginAttempt
  <2>6. CASE StartAttempt(n)
    <3>1. nodePhase' \in [Node -> NodePhase]
      BY <2>6, GotoTyped DEF StartAttempt, Goto, NodePhase
    <3>2. journal' \in Seq(Record) /\ Len(journal') = Len(journal) + 1
      BY <2>6, RecordAppended DEF StartAttempt
    <3> QED BY <2>6, <3>1, <3>2 DEF StartAttempt
  <2>7. CASE ExecutorReturns(n) BY <2>7 DEF ExecutorReturns, Goto, NodePhase
  <2>8. CASE ExecutorThrows(n)
    BY <2>8, BoundAssumption DEF ExecutorThrows, Reject, Goto, NodePhase
  <2>9. CASE PutArtifact(n) BY <2>9 DEF PutArtifact, Goto, NodePhase
  <2>10. CASE EndActivity(n)
    <3>1. Waiting(Completed(n), n) \in QueueEntry BY EventsTyped
    <3>2. journal' \in Seq(Record) /\ Len(journal') = Len(journal) + 1
      BY SMTT(20), <2>10, RecordAppended DEF EndActivity
    <3> QED BY SMTT(20), <2>10, <3>1, <3>2
        DEF EndActivity, SyncedByEnd, Deliver, Goto, NodePhase
  <2>11. CASE AttemptError(n)
    <3>1. nodePhase' \in [Node -> NodePhase]
      BY <2>11, GotoTyped DEF AttemptError, Goto, NodePhase
    <3>2. journal' \in Seq(Record) /\ Len(journal') = Len(journal) + 1
      BY <2>11, RecordAppended DEF AttemptError
    <3> QED BY <2>11, <3>1, <3>2 DEF AttemptError
  <2> QED BY <1>14, <2>1, <2>2, <2>3, <2>4, <2>5, <2>6, <2>7, <2>8, <2>9,
          <2>10, <2>11 DEF NodeStep
<1>15. ASSUME NEW n \in Node, NodeFault(n) PROVE TypeOK'
  <2>1. CASE NodeEventFails(n)
    <3>1. nodePhase' \in [Node -> NodePhase]
      BY <2>1, GotoTyped DEF NodeEventFails, Reject, Goto, NodePhase
    <3>2. eventQueue' \in Seq(QueueEntry)
      BY <2>1 DEF NodeEventFails, NodeEventAtHead
    <3>3. nodeError' \in [Node -> Failures] BY <2>1 DEF NodeEventFails, Reject
    <3> QED BY SMTT(30), <2>1, <3>1, <3>2, <3>3 DEF NodeEventFails, Fault
  <2>2. CASE LookupFails(n)
    BY SMTT(20), <2>2 DEF LookupFails, Fault, Reject, Goto, NodePhase
  <2>3. CASE StartAttemptFails(n)
    BY SMTT(20), <2>3 DEF StartAttemptFails, Fault, Reject, Goto, NodePhase
  <2>4. CASE StoreFails(n)
    BY SMTT(20), <2>4 DEF StoreFails, Fault, Reject, Goto, NodePhase
  <2>5. CASE AttemptErrorFails(n)
    BY SMTT(20), <2>5 DEF AttemptErrorFails, Fault, Reject, Goto, NodePhase
  <2> QED BY <1>15, <2>1, <2>2, <2>3, <2>4, <2>5 DEF NodeFault
<1> QED
  BY <1>1, <1>2, <1>3, <1>4, <1>5, <1>6, <1>7, <1>8, <1>9, <1>10, <1>11,
     <1>12, <1>13, <1>14, <1>15 DEF Next, RunStep

LEMMA InitTyped == Init => TypeOK
<1> SUFFICES ASSUME Init PROVE TypeOK OBVIOUS
<1>1. /\ nodePhase \in [Node -> NodePhase] /\ nodeError \in [Node -> Failures]
      /\ completed \in [Node -> Nat] /\ attempts \in [Node -> Nat]
  BY FinalsTyped DEF Init, NodePhase
<1>2. /\ journal \in Seq(Record) /\ Len(journal) = 0
      /\ events \in Seq(RunEvent) /\ Len(events) = 0
      /\ batch \in Seq(Node) /\ eventQueue \in Seq(QueueEntry)
  BY DEF Init
<1>3. /\ defined \in BOOLEAN /\ cancelled \in BOOLEAN
      /\ phase \in RunPhase /\ liveState \in RunState
  BY FinalsTyped DEF Init, RunPhase
<1> QED BY <1>1, <1>2, <1>3 DEF Init, TypeOK

\* Every variable of the runner keeps its type, for every graph.
THEOREM TypeCorrect == Spec => []TypeOK
BY InitTyped, TypeStep, PTL DEF Spec

-----------------------------------------------------------------------------
(* The journal.  A step leaves it alone, appends a record that is not an    *)
(* end, ends an activity, or crashes.                                       *)

SameJournal == UNCHANGED <<journal, journalSynced>>

PlainRecord(n, t) == WriteRecord(t, n) /\ UNCHANGED journalSynced

LEMMA JournalCases ==
  ASSUME [Next]_vars
  PROVE  \/ SameJournal
         \/ \E n \in Node, t \in {"attempt_start", "attempt_error"} : PlainRecord(n, t)
         \/ \E n \in Node : EndActivity(n)
         \/ Crash
<1> USE DEF SameJournal, disk
<1>1. CASE UNCHANGED vars BY <1>1 DEF vars
<1>2. CASE Start \/ Resume \/ SaveDefinition \/ Load \/ WriteRunEvent
  BY <1>2 DEF Start, Resume, SaveDefinition, Load, WriteRunEvent
<1>3. CASE StartBatch \/ EndLoop \/ InitialiseFails \/ RunEventFails \/ Cancel
           \/ LoseArtifact
  BY <1>3 DEF StartBatch, EndLoop, InitialiseFails, RunEventFails, Cancel, LoseArtifact
<1>4. CASE Crash BY <1>4
<1>5. ASSUME NEW n \in Node, NodeStep(n), ~EndActivity(n)
      PROVE  SameJournal \/ \E t \in {"attempt_start", "attempt_error"} : PlainRecord(n, t)
  <2>1. CASE StartAttempt(n) BY <2>1 DEF StartAttempt, PlainRecord
  <2>2. CASE AttemptError(n) BY <2>2 DEF AttemptError, PlainRecord
  <2>3. CASE WriteStage(n) \/ WriteDispatched(n) \/ WriteCompleted(n)
    BY <2>3 DEF WriteStage, WriteDispatched, WriteCompleted, WriteNodeEvent
  <2>4. CASE Replay(n) \/ BeginAttempt(n) \/ ExecutorReturns(n)
             \/ ExecutorThrows(n) \/ PutArtifact(n)
    BY <2>4 DEF Replay, BeginAttempt, ExecutorReturns, ExecutorThrows, PutArtifact
  <2> QED BY <1>5, <2>1, <2>2, <2>3, <2>4 DEF NodeStep
<1>6. ASSUME NEW n \in Node, NodeFault(n) PROVE SameJournal
  BY <1>6 DEF NodeFault, NodeEventFails, LookupFails, StartAttemptFails,
              StoreFails, AttemptErrorFails
<1> QED BY <1>1, <1>2, <1>3, <1>4, <1>5, <1>6 DEF Next, RunStep

\* What each kind of step does to the records.
LEMMA JournalStep ==
  ASSUME TypeOK, [Next]_vars
  PROVE  /\ journalSynced <= journalSynced'
         /\ Len(journal') \in Nat /\ journalSynced' \in 0..Len(journal')
         /\ \A i \in 1..Len(journal') : i <= Len(journal) => journal'[i] = journal[i]
         /\ journalSynced <= Len(journal')
<1>1. CASE SameJournal BY <1>1 DEF SameJournal, TypeOK
<1>2. ASSUME NEW n \in Node, NEW t \in {"attempt_start", "attempt_error"}, PlainRecord(n, t)
      PROVE  /\ journalSynced' = journalSynced
             /\ Len(journal') = Len(journal) + 1
             /\ \A i \in 1..Len(journal) : journal'[i] = journal[i]
  BY <1>2 DEF PlainRecord, WriteRecord, TypeOK
<1>3. ASSUME NEW n \in Node, EndActivity(n)
      PROVE  /\ journalSynced' = Len(journal) + 1
             /\ Len(journal') = Len(journal) + 1
             /\ \A i \in 1..Len(journal) : journal'[i] = journal[i]
  BY <1>3 DEF EndActivity, SyncedByEnd, WriteRecord, TypeOK
<1>4. CASE Crash
  <2>1. PICK k \in journalSynced..Len(journal) : journal' = SubSeq(journal, 1, k)
    BY <1>4 DEF Crash, Retained
  <2>2. k \in 0..Len(journal) /\ journalSynced \in 0..k BY <2>1 DEF TypeOK
  <2>3. Len(journal') = k /\ \A i \in 1..k : journal'[i] = journal[i]
    BY <2>1, <2>2, PrefixTyped DEF TypeOK
  <2>4. journalSynced' = journalSynced BY <1>4 DEF Crash
  <2> QED BY <2>2, <2>3, <2>4
<1>5. journalSynced \in 0..Len(journal) /\ Len(journal) \in Nat BY DEF TypeOK
<1> QED BY <1>1, <1>2, <1>3, <1>4, <1>5, JournalCases

\* No step takes back an activity that ended durably.
LEMMA EndedMonotone ==
  ASSUME TypeOK, [Next]_vars
  PROVE  EndedIn(journalSynced) \subseteq EndedIn(journalSynced)'
<1>1. journalSynced \in Nat /\ journalSynced <= Len(journal) BY DEF TypeOK
<1>2. ASSUME NEW n \in Node, NEW i \in 1..journalSynced,
             journal[i].t = "end" /\ journal[i].id = n
      PROVE  i \in 1..journalSynced' /\ journal'[i].t = "end" /\ journal'[i].id = n
  BY <1>1, <1>2, JournalStep
<1> QED BY <1>2 DEF EndedIn

LEMMA EndsSyncedStep ==
  ASSUME TypeOK, EndsSynced, [Next]_vars
  PROVE  EndsSynced'
<1> SUFFICES ASSUME NEW i \in 1..Len(journal'), journal'[i].t = "end"
             PROVE  i <= journalSynced'
  BY DEF EndsSynced
<1>0. /\ Len(journal) \in Nat /\ journalSynced \in Nat /\ journalSynced' \in Nat
      /\ journalSynced <= journalSynced' /\ Len(journal') \in Nat
  BY SMTT(20), JournalStep DEF TypeOK
<1>1. CASE i <= Len(journal)
  <2>1. journal[i].t = "end" BY <1>0, <1>1, JournalStep
  <2> QED BY <1>0, <1>1, <2>1 DEF EndsSynced
<1>2. CASE i > Len(journal)
  <2>1. CASE SameJournal BY <1>2, <2>1 DEF SameJournal
  <2>2. ASSUME NEW n \in Node, NEW t \in {"attempt_start", "attempt_error"}, PlainRecord(n, t)
        PROVE  FALSE
    <3>1. i = Len(journal) + 1 /\ journal'[i].t = t
      BY <1>2, <2>2 DEF PlainRecord, WriteRecord, TypeOK
    <3> QED BY <3>1
  <2>3. ASSUME NEW n \in Node, EndActivity(n) PROVE i <= journalSynced'
    BY <2>3, <1>0, JournalStep DEF EndActivity, SyncedByEnd, WriteRecord, TypeOK
  <2>4. CASE Crash
    <3>1. Len(journal') <= Len(journal)
      <4>1. PICK k \in journalSynced..Len(journal) : journal' = SubSeq(journal, 1, k)
        BY <2>4 DEF Crash, Retained
      <4>2. k \in 0..Len(journal) BY <4>1 DEF TypeOK
      <4> QED BY <4>1, <4>2, PrefixTyped DEF TypeOK
    <3> QED BY <1>0, <1>2, <3>1
  <2> QED BY <2>1, <2>2, <2>3, <2>4, JournalCases
<1> QED BY <1>0, <1>1, <1>2

\* An activity whose end is on file is durably ended.
LEMMA EndOnFile ==
  ASSUME TypeOK, EndsSynced, NEW n \in Node, EndsOf(n) # {}
  PROVE  n \in EndedIn(journalSynced)
<1>1. PICK i \in 1..Len(journal) : journal[i].t = "end" /\ journal[i].id = n
  BY DEF EndsOf
<1>2. i \in 1..journalSynced BY <1>1 DEF EndsSynced, TypeOK
<1> QED BY <1>1, <1>2 DEF EndedIn

\* The end of an activity makes it durably ended.
LEMMA EndMakesEnded ==
  ASSUME TypeOK, NEW n \in Node, EndActivity(n)
  PROVE  n \in EndedIn(journalSynced)'
<1> DEFINE k == Len(journal) + 1
<1>1. journalSynced' = k /\ k \in 1..k
  BY DEF EndActivity, SyncedByEnd, TypeOK
<1>2. journal'[k].t = "end" /\ journal'[k].id = n
  BY DEF EndActivity, WriteRecord, TypeOK
<1>3. \E i \in 1..journalSynced' : journal'[i].t = "end" /\ journal'[i].id = n
  BY <1>1, <1>2
<1> QED BY <1>3 DEF EndedIn

LEMMA OutputsEndedStep ==
  ASSUME OrderInv, [Next]_vars
  PROVE  OutputsEnded'
<1> USE DEF OrderInv
<1>0. EndedIn(journalSynced) \subseteq EndedIn(journalSynced)' BY EndedMonotone
<1>a. ASSUME Forget PROVE OutputsEnded'
  BY <1>a DEF Forget, OutputsEnded
<1>b. ASSUME UNCHANGED <<outputs, completed>> PROVE OutputsEnded'
  BY <1>0, <1>b DEF OutputsEnded
<1>1. CASE UNCHANGED vars BY <1>1, <1>b DEF vars
<1>2. CASE Start \/ Resume \/ Crash BY <1>2, <1>a DEF Start, Resume, Crash
<1>3. CASE SaveDefinition \/ WriteRunEvent \/ StartBatch \/ EndLoop
  BY <1>3, <1>b DEF SaveDefinition, WriteRunEvent, StartBatch, EndLoop
<1>4. CASE Load
  <2>1. \A n \in Node : ProjectCompleted(n) # 0 => n \in EndedIn(journalSynced)
    BY EndOnFile DEF ProjectCompleted
  <2>2. outputs' = outputs /\ completed' = [n \in Node |-> ProjectCompleted(n)]
    BY <1>4 DEF Load
  <2> QED BY <1>0, <2>1, <2>2 DEF OutputsEnded
<1>5. CASE InitialiseFails \/ RunEventFails \/ Cancel \/ LoseArtifact
  BY <1>5, <1>b DEF InitialiseFails, RunEventFails, Cancel, LoseArtifact, memory
<1>6. ASSUME NEW n \in Node, NodeStep(n) PROVE OutputsEnded'
  <2>1. CASE WriteStage(n) \/ WriteDispatched(n) \/ WriteCompleted(n)
    BY <2>1, <1>b DEF WriteStage, WriteDispatched, WriteCompleted, WriteNodeEvent
  <2>2. CASE Replay(n)
    <3>1. n \in EndedIn(journalSynced)
      BY <2>2 DEF Replay, MustRun, OutputsEnded
    <3>2. outputs' = outputs \union {n} /\ completed' = completed
      BY <2>2 DEF Replay, Deliver
    <3> QED BY <1>0, <3>1, <3>2 DEF OutputsEnded
  <2>3. CASE BeginAttempt(n)
    <3>1. outputs' = outputs /\ completed' = [completed EXCEPT ![n] = 0]
      BY <2>3 DEF BeginAttempt
    <3>2. completed \in [Node -> Nat] BY DEF TypeOK
    <3> QED BY <1>0, <3>1, <3>2 DEF OutputsEnded
  <2>4. CASE StartAttempt(n) \/ ExecutorReturns(n) \/ ExecutorThrows(n)
             \/ PutArtifact(n) \/ AttemptError(n)
    BY <2>4, <1>b
    DEF StartAttempt, ExecutorReturns, ExecutorThrows, PutArtifact, AttemptError
  <2>5. CASE EndActivity(n)
    <3>1. n \in EndedIn(journalSynced)' BY <2>5, EndMakesEnded
    <3>2. outputs' = outputs \union {n} /\ completed' = [completed EXCEPT ![n] = attempts[n]]
      BY <2>5 DEF EndActivity, Deliver
    <3>3. completed \in [Node -> Nat] BY DEF TypeOK
    <3> QED BY <1>0, <3>1, <3>2, <3>3 DEF OutputsEnded
  <2> QED BY <1>6, <2>1, <2>2, <2>3, <2>4, <2>5 DEF NodeStep
<1>7. ASSUME NEW n \in Node, NodeFault(n) PROVE OutputsEnded'
  BY <1>7, <1>b DEF NodeFault, NodeEventFails, LookupFails, StartAttemptFails,
                    StoreFails, AttemptErrorFails
<1> QED BY <1>1, <1>2, <1>3, <1>4, <1>5, <1>6, <1>7 DEF Next, RunStep
-----------------------------------------------------------------------------
(* Which nodes are under way.                                              *)

\* A node that takes a step is under way, so the scheduling loop runs; the step
\* moves that node alone, and delivers no output but its own.
LEMMA NodeMoves ==
  ASSUME OrderInv, NEW n \in Node, NodeStep(n) \/ NodeFault(n)
  PROVE  /\ phase = "executing" /\ phase' = phase /\ batch' = batch
         /\ nodePhase[n] \notin {"idle", "done"}
         /\ \E at \in NodePhase \ {"idle"} :
              /\ nodePhase' = [nodePhase EXCEPT ![n] = at]
              /\ at \in {"completing", "done"} => n \in outputs'
         /\ outputs \subseteq outputs' /\ outputs' \subseteq outputs \union {n}
<1> DEFINE Moved(at) == /\ phase' = phase /\ batch' = batch
                        /\ nodePhase' = [nodePhase EXCEPT ![n] = at]
                        /\ at \in {"completing", "done"} => n \in outputs'
                        /\ outputs' \in {outputs, outputs \union {n}}
           UnderWay == nodePhase[n] \notin {"idle", "done", "rejected"}
           Goal == UnderWay /\ \E at \in NodePhase \ {"idle"} : Moved(at)
<1>1. ASSUME WriteStage(n) PROVE Goal
  <2>1. UnderWay /\ Moved("dispatching")
    BY <1>1 DEF WriteStage, WriteNodeEvent, NodeEventAtHead, Goto
  <2> QED BY <2>1 DEF NodePhase
<1>2. ASSUME WriteDispatched(n) PROVE Goal
  <2>1. UnderWay /\ Moved("lookup")
    BY <1>2 DEF WriteDispatched, WriteNodeEvent, NodeEventAtHead, Goto
  <2> QED BY <2>1 DEF NodePhase
<1>3. ASSUME WriteCompleted(n) PROVE Goal
  <2>0. n \in outputs
    BY <1>3 DEF WriteCompleted, NodeEventAtHead, OrderInv, BegunInOrder
  <2>1. UnderWay /\ Moved("done")
    BY <1>3, <2>0 DEF WriteCompleted, WriteNodeEvent, NodeEventAtHead, Goto
  <2> QED BY <2>1 DEF NodePhase
<1>4. ASSUME Replay(n) PROVE Goal
  <2>1. UnderWay /\ Moved("completing")
    BY <1>4 DEF Replay, Deliver, Goto
  <2> QED BY <2>1 DEF NodePhase
<1>5. ASSUME BeginAttempt(n) PROVE Goal
  <2>1. UnderWay /\ Moved("starting")
    BY <1>5 DEF BeginAttempt, Goto
  <2> QED BY <2>1 DEF NodePhase
<1>6. ASSUME StartAttempt(n) PROVE Goal
  <2>1. UnderWay /\ Moved("running")
    BY <1>6 DEF StartAttempt, Goto
  <2> QED BY <2>1 DEF NodePhase
<1>7. ASSUME ExecutorReturns(n) PROVE Goal
  <2>1. UnderWay /\ Moved("returned")
    BY <1>7 DEF ExecutorReturns, Goto
  <2> QED BY <2>1 DEF NodePhase
<1>8. ASSUME ExecutorThrows(n) PROVE Goal
  <2>1. UnderWay /\ Moved("erring")
    BY <1>8 DEF ExecutorThrows, Reject, Goto
  <2> QED BY <2>1 DEF NodePhase
<1>9. ASSUME PutArtifact(n) PROVE Goal
  <2>1. UnderWay /\ Moved("stored")
    BY <1>9 DEF PutArtifact, Goto
  <2> QED BY <2>1 DEF NodePhase
<1>10. ASSUME EndActivity(n) PROVE Goal
  <2>1. UnderWay /\ Moved("completing")
    BY <1>10 DEF EndActivity, MayEnd, Deliver, Goto
  <2> QED BY <2>1 DEF NodePhase
<1>11. ASSUME AttemptError(n) PROVE Goal
  <2>1. UnderWay /\ Moved("rejected")
    BY <1>11 DEF AttemptError, Goto
  <2> QED BY <2>1 DEF NodePhase
<1>12. ASSUME NodeEventFails(n) PROVE Goal
  <2>1. UnderWay /\ Moved("rejected")
    BY <1>12 DEF NodeEventFails, NodeEventAtHead, Reject, Goto
  <2> QED BY <2>1 DEF NodePhase
<1>13. ASSUME LookupFails(n) PROVE Goal
  <2>1. UnderWay /\ Moved("rejected")
    BY <1>13 DEF LookupFails, Reject, Goto
  <2> QED BY <2>1 DEF NodePhase
<1>14. ASSUME StartAttemptFails(n) PROVE Goal
  <2>1. UnderWay /\ Moved("rejected")
    BY <1>14 DEF StartAttemptFails, Reject, Goto
  <2> QED BY <2>1 DEF NodePhase
<1>15. ASSUME StoreFails(n) PROVE Goal
  <2>1. UnderWay /\ Moved("erring")
    BY <1>15 DEF StoreFails, Reject, Goto
  <2> QED BY <2>1 DEF NodePhase
<1>16. ASSUME AttemptErrorFails(n) PROVE Goal
  <2>1. UnderWay /\ Moved("rejected")
    BY <1>16 DEF AttemptErrorFails, Reject, Goto
  <2> QED BY <2>1 DEF NodePhase
<1>17. Goal
  <2> HIDE DEF Goal
  <2> QED BY <1>1, <1>2, <1>3, <1>4, <1>5, <1>6, <1>7, <1>8, <1>9, <1>10, <1>11,
         <1>12, <1>13, <1>14, <1>15, <1>16 DEF NodeStep, NodeFault
<1>18. phase = "executing" BY <1>17 DEF OrderInv, IdleUnlessExecuting
<1> QED BY <1>17, <1>18

LEMMA NodesStep ==
  ASSUME OrderInv, [Next]_vars
  PROVE  BegunInOrder' /\ IdleUnlessExecuting'
<1> USE DEF OrderInv
<1>a. ASSUME Forget PROVE BegunInOrder' /\ IdleUnlessExecuting'
  BY <1>a DEF Forget, BegunInOrder, IdleUnlessExecuting
<1>b. ASSUME UNCHANGED <<outputs, batch, nodePhase>>, phase' = phase \/ phase # "executing"
      PROVE  BegunInOrder' /\ IdleUnlessExecuting'
  BY <1>b DEF BegunInOrder, IdleUnlessExecuting, InBatch
<1>1. CASE UNCHANGED vars BY <1>1, <1>b DEF vars
<1>2. CASE Start \/ Resume \/ Crash BY <1>2, <1>a DEF Start, Resume, Crash
<1>3. CASE SaveDefinition \/ Load \/ Cancel \/ LoseArtifact
  BY <1>3, <1>b DEF SaveDefinition, Load, Cancel, LoseArtifact, memory
<1>4. CASE InitialiseFails \/ WriteRunEvent \/ RunEventFails
  BY <1>4, <1>b DEF InitialiseFails, WriteRunEvent, RunEventFails, RunEventAtHead
<1>5. CASE StartBatch
  <2>1. PICK k \in 1..ConcurrencyLimit : \E b \in [1..k -> Ready] :
          /\ batch' = b
          /\ nodePhase' = [n \in Node |->
               IF \E i \in 1..k : b[i] = n /\ RecordsStage(b, i) THEN "staging"
               ELSE IF \E i \in 1..k : b[i] = n THEN "dispatching"
               ELSE nodePhase[n]]
    BY <1>5 DEF StartBatch
  <2>2. PICK b \in [1..k -> Ready] :
          /\ batch' = b
          /\ nodePhase' = [n \in Node |->
               IF \E i \in 1..k : b[i] = n /\ RecordsStage(b, i) THEN "staging"
               ELSE IF \E i \in 1..k : b[i] = n THEN "dispatching"
               ELSE nodePhase[n]]
    BY <2>1
  <2>3. /\ BatchSettled /\ Rejected = {}
        /\ phase = "executing" /\ phase' = phase /\ outputs' = outputs
    BY <1>5 DEF StartBatch
  <2>4. Len(b) = k BY BoundAssumption
  <2>5. ASSUME NEW n \in Node, nodePhase'[n] # "idle"
        PROVE  /\ Pred[n] \subseteq outputs
               /\ n \in InBatch' \/ nodePhase'[n] = "done"
               /\ nodePhase'[n] \in {"completing", "done"} => n \in outputs
    <3>1. CASE \E i \in 1..k : b[i] = n
      <4>1. n \in InBatch' BY <2>2, <2>4, <3>1 DEF InBatch
      <4>2. nodePhase'[n] \in {"staging", "dispatching"} BY <2>2, <3>1
      <4>3. Pred[n] \subseteq outputs BY <3>1 DEF Ready
      <4> QED BY <4>1, <4>2, <4>3
    <3>2. CASE ~ \E i \in 1..k : b[i] = n
      <4>1. nodePhase'[n] = nodePhase[n] BY <2>2, <3>2
      <4>2. n \in InBatch => nodePhase[n] = "done"
        BY <2>3 DEF BatchSettled, Rejected
      <4> QED BY <2>5, <4>1, <4>2 DEF BegunInOrder
    <3> QED BY <3>1, <3>2
  <2> QED BY <2>3, <2>5 DEF BegunInOrder, IdleUnlessExecuting
<1>6. CASE EndLoop
  <2>1. UNCHANGED <<outputs, batch, nodePhase>> /\ BatchSettled BY <1>6 DEF EndLoop
  <2>2. \A n \in Node : nodePhase[n] \in {"idle", "done", "rejected"}
    BY <2>1 DEF BatchSettled, BegunInOrder
  <2> QED BY <2>1, <2>2 DEF BegunInOrder, IdleUnlessExecuting, InBatch
<1>7. ASSUME NEW n \in Node, NodeStep(n) \/ NodeFault(n)
      PROVE  BegunInOrder' /\ IdleUnlessExecuting'
  <2>1. PICK at \in NodePhase \ {"idle"} :
          /\ nodePhase' = [nodePhase EXCEPT ![n] = at]
          /\ at \in {"completing", "done"} => n \in outputs'
    BY <1>7, NodeMoves
  <2>2. /\ phase' = "executing" /\ batch' = batch
        /\ nodePhase[n] \notin {"idle", "done"} /\ outputs \subseteq outputs'
    BY <1>7, NodeMoves
  <2>3. nodePhase \in [Node -> NodePhase] BY DEF TypeOK
  <2>4. n \in InBatch /\ Pred[n] \subseteq outputs BY <2>2 DEF BegunInOrder
  <2>5. InBatch' = InBatch BY <2>2 DEF InBatch
  <2>6. ASSUME NEW m \in Node, m # n, nodePhase'[m] # "idle"
        PROVE  /\ Pred[m] \subseteq outputs
               /\ m \in InBatch \/ nodePhase'[m] = "done"
               /\ nodePhase'[m] \in {"completing", "done"} => m \in outputs
    BY <2>1, <2>3, <2>6 DEF BegunInOrder
  <2>7. nodePhase'[n] = at BY <2>1, <2>3
  <2> QED BY <2>1, <2>2, <2>4, <2>5, <2>6, <2>7 DEF BegunInOrder, IdleUnlessExecuting
<1> QED BY <1>1, <1>2, <1>3, <1>4, <1>5, <1>6, <1>7 DEF Next, RunStep
-----------------------------------------------------------------------------
(* The transition to COMPLETED.                                            *)

\* No entry of the queue q is the transition to COMPLETED.
Quiet(q) == \A k \in 1..Len(q) : q[k].event # Transition("COMPLETED")

LEMMA QuietQueues ==
  ASSUME NEW q \in Seq(QueueEntry), Quiet(q)
  PROVE  /\ q # <<>> => Tail(q) \in Seq(QueueEntry) /\ Quiet(Tail(q))
         /\ \A e \in QueueEntry : e.event # Transition("COMPLETED") => Quiet(Append(q, e))
         /\ \A r \in Seq(QueueEntry) : Quiet(r) => Quiet(q \o r)
<1>1. ASSUME q # <<>> PROVE Tail(q) \in Seq(QueueEntry) /\ Quiet(Tail(q))
  <2>1. Tail(q) \in Seq(QueueEntry) /\ Len(Tail(q)) = Len(q) - 1 BY <1>1
  <2>2. \A k \in 1..Len(Tail(q)) : Tail(q)[k] = q[k+1] /\ k+1 \in 1..Len(q) BY <1>1
  <2> QED BY <2>1, <2>2 DEF Quiet
<1>2. ASSUME NEW e \in QueueEntry, e.event # Transition("COMPLETED")
      PROVE  Quiet(Append(q, e))
  <2>1. \A k \in 1..Len(Append(q, e)) :
          Append(q, e)[k] = e \/ (k \in 1..Len(q) /\ Append(q, e)[k] = q[k])
    OBVIOUS
  <2> QED BY <1>2, <2>1 DEF Quiet
<1>3. ASSUME NEW r \in Seq(QueueEntry), Quiet(r) PROVE Quiet(q \o r)
  <2>1. \A k \in 1..Len(q \o r) :
          \/ k \in 1..Len(q) /\ (q \o r)[k] = q[k]
          \/ k - Len(q) \in 1..Len(r) /\ (q \o r)[k] = r[k - Len(q)]
    OBVIOUS
  <2> QED BY <1>3, <2>1 DEF Quiet
<1> QED BY <1>1, <1>2, <1>3

\* The queue of a run whose outputs are not all in hand is quiet.
LEMMA QueueQuiet ==
  ASSUME OrderInv
  PROVE  outputs # Node => Quiet(eventQueue)
BY DEF OrderInv, CompletedQueued, Quiet

LEMMA NotCompleted ==
  /\ \A n \in Node : Dispatched(n) # Transition("COMPLETED")
                     /\ Completed(n) # Transition("COMPLETED")
  /\ \A s \in RunState : s # "COMPLETED" => Transition(s) # Transition("COMPLETED")
  /\ \A e \in RunEvent, x \in Node \union {Run} : Waiting(e, x).event = e
  /\ "COMPLETED" \notin Failures \union Stages \union {"CREATED", "CANCELLED"}
  /\ \A s \in RunState : Transition(s).state = s
BY GraphAssumption
   DEF Dispatched, Completed, Transition, Waiting, Failures, Finals

LEMMA CompletedQueuedStep ==
  ASSUME OrderInv, [Next]_vars
  PROVE  CompletedQueued'
<1> SUFFICES ASSUME outputs' # Node PROVE Quiet(eventQueue')
  BY DEF CompletedQueued, Quiet
<1> USE DEF OrderInv
<1>0. eventQueue \in Seq(QueueEntry) /\ outputs \subseteq Node /\ outputs' \subseteq Node
  BY TypeStep DEF TypeOK
<1>a. ASSUME Forget PROVE Quiet(eventQueue')
  BY <1>a DEF Forget, Quiet
<1>b. outputs' = outputs => Quiet(eventQueue) BY QueueQuiet
<1>c. ASSUME outputs' = outputs, NEW s \in RunState \ {"COMPLETED"}
      PROVE  /\ Quiet(Append(eventQueue, Waiting(Transition(s), Run)))
             /\ eventQueue # <<>> =>
                  Quiet(Append(Tail(eventQueue), Waiting(Transition(s), Run)))
  <2>1. /\ Waiting(Transition(s), Run) \in QueueEntry
        /\ Waiting(Transition(s), Run).event # Transition("COMPLETED")
    BY EventsTyped, NotCompleted
  <2> QED BY <1>0, <1>b, <1>c, <2>1, QuietQueues
<1>1. CASE UNCHANGED vars BY <1>1, <1>b DEF vars
<1>2. CASE Start \/ Resume \/ Crash BY <1>2, <1>a DEF Start, Resume, Crash
<1>3. CASE SaveDefinition \/ Cancel \/ LoseArtifact
  BY <1>3, <1>b DEF SaveDefinition, Cancel, LoseArtifact, memory
<1>4. CASE Load
  <2>1. eventQueue' = <<Waiting(Transition("CREATED"), Run)>> BY <1>4 DEF Load
  <2>2. Waiting(Transition("CREATED"), Run).event # Transition("COMPLETED")
    BY NotCompleted, EventsTyped, FinalsTyped
  <2> QED BY <2>1, <2>2 DEF Quiet
<1>5. CASE InitialiseFails
  BY <1>5, <1>c, FinalsTyped, NotCompleted DEF InitialiseFails, Catch, Conclude
<1>6. CASE WriteRunEvent
  BY <1>6, <1>0, <1>b, QuietQueues DEF WriteRunEvent, RunEventAtHead
<1>7. CASE RunEventFails
  <2>1. outputs' = outputs /\ eventQueue # <<>>
    BY <1>7 DEF RunEventFails, RunEventAtHead
  <2>2. PICK s \in RunState \ {"COMPLETED"} : eventQueue' \in {Tail(eventQueue),
          Append(Tail(eventQueue), Waiting(Transition(s), Run))}
    BY <1>7, FinalsTyped, NotCompleted DEF RunEventFails
  <2> QED BY <1>0, <1>b, <1>c, <2>1, <2>2, QuietQueues
<1>8. CASE StartBatch
  <2>1. PICK k \in 1..ConcurrencyLimit : \E b \in [1..k -> Ready] :
          eventQueue' = eventQueue \o [i \in 1..k |-> FirstAppend(b, i)]
    BY <1>8 DEF StartBatch
  <2>2. PICK b \in [1..k -> Ready] :
          eventQueue' = eventQueue \o [i \in 1..k |-> FirstAppend(b, i)]
    BY <2>1
  <2>3. k \in Nat /\ b \in [1..k -> Node] BY BoundAssumption DEF Ready, Pending
  <2>4. \A i \in 1..k : FirstAppend(b, i) \in QueueEntry BY <2>3, BatchTyped
  <2>5. ASSUME NEW i \in 1..k PROVE FirstAppend(b, i).event # Transition("COMPLETED")
    <3>1. StageOf(b[i]) \in Stages \union {NoStage}
      BY <2>3, GraphAssumption DEF StageOf
    <3>2. CASE RecordsStage(b, i)
      <4>1. StageOf(b[i]) \in Stages BY <3>1, <3>2 DEF RecordsStage
      <4>2. FirstAppend(b, i) = Waiting(Transition(StageOf(b[i])), b[i])
        BY <3>2 DEF FirstAppend
      <4>3. StageOf(b[i]) \in RunState /\ StageOf(b[i]) # "COMPLETED"
        BY <4>1, FinalsTyped, NotCompleted
      <4> QED BY <2>3, <4>2, <4>3, NotCompleted, EventsTyped
    <3>3. CASE ~RecordsStage(b, i)
      <4>1. FirstAppend(b, i) = Waiting(Dispatched(b[i]), b[i])
        BY <3>3 DEF FirstAppend
      <4> QED BY <2>3, <4>1, NotCompleted, EventsTyped
    <3> QED BY <3>2, <3>3
  <2> DEFINE r == [i \in 1..k |-> FirstAppend(b, i)]
  <2>6. r \in Seq(QueueEntry) /\ Len(r) = k BY <2>3, <2>4
  <2>7. Quiet(r) BY <2>5, <2>6 DEF Quiet
  <2>8. outputs' = outputs BY <1>8 DEF StartBatch
  <2>9. eventQueue' = eventQueue \o r BY <2>2
  <2> HIDE DEF r
  <2> QED BY <1>0, <1>b, <2>6, <2>7, <2>8, <2>9, QuietQueues
<1>9. CASE EndLoop
  <2>1. outputs' = outputs /\ Pending # {}
    BY <1>9, <1>0 DEF EndLoop, Pending
  <2>2. Rejected # {} => nodeError[FirstRejected] \in Failures
    BY RejectedHasFirst DEF TypeOK
  <2>3. PICK s \in RunState \ {"COMPLETED"} :
          eventQueue' = Append(eventQueue, Waiting(Transition(s), Run))
    BY <1>9, <2>1, <2>2, FinalsTyped, NotCompleted DEF EndLoop, Conclude
  <2> QED BY <1>c, <2>1, <2>3
<1>10. ASSUME NEW n \in Node, NodeStep(n) \/ NodeFault(n) PROVE Quiet(eventQueue')
  <2>1. outputs \subseteq outputs' BY <1>10, NodeMoves
  <2>2. Quiet(eventQueue) BY <1>0, <2>1, QueueQuiet
  <2>3. /\ eventQueue # <<>> => Tail(eventQueue) \in Seq(QueueEntry) /\ Quiet(Tail(eventQueue))
        /\ eventQueue # <<>> => Quiet(Append(Tail(eventQueue), Waiting(Dispatched(n), n)))
        /\ Quiet(Append(eventQueue, Waiting(Completed(n), n)))
    <3>1. /\ Waiting(Dispatched(n), n) \in QueueEntry /\ Waiting(Completed(n), n) \in QueueEntry
          /\ Waiting(Dispatched(n), n).event # Transition("COMPLETED")
          /\ Waiting(Completed(n), n).event # Transition("COMPLETED")
      BY EventsTyped, NotCompleted
    <3>2. eventQueue # <<>> => Tail(eventQueue) \in Seq(QueueEntry) /\ Quiet(Tail(eventQueue))
      BY <1>0, <2>2, QuietQueues
    <3> QED BY <1>0, <2>2, <3>1, <3>2, QuietQueues
  <2>4. CASE WriteStage(n) \/ WriteDispatched(n) \/ WriteCompleted(n)
    BY <2>3, <2>4 DEF WriteStage, WriteDispatched, WriteCompleted, NodeEventAtHead
  <2>5. CASE Replay(n) \/ EndActivity(n)
    BY <2>3, <2>5 DEF Replay, EndActivity, Deliver
  <2>6. CASE BeginAttempt(n) \/ StartAttempt(n) \/ ExecutorReturns(n)
             \/ ExecutorThrows(n) \/ PutArtifact(n) \/ AttemptError(n)
    BY <2>2, <2>6 DEF BeginAttempt, StartAttempt, ExecutorReturns, ExecutorThrows,
                      PutArtifact, AttemptError
  <2>7. CASE NodeEventFails(n) BY <2>3, <2>7 DEF NodeEventFails, NodeEventAtHead
  <2>8. CASE LookupFails(n) \/ StartAttemptFails(n) \/ StoreFails(n) \/ AttemptErrorFails(n)
    BY <2>2, <2>8 DEF LookupFails, StartAttemptFails, StoreFails, AttemptErrorFails
  <2> QED BY <1>10, <2>4, <2>5, <2>6, <2>7, <2>8 DEF NodeStep, NodeFault
<1> QED BY <1>1, <1>2, <1>3, <1>4, <1>5, <1>6, <1>7, <1>8, <1>9, <1>10 DEF Next, RunStep

\* A step leaves the events file alone, adds the head of the queue, or crashes.
LEMMA EventsCases ==
  ASSUME OrderInv, [Next]_vars
  PROVE  \/ UNCHANGED <<events, eventsSynced>>
         \/ /\ eventQueue # <<>> /\ events' = Append(events, Head(eventQueue).event)
            /\ eventsSynced' \in {eventsSynced, Len(events) + 1}
            /\ UNCHANGED <<journal, journalSynced>>
         \/ Crash
<1> USE DEF disk
<1>1. CASE UNCHANGED vars BY <1>1 DEF vars
<1>2. CASE Start \/ Resume \/ SaveDefinition \/ Load
  BY <1>2 DEF Start, Resume, SaveDefinition, Load
<1>3. CASE StartBatch \/ EndLoop \/ InitialiseFails \/ RunEventFails \/ Cancel
           \/ LoseArtifact
  BY <1>3 DEF StartBatch, EndLoop, InitialiseFails, RunEventFails, Cancel, LoseArtifact
<1>4. CASE WriteRunEvent BY <1>4 DEF WriteRunEvent, RunEventAtHead
<1>5. ASSUME NEW n \in Node, WriteStage(n) \/ WriteDispatched(n) \/ WriteCompleted(n)
      PROVE  /\ eventQueue # <<>> /\ events' = Append(events, Head(eventQueue).event)
             /\ eventsSynced' \in {eventsSynced, Len(events) + 1}
             /\ UNCHANGED <<journal, journalSynced>>
  BY <1>5 DEF WriteStage, WriteDispatched, WriteCompleted, WriteNodeEvent, NodeEventAtHead
<1>6. ASSUME NEW n \in Node, NodeStep(n) \/ NodeFault(n),
             ~(WriteStage(n) \/ WriteDispatched(n) \/ WriteCompleted(n))
      PROVE  UNCHANGED <<events, eventsSynced>>
  <2>1. CASE Replay(n) \/ BeginAttempt(n) \/ StartAttempt(n) \/ ExecutorReturns(n)
             \/ ExecutorThrows(n) \/ PutArtifact(n) \/ AttemptError(n) \/ EndActivity(n)
    BY <2>1 DEF Replay, BeginAttempt, StartAttempt, ExecutorReturns, ExecutorThrows,
                PutArtifact, AttemptError, EndActivity
  <2>2. CASE NodeFault(n)
    BY <2>2 DEF NodeFault, NodeEventFails, LookupFails, StartAttemptFails,
                StoreFails, AttemptErrorFails
  <2> QED BY <1>6, <2>1, <2>2 DEF NodeStep
<1> QED BY <1>1, <1>2, <1>3, <1>4, <1>5, <1>6 DEF Next, RunStep

LEMMA CompletedIsCompleteStep ==
  ASSUME OrderInv, [Next]_vars
  PROVE  CompletedIsComplete'
<1> USE DEF OrderInv
<1>0. /\ events \in Seq(RunEvent) /\ eventsSynced \in 0..Len(events)
      /\ eventQueue \in Seq(QueueEntry)
  BY DEF TypeOK
<1>1. EndedIn(journalSynced) = Node => EndedIn(journalSynced)' = Node
  BY EndedMonotone DEF EndedIn
<1> SUFFICES ASSUME NEW i \in 1..Len(events'), events'[i] = Transition("COMPLETED")
             PROVE  EndedIn(journalSynced) = Node
  BY <1>1 DEF CompletedIsComplete
<1>2. CASE i \in 1..Len(events) /\ events[i] = events'[i]
  BY <1>2 DEF CompletedIsComplete
<1>3. CASE UNCHANGED <<events, eventsSynced>> BY <1>2, <1>3
<1>4. CASE eventQueue # <<>> /\ events' = Append(events, Head(eventQueue).event)
  <2>1. CASE i = Len(events) + 1
    <3>1. eventQueue[1].event = Transition("COMPLETED") /\ 1 \in 1..Len(eventQueue)
      BY <1>0, <1>4, <2>1
    <3>2. outputs = Node BY <3>1 DEF CompletedQueued
    <3> QED BY <3>2 DEF OutputsEnded, EndedIn
  <2>2. CASE i # Len(events) + 1 BY <1>0, <1>2, <1>4, <2>2
  <2> QED BY <2>1, <2>2
<1>5. CASE Crash
  <2>1. PICK k \in eventsSynced..Len(events) : events' = SubSeq(events, 1, k)
    BY <1>5 DEF Crash
  <2>2. k \in 0..Len(events) BY <1>0, <2>1
  <2>3. Len(events') = k /\ events'[i] = events[i] BY <1>0, <2>1, <2>2, PrefixTyped
  <2> QED BY <1>0, <1>2, <2>2, <2>3
<1> QED BY <1>3, <1>4, <1>5, EventsCases

LEMMA OrderInvStep == OrderInv /\ [Next]_vars => OrderInv'
<1> SUFFICES ASSUME OrderInv, [Next]_vars PROVE OrderInv' OBVIOUS
<1>1. TypeOK' BY TypeStep DEF OrderInv
<1>2. EndsSynced' BY EndsSyncedStep DEF OrderInv
<1> QED BY <1>1, <1>2, OutputsEndedStep, NodesStep, CompletedQueuedStep,
           CompletedIsCompleteStep DEF OrderInv

LEMMA OrderInvInit == Init => OrderInv
<1> SUFFICES ASSUME Init PROVE OrderInv OBVIOUS
<1>1. TypeOK BY InitTyped
<1>2. EndsSynced /\ OutputsEnded BY DEF Init, EndsSynced, OutputsEnded
<1>3. BegunInOrder /\ IdleUnlessExecuting
  BY DEF Init, BegunInOrder, IdleUnlessExecuting
<1>4. CompletedQueued /\ CompletedIsComplete
  BY DEF Init, CompletedQueued, CompletedIsComplete
<1> QED BY <1>1, <1>2, <1>3, <1>4 DEF OrderInv

LEMMA OrderInvariant == Spec => []OrderInv
BY OrderInvInit, OrderInvStep, PTL DEF Spec

\* For every graph, an executor works only from inputs that no crash can take
\* back (workflow-runner.ts #execute).
THEOREM InputsAreDurable == Spec => []InputsDurable
<1>1. OrderInv => InputsDurable
  BY DEF OrderInv, InputsDurable, BegunInOrder, OutputsEnded
<1> QED BY <1>1, OrderInvariant, PTL

\* For every graph, a run recorded as COMPLETED has ended every activity.
THEOREM CompletedRunsAreComplete == Spec => []CompletedIsComplete
<1>1. OrderInv => CompletedIsComplete BY DEF OrderInv
<1> QED BY <1>1, OrderInvariant, PTL
-----------------------------------------------------------------------------
(* The refinement of DurableRun.                                           *)

DurablyCompleted == \E i \in 1..eventsSynced : events[i] = Transition("COMPLETED")

\* The events a step adds or drops make the run durably completed only when
\* every activity has ended, and never take that back.
LEMMA CompletionStep ==
  ASSUME OrderInv, [Next]_vars
  PROVE  /\ DurablyCompleted => DurablyCompleted'
         /\ ~DurablyCompleted /\ DurablyCompleted' =>
              EndedIn(journalSynced) = Node /\ UNCHANGED <<journal, journalSynced>>
<1>0. /\ events \in Seq(RunEvent) /\ eventsSynced \in 0..Len(events)
      /\ eventQueue \in Seq(QueueEntry) /\ outputs \subseteq Node
  BY DEF OrderInv, TypeOK
<1>1. CASE UNCHANGED <<events, eventsSynced>> BY <1>1 DEF DurablyCompleted
<1>2. CASE /\ eventQueue # <<>> /\ events' = Append(events, Head(eventQueue).event)
           /\ eventsSynced' \in {eventsSynced, Len(events) + 1}
           /\ UNCHANGED <<journal, journalSynced>>
  <2>1. /\ eventsSynced <= eventsSynced' /\ eventsSynced' \in Nat
        /\ Len(events') = Len(events) + 1 /\ eventsSynced' <= Len(events')
        /\ \A i \in 1..Len(events) : events'[i] = events[i]
    BY <1>0, <1>2
  <2>2. DurablyCompleted => DurablyCompleted'
    BY <1>0, <2>1 DEF DurablyCompleted
  <2>3. ASSUME DurablyCompleted' PROVE EndedIn(journalSynced) = Node
    <3>1. PICK i \in 1..eventsSynced' : events'[i] = Transition("COMPLETED")
      BY <2>3 DEF DurablyCompleted
    <3>2. i \in 1..Len(events') BY <2>1, <3>1
    <3>3. EndedIn(journalSynced)' = Node
      BY <3>1, <3>2, CompletedIsCompleteStep DEF CompletedIsComplete
    <3> QED BY <1>2, <3>3 DEF EndedIn
  <2> QED BY <1>2, <2>2, <2>3
<1>3. CASE Crash
  <2>1. PICK k \in eventsSynced..Len(events) : events' = SubSeq(events, 1, k)
    BY <1>3 DEF Crash
  <2>2. k \in 0..Len(events) /\ \A i \in 1..eventsSynced : i \in 1..k BY <1>0, <2>1
  <2>3. \A i \in 1..k : events'[i] = events[i] BY <1>0, <2>1, <2>2, PrefixTyped
  <2>4. eventsSynced' = eventsSynced BY <1>3 DEF Crash
  <2> QED BY <2>2, <2>3, <2>4 DEF DurablyCompleted
<1> QED BY <1>1, <1>2, <1>3, EventsCases

\* Every step is one of DurableRun's, or changes nothing it can see.
LEMMA RefinementStep ==
  ASSUME OrderInv, [Next]_vars
  PROVE  [Durable!Next]_<<EndedIn(journalSynced), DurablyCompleted>>
<1>0. DurablyCompleted \in BOOLEAN /\ DurablyCompleted' \in BOOLEAN
  BY DEF DurablyCompleted
<1>1. ASSUME NEW n \in Node, EndActivity(n)
      PROVE  Durable!Finish(n)
  <2>1. Pred[n] \subseteq EndedIn(journalSynced)
    BY <1>1 DEF EndActivity, MayEnd, OrderInv, BegunInOrder, OutputsEnded
  <2>2. EndedIn(journalSynced)' = EndedIn(journalSynced) \union {n}
    <3>1. EndedIn(journalSynced) \union {n} \subseteq EndedIn(journalSynced)'
      BY <1>1, EndedMonotone, EndMakesEnded DEF OrderInv
    <3>2. ASSUME NEW m \in EndedIn(journalSynced)' PROVE m \in EndedIn(journalSynced) \union {n}
      <4>1. PICK i \in 1..journalSynced' : journal'[i].t = "end" /\ journal'[i].id = m
        BY <3>2 DEF EndedIn
      <4>2. journalSynced' = Len(journal) + 1 /\ m \in Node
        BY <1>1 DEF EndActivity, SyncedByEnd, EndedIn
      <4>3. journal \in Seq(Record) BY DEF OrderInv, TypeOK
      <4>4. CASE i = Len(journal) + 1
        BY <1>1, <4>1, <4>3, <4>4 DEF EndActivity, WriteRecord
      <4>5. CASE i \in 1..Len(journal)
        <5>1. journal[i].t = "end" /\ journal[i].id = m
          BY <1>1, <4>1, <4>3, <4>5 DEF EndActivity, WriteRecord
        <5>2. i <= journalSynced /\ journalSynced \in Nat
          BY <4>5, <5>1 DEF OrderInv, TypeOK, EndsSynced
        <5> QED BY <4>2, <4>5, <5>1, <5>2 DEF EndedIn
      <4> QED BY <4>1, <4>2, <4>3, <4>4, <4>5
    <3> QED BY <3>1, <3>2
  <2>3. DurablyCompleted' = DurablyCompleted
    BY <1>1 DEF EndActivity, DurablyCompleted
  <2> QED BY <2>1, <2>2, <2>3 DEF Durable!Finish, DurablyCompleted
<1>2. ASSUME ~ \E n \in Node : EndActivity(n)
      PROVE  EndedIn(journalSynced)' = EndedIn(journalSynced)
  <2>0. /\ journal \in Seq(Record) /\ journalSynced \in 0..Len(journal)
    BY DEF OrderInv, TypeOK
  <2>1. journalSynced' = journalSynced
    BY <1>2, JournalCases DEF SameJournal, PlainRecord, Crash
  <2>2. \A i \in 1..journalSynced : journal'[i] = journal[i]
    BY <2>0, JournalStep DEF OrderInv
  <2> QED BY <2>1, <2>2 DEF EndedIn
<1>3. ASSUME ~ \E n \in Node : EndActivity(n), DurablyCompleted' # DurablyCompleted
      PROVE  Durable!Complete
  <2>1. ~DurablyCompleted /\ DurablyCompleted' /\ EndedIn(journalSynced) = Node
    BY <1>0, <1>3, CompletionStep
  <2> QED BY <1>2, <1>3, <2>1 DEF Durable!Complete, DurablyCompleted
<1> QED BY <1>1, <1>2, <1>3 DEF Durable!Next

\* For every graph, the runner implements DurableRun, whatever crashes.
THEOREM RunnerImplementsDurableRun == Spec => ImplementsDurableRun
<1>1. Init => Durable!Init
  BY DEF Init, Durable!Init, EndedIn
<1>2. OrderInv /\ [Next]_vars => [Durable!Next]_<<EndedIn(journalSynced), DurablyCompleted>>
  BY RefinementStep
<1> QED BY <1>1, <1>2, OrderInvariant, PTL
    DEF Spec, ImplementsDurableRun, Durable!Spec, DurablyCompleted
-----------------------------------------------------------------------------
(* What is paid again: an executor is called for a node with an end record  *)
(* only if the recorded output has been deleted.                            *)

UnderAttempt == {"starting", "running", "returned", "stored"}
BeforeLookup == {"idle", "staging", "dispatching", "lookup"}

\* Unless n's activity ends, n's end records stay; only a crash drops any.
LEMMA EndsKept ==
  ASSUME TypeOK, [Next]_vars, NEW n \in Node, ~EndActivity(n)
  PROVE  /\ EndsOf(n)' \subseteq EndsOf(n)
         /\ \A i \in EndsOf(n)' : journal'[i] = journal[i]
         /\ ~Crash => EndsOf(n)' = EndsOf(n)
<1>0. journal \in Seq(Record) BY DEF TypeOK
<1>1. CASE SameJournal BY <1>1 DEF SameJournal, EndsOf
<1>2. ASSUME NEW m \in Node, NEW t \in {"attempt_start", "end", "attempt_error"},
             WriteRecord(t, m), t # "end" \/ m # n
      PROVE  EndsOf(n)' = EndsOf(n) /\ \A i \in EndsOf(n)' : journal'[i] = journal[i]
  <2> DEFINE k == Len(journal) + 1
  <2>1. /\ Len(journal') = k /\ \A i \in 1..Len(journal) : journal'[i] = journal[i]
        /\ journal'[k].t = t /\ journal'[k].id = m
    BY <1>0, <1>2 DEF WriteRecord
  <2>2. \A i \in 1..k : i = k \/ i \in 1..Len(journal) BY <1>0
  <2>3. \A i \in 1..Len(journal) : i \in 1..k BY <1>0
  <2> QED BY <1>2, <2>1, <2>2, <2>3 DEF EndsOf
<1>3. CASE Crash
  <2>1. PICK k \in journalSynced..Len(journal) : journal' = SubSeq(journal, 1, k)
    BY <1>3 DEF Crash, Retained
  <2>2. k \in 0..Len(journal) BY <2>1 DEF TypeOK
  <2>3. Len(journal') = k /\ \A i \in 1..k : journal'[i] = journal[i] /\ i \in 1..Len(journal)
    BY <1>0, <2>1, <2>2, PrefixTyped
  <2> QED BY <1>3, <2>3 DEF EndsOf
<1> QED BY <1>1, <1>2, <1>3, JournalCases DEF PlainRecord, EndActivity

\* The end of n's activity adds one record to those of n.
LEMMA EndsGrown ==
  ASSUME TypeOK, NEW n \in Node, EndActivity(n)
  PROVE  /\ EndsOf(n)' \subseteq EndsOf(n) \union {Len(journal) + 1}
         /\ \A i \in EndsOf(n) : i <= Len(journal) /\ journal'[i] = journal[i]
         /\ journal'[Len(journal) + 1].attempt = attempts[n]
<1>0. journal \in Seq(Record) BY DEF TypeOK
<1> DEFINE k == Len(journal) + 1
<1>1. /\ Len(journal') = k /\ \A i \in 1..Len(journal) : journal'[i] = journal[i]
      /\ journal'[k].attempt = attempts[n]
  BY <1>0 DEF EndActivity, WriteRecord
<1>2. \A i \in 1..k : i = k \/ i \in 1..Len(journal) BY <1>0
<1> QED BY <1>0, <1>1, <1>2 DEF EndsOf

\* As long as its end records stay, a node projects to the same output.
LEMMA ProjectionKept ==
  ASSUME TypeOK, NEW n \in Node, EndsOf(n)' = EndsOf(n),
         \A i \in EndsOf(n)' : journal'[i] = journal[i]
  PROVE  ProjectCompleted(n)' = ProjectCompleted(n)
<1>1. CASE EndsOf(n) = {} BY <1>1 DEF ProjectCompleted
<1>2. CASE EndsOf(n) # {}
  <2>1. EndsOf(n) \in SUBSET Nat /\ Len(journal) \in Nat /\ \A i \in EndsOf(n) : i <= Len(journal)
    BY DEF EndsOf, TypeOK
  <2>2. Max(EndsOf(n)) \in EndsOf(n) BY <1>2, <2>1, MaxOfBounded
  <2> QED BY <1>2, <2>2 DEF ProjectCompleted
<1> QED BY <1>1, <1>2

\* A node's projected output is that of its last end record.
LEMMA ProjectionIsLast ==
  ASSUME TypeOK, NEW n \in Node, EndsOf(n) # {}
  PROVE  \E i \in EndsOf(n) : /\ ProjectCompleted(n) = journal[i].attempt
                              /\ \A j \in EndsOf(n) : j <= i
<1>1. EndsOf(n) \in SUBSET Nat /\ Len(journal) \in Nat /\ \A i \in EndsOf(n) : i <= Len(journal)
  BY DEF EndsOf, TypeOK
<1>2. Max(EndsOf(n)) \in EndsOf(n) /\ \A j \in EndsOf(n) : Max(EndsOf(n)) >= j
  BY <1>1, MaxOfBounded
<1>3. \A j \in EndsOf(n) : j <= Max(EndsOf(n)) BY <1>1, <1>2
<1> QED BY <1>2, <1>3 DEF ProjectCompleted

\* Stored outputs are deleted, never forgotten; no deletion is undone.
LEMMA ArtifactsKept ==
  ASSUME [Next]_vars
  PROVE  lost \subseteq lost' /\ (artifacts \union lost) \subseteq (artifacts \union lost)'
<1> USE DEF disk, bounds
<1>1. CASE UNCHANGED vars BY <1>1 DEF vars
<1>2. CASE Start \/ Resume \/ SaveDefinition \/ Load \/ WriteRunEvent
  BY <1>2 DEF Start, Resume, SaveDefinition, Load, WriteRunEvent
<1>3. CASE StartBatch \/ EndLoop \/ InitialiseFails \/ RunEventFails \/ Cancel \/ Crash
  BY <1>3 DEF StartBatch, EndLoop, InitialiseFails, RunEventFails, Cancel, Crash
<1>4. CASE LoseArtifact BY <1>4 DEF LoseArtifact
<1>5. ASSUME NEW n \in Node, NodeStep(n)
      PROVE  lost \subseteq lost' /\ (artifacts \union lost) \subseteq (artifacts \union lost)'
  <2>1. CASE WriteStage(n) \/ WriteDispatched(n) \/ WriteCompleted(n)
    BY <2>1 DEF WriteStage, WriteDispatched, WriteCompleted, WriteNodeEvent
  <2>2. CASE Replay(n) \/ BeginAttempt(n) \/ StartAttempt(n) \/ ExecutorReturns(n)
    BY <2>2 DEF Replay, BeginAttempt, StartAttempt, ExecutorReturns
  <2>3. CASE ExecutorThrows(n) \/ PutArtifact(n) \/ EndActivity(n) \/ AttemptError(n)
    BY <2>3 DEF ExecutorThrows, PutArtifact, EndActivity, AttemptError
  <2> QED BY <1>5, <2>1, <2>2, <2>3 DEF NodeStep
<1>6. ASSUME NEW n \in Node, NodeFault(n)
      PROVE  lost \subseteq lost' /\ (artifacts \union lost) \subseteq (artifacts \union lost)'
  BY <1>6 DEF NodeFault, NodeEventFails, LookupFails, StartAttemptFails,
              StoreFails, AttemptErrorFails
<1> QED BY <1>1, <1>2, <1>3, <1>4, <1>5, <1>6 DEF Next, RunStep

\* What a step of one node does to what the payment invariant speaks of.
LEMMA NodeFrame ==
  ASSUME OrderInv, NEW n \in Node, NodeStep(n) \/ NodeFault(n)
  PROVE  /\ \A m \in Node \ {n} : /\ nodePhase'[m] = nodePhase[m]
                                  /\ attempts'[m] = attempts[m]
                                  /\ completed'[m] = completed[m]
         /\ ~BeginAttempt(n) => attempts' = attempts
         /\ ~BeginAttempt(n) /\ ~EndActivity(n) => completed' = completed
         /\ nodePhase'[n] \in BeforeLookup =>
              nodePhase[n] \in BeforeLookup /\ completed'[n] = completed[n]
         /\ nodePhase'[n] = "starting" => BeginAttempt(n)
         /\ nodePhase'[n] = "running" => nodePhase[n] = "starting"
         /\ nodePhase'[n] = "returned" => nodePhase[n] = "running"
         /\ nodePhase'[n] = "stored" => PutArtifact(n)
<1> DEFINE Plain == attempts' = attempts /\ completed' = completed
<1>0. /\ nodePhase \in [Node -> NodePhase]
      /\ completed \in [Node -> Nat] /\ attempts \in [Node -> Nat]
  BY DEF OrderInv, TypeOK
<1>1. \A m \in Node \ {n} : nodePhase'[m] = nodePhase[m] BY <1>0, NodeMoves
<1>2. CASE BeginAttempt(n)
  BY <1>0, <1>1, <1>2 DEF BeginAttempt, Goto, BeforeLookup
<1>3. CASE EndActivity(n)
  BY <1>0, <1>1, <1>3 DEF EndActivity, MayEnd, Deliver, Goto, BeforeLookup
<1>4. CASE WriteStage(n) \/ WriteDispatched(n)
  BY <1>0, <1>1, <1>4
  DEF WriteStage, WriteDispatched, WriteNodeEvent, NodeEventAtHead, Goto, BeforeLookup
<1>5. CASE WriteCompleted(n)
  BY <1>0, <1>1, <1>5 DEF WriteCompleted, WriteNodeEvent, Goto, BeforeLookup
<1>6. CASE Replay(n) BY <1>0, <1>1, <1>6 DEF Replay, Deliver, Goto, BeforeLookup
<1>7. CASE StartAttempt(n) BY <1>0, <1>1, <1>7 DEF StartAttempt, Goto, BeforeLookup
<1>8. CASE ExecutorReturns(n) BY <1>0, <1>1, <1>8 DEF ExecutorReturns, Goto, BeforeLookup
<1>9. CASE ExecutorThrows(n) BY <1>0, <1>1, <1>9 DEF ExecutorThrows, Reject, Goto, BeforeLookup
<1>10. CASE PutArtifact(n) BY <1>0, <1>1, <1>10 DEF PutArtifact, Goto, BeforeLookup
<1>11. CASE AttemptError(n) BY <1>0, <1>1, <1>11 DEF AttemptError, Goto, BeforeLookup
<1>12. CASE NodeFault(n)
  <2>1. nodePhase'[n] \in {"rejected", "erring"}
    BY <1>0, <1>12 DEF NodeFault, NodeEventFails, LookupFails, StartAttemptFails,
         StoreFails, AttemptErrorFails, Reject, Goto
  <2>2. Plain
    BY <1>12 DEF NodeFault, NodeEventFails, LookupFails, StartAttemptFails,
         StoreFails, AttemptErrorFails
  <2> QED BY <1>1, <2>1, <2>2 DEF BeforeLookup
<1> QED BY <1>2, <1>3, <1>4, <1>5, <1>6, <1>7, <1>8, <1>9, <1>10, <1>11, <1>12
       DEF NodeStep

\* Every other step forgets the handle, loads it, starts a batch, or leaves the
\* nodes alone.
LEMMA RunFrame ==
  ASSUME OrderInv, [Next]_vars, ~ \E n \in Node : NodeStep(n) \/ NodeFault(n)
  PROVE  \/ Forget /\ phase' \in {"saving", "loading", "down"}
         \/ Load
         \/ StartBatch
         \/ /\ UNCHANGED <<nodePhase, attempts, completed>>
            /\ phase' \in {"saving", "loading", "down"} => phase = "saving" \/ phase' = phase
            /\ phase' = "executing" => phase \in {"creating", "executing"}
            /\ phase' = "creating" => phase = "creating"
<1>1. CASE UNCHANGED vars BY <1>1 DEF vars
<1>2. CASE Start \/ Resume \/ Crash BY <1>2 DEF Start, Resume, Crash
<1>3. CASE Load \/ StartBatch BY <1>3
<1>4. CASE SaveDefinition BY <1>4 DEF SaveDefinition
<1>5. CASE WriteRunEvent BY <1>5 DEF WriteRunEvent
<1>6. CASE EndLoop BY <1>6 DEF EndLoop, Conclude
<1>7. CASE InitialiseFails BY <1>7 DEF InitialiseFails, Catch, Conclude
<1>8. CASE RunEventFails BY <1>8 DEF RunEventFails
<1>9. CASE Cancel \/ LoseArtifact BY <1>9 DEF Cancel, LoseArtifact, memory
<1> QED BY <1>1, <1>2, <1>3, <1>4, <1>5, <1>6, <1>7, <1>8, <1>9 DEF Next, RunStep

\* The nodes a batch starts were idle; the others stay as they are.
LEMMA BatchWasIdle ==
  ASSUME OrderInv, StartBatch, NEW n \in Node
  PROVE  \/ nodePhase'[n] = nodePhase[n]
         \/ nodePhase'[n] \in {"staging", "dispatching"} /\ nodePhase[n] = "idle"
<1>1. PICK k \in 1..ConcurrencyLimit : \E b \in [1..k -> Ready] :
        nodePhase' = [m \in Node |->
             IF \E i \in 1..k : b[i] = m /\ RecordsStage(b, i) THEN "staging"
             ELSE IF \E i \in 1..k : b[i] = m THEN "dispatching"
             ELSE nodePhase[m]]
  BY DEF StartBatch
<1>2. PICK b \in [1..k -> Ready] :
        nodePhase' = [m \in Node |->
             IF \E i \in 1..k : b[i] = m /\ RecordsStage(b, i) THEN "staging"
             ELSE IF \E i \in 1..k : b[i] = m THEN "dispatching"
             ELSE nodePhase[m]]
  BY <1>1
<1>3. CASE \E i \in 1..k : b[i] = n
  <2>1. n \in Ready /\ nodePhase'[n] \in {"staging", "dispatching"} BY <1>2, <1>3
  <2>2. n \notin outputs BY <2>1 DEF Ready, Pending
  <2>3. n \in InBatch => nodePhase[n] = "done"
    BY DEF StartBatch, BatchSettled, Rejected
  <2>4. nodePhase[n] = "idle" BY <2>2, <2>3 DEF OrderInv, BegunInOrder
  <2> QED BY <2>1, <2>4
<1>4. CASE ~ \E i \in 1..k : b[i] = n BY <1>2, <1>4
<1> QED BY <1>3, <1>4

LEMMA AttemptsNumberedStep ==
  ASSUME OrderInv, PaymentInv, [Next]_vars
  PROVE  AttemptsNumbered'
<1> USE DEF OrderInv, PaymentInv
<1>0. attempts \in [Node -> Nat] BY DEF TypeOK
<1>1. ASSUME NEW n \in Node, nodePhase'[n] \in UnderAttempt PROVE attempts'[n] # 0
  <2>1. ASSUME NEW m \in Node, NodeStep(m) \/ NodeFault(m) PROVE attempts'[n] # 0
    <3>1. CASE m # n BY <1>1, <2>1, <3>1, NodeFrame DEF AttemptsNumbered, UnderAttempt
    <3>2. CASE m = n /\ BeginAttempt(n)
      <4>1. attempts'[n] = attempts[n] + 1 BY <1>0, <3>2 DEF BeginAttempt
      <4> QED BY <1>0, <4>1
    <3>3. CASE m = n /\ ~BeginAttempt(n)
      <4>1. attempts' = attempts BY <2>1, <3>3, NodeFrame
      <4>2. nodePhase[n] \in UnderAttempt
        BY <1>1, <2>1, <3>3, NodeFrame DEF UnderAttempt, PutArtifact
      <4> QED BY <4>1, <4>2 DEF AttemptsNumbered, UnderAttempt
    <3> QED BY <3>1, <3>2, <3>3
  <2>2. CASE Forget BY <1>1, <2>2 DEF Forget, UnderAttempt
  <2>3. CASE Load
    BY <1>1, <2>3 DEF Load, UnderAttempt, IdleUnlessExecuting
  <2>4. CASE StartBatch
    <3>1. nodePhase[n] \in UnderAttempt BY <1>1, <2>4, BatchWasIdle DEF UnderAttempt
    <3> QED BY <2>4, <3>1 DEF StartBatch, AttemptsNumbered, UnderAttempt
  <2>5. CASE UNCHANGED <<nodePhase, attempts, completed>>
    BY <1>1, <2>5 DEF AttemptsNumbered, UnderAttempt
  <2> QED BY <2>1, <2>2, <2>3, <2>4, <2>5, RunFrame
<1>2. ASSUME NEW i \in 1..Len(journal'), journal'[i].t = "end"
      PROVE  journal'[i].attempt # 0
  <2>0. journal' \in Seq(Record) BY TypeStep DEF TypeOK
  <2>1. PICK n \in Node : journal'[i].id = n
    <3>1. journal'[i] \in Record BY <2>0
    <3>2. journal'[i].id \in Node BY <3>1 DEF Record
    <3> QED BY <3>2
  <2>2. i \in EndsOf(n)' BY <1>2, <2>1 DEF EndsOf
  <2>3. CASE EndActivity(n)
    <3>1. attempts[n] # 0
      BY <2>3 DEF EndActivity, MayEnd, AttemptsNumbered
    <3> QED BY <2>2, <2>3, <3>1, EndsGrown DEF AttemptsNumbered, EndsOf
  <2>4. CASE ~EndActivity(n)
    <3>1. i \in EndsOf(n) /\ journal'[i] = journal[i] BY <2>2, <2>4, EndsKept
    <3> QED BY <3>1 DEF AttemptsNumbered, EndsOf
  <2> QED BY <2>3, <2>4
<1> QED BY <1>1, <1>2 DEF AttemptsNumbered, UnderAttempt

LEMMA StoredIsThereStep ==
  ASSUME OrderInv, PaymentInv, [Next]_vars
  PROVE  StoredIsThere'
<1> USE DEF OrderInv, PaymentInv
<1> SUFFICES ASSUME NEW n \in Node, nodePhase'[n] = "stored"
             PROVE  <<n, attempts'[n]>> \in (artifacts \union lost)'
  BY DEF StoredIsThere
<1>0. (artifacts \union lost) \subseteq (artifacts \union lost)' BY ArtifactsKept
<1>1. CASE nodePhase[n] = "stored" /\ attempts'[n] = attempts[n]
  BY <1>0, <1>1 DEF StoredIsThere
<1>2. ASSUME NEW m \in Node, NodeStep(m) \/ NodeFault(m)
      PROVE  <<n, attempts'[n]>> \in (artifacts \union lost)'
  <2>1. CASE m # n BY <1>1, <1>2, <2>1, NodeFrame
  <2>2. CASE m = n BY <1>2, <2>2, NodeFrame DEF PutArtifact
  <2> QED BY <2>1, <2>2
<1>3. CASE Forget BY <1>3 DEF Forget
<1>4. CASE Load BY <1>4 DEF Load, IdleUnlessExecuting
<1>5. CASE StartBatch
  <2>1. nodePhase[n] = "stored" BY <1>5, BatchWasIdle
  <2> QED BY <1>1, <1>5, <2>1 DEF StartBatch
<1>6. CASE UNCHANGED <<nodePhase, attempts, completed>> BY <1>1, <1>6
<1> QED BY <1>2, <1>3, <1>4, <1>5, <1>6, RunFrame

LEMMA EndNamesStep ==
  ASSUME OrderInv, PaymentInv, [Next]_vars
  PROVE  EndNamesStoredArtifact'
<1> USE DEF OrderInv, PaymentInv
<1> SUFFICES ASSUME NEW i \in 1..Len(journal'), journal'[i].t = "end"
             PROVE  <<journal'[i].id, journal'[i].attempt>> \in (artifacts \union lost)'
  BY DEF EndNamesStoredArtifact
<1>0. (artifacts \union lost) \subseteq (artifacts \union lost)' BY ArtifactsKept
<1>1. journal' \in Seq(Record) BY TypeStep DEF TypeOK
<1>2. PICK n \in Node : journal'[i].id = n
  <2>1. journal'[i] \in Record BY <1>1
  <2>2. journal'[i].id \in Node BY <2>1 DEF Record
  <2> QED BY <2>2
<1>3. i \in EndsOf(n)' BY <1>2 DEF EndsOf
<1>4. CASE i \in EndsOf(n) /\ journal'[i] = journal[i]
  BY <1>0, <1>4 DEF EndsOf, EndNamesStoredArtifact
<1>5. CASE EndActivity(n)
  <2>1. <<n, attempts[n]>> \in artifacts \union lost
    BY <1>5 DEF EndActivity, MayEnd, StoredIsThere
  <2>2. CASE i \in EndsOf(n) BY <1>4, <1>5, <2>2, EndsGrown
  <2>3. CASE i \notin EndsOf(n)
    <3>1. journal'[i].attempt = attempts[n] BY <1>3, <1>5, <2>3, EndsGrown
    <3> QED BY <1>0, <1>2, <2>1, <3>1
  <2> QED BY <2>2, <2>3
<1>6. CASE ~EndActivity(n) BY <1>3, <1>4, <1>6, EndsKept
<1> QED BY <1>5, <1>6

LEMMA NotYetLookedUpStep ==
  ASSUME OrderInv, PaymentInv, [Next]_vars
  PROVE  NotYetLookedUp'
<1> USE DEF OrderInv, PaymentInv
<1>1. ASSUME phase' \in {"down", "saving", "loading", "creating"}
      PROVE  \A n \in Node : nodePhase'[n] = "idle"
  <2>1. CASE Forget BY <2>1 DEF Forget
  <2>2. CASE Load BY <2>2 DEF Load, NotYetLookedUp
  <2>3. CASE StartBatch BY <1>1, <2>3 DEF StartBatch
  <2>4. ASSUME NEW n \in Node, NodeStep(n) \/ NodeFault(n) PROVE FALSE
    BY <1>1, <2>4, NodeMoves
  <2>5. CASE /\ UNCHANGED <<nodePhase, attempts, completed>>
             /\ phase' \in {"saving", "loading", "down"} => phase = "saving" \/ phase' = phase
             /\ phase' = "creating" => phase = "creating"
    BY <1>1, <2>5 DEF NotYetLookedUp
  <2> QED BY <2>1, <2>2, <2>3, <2>4, <2>5, RunFrame
<1>2. ASSUME NEW n \in Node, phase' \in {"creating", "executing"}, nodePhase'[n] \in BeforeLookup
      PROVE  completed'[n] = ProjectCompleted(n)'
  <2>0. ~Crash BY <1>2 DEF Crash
  <2>1. ~EndActivity(n)
    <3>1. nodePhase \in [Node -> NodePhase] BY DEF TypeOK
    <3> QED BY <1>2, <3>1 DEF EndActivity, Deliver, Goto, BeforeLookup
  <2>2. ProjectCompleted(n)' = ProjectCompleted(n)
    BY <2>0, <2>1, EndsKept, ProjectionKept
  <2>3. CASE /\ completed'[n] = completed[n] /\ nodePhase[n] \in BeforeLookup
             /\ phase \in {"creating", "executing"}
    BY <2>2, <2>3 DEF NotYetLookedUp, BeforeLookup
  <2>4. CASE Forget /\ phase' \in {"saving", "loading", "down"} BY <1>2, <2>4
  <2>5. CASE Load BY <2>2, <2>5 DEF Load
  <2>6. CASE StartBatch
    <3>1. nodePhase[n] \in BeforeLookup BY <1>2, <2>6, BatchWasIdle DEF BeforeLookup
    <3> QED BY <2>3, <2>6, <3>1 DEF StartBatch
  <2>7. ASSUME NEW m \in Node, NodeStep(m) \/ NodeFault(m)
        PROVE  completed'[n] = ProjectCompleted(n)'
    <3>1. phase = "executing" BY <2>7, NodeMoves
    <3>2. completed'[n] = completed[n] /\ nodePhase[n] \in BeforeLookup
      BY <1>2, <2>7, NodeFrame
    <3> QED BY <2>3, <3>1, <3>2
  <2>8. CASE /\ UNCHANGED <<nodePhase, attempts, completed>>
             /\ phase' = "executing" => phase \in {"creating", "executing"}
             /\ phase' = "creating" => phase = "creating"
    BY <1>2, <2>3, <2>8
  <2> QED BY <2>4, <2>5, <2>6, <2>7, <2>8, RunFrame
<1> QED BY <1>1, <1>2 DEF NotYetLookedUp, BeforeLookup

\* A node that must run again has lost every output recorded of it.
LEMMA MustRunMeansGone ==
  ASSUME OrderInv, PaymentInv, NEW n \in Node, phase = "executing",
         nodePhase[n] = "lookup", MustRun(n), NEW i \in EndsOf(n)
  PROVE  Gone(n, i)
<1> USE DEF OrderInv, PaymentInv
<1>1. PICK l \in EndsOf(n) : /\ ProjectCompleted(n) = journal[l].attempt
                             /\ \A j \in EndsOf(n) : j <= l
  BY ProjectionIsLast
<1>2. journal[l].attempt # 0 /\ <<n, journal[l].attempt>> \in artifacts \union lost
  BY <1>1 DEF EndsOf, AttemptsNumbered, EndNamesStoredArtifact
<1>3. completed[n] = journal[l].attempt BY <1>1 DEF NotYetLookedUp
<1>4. Gone(n, l) BY <1>2, <1>3 DEF MustRun, Stored, Gone
<1>5. i = l \/ i < l BY <1>1 DEF EndsOf, TypeOK
<1> QED BY <1>1, <1>4, <1>5 DEF AttemptMeansGone

LEMMA AttemptMeansGoneStep ==
  ASSUME OrderInv, PaymentInv, [Next]_vars
  PROVE  AttemptMeansGone'
<1> USE DEF OrderInv, PaymentInv
<1>0. lost \subseteq lost' BY ArtifactsKept
<1>1. ASSUME NEW n \in Node, NEW i \in EndsOf(n), Gone(n, i), journal'[i] = journal[i]
      PROVE  Gone(n, i)'
  BY <1>0, <1>1 DEF Gone
<1>2. ASSUME NEW n \in Node, nodePhase'[n] \in UnderAttempt, NEW i \in EndsOf(n)'
      PROVE  Gone(n, i)'
  <2>0. nodePhase \in [Node -> NodePhase] BY DEF TypeOK
  <2>1. ~EndActivity(n)
    BY <1>2, <2>0 DEF EndActivity, Deliver, Goto, UnderAttempt
  <2>2. i \in EndsOf(n) /\ journal'[i] = journal[i] BY <1>2, <2>1, EndsKept
  <2>3. CASE nodePhase[n] \in UnderAttempt
    BY <1>1, <2>2, <2>3 DEF AttemptMeansGone, UnderAttempt
  <2>4. CASE Forget BY <1>2, <2>4 DEF Forget, UnderAttempt
  <2>5. CASE Load BY <1>2, <2>5 DEF Load, IdleUnlessExecuting, UnderAttempt
  <2>6. CASE StartBatch
    <3>1. nodePhase[n] \in UnderAttempt BY <1>2, <2>6, BatchWasIdle DEF UnderAttempt
    <3> QED BY <2>3, <3>1
  <2>7. ASSUME NEW m \in Node, NodeStep(m) \/ NodeFault(m) PROVE Gone(n, i)'
    <3>1. CASE m # n BY <1>2, <2>3, <2>7, <3>1, NodeFrame
    <3>2. CASE m = n /\ BeginAttempt(n)
      <4>1. phase = "executing" BY <2>7, NodeMoves
      <4>2. Gone(n, i) BY <2>2, <3>2, <4>1, MustRunMeansGone DEF BeginAttempt
      <4> QED BY <1>1, <2>2, <4>2
    <3>3. CASE m = n /\ ~BeginAttempt(n)
      <4>1. nodePhase[n] \in UnderAttempt
        BY <1>2, <2>7, <3>3, NodeFrame DEF UnderAttempt, PutArtifact
      <4> QED BY <2>3, <4>1
    <3> QED BY <3>1, <3>2, <3>3
  <2>8. CASE UNCHANGED <<nodePhase, attempts, completed>> BY <1>2, <2>3, <2>8
  <2> QED BY <2>4, <2>5, <2>6, <2>7, <2>8, RunFrame
<1>3. ASSUME NEW n \in Node, NEW i \in EndsOf(n)', NEW j \in EndsOf(n)', i < j
      PROVE  Gone(n, i)'
  <2>1. CASE EndActivity(n)
    <3>1. i \in EndsOf(n)
      <4>1. Len(journal) \in Nat /\ EndsOf(n) \subseteq 1..Len(journal)
        BY DEF EndsOf, TypeOK
      <4>2. {i, j} \subseteq EndsOf(n) \union {Len(journal) + 1}
        BY <1>3, <2>1, EndsGrown
      <4>3. i # Len(journal) + 1 BY <1>3, <4>1, <4>2
      <4> QED BY <4>2, <4>3
    <3>2. Gone(n, i)
      BY <2>1, <3>1 DEF EndActivity, MayEnd, AttemptMeansGone
    <3> QED BY <1>1, <2>1, <3>1, <3>2, EndsGrown
  <2>2. CASE ~EndActivity(n)
    <3>1. i \in EndsOf(n) /\ j \in EndsOf(n) /\ journal'[i] = journal[i]
      BY <1>3, <2>2, EndsKept
    <3>2. Gone(n, i) BY <1>3, <3>1 DEF AttemptMeansGone
    <3> QED BY <1>1, <3>1, <3>2
  <2> QED BY <2>1, <2>2
<1> QED BY <1>2, <1>3 DEF AttemptMeansGone, UnderAttempt

LEMMA IInvInit == Init => IInv
<1> SUFFICES ASSUME Init PROVE IInv OBVIOUS
<1>1. OrderInv BY OrderInvInit
<1>2. AttemptsNumbered /\ StoredIsThere /\ EndNamesStoredArtifact
  BY DEF Init, AttemptsNumbered, StoredIsThere, EndNamesStoredArtifact
<1>3. AttemptMeansGone BY DEF Init, AttemptMeansGone, EndsOf
<1>4. NotYetLookedUp BY DEF Init, NotYetLookedUp
<1> QED BY <1>1, <1>2, <1>3, <1>4 DEF IInv, PaymentInv

LEMMA IInvStep == IInv /\ [Next]_vars => IInv'
<1> SUFFICES ASSUME OrderInv, PaymentInv, [Next]_vars PROVE OrderInv' /\ PaymentInv'
  BY DEF IInv
<1>1. OrderInv' BY OrderInvStep
<1>2. PaymentInv'
  BY AttemptsNumberedStep, AttemptMeansGoneStep, StoredIsThereStep,
     NotYetLookedUpStep, EndNamesStep DEF PaymentInv
<1> QED BY <1>1, <1>2

LEMMA InductiveInvariant == Spec => []IInv
BY IInvInit, IInvStep, PTL DEF Spec

\* On every prefix of the journal that a power loss can leave, an end record
\* names an artifact that was stored before it (activity.ts: put, then append).
THEOREM EndsNameStoredArtifacts == Spec => []EndNamesStoredArtifact
<1>1. IInv => EndNamesStoredArtifact BY DEF IInv, PaymentInv
<1> QED BY <1>1, InductiveInvariant, PTL

\* docs/durability.md, "After end: nothing is re-paid", for every graph, every
\* number of crashes, resumes, failing writes and deleted artifacts.
THEOREM NothingIsPaidTwice == Spec => PaidOnce
<1> DEFINE Paid == \A n \in Node : nodePhase[n] = "starting" /\ nodePhase'[n] = "running" =>
                     \A i \in 1..Len(journal) : journal[i].t = "end" /\ journal[i].id = n =>
                       <<n, journal[i].attempt>> \in lost
<1>1. IInv => Paid
  BY DEF IInv, PaymentInv, AttemptMeansGone, EndsOf, Gone
<1>2. IInv /\ [Next]_vars => [Paid]_vars BY <1>1
<1> QED BY <1>2, InductiveInvariant, PTL DEF Spec, PaidOnce
=============================================================================
