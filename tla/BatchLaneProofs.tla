-------------------------- MODULE BatchLaneProofs --------------------------
(***************************************************************************)
(* The batch lane sends nothing blindly: for any number of items, attempts *)
(* and stops, the provider takes no customId twice and never has two       *)
(* attempts of an item to bill, an attempt's record says what the provider *)
(* did, and a final record stays.                                          *)
(*                                                                         *)
(* This holds while a stop between two saves of one block can only meet    *)
(* submissions of one member (SavesApart); with larger ones it does not,   *)
(* which is what the run batch_stale_prepared shows.                       *)
(***************************************************************************)
EXTENDS BatchLane, FiniteSetTheorems, SequenceTheorems, TLAPS

SavesApart == CutSaves => MaximumItems = 1

----------------------------------------------------------------------------
(* The inductive invariant.                                                *)

State(c) == AttemptOf(c).state
Sub(c) == AttemptOf(c).sub
Known(c) == c \in CustomId /\ Exists(c)
IsLast(c) == c[2] = Len(items[c[1]])

Typed ==
  /\ items \in [Item -> Seq(Attempt)] /\ \A i \in Item : Len(items[i]) <= MaximumAttempts
  /\ subs \in [Submission -> SubmissionRecord] /\ reserved \in [Item -> Nat]
  /\ \A c \in waiters : Known(c)
  /\ sending \subseteq Submission /\ looking \subseteq Submission /\ net \subseteq Submission
  /\ jobs \in [Submission -> {"none", "live", "ended"}]
  /\ outcome \in [CustomId -> Outcome \cup {"none"}]
  /\ accepted \in [CustomId -> 0..2]

\* The open group holds last attempts that no submission has.
Grouped ==
  /\ IsFiniteSet(group) /\ Cardinality(group) <= MaximumItems
  /\ \A c \in group : Known(c) /\ IsLast(c) /\ State(c) = "queued" /\ Sub(c) = Null

\* Only a confirmed non-processing is followed by another attempt.
Followed == \A c : Known(c) /\ ~IsLast(c) => State(c) \in {"cancelled", "not_submitted"}

\* An attempt is a member of the submission it names, and its final state is the
\* outcome of that submission's job.
Named ==
  \A c : Known(c) =>
    /\ Sub(c) # Null => c \in Sub(c) /\ IsFiniteSet(Sub(c))
    /\ State(c) = "submitted" => Sub(c) # Null
    /\ State(c) \in {"succeeded", "cancelled"} =>
         Sub(c) # Null /\ jobs[Sub(c)] = "ended" /\ outcome[c] = State(c)

\* A reservation moves on only from an attempt that was never sent.
Reserved ==
  /\ \A c : Known(c) => AttemptOf(c).reservation <= reserved[c[1]]
  /\ \A c, d : Known(c) /\ Known(d) /\ c[1] = d[1] /\ c[2] < d[2]
               /\ AttemptOf(c).reservation = AttemptOf(d).reservation => State(c) = "not_submitted"

\* A submission that may be at the provider is the one all its members name.
Unsent == {"absent", "prepared", "abandoned"}
AtProvider(S) == S \in net \/ jobs[S] # "none"
Out(S) == subs[S].state \notin Unsent \/ AtProvider(S)
Held == \A S \in Submission : Out(S) => \A c \in S : Known(c) /\ Sub(c) = S
NotUnsent == \A S \in Submission : AtProvider(S) => \A c \in S : State(c) # "not_submitted"

Underway ==
  \A S \in Submission :
    /\ S \in net => jobs[S] = "none"
    /\ S \in sending \cup looking => subs[S].state \notin Unsent
    /\ S \in sending /\ jobs[S] = "none" => \A c \in S : State(c) = "queued"
    /\ subs[S].state = "prepared" => CutSaves /\ ~AtProvider(S)
    /\ jobs[S] = "ended" => \A c \in S : outcome[c] \in Outcome

Taken == \A c \in CustomId : accepted[c] > 0 =>
           accepted[c] = 1 /\ \E S \in Submission : c \in S /\ jobs[S] # "none"

IInv == Typed /\ Grouped /\ Followed /\ Named /\ Reserved /\ Held /\ NotUnsent /\ Underway /\ Taken

----------------------------------------------------------------------------
(* Updated records.                                                        *)

\* What a save leaves of the attempts it does not make.
SameShape ==
  /\ items' \in [Item -> Seq(Attempt)]
  /\ \A i \in Item : Len(items'[i]) = Len(items[i])

\* The known customIds are the places in the items' records.
LEMMA Places ==
  ASSUME Typed
  PROVE  /\ \A i \in Item : DOMAIN items[i] = 1..Len(items[i]) /\ Len(items[i]) \in Nat
         /\ \A i \in Item : \A n \in DOMAIN items[i] : Known(<<i, n>>) /\ AttemptOf(<<i, n>>) = items[i][n]
         /\ \A c : Known(c) => /\ c = <<c[1], c[2]>> /\ c[1] \in Item /\ c[2] \in DOMAIN items[c[1]]
                               /\ AttemptOf(c) \in Attempt
<1>1. \A i \in Item : DOMAIN items[i] = 1..Len(items[i]) /\ Len(items[i]) \in Nat BY DEF Typed
<1>2. ASSUME NEW i \in Item, NEW n \in DOMAIN items[i]
      PROVE  Known(<<i, n>>) /\ AttemptOf(<<i, n>>) = items[i][n]
  <2>1. n \in 1..MaximumAttempts /\ n <= Len(items[i]) BY <1>1, LaneAssumption DEF Typed
  <2> QED BY <2>1 DEF Known, Exists, CustomId, AttemptOf
<1>3. ASSUME NEW c, Known(c)
      PROVE  /\ c = <<c[1], c[2]>> /\ c[1] \in Item /\ c[2] \in DOMAIN items[c[1]]
             /\ AttemptOf(c) \in Attempt
  <2>1. c = <<c[1], c[2]>> /\ c[1] \in Item /\ c[2] \in 1..MaximumAttempts /\ c[2] <= Len(items[c[1]])
    BY <1>3 DEF Known, Exists, CustomId
  <2> QED BY <1>1, <2>1, LaneAssumption DEF AttemptOf, Typed
<1> QED BY <1>1, <1>2, <1>3

LEMMA Rebuilt ==
  ASSUME Typed, NEW G, \A c : Known(c) => G[c] \in Attempt,
         items' = [i \in Item |-> [n \in DOMAIN items[i] |-> G[<<i, n>>]]]
  PROVE  SameShape /\ \A c : Known(c) => AttemptOf(c)' = G[c]
<1>1. ASSUME NEW i \in Item PROVE items'[i] \in Seq(Attempt) /\ Len(items'[i]) = Len(items[i])
  <2>1. PICK n \in Nat : n = Len(items[i]) /\ DOMAIN items[i] = 1..n BY Places
  <2>2. \A k \in 1..n : G[<<i, k>>] \in Attempt BY <2>1, Places
  <2>3. items'[i] \in [1..n -> Attempt] BY <2>1, <2>2
  <2>4. items'[i] \in Seq(Attempt) BY <2>3, SeqDef
  <2>5. Len(items'[i]) = n BY <2>3, <2>4
  <2> QED BY <2>1, <2>4, <2>5
<1>2. items' \in [Item -> Seq(Attempt)] BY <1>1
<1>3. ASSUME NEW c, Known(c) PROVE AttemptOf(c)' = G[c]
  <2>1. c[1] \in Item /\ c[2] \in DOMAIN items[c[1]] /\ c = <<c[1], c[2]>> BY <1>3, Places
  <2> QED BY <2>1 DEF AttemptOf
<1> QED BY <1>1, <1>2, <1>3 DEF SameShape

LEMMA Submits ==
  ASSUME Typed, NEW M, items' = UpdateMembers(M, ToSubmitted)
  PROVE  SameShape /\ \A c : Known(c) =>
           AttemptOf(c)' = IF c \in M THEN ToSubmitted(AttemptOf(c)) ELSE AttemptOf(c)
<1> DEFINE G == [c \in CustomId |-> IF c \in M THEN ToSubmitted(AttemptOf(c)) ELSE AttemptOf(c)]
<1>1. \A c : Known(c) => G[c] = IF c \in M THEN ToSubmitted(AttemptOf(c)) ELSE AttemptOf(c)
  BY DEF Known
<1>2. \A c : Known(c) => G[c] \in Attempt
  BY <1>1, Places DEF Attempt, AttemptState, ToSubmitted
<1>3. items' = [i \in Item |-> [n \in DOMAIN items[i] |-> G[<<i, n>>]]]
  <2> HIDE DEF G
  <2> QED BY <1>1, Places DEF UpdateMembers, ToSubmitted
<1> HIDE DEF G
<1> QED BY <1>1, <1>2, <1>3, Rebuilt

LEMMA Unsubmits ==
  ASSUME Typed, NEW M, items' = UpdateMembers(M, ToNotSubmitted)
  PROVE  SameShape /\ \A c : Known(c) =>
           AttemptOf(c)' = IF c \in M THEN ToNotSubmitted(AttemptOf(c)) ELSE AttemptOf(c)
<1> DEFINE G == [c \in CustomId |-> IF c \in M THEN ToNotSubmitted(AttemptOf(c)) ELSE AttemptOf(c)]
<1>1. \A c : Known(c) => G[c] = IF c \in M THEN ToNotSubmitted(AttemptOf(c)) ELSE AttemptOf(c)
  BY DEF Known
<1>2. \A c : Known(c) => G[c] \in Attempt
  BY <1>1, Places DEF Attempt, AttemptState, ToNotSubmitted
<1>3. items' = [i \in Item |-> [n \in DOMAIN items[i] |-> G[<<i, n>>]]]
  <2> HIDE DEF G
  <2> QED BY <1>1, Places DEF UpdateMembers, ToNotSubmitted
<1> HIDE DEF G
<1> QED BY <1>1, <1>2, <1>3, Rebuilt

LEMMA Unsends ==
  ASSUME Typed, NEW M, items' = UpdateMembers(M, ToUnsent)
  PROVE  SameShape /\ \A c : Known(c) =>
           AttemptOf(c)' = IF c \in M THEN ToUnsent(AttemptOf(c)) ELSE AttemptOf(c)
<1> DEFINE G == [c \in CustomId |-> IF c \in M THEN ToUnsent(AttemptOf(c)) ELSE AttemptOf(c)]
<1>1. \A c : Known(c) => G[c] = IF c \in M THEN ToUnsent(AttemptOf(c)) ELSE AttemptOf(c)
  BY DEF Known
<1>2. \A c : Known(c) => G[c] \in Attempt
  BY <1>1, Places DEF Attempt, AttemptState, ToUnsent
<1>3. items' = [i \in Item |-> [n \in DOMAIN items[i] |-> G[<<i, n>>]]]
  <2> HIDE DEF G
  <2> QED BY <1>1, Places DEF UpdateMembers, ToUnsent
<1> HIDE DEF G
<1> QED BY <1>1, <1>2, <1>3, Rebuilt

LEMMA Assigns ==
  ASSUME Typed, NEW M, NEW S \in Submission, items' = UpdateMembers(M, LAMBDA a : [a EXCEPT !.sub = S])
  PROVE  SameShape /\ \A c : Known(c) =>
           AttemptOf(c)' = IF c \in M THEN [AttemptOf(c) EXCEPT !.sub = S] ELSE AttemptOf(c)
<1> DEFINE G == [c \in CustomId |-> IF c \in M THEN [AttemptOf(c) EXCEPT !.sub = S] ELSE AttemptOf(c)]
<1>1. \A c : Known(c) => G[c] = IF c \in M THEN [AttemptOf(c) EXCEPT !.sub = S] ELSE AttemptOf(c)
  BY DEF Known
<1>2. \A c : Known(c) => G[c] \in Attempt
  BY <1>1, Places DEF Attempt, AttemptState
<1>3. items' = [i \in Item |-> [n \in DOMAIN items[i] |-> G[<<i, n>>]]]
  <2> HIDE DEF G
  <2> QED BY <1>1, Places DEF UpdateMembers
<1> HIDE DEF G
<1> QED BY <1>1, <1>2, <1>3, Rebuilt

LEMMA Collects ==
  ASSUME Typed, NEW M, \A c \in M : outcome[c] \in Outcome, items' = CollectMembers(M)
  PROVE  SameShape /\ \A c : Known(c) =>
           AttemptOf(c)' = IF c \in M THEN Collected(AttemptOf(c), c) ELSE AttemptOf(c)
<1> DEFINE G == [c \in CustomId |-> IF c \in M THEN Collected(AttemptOf(c), c) ELSE AttemptOf(c)]
<1>1. \A c : Known(c) => G[c] = IF c \in M THEN Collected(AttemptOf(c), c) ELSE AttemptOf(c)
  BY DEF Known
<1>2. \A c : Known(c) => G[c] \in Attempt
  <2>1. ASSUME NEW c, Known(c) PROVE G[c] \in Attempt
    <3>1. AttemptOf(c) \in Attempt BY <2>1, Places
    <3>2. c \in M => outcome[c] \in AttemptState BY DEF Outcome, AttemptState
    <3> QED BY <1>1, <2>1, <3>1, <3>2 DEF Attempt, Collected
  <2> QED BY <2>1
<1>3. items' = [i \in Item |-> [n \in DOMAIN items[i] |-> G[<<i, n>>]]]
  <2> HIDE DEF G
  <2> QED BY <1>1, Places DEF CollectMembers
<1> HIDE DEF G
<1> QED BY <1>1, <1>2, <1>3, Rebuilt

LEMMA Resolves ==
  ASSUME Typed, NEW M, NEW decision, items' = ResolveMembers(M, decision)
  PROVE  SameShape /\ \A c : Known(c) =>
           AttemptOf(c)' = IF c \in M THEN Resolved(AttemptOf(c), decision) ELSE AttemptOf(c)
<1> DEFINE G == [c \in CustomId |-> IF c \in M THEN Resolved(AttemptOf(c), decision) ELSE AttemptOf(c)]
<1>1. \A c : Known(c) => G[c] = IF c \in M THEN Resolved(AttemptOf(c), decision) ELSE AttemptOf(c)
  BY DEF Known
<1>2. \A c : Known(c) => G[c] \in Attempt
  BY <1>1, Places DEF Attempt, AttemptState, Resolved
<1>3. items' = [i \in Item |-> [n \in DOMAIN items[i] |-> G[<<i, n>>]]]
  <2> HIDE DEF G
  <2> QED BY <1>1, Places DEF UpdateMembers, ResolveMembers
<1> HIDE DEF G
<1> QED BY <1>1, <1>2, <1>3, Rebuilt

LEMMA Cancels ==
  ASSUME Typed, NEW M, NEW unsent \in BOOLEAN, items' = UpdateMembers(M, LAMBDA a : Cancelled(a, unsent))
  PROVE  SameShape /\ \A c : Known(c) =>
           AttemptOf(c)' = IF c \in M THEN Cancelled(AttemptOf(c), unsent) ELSE AttemptOf(c)
<1> DEFINE G == [c \in CustomId |-> IF c \in M THEN Cancelled(AttemptOf(c), unsent) ELSE AttemptOf(c)]
<1>1. \A c : Known(c) => G[c] = IF c \in M THEN Cancelled(AttemptOf(c), unsent) ELSE AttemptOf(c)
  BY DEF Known
<1>2. \A c : Known(c) => G[c] \in Attempt
  <2>1. ASSUME NEW c, Known(c) PROVE G[c] \in Attempt
    <3>1. AttemptOf(c) \in Attempt BY <2>1, Places
    <3>2. ASSUME NEW a \in Attempt PROVE Cancelled(a, unsent) \in Attempt
      <4>1. CASE unsent /\ a.sub = Null BY <4>1 DEF Attempt, AttemptState, Cancelled
      <4>2. CASE ~(unsent /\ a.sub = Null) BY <4>2 DEF Attempt, AttemptState, Cancelled
      <4> QED BY <4>1, <4>2
    <3> QED BY <1>1, <2>1, <3>1, <3>2
  <2> QED BY <2>1
<1>3. items' = [i \in Item |-> [n \in DOMAIN items[i] |-> G[<<i, n>>]]]
  <2> HIDE DEF G
  <2> QED BY <1>1, Places DEF UpdateMembers
<1> HIDE DEF G
<1> QED BY <1>1, <1>2, <1>3, Rebuilt

----------------------------------------------------------------------------
(* What a step that makes no attempt and sends nothing may do.             *)

Changed(c) ==
  \/ State(c)' = State(c) /\ Sub(c)' = Sub(c)
  \/ /\ State(c) = "queued" /\ State(c)' = "queued"
     /\ Sub(c)' # Null => c \in Sub(c)' /\ IsFiniteSet(Sub(c)')
  \/ /\ State(c) = "queued" /\ Sub(c)' = Sub(c)
     /\ State(c)' \in {"not_submitted", "errored"} \/ (State(c)' = "submitted" /\ Sub(c) # Null)
  \/ /\ State(c) \in {"queued", "submitted"} /\ Sub(c)' = Sub(c)
     /\ Sub(c) # Null /\ jobs[Sub(c)] = "ended" /\ State(c)' = outcome[c]

\* A record that holds a final outcome stays.
Kept == \A c : Known(c) /\ State(c) \notin {"queued", "submitted"} => State(c)' = State(c)

LEMMA ShapeKept ==
  ASSUME Typed, SameShape
  PROVE  \A c : (Known(c)' <=> Known(c)) /\ (Known(c) => (IsLast(c)' <=> IsLast(c)))
BY DEF SameShape, Known, Exists, IsLast, CustomId

\* Changes of this kind keep what is said of each record.
LEMMA RecordsChange ==
  ASSUME IInv, SameShape, UNCHANGED <<jobs, outcome>>,
         reserved' \in [Item -> Nat], \A i \in Item : reserved[i] <= reserved'[i],
         \A c : Known(c) => AttemptOf(c)'.reservation = AttemptOf(c).reservation /\ Changed(c)
  PROVE  Followed' /\ Named' /\ Reserved'
<1>1. \A c : (Known(c)' <=> Known(c)) /\ (Known(c) => (IsLast(c)' <=> IsLast(c)))
  BY ShapeKept DEF IInv
<1>2. \A c : Known(c) /\ State(c) \in {"cancelled", "not_submitted"} => State(c)' = State(c)
  BY DEF Changed
<1>3. Followed' BY <1>1, <1>2 DEF IInv, Followed
<1>4. Named'
  <2> SUFFICES ASSUME NEW c, Known(c)
               PROVE  /\ Sub(c)' # Null => c \in Sub(c)' /\ IsFiniteSet(Sub(c)')
                      /\ State(c)' = "submitted" => Sub(c)' # Null
                      /\ State(c)' \in {"succeeded", "cancelled"} =>
                           Sub(c)' # Null /\ jobs'[Sub(c)'] = "ended" /\ outcome'[c] = State(c)'
    BY <1>1 DEF Named
  <2>1. /\ Sub(c) # Null => c \in Sub(c) /\ IsFiniteSet(Sub(c))
        /\ State(c) = "submitted" => Sub(c) # Null
        /\ State(c) \in {"succeeded", "cancelled"} =>
             Sub(c) # Null /\ jobs[Sub(c)] = "ended" /\ outcome[c] = State(c)
    BY DEF IInv, Named
  <2>2. Changed(c) OBVIOUS
  <2> QED BY <2>1, <2>2 DEF Changed
<1>5. Reserved'
  <2>1. \A c : Known(c) => /\ c[1] \in Item /\ AttemptOf(c).reservation \in Nat
    BY Places DEF IInv, Attempt
  <2>2. \A c : Known(c) => AttemptOf(c)'.reservation <= reserved'[c[1]]
    <3>1. \A c : Known(c) => AttemptOf(c).reservation <= reserved[c[1]] BY DEF IInv, Reserved
    <3>2. \A i \in Item : reserved[i] \in Nat /\ reserved'[i] \in Nat BY DEF IInv, Typed
    <3> QED BY <2>1, <3>1, <3>2
  <2>3. ASSUME NEW c, NEW d, Known(c), Known(d), c[1] = d[1], c[2] < d[2],
               AttemptOf(c)'.reservation = AttemptOf(d)'.reservation
        PROVE  State(c)' = "not_submitted"
    BY <1>2, <2>3 DEF IInv, Reserved
  <2> QED BY <1>1, <2>2, <2>3 DEF Reserved
<1> QED BY <1>3, <1>4, <1>5

\* A step that sends nothing, whatever members it updates and memory it drops.
LEMMA MembersStep ==
  ASSUME IInv, SameShape, UNCHANGED <<jobs, outcome, accepted>>,
         reserved' \in [Item -> Nat], \A i \in Item : reserved[i] <= reserved'[i],
         net' \subseteq net, sending' \subseteq sending,
         \A c \in waiters' : Known(c), looking' \subseteq Submission, Grouped',
         subs' \in [Submission -> SubmissionRecord],
         \A c : Known(c) =>
           /\ AttemptOf(c)'.reservation = AttemptOf(c).reservation /\ Changed(c)
           /\ Sub(c)' = Sub(c) \/ ~Out(Sub(c))
           /\ State(c)' = "not_submitted" =>
                \/ State(c) = "not_submitted" \/ Sub(c) = Null
                \/ \A S \in Submission : Sub(c) = S => ~AtProvider(S)'
           /\ Sub(c) \in sending' /\ jobs[Sub(c)] = "none" => State(c)' = State(c),
         \A S \in Submission :
           /\ Out(S)' => Out(S)
           /\ S \in sending' \cup looking' => subs'[S].state \notin Unsent
           /\ subs'[S].state = "prepared" => subs[S].state = "prepared"
  PROVE  IInv' /\ Kept
<1>1. \A c : (Known(c)' <=> Known(c)) /\ (Known(c) => (IsLast(c)' <=> IsLast(c)))
  BY ShapeKept DEF IInv
<1>2. Typed' BY <1>1 DEF IInv, Typed, SameShape
<1>3. Followed' /\ Named' /\ Reserved'
  <2>1. \A c : Known(c) => AttemptOf(c)'.reservation = AttemptOf(c).reservation /\ Changed(c) OBVIOUS
  <2> QED BY <2>1, RecordsChange
<1>4. \A S \in Submission : Out(S) => \A c \in S : Known(c) /\ Sub(c) = S BY DEF IInv, Held
<1>5. Held' BY <1>1, <1>4 DEF Held
<1>6. \A S : AtProvider(S)' => AtProvider(S) BY DEF AtProvider
<1>7. NotUnsent'
  <2> SUFFICES ASSUME NEW S \in Submission, AtProvider(S)', NEW c \in S PROVE State(c)' # "not_submitted"
    BY DEF NotUnsent
  <2>1. Known(c) /\ Sub(c) = S BY <1>4, <1>6 DEF Out
  <2>2. State(c) # "not_submitted" BY <1>6 DEF IInv, NotUnsent
  <2>3. S # Null BY LaneAssumption
  <2> QED BY <2>1, <2>2, <2>3
<1>8. Underway'
  <2> SUFFICES ASSUME NEW S \in Submission
      PROVE  /\ S \in net' => jobs'[S] = "none"
             /\ S \in sending' \cup looking' => subs'[S].state \notin Unsent
             /\ S \in sending' /\ jobs'[S] = "none" => \A c \in S : State(c)' = "queued"
             /\ subs'[S].state = "prepared" => CutSaves /\ ~AtProvider(S)'
             /\ jobs'[S] = "ended" => \A c \in S : outcome'[c] \in Outcome
    BY DEF Underway
  <2>1. /\ S \in net => jobs[S] = "none"
        /\ S \in sending \cup looking => subs[S].state \notin Unsent
        /\ S \in sending /\ jobs[S] = "none" => \A c \in S : State(c) = "queued"
        /\ subs[S].state = "prepared" => CutSaves /\ ~AtProvider(S)
        /\ jobs[S] = "ended" => \A c \in S : outcome[c] \in Outcome
    BY DEF IInv, Underway
  <2>2. ASSUME S \in sending', jobs'[S] = "none", NEW c \in S PROVE State(c)' = "queued"
    <3>1. Out(S) BY <2>1, <2>2 DEF Out
    <3>2. Known(c) /\ Sub(c) = S BY <1>4, <3>1
    <3> QED BY <2>1, <2>2, <3>2
  <2> QED BY <1>6, <2>1, <2>2
<1>9. Taken' BY DEF IInv, Taken
<1>10. Kept BY DEF Kept, Changed
<1> QED BY <1>2, <1>3, <1>5, <1>7, <1>8, <1>9, <1>10 DEF IInv

----------------------------------------------------------------------------
(* The records of submissions.                                             *)

LEMMA CancelKeeps ==
  ASSUME NEW S \in Submission, NEW attempts, NEW r \in [Submission -> SubmissionRecord],
         NEW q, q \in {RequestCancel(S, r), CancelIfAbandoned(S, attempts, r)}
  PROVE  q \in [Submission -> SubmissionRecord] /\ \A T \in Submission : q[T].state = r[T].state
<1>1. q = r \/ q = [r EXCEPT ![S].cancelRequested = TRUE] BY DEF RequestCancel, CancelIfAbandoned
<1> QED BY <1>1 DEF SubmissionRecord

LEMMA SaveKeeps ==
  ASSUME Typed, NEW S \in Submission, NEW state \in SubmissionState
  PROVE  /\ Save(S, state) \in [Submission -> SubmissionRecord]
         /\ \A T \in Submission : Save(S, state)[T].state = IF T = S THEN state ELSE subs[T].state
BY DEF Typed, Save, SubmissionRecord

\* A group whose members are as they were is still one.
LEMMA GroupKept ==
  ASSUME IInv, SameShape, group' \subseteq group,
         \A c \in group' : State(c)' = State(c) /\ Sub(c)' = Sub(c)
  PROVE  Grouped'
<1>1. \A c : (Known(c)' <=> Known(c)) /\ (Known(c) => (IsLast(c)' <=> IsLast(c)))
  BY ShapeKept DEF IInv
<1>2. IsFiniteSet(group') /\ Cardinality(group') <= MaximumItems
  <2>1. IsFiniteSet(group') /\ Cardinality(group') <= Cardinality(group) BY FS_Subset DEF IInv, Grouped
  <2>2. Cardinality(group) \in Nat /\ Cardinality(group') \in Nat
    BY <2>1, FS_CardinalityType DEF IInv, Grouped
  <2> QED BY <2>1, <2>2, LaneAssumption DEF IInv, Grouped
<1> QED BY <1>1, <1>2 DEF IInv, Grouped

LEMMA NoGroup == group' = {} => Grouped'
BY FS_EmptySet, LaneAssumption DEF Grouped

\* No member of a submission that is out is in the open group.
LEMMA GroupApart ==
  ASSUME IInv, NEW S \in Submission, Out(S)
  PROVE  \A c \in S : c \notin group /\ Known(c) /\ Sub(c) = S
BY LaneAssumption DEF IInv, Grouped, Held

\* A step that leaves the records of attempts alone.
LEMMA RecordsStand ==
  ASSUME IInv, UNCHANGED <<items, jobs, outcome, accepted>>,
         reserved' \in [Item -> Nat], \A i \in Item : reserved[i] <= reserved'[i],
         net' \subseteq net, sending' \subseteq sending,
         \A c \in waiters' : Known(c), looking' \subseteq Submission,
         group' \subseteq group \/ Grouped',
         subs' \in [Submission -> SubmissionRecord],
         \A S \in Submission :
           /\ Out(S)' => Out(S)
           /\ S \in sending' \cup looking' => subs'[S].state \notin Unsent
           /\ subs'[S].state = "prepared" => subs[S].state = "prepared"
  PROVE  IInv' /\ Kept
<1>1. SameShape BY DEF IInv, Typed, SameShape
<1>2. \A c : AttemptOf(c)' = AttemptOf(c) BY DEF AttemptOf
<1>3. \A c : State(c)' = State(c) /\ Sub(c)' = Sub(c) BY <1>2 DEF State, Sub
<1>4. Grouped' BY <1>1, <1>3, GroupKept
<1>5. \A c : Changed(c) BY <1>3 DEF Changed
<1> QED BY <1>1, <1>2, <1>3, <1>4, <1>5, MembersStep

----------------------------------------------------------------------------
(* The steps that leave the records of attempts alone.                     *)

LEMMA SameReserved ==
  ASSUME Typed, UNCHANGED reserved
  PROVE  reserved' \in [Item -> Nat] /\ \A i \in Item : reserved[i] <= reserved'[i]
BY DEF Typed

LEMMA LastKnown ==
  ASSUME Typed, NEW i \in Item, items[i] # <<>>
  PROVE  Known(LastId(i)) /\ IsLast(LastId(i)) /\ AttemptOf(LastId(i)) = Last(i) /\ Last(i) \in Attempt
<1>1. items[i] \in Seq(Attempt) /\ Len(items[i]) \in 1..MaximumAttempts BY LaneAssumption DEF Typed
<1>2. Len(items[i]) \in DOMAIN items[i] BY <1>1
<1> QED BY <1>1, <1>2, Places DEF LastId, IsLast, Last

LEMMA GroupGrows ==
  ASSUME Grouped, NEW c, group' = group \cup {c}, Cardinality(group) < MaximumItems
  PROVE  IsFiniteSet(group') /\ Cardinality(group') <= MaximumItems
<1>1. Cardinality(group) \in Nat BY FS_CardinalityType DEF Grouped
<1> QED BY <1>1, FS_AddElement, LaneAssumption DEF Grouped

LEMMA UnsentStep == ASSUME IInv, NEW i \in Item, ExecuteUnsent(i) PROVE IInv' /\ Kept
<1> USE DEF ExecuteUnsent, Enqueue, disk, provider
<1>1. Typed BY DEF IInv
<1>2. Known(LastId(i)) /\ IsLast(LastId(i)) /\ AttemptOf(LastId(i)) = Last(i) BY <1>1, LastKnown
<1>3. \A c : Known(c)' = Known(c) /\ IsLast(c)' = IsLast(c) /\ State(c)' = State(c) /\ Sub(c)' = Sub(c)
  BY DEF Known, Exists, IsLast, State, Sub, AttemptOf
<1>4. Grouped'
  <2>1. IsFiniteSet(group') /\ Cardinality(group') <= MaximumItems BY GroupGrows DEF IInv
  <2>2. State(LastId(i)) = "queued" /\ Sub(LastId(i)) = Null BY <1>2 DEF State, Sub
  <2> QED BY <1>2, <1>3, <2>1, <2>2 DEF IInv, Grouped
<1>5. \A c \in waiters' : Known(c) BY <1>2 DEF IInv, Typed
<1>6. \A S \in Submission : /\ Out(S)' => Out(S)
                            /\ S \in sending' \cup looking' => subs'[S].state \notin Unsent
  BY DEF IInv, Underway, Out, AtProvider
<1> QED BY <1>1, <1>4, <1>5, <1>6, SameReserved, RecordsStand DEF IInv, Typed

LEMMA WaitStep == ASSUME IInv, NEW i \in Item, ExecuteAttach(i) \/ ExecuteReconcile(i) PROVE IInv' /\ Kept
<1> USE DEF Wait, disk, provider
<1>1. Typed BY DEF IInv
<1>2. Known(LastId(i)) /\ AttemptOf(LastId(i)) = Last(i) /\ Last(i) \in Attempt
  BY <1>1, LastKnown DEF ExecuteAttach, ExecuteReconcile
<1>3. Last(i).sub \in Submission BY <1>2 DEF Attempt, ExecuteAttach, ExecuteReconcile
<1>4. /\ UNCHANGED <<items, subs, reserved, group, sending, net, jobs, outcome, accepted>>
      /\ waiters' = waiters \cup {LastId(i)}
  BY DEF ExecuteAttach, ExecuteReconcile
<1>5. looking' = looking \/ (looking' = looking \cup {Last(i).sub} /\ subs[Last(i).sub].state \in {"sending", "uncertain"})
  BY DEF ExecuteAttach, ExecuteReconcile
<1>6. \A S \in Submission : /\ Out(S)' => Out(S)
                            /\ S \in sending' \cup looking' => subs'[S].state \notin Unsent
  BY <1>4, <1>5 DEF IInv, Underway, Out, AtProvider, Unsent
<1>7. \A c \in waiters' : Known(c) BY <1>2, <1>4 DEF IInv, Typed
<1>8. looking' \subseteq Submission BY <1>3, <1>5 DEF IInv, Typed
<1> QED BY <1>1, <1>4, <1>6, <1>7, <1>8, SameReserved, RecordsStand DEF IInv, Typed

\* A stop forgets what is in memory.
LEMMA RestartDrops ==
  ASSUME IInv, Restart
  PROVE  /\ Grouped' /\ waiters' = {} /\ group' = {} /\ sending' = {} /\ looking' = {}
BY NoGroup DEF Restart

LEMMA StopStep == ASSUME IInv, Crash \/ \E i \in Item : CutReserve(i) PROVE IInv' /\ Kept
<1>1. Restart /\ UNCHANGED <<items, subs, net, jobs, outcome, accepted>>
  BY DEF Crash, CutReserve, disk, provider
<1>2. reserved' \in [Item -> Nat] /\ \A i \in Item : reserved[i] <= reserved'[i]
  <2>1. Typed BY DEF IInv
  <2>2. CASE Crash BY <2>1, <2>2, SameReserved DEF Crash, disk
  <2>3. ASSUME NEW i \in Item, CutReserve(i) PROVE <1>2!1 /\ <1>2!2
    BY <2>1, <2>3 DEF CutReserve, Typed
  <2> QED BY <2>2, <2>3
<1>3. \A S \in Submission : Out(S)' => Out(S) BY <1>1 DEF Out, AtProvider
<1> QED BY <1>1, <1>2, <1>3, RestartDrops, RecordsStand DEF IInv, Typed

LEMMA UnacknowledgedStep == ASSUME IInv, NEW S \in Submission, Unacknowledged(S) PROVE IInv' /\ Kept
<1> USE DEF Unacknowledged, provider
<1>1. Typed BY DEF IInv
<1>2. /\ subs' \in [Submission -> SubmissionRecord]
      /\ \A T \in Submission : subs'[T].state = IF T = S THEN "uncertain" ELSE subs[T].state
  BY <1>1, SaveKeeps DEF SubmissionState
<1>3. subs[S].state \notin Unsent BY DEF IInv, Underway
<1>4. \A T \in Submission :
        /\ Out(T)' => Out(T)
        /\ T \in sending' \cup looking' => subs'[T].state \notin Unsent
        /\ subs'[T].state = "prepared" => subs[T].state = "prepared"
  BY <1>2, <1>3 DEF IInv, Underway, Out, AtProvider, Unsent
<1> QED BY <1>1, <1>2, <1>4, SameReserved, RecordsStand DEF IInv, Typed

LEMMA NotFoundStep == ASSUME IInv, NEW S \in Submission, NotFound(S) PROVE IInv' /\ Kept
<1> USE DEF NotFound, Answer, provider
<1>1. Typed BY DEF IInv
<1>2. /\ subs' \in [Submission -> SubmissionRecord]
      /\ \A T \in Submission : subs'[T].state \in {subs[T].state, "uncertain"}
  BY <1>1, SaveKeeps DEF SubmissionState, Typed
<1>3. \A T \in Submission : subs'[T].state # subs[T].state => subs[T].state \notin Unsent
  BY <1>1, SaveKeeps DEF SubmissionState, Uncertain, Unsent
<1>4. \A T \in Submission :
        /\ Out(T)' => Out(T)
        /\ T \in sending' \cup looking' => subs'[T].state \notin Unsent
        /\ subs'[T].state = "prepared" => subs[T].state = "prepared"
  BY <1>2, <1>3 DEF IInv, Underway, Out, AtProvider, Unsent
<1> QED BY <1>1, <1>2, <1>4, SameReserved, RecordsStand DEF IInv, Typed

\* The poll loop's steps, but for collecting.
LEMMA LoopStep ==
  ASSUME IInv, NEW S \in Submission,
         \/ LoopUnwanted(S) \/ LoopDelivers(S) \/ LoopInconsistent(S)
         \/ PollFails(S) \/ DeadlinePasses(S) \/ Left(S)
  PROVE  IInv' /\ Kept
<1>1. Typed BY DEF IInv
<1>2. /\ UNCHANGED <<items, reserved, group, sending, looking, net, jobs, outcome, accepted>>
      /\ waiters' \subseteq waiters /\ subs' \in {subs, RequestCancel(S, subs)}
  BY DEF LoopUnwanted, LoopDelivers, LoopInconsistent, PollFails, DeadlinePasses, Left, disk, provider, Answer
<1>3. subs' \in [Submission -> SubmissionRecord] /\ \A T \in Submission : subs'[T].state = subs[T].state
  <2>1. CASE subs' = subs BY <1>1, <2>1 DEF Typed
  <2>2. CASE subs' = RequestCancel(S, subs)
    <3>1. subs \in [Submission -> SubmissionRecord] BY <1>1 DEF Typed
    <3>2. subs' \in {RequestCancel(S, subs), CancelIfAbandoned(S, items, subs)} BY <2>2
    <3> QED BY <3>1, <3>2, CancelKeeps
  <2> QED BY <1>2, <2>1, <2>2
<1>4. \A T \in Submission :
        /\ Out(T)' => Out(T)
        /\ T \in sending' \cup looking' => subs'[T].state \notin Unsent
        /\ subs'[T].state = "prepared" => subs[T].state = "prepared"
  BY <1>2, <1>3 DEF IInv, Underway, Out, AtProvider
<1> QED BY <1>1, <1>2, <1>3, <1>4, SameReserved, RecordsStand DEF IInv, Typed

LEMMA LoseStep == ASSUME IInv, NEW S \in Submission, Lose(S) PROVE IInv' /\ Kept
<1> USE DEF Lose, disk, memory
<1>1. Typed BY DEF IInv
<1>2. \A T \in Submission :
        /\ Out(T)' => Out(T)
        /\ T \in sending' \cup looking' => subs'[T].state \notin Unsent
  BY DEF IInv, Underway, Out, AtProvider
<1> QED BY <1>1, <1>2, SameReserved, RecordsStand DEF IInv, Typed

----------------------------------------------------------------------------
(* The steps that update members of a submission that is out.              *)

LEMMA UpdateStep ==
  ASSUME IInv, NEW S \in Submission, Out(S), NEW M \in SUBSET S, SameShape,
         \A c : Known(c) /\ c \notin M => AttemptOf(c)' = AttemptOf(c),
         \A c \in M :
           /\ AttemptOf(c)'.reservation = AttemptOf(c).reservation /\ Sub(c)' = Sub(c) /\ Changed(c)
           /\ State(c)' = "not_submitted" => State(c) = "not_submitted" \/ ~AtProvider(S)'
           /\ S \in sending' /\ jobs[S] = "none" => State(c)' = State(c),
         UNCHANGED <<reserved, jobs, outcome, accepted>>,
         net' \subseteq net, sending' \subseteq sending, looking' \subseteq looking,
         waiters' \subseteq waiters, group' \subseteq group,
         subs' \in [Submission -> SubmissionRecord],
         \A T \in Submission :
           \/ subs'[T].state = subs[T].state
           \/ /\ T = S /\ subs'[T].state \notin {"absent", "prepared"}
              /\ subs'[T].state = "abandoned" => T \notin sending' \cup looking'
  PROVE  IInv' /\ Kept
<1>1. \A c \in S : c \notin group /\ Known(c) /\ Sub(c) = S BY GroupApart
<1>2. \A c : Known(c) /\ c \notin M => State(c)' = State(c) /\ Sub(c)' = Sub(c) BY DEF State, Sub
<1>3. Grouped'
  <2>1. \A c \in group' : Known(c) /\ c \notin M BY <1>1 DEF IInv, Grouped
  <2> QED BY <1>2, <2>1, GroupKept
<1>4. \A c : Known(c) =>
        /\ AttemptOf(c)'.reservation = AttemptOf(c).reservation /\ Changed(c)
        /\ Sub(c)' = Sub(c) \/ ~Out(Sub(c))
        /\ State(c)' = "not_submitted" =>
             \/ State(c) = "not_submitted" \/ Sub(c) = Null
             \/ \A T \in Submission : Sub(c) = T => ~AtProvider(T)'
        /\ Sub(c) \in sending' /\ jobs[Sub(c)] = "none" => State(c)' = State(c)
  <2> SUFFICES ASSUME NEW c, Known(c)
      PROVE  /\ AttemptOf(c)'.reservation = AttemptOf(c).reservation /\ Changed(c)
             /\ Sub(c)' = Sub(c)
             /\ State(c)' = "not_submitted" =>
                  \/ State(c) = "not_submitted"
                  \/ \A T \in Submission : Sub(c) = T => ~AtProvider(T)'
             /\ Sub(c) \in sending' /\ jobs[Sub(c)] = "none" => State(c)' = State(c)
    OBVIOUS
  <2>1. CASE c \in M BY <1>1, <2>1
  <2>2. CASE c \notin M BY <1>2, <2>2 DEF Changed
  <2> QED BY <2>1, <2>2
<1>5. \A T \in Submission :
        /\ Out(T)' => Out(T)
        /\ T \in sending' \cup looking' => subs'[T].state \notin Unsent
        /\ subs'[T].state = "prepared" => subs[T].state = "prepared"
  BY DEF IInv, Underway, Out, AtProvider, Unsent
<1>6. \A c \in waiters' : Known(c) BY DEF IInv, Typed
<1>7. Typed /\ looking' \subseteq Submission BY DEF IInv, Typed
<1> QED BY <1>3, <1>4, <1>5, <1>6, <1>7, SameReserved, MembersStep

\* Members that may be at the provider are recorded as submitted.
LEMMA SubmitStep ==
  ASSUME IInv, NEW S \in Submission, jobs[S] # "none", NEW M \in SUBSET S,
         items' = UpdateMembers(M, ToSubmitted),
         UNCHANGED <<reserved, net, jobs, outcome, accepted>>,
         sending' \subseteq sending, looking' \subseteq looking,
         waiters' \subseteq waiters, group' \subseteq group,
         subs' \in [Submission -> SubmissionRecord],
         \A T \in Submission : subs'[T].state = subs[T].state \/ (T = S /\ subs'[T].state = "submitted")
  PROVE  IInv' /\ Kept
<1>1. Typed /\ Out(S) BY DEF IInv, Out, AtProvider
<1>2. SameShape /\ \A c : Known(c) =>
        AttemptOf(c)' = IF c \in M THEN ToSubmitted(AttemptOf(c)) ELSE AttemptOf(c)
  BY <1>1, Submits
<1>3. \A c \in S : Known(c) /\ Sub(c) = S BY <1>1, GroupApart
<1>4. ASSUME NEW c \in M
      PROVE  /\ AttemptOf(c)'.reservation = AttemptOf(c).reservation /\ Sub(c)' = Sub(c) /\ Changed(c)
             /\ State(c)' = "not_submitted" => State(c) = "not_submitted"
  <2>1. AttemptOf(c)' = ToSubmitted(AttemptOf(c)) /\ AttemptOf(c) \in Attempt /\ Sub(c) # Null
    BY <1>1, <1>2, <1>3, Places, LaneAssumption
  <2> QED BY <2>1 DEF ToSubmitted, Attempt, Changed, State, Sub
<1>5. \A c : Known(c) /\ c \notin M => AttemptOf(c)' = AttemptOf(c) BY <1>2
<1> QED BY <1>1, <1>2, <1>4, <1>5, UpdateStep

LEMMA MarkSubmittedStates ==
  ASSUME Typed, NEW S \in Submission, MarkSubmitted(S)
  PROVE  /\ subs' \in [Submission -> SubmissionRecord]
         /\ \A T \in Submission : subs'[T].state = IF T = S THEN "submitted" ELSE subs[T].state
<1> DEFINE r == Save(S, "submitted")
<1>1. /\ r \in [Submission -> SubmissionRecord]
      /\ \A T \in Submission : r[T].state = IF T = S THEN "submitted" ELSE subs[T].state
  BY SaveKeeps DEF SubmissionState
<1>2. subs' = CancelIfAbandoned(S, items', r) BY DEF MarkSubmitted
<1> HIDE DEF r
<1> QED BY <1>1, <1>2, CancelKeeps

LEMMA SubmittedStep ==
  ASSUME IInv, NEW S \in Submission,
         Acknowledged(S) \/ Found(S) \/ CutMarkSubmitted(S) \/ ResolveJob(S)
  PROVE  IInv' /\ Kept
<1>1. Typed BY DEF IInv
<1>2. CASE Acknowledged(S)
  BY <1>1, <1>2, MarkSubmittedStates, SubmitStep DEF Acknowledged, Answered, MarkSubmitted, provider
<1>3. CASE S \in looking /\ Uncertain(S) /\ jobs[S] # "none" /\ MarkSubmitted(S) /\ looking' = looking \ {S}
           /\ UNCHANGED <<waiters, group, sending, provider, crashes>>
  BY <1>1, <1>3, MarkSubmittedStates, SubmitStep DEF MarkSubmitted, provider
<1>4. CASE /\ subs' = CancelIfAbandoned(S, items, subs) /\ UNCHANGED <<items, reserved>>
           /\ looking' = looking \ {S} /\ UNCHANGED <<waiters, group, sending, provider, crashes>>
  <2>1. subs' \in [Submission -> SubmissionRecord] /\ \A T \in Submission : subs'[T].state = subs[T].state
    <3>1. subs \in [Submission -> SubmissionRecord] BY <1>1 DEF Typed
    <3> QED BY <1>4, <3>1, CancelKeeps
  <2>2. \A T \in Submission : /\ Out(T)' => Out(T)
                              /\ T \in sending' \cup looking' => subs'[T].state \notin Unsent
    BY <1>4, <2>1 DEF IInv, Underway, Out, AtProvider, provider
  <2> QED BY <1>1, <1>4, <2>1, <2>2, SameReserved, RecordsStand DEF IInv, Typed, provider
<1>5. CASE CutMarkSubmitted(S)
  <2>1. PICK M \in SUBSET S : items' = UpdateMembers(M, ToSubmitted) BY <1>5 DEF CutMarkSubmitted
  <2>2. jobs[S] # "none" /\ Restart /\ UNCHANGED <<subs, reserved, provider>>
    BY <1>5 DEF CutMarkSubmitted, Answered
  <2> QED BY <1>1, <2>1, <2>2, RestartDrops, SubmitStep DEF Typed, provider
<1>6. CASE ResolveJob(S)
  <2>1. /\ subs' \in [Submission -> SubmissionRecord]
        /\ \A T \in Submission : subs'[T].state = IF T = S THEN "submitted" ELSE subs[T].state
    BY <1>1, <1>6, SaveKeeps DEF SubmissionState, ResolveJob
  <2> QED BY <1>6, <2>1, SubmitStep DEF ResolveJob, memory, provider
<1> QED BY <1>2, <1>3, <1>4, <1>5, <1>6 DEF Found

\* The provider refused the request: it never had the members.
LEMMA RejectedStep == ASSUME IInv, NEW S \in Submission, Rejected(S) \/ CutRejected(S) PROVE IInv' /\ Kept
<1>1. Typed /\ Out(S) /\ S \in sending /\ S \in net /\ jobs[S] = "none"
  BY DEF IInv, Underway, Out, AtProvider, Rejected, CutRejected
<1>2. PICK M \in SUBSET S : items' = UpdateMembers(M, ToNotSubmitted) BY DEF Rejected, CutRejected
<1>3. SameShape /\ \A c : Known(c) =>
        AttemptOf(c)' = IF c \in M THEN ToNotSubmitted(AttemptOf(c)) ELSE AttemptOf(c)
  BY <1>1, <1>2, Unsubmits
<1>4. /\ net' = net \ {S} /\ S \notin sending' /\ UNCHANGED <<reserved, jobs, outcome, accepted>>
      /\ sending' \subseteq sending /\ looking' \subseteq looking
      /\ waiters' \subseteq waiters /\ group' \subseteq group
  BY RestartDrops DEF Rejected, CutRejected, Answer
<1>5. \A c \in S : Known(c) /\ Sub(c) = S /\ State(c) = "queued"
  BY <1>1, GroupApart DEF IInv, Underway
<1>6. ~AtProvider(S)' BY <1>1, <1>4 DEF AtProvider
<1>7. ASSUME NEW c \in M
      PROVE  AttemptOf(c)'.reservation = AttemptOf(c).reservation /\ Sub(c)' = Sub(c) /\ Changed(c)
  <2>1. AttemptOf(c)' = ToNotSubmitted(AttemptOf(c)) /\ AttemptOf(c) \in Attempt /\ State(c) = "queued"
    BY <1>1, <1>3, <1>5, Places
  <2> QED BY <2>1 DEF ToNotSubmitted, Attempt, Changed, State, Sub
<1>8. \A c : Known(c) /\ c \notin M => AttemptOf(c)' = AttemptOf(c) BY <1>3
<1>9. /\ subs' \in [Submission -> SubmissionRecord]
      /\ \A T \in Submission : subs'[T].state = subs[T].state \/ (T = S /\ subs'[T].state = "rejected")
  BY <1>1, SaveKeeps DEF Rejected, CutRejected, SubmissionState, Typed
<1> QED BY <1>1, <1>3, <1>4, <1>6, <1>7, <1>8, <1>9, UpdateStep

\* What the job's results say is recorded.
LEMMA CollectStep == ASSUME IInv, NEW S \in Submission, Collect(S) \/ CutCollect(S) PROVE IInv' /\ Kept
<1>1. Typed /\ Out(S) /\ jobs[S] = "ended" /\ \A c \in S : outcome[c] \in Outcome
  BY DEF IInv, Underway, Out, AtProvider, Collect, CutCollect
<1>2. PICK M \in SUBSET S : items' = CollectMembers(M) BY DEF Collect, CutCollect
<1>3. SameShape /\ \A c : Known(c) =>
        AttemptOf(c)' = IF c \in M THEN Collected(AttemptOf(c), c) ELSE AttemptOf(c)
  BY <1>1, <1>2, Collects
<1>4. /\ UNCHANGED <<reserved, net, jobs, outcome, accepted>>
      /\ sending' \subseteq sending /\ looking' \subseteq looking
      /\ waiters' \subseteq waiters /\ group' \subseteq group
  BY RestartDrops DEF Collect, CutCollect, memory, provider
<1>5. ASSUME NEW c \in M
      PROVE  /\ AttemptOf(c)'.reservation = AttemptOf(c).reservation /\ Sub(c)' = Sub(c) /\ Changed(c)
             /\ State(c)' = "not_submitted" => State(c) = "not_submitted"
  <2>1. /\ AttemptOf(c)' = Collected(AttemptOf(c), c) /\ AttemptOf(c) \in Attempt
        /\ Sub(c) = S /\ Sub(c) # Null /\ outcome[c] # "not_submitted"
    BY <1>1, <1>3, GroupApart, Places, LaneAssumption DEF Outcome
  <2> QED BY <1>1, <2>1 DEF Collected, Open, Attempt, Changed, State, Sub
<1>6. \A c : Known(c) /\ c \notin M => AttemptOf(c)' = AttemptOf(c) BY <1>3
<1>7. /\ subs' \in [Submission -> SubmissionRecord]
      /\ \A T \in Submission : subs'[T].state = subs[T].state \/ (T = S /\ subs'[T].state = "ended")
  BY <1>1, SaveKeeps DEF Collect, CutCollect, SubmissionState, Typed
<1> QED BY <1>1, <1>3, <1>4, <1>5, <1>6, <1>7, UpdateStep

\* The operator declares unsent only what the provider never had.
LEMMA ResolveStep == ASSUME IInv, NEW S \in Submission, Resolve(S) \/ CutResolve(S) PROVE IInv' /\ Kept
<1>1. Typed /\ Out(S) /\ S \notin sending \cup looking
  BY DEF IInv, Out, Unsent, Resolve, CutResolve, Resolvable, Uncertain
<1>2. PICK M \in SUBSET S, decision \in {"not_submitted", "abandon"} :
        Truthful(S, decision) /\ items' = ResolveMembers(M, decision)
  BY DEF Resolve, CutResolve
<1>3. SameShape /\ \A c : Known(c) =>
        AttemptOf(c)' = IF c \in M THEN Resolved(AttemptOf(c), decision) ELSE AttemptOf(c)
  BY <1>1, <1>2, Resolves
<1>4. /\ UNCHANGED <<reserved, net, jobs, outcome, accepted>>
      /\ sending' \subseteq sending /\ looking' \subseteq looking
      /\ waiters' \subseteq waiters /\ group' \subseteq group
  BY RestartDrops DEF Resolve, CutResolve, memory, provider
<1>5. decision = "not_submitted" => ~AtProvider(S)' BY <1>2, <1>4 DEF Truthful, AtProvider
<1>6. ASSUME NEW c \in M
      PROVE  /\ AttemptOf(c)'.reservation = AttemptOf(c).reservation /\ Sub(c)' = Sub(c) /\ Changed(c)
             /\ State(c)' = "not_submitted" => State(c) = "not_submitted" \/ ~AtProvider(S)'
  <2>1. AttemptOf(c)' = Resolved(AttemptOf(c), decision) /\ AttemptOf(c) \in Attempt
    BY <1>1, <1>3, GroupApart, Places
  <2> QED BY <1>5, <2>1 DEF Resolved, Attempt, Changed, State, Sub
<1>7. \A c : Known(c) /\ c \notin M => AttemptOf(c)' = AttemptOf(c) BY <1>3
<1>8. /\ subs' \in [Submission -> SubmissionRecord]
      /\ \A T \in Submission : subs'[T].state = subs[T].state \/ (T = S /\ subs'[T].state = "abandoned")
  BY <1>1, SaveKeeps DEF Resolve, CutResolve, SubmissionState, Typed
<1> QED BY <1>1, <1>3, <1>4, <1>6, <1>7, <1>8, UpdateStep

\* Only an item of the open group is cancelled as unsent.
LEMMA CancelStep == ASSUME IInv, NEW c \in CustomId, Cancel(c) PROVE IInv' /\ Kept
<1>1. Typed /\ Known(c) BY DEF IInv, Typed, Cancel
<1>2. PICK unsent \in IF c \in group THEN BOOLEAN ELSE {FALSE} : items' = UpdateMembers({c}, LAMBDA a : Cancelled(a, unsent))
  BY DEF Cancel
<1>3. unsent \in BOOLEAN /\ (unsent => c \in group) BY <1>2
<1>4. SameShape /\ \A d : Known(d) =>
        AttemptOf(d)' = IF d \in {c} THEN Cancelled(AttemptOf(d), unsent) ELSE AttemptOf(d)
  BY <1>1, <1>2, <1>3, Cancels
<1>5. \A d : Known(d) /\ d # c => AttemptOf(d)' = AttemptOf(d) /\ State(d)' = State(d) /\ Sub(d)' = Sub(d)
  BY <1>4 DEF State, Sub
<1>6. /\ AttemptOf(c)'.reservation = AttemptOf(c).reservation /\ Sub(c)' = Sub(c)
      /\ \/ State(c)' = State(c)
         \/ State(c)' = "not_submitted" /\ Sub(c) = Null /\ State(c) = "queued"
  <2>1. AttemptOf(c)' = Cancelled(AttemptOf(c), unsent) /\ AttemptOf(c) \in Attempt BY <1>1, <1>4, Places
  <2>2. unsent => State(c) = "queued" BY <1>3 DEF IInv, Grouped
  <2>3. CASE unsent /\ Sub(c) = Null BY <2>1, <2>2, <2>3 DEF Cancelled, Attempt, State, Sub
  <2>4. CASE ~(unsent /\ Sub(c) = Null) BY <2>1, <2>4 DEF Cancelled, Attempt, State, Sub
  <2> QED BY <2>3, <2>4
<1>7. /\ group' = group \ {c} /\ waiters' = waiters \ {c}
      /\ UNCHANGED <<reserved, sending, looking, net, jobs, outcome, accepted>>
  BY DEF Cancel, provider
<1>8. Grouped'
  <2>1. \A d \in group' : Known(d) /\ d # c BY <1>7 DEF IInv, Grouped
  <2> QED BY <1>4, <1>5, <1>7, <2>1, GroupKept
<1>9. subs' \in [Submission -> SubmissionRecord] /\ \A T \in Submission : subs'[T].state = subs[T].state
  <2>1. subs \in [Submission -> SubmissionRecord] BY <1>1 DEF Typed
  <2>2. CASE AttemptOf(c).sub = Null BY <2>1, <2>2 DEF Cancel
  <2>3. CASE AttemptOf(c).sub # Null
    <3>1. AttemptOf(c).sub \in Submission BY <1>1, <2>3, Places DEF Attempt
    <3>2. subs' = CancelIfAbandoned(AttemptOf(c).sub, items', subs) BY <2>3 DEF Cancel
    <3> QED BY <2>1, <3>1, <3>2, CancelKeeps
  <2> QED BY <2>2, <2>3
<1>10. \A T \in Submission :
         /\ Out(T)' => Out(T)
         /\ T \in sending' \cup looking' => subs'[T].state \notin Unsent
         /\ subs'[T].state = "prepared" => subs[T].state = "prepared"
  BY <1>7, <1>9 DEF IInv, Underway, Out, AtProvider
<1>11. \A d : Known(d) =>
         /\ AttemptOf(d)'.reservation = AttemptOf(d).reservation /\ Changed(d)
         /\ Sub(d)' = Sub(d)
         /\ State(d)' = "not_submitted" => State(d) = "not_submitted" \/ Sub(d) = Null
         /\ Sub(d) \in sending' => State(d)' = State(d)
  <2>1. sending' \subseteq Submission BY <1>1, <1>7 DEF Typed
  <2>2. Null \notin sending' BY <2>1, LaneAssumption
  <2>3. Changed(c) BY <1>6 DEF Changed
  <2>4. \A d : Known(d) /\ d # c => Changed(d) BY <1>5 DEF Changed
  <2> QED BY <1>5, <1>6, <2>2, <2>3, <2>4
<1> QED BY <1>1, <1>4, <1>7, <1>8, <1>9, <1>10, <1>11, SameReserved, MembersStep DEF IInv, Typed

----------------------------------------------------------------------------
(* The steps that give back a prepared submission.                         *)

\* The one member of a submission that a stop left prepared is not out.
LEMMA PreparedAlone ==
  ASSUME IInv, SavesApart, NEW i \in Item, Prepared(i)
  PROVE  /\ Known(LastId(i)) /\ IsLast(LastId(i)) /\ State(LastId(i)) = "queued"
         /\ Last(i).sub \in Submission /\ Last(i).sub = {LastId(i)}
         /\ Sub(LastId(i)) = Last(i).sub /\ ~Out(Last(i).sub)
         /\ subs[Last(i).sub].state = "prepared"
<1> DEFINE P == Last(i).sub
           c == LastId(i)
<1>1. Known(c) /\ IsLast(c) /\ AttemptOf(c) = Last(i) /\ Last(i) \in Attempt
  BY LastKnown DEF IInv, Prepared
<1>2. Sub(c) = P /\ P \in Submission /\ State(c) = "queued" /\ subs[P].state = "prepared" /\ P # Null
  BY <1>1, LaneAssumption DEF Sub, State, Prepared, Attempt
<1>3. c \in P /\ IsFiniteSet(P) BY <1>1, <1>2 DEF IInv, Named
<1>4. MaximumItems = 1 /\ ~AtProvider(P) BY <1>2 DEF IInv, Underway, SavesApart
<1>5. P = {c}
  <2> HIDE DEF P, c
  <2>1. Cardinality(P) <= 1 /\ Cardinality(P) \in Nat BY <1>2, <1>3, <1>4, FS_CardinalityType DEF Submission
  <2>2. Cardinality({c}) = 1 /\ IsFiniteSet({c}) BY FS_Singleton
  <2>3. {c} \subseteq P /\ Cardinality({c}) <= Cardinality(P) BY <1>3, FS_Subset
  <2>4. Cardinality({c}) = Cardinality(P) BY <2>1, <2>2, <2>3
  <2> QED BY <1>3, <2>3, <2>4, FS_Subset
<1> QED BY <1>1, <1>2, <1>4, <1>5 DEF Out, Unsent

LEMMA PreparedStep ==
  ASSUME IInv, SavesApart, NEW i \in Item, ExecutePrepared(i) \/ CutAbandonUnsent(i)
  PROVE  IInv' /\ Kept
<1>0. PICK P, c : P = Last(i).sub /\ c = LastId(i) OBVIOUS
<1>1. Typed /\ Prepared(i) BY DEF IInv, ExecutePrepared, CutAbandonUnsent
<1>2. /\ Known(c) /\ IsLast(c) /\ State(c) = "queued" /\ P \in Submission /\ P = {c}
      /\ Sub(c) = P /\ ~Out(P) /\ subs[P].state = "prepared"
  BY <1>0, <1>1, PreparedAlone
<1>3. PICK M \in SUBSET P : items' = UpdateMembers(M, ToUnsent) BY <1>0 DEF ExecutePrepared, CutAbandonUnsent
<1>4. /\ UNCHANGED <<reserved, net, jobs, outcome, accepted>>
      /\ sending' \subseteq sending /\ looking' \subseteq looking /\ waiters' \subseteq waiters \cup {c}
  BY <1>0, RestartDrops DEF ExecutePrepared, CutAbandonUnsent, Enqueue, provider
<1>5. /\ subs' \in [Submission -> SubmissionRecord]
      /\ \A T \in Submission : subs'[T].state = subs[T].state \/ (T = P /\ subs'[T].state = "abandoned")
  BY <1>0, <1>1, <1>2, SaveKeeps DEF ExecutePrepared, CutAbandonUnsent, SubmissionState, Typed
<1>6. ExecutePrepared(i) => items' = UpdateMembers(P, ToUnsent) BY <1>0 DEF ExecutePrepared
<1>7. ExecutePrepared(i) => group' = group \cup {c} /\ Cardinality(group) < MaximumItems
  BY <1>0 DEF ExecutePrepared, Enqueue
<1>8. CutAbandonUnsent(i) => group' = {} BY RestartDrops DEF CutAbandonUnsent
<1>9. SameShape /\ \A d : Known(d) =>
        AttemptOf(d)' = IF d \in M THEN ToUnsent(AttemptOf(d)) ELSE AttemptOf(d)
  BY <1>1, <1>3, Unsends
<1>10. \A d : Known(d) /\ d # c => AttemptOf(d)' = AttemptOf(d) /\ State(d)' = State(d) /\ Sub(d)' = Sub(d)
  BY <1>2, <1>9 DEF State, Sub
<1>11. /\ AttemptOf(c)'.reservation = AttemptOf(c).reservation /\ State(c)' = "queued"
       /\ Sub(c)' = Sub(c) \/ Sub(c)' = Null
  <2>1. AttemptOf(c)' \in {AttemptOf(c), ToUnsent(AttemptOf(c))} /\ AttemptOf(c) \in Attempt
    BY <1>1, <1>2, <1>9, Places
  <2> QED BY <1>2, <2>1 DEF ToUnsent, Attempt, State, Sub
<1>12. ExecutePrepared(i) => Sub(c)' = Null
  <2> SUFFICES ASSUME ExecutePrepared(i) PROVE Sub(c)' = Null OBVIOUS
  <2>1. AttemptOf(c)' = ToUnsent(AttemptOf(c)) /\ AttemptOf(c) \in Attempt
    BY <1>1, <1>2, <1>6, Unsends, Places
  <2> QED BY <1>2, <2>1 DEF ToUnsent, Attempt, State, Sub
<1>13. Grouped'
  <2>1. CASE CutAbandonUnsent(i) BY <1>8, <2>1, NoGroup
  <2>2. CASE ExecutePrepared(i)
    <3>1. IsFiniteSet(group') /\ Cardinality(group') <= MaximumItems BY <1>7, <2>2, GroupGrows DEF IInv
    <3>2. \A d : (Known(d)' <=> Known(d)) /\ (Known(d) => (IsLast(d)' <=> IsLast(d)))
      BY <1>1, <1>9, ShapeKept
    <3>3. \A d \in group : d # c
      BY <1>2, LaneAssumption DEF IInv, Grouped
    <3> QED BY <1>2, <1>7, <1>10, <1>11, <1>12, <2>2, <3>1, <3>2, <3>3 DEF IInv, Grouped
  <2> QED BY <2>1, <2>2
<1>14. P \notin sending \cup looking BY <1>2 DEF IInv, Underway, Unsent
<1>15. \A T \in Submission :
         /\ Out(T)' => Out(T)
         /\ T \in sending' \cup looking' => subs'[T].state \notin Unsent
         /\ subs'[T].state = "prepared" => subs[T].state = "prepared"
  BY <1>4, <1>5, <1>14 DEF IInv, Underway, Out, AtProvider, Unsent
<1>16. \A d : Known(d) =>
         /\ AttemptOf(d)'.reservation = AttemptOf(d).reservation /\ Changed(d)
         /\ Sub(d)' = Sub(d) \/ ~Out(Sub(d))
         /\ State(d)' = State(d)
  <2>1. Changed(c) BY <1>2, <1>11 DEF Changed, IInv, Named
  <2>2. \A d : Known(d) /\ d # c => Changed(d) BY <1>10 DEF Changed
  <2> QED BY <1>2, <1>10, <1>11, <2>1, <2>2
<1>17. \A d \in waiters' : Known(d) BY <1>2, <1>4 DEF IInv, Typed
<1>18. looking' \subseteq Submission /\ sending' \subseteq sending /\ net' \subseteq net
  BY <1>4 DEF IInv, Typed
<1> QED BY <1>1, <1>4, <1>5, <1>9, <1>13, <1>15, <1>16, <1>17, <1>18, SameReserved, MembersStep

----------------------------------------------------------------------------
(* A new attempt.                                                          *)

LEMMA FreshRecords ==
  ASSUME IInv, NEW i \in Item, ExecuteFresh(i), NEW c, c = <<i, Len(items[i]) + 1>>
  PROVE  /\ items' \in [Item -> Seq(Attempt)] /\ reserved' \in [Item -> Nat]
         /\ Len(items'[i]) = Len(items[i]) + 1 /\ Len(items'[i]) <= MaximumAttempts
         /\ \A j \in Item : j # i => items'[j] = items[j]
         /\ \A j \in Item : reserved[j] <= reserved'[j]
         /\ \A n \in 1..Len(items[i]) : /\ items'[i][n].state = items[i][n].state
                                        /\ items'[i][n].sub = items[i][n].sub
                                        /\ items'[i][n].reservation = items[i][n].reservation
         /\ AttemptOf(c)'.state = "queued" /\ AttemptOf(c)'.sub = Null
         /\ AttemptOf(c)'.reservation <= reserved'[i]
         /\ \A d : Known(d) /\ d[1] = i /\ AttemptOf(d).reservation = AttemptOf(c)'.reservation =>
              State(d) = "not_submitted"
<1>1. Typed /\ items[i] \in Seq(Attempt) /\ reserved[i] \in Nat BY DEF IInv, Typed
<1>2. Len(items[i]) \in Nat /\ Len(items[i]) + 1 <= MaximumAttempts BY <1>1, LaneAssumption DEF ExecuteFresh
<1>3. \A r \in Nat : NewAttempt(r) \in Attempt BY DEF NewAttempt, Attempt, AttemptState
<1>4. \A d : Known(d) => /\ d[1] \in Item /\ d[2] \in 1..Len(items[d[1]]) /\ AttemptOf(d) \in Attempt
                         /\ AttemptOf(d).reservation <= reserved[d[1]]
  BY <1>1, Places DEF IInv, Reserved
<1>5. CASE /\ MovesReservation(i) /\ UNCHANGED reserved
           /\ items' = [items EXCEPT ![i] =
                Append([@ EXCEPT ![Len(@)].moved = TRUE], NewAttempt(Last(i).reservation))]
  <2>1. /\ Known(LastId(i)) /\ IsLast(LastId(i)) /\ AttemptOf(LastId(i)) = Last(i) /\ Last(i) \in Attempt
    BY <1>1, <1>5, LastKnown DEF MovesReservation
  <2>2. Last(i).reservation \in Nat /\ NewAttempt(Last(i).reservation) \in Attempt BY <1>3, <2>1 DEF Attempt
  <2>3. PICK q : q = [items[i] EXCEPT ![Len(items[i])].moved = TRUE] OBVIOUS
  <2>4. \A n \in 1..Len(items[i]) : items[i][n] \in Attempt BY <1>1
  <2>5. q \in Seq(Attempt) /\ Len(q) = Len(items[i])
    <3>1. Len(items[i]) \in 1..Len(items[i]) BY <1>1, <1>5 DEF MovesReservation
    <3>2. PICK v \in Attempt : v = [items[i][Len(items[i])] EXCEPT !.moved = TRUE]
      BY <2>4, <3>1 DEF Attempt
    <3>3. q = [items[i] EXCEPT ![Len(items[i])] = v] BY <2>3, <3>2
    <3> QED BY <1>1, <3>1, <3>2, <3>3, ExceptSeq
  <2>6. \A n \in 1..Len(items[i]) :
          q[n].state = items[i][n].state /\ q[n].sub = items[i][n].sub /\ q[n].reservation = items[i][n].reservation
    BY <1>1, <2>3, <2>4 DEF Attempt
  <2>7. items' = [items EXCEPT ![i] = Append(q, NewAttempt(Last(i).reservation))] BY <1>5, <2>3
  <2>8. items'[i] = Append(q, NewAttempt(Last(i).reservation)) BY <1>1, <2>7 DEF Typed
  <2>9. /\ items'[i] \in Seq(Attempt) /\ Len(items'[i]) = Len(items[i]) + 1
        /\ items'[i][Len(items[i]) + 1] = NewAttempt(Last(i).reservation)
        /\ \A n \in 1..Len(items[i]) : items'[i][n] = q[n]
    BY <1>2, <2>2, <2>5, <2>8, AppendProperties
  <2>10. AttemptOf(c)' = NewAttempt(Last(i).reservation) BY <2>9 DEF AttemptOf
  <2>11. ASSUME NEW d, Known(d), d[1] = i, AttemptOf(d).reservation = Last(i).reservation
         PROVE  State(d) = "not_submitted"
    <3>1. CASE d[2] = Len(items[i]) BY <1>5, <2>11, <3>1 DEF MovesReservation, State, AttemptOf, Last
    <3>2. CASE d[2] < Len(items[i]) BY <2>1, <2>11, <3>2 DEF IInv, Reserved, LastId
    <3> QED BY <1>2, <1>4, <2>11, <3>1, <3>2
  <2>12. Last(i).reservation <= reserved[i] BY <1>4, <2>1 DEF LastId
  <2>13. items' \in [Item -> Seq(Attempt)] /\ \A j \in Item : j # i => items'[j] = items[j]
    BY <1>1, <2>7, <2>8, <2>9 DEF Typed
  <2>14. /\ AttemptOf(c)'.state = "queued" /\ AttemptOf(c)'.sub = Null
         /\ AttemptOf(c)'.reservation = Last(i).reservation
    BY <2>10 DEF NewAttempt
  <2>15. /\ \A n \in 1..Len(items[i]) : /\ items'[i][n].state = items[i][n].state
                                        /\ items'[i][n].sub = items[i][n].sub
                                        /\ items'[i][n].reservation = items[i][n].reservation
    BY <2>6, <2>9
  <2>16. \A d : Known(d) /\ d[1] = i /\ AttemptOf(d).reservation = AttemptOf(c)'.reservation =>
           State(d) = "not_submitted"
    BY <2>11, <2>14
  <2>17. reserved' \in [Item -> Nat] /\ \A j \in Item : reserved[j] <= reserved'[j]
    BY <1>1, <1>5, SameReserved
  <2> QED BY <1>2, <1>5, <2>9, <2>12, <2>13, <2>14, <2>15, <2>16, <2>17
<1>6. CASE /\ reserved' = [reserved EXCEPT ![i] = @ + 1]
           /\ items' = [items EXCEPT ![i] = Append(@, NewAttempt(reserved[i] + 1))]
  <2>1. NewAttempt(reserved[i] + 1) \in Attempt BY <1>1, <1>3
  <2>2. items'[i] = Append(items[i], NewAttempt(reserved[i] + 1)) BY <1>1, <1>6 DEF Typed
  <2>3. /\ items'[i] \in Seq(Attempt) /\ Len(items'[i]) = Len(items[i]) + 1
        /\ items'[i][Len(items[i]) + 1] = NewAttempt(reserved[i] + 1)
        /\ \A n \in 1..Len(items[i]) : items'[i][n] = items[i][n]
    BY <1>1, <1>2, <2>1, <2>2, AppendProperties
  <2>4. AttemptOf(c)' = NewAttempt(reserved[i] + 1) BY <2>3 DEF AttemptOf
  <2>5. items' \in [Item -> Seq(Attempt)] /\ \A j \in Item : j # i => items'[j] = items[j]
    BY <1>1, <1>6, <2>3 DEF Typed
  <2>6. /\ reserved' \in [Item -> Nat] /\ reserved'[i] = reserved[i] + 1
        /\ \A j \in Item : reserved[j] <= reserved'[j]
    BY <1>1, <1>6 DEF Typed
  <2>7. \A d : Known(d) /\ d[1] = i => AttemptOf(d).reservation # reserved[i] + 1
    BY <1>1, <1>4 DEF Attempt
  <2>8. /\ AttemptOf(c)'.state = "queued" /\ AttemptOf(c)'.sub = Null
        /\ AttemptOf(c)'.reservation = reserved[i] + 1
    BY <2>4 DEF NewAttempt
  <2>9. AttemptOf(c)'.reservation <= reserved'[i] BY <1>1, <2>6, <2>8
  <2>10. \A d : Known(d) /\ d[1] = i => AttemptOf(d).reservation # AttemptOf(c)'.reservation
    BY <2>7, <2>8
  <2> QED BY <1>2, <2>3, <2>5, <2>6, <2>8, <2>9, <2>10
<1> QED BY <1>5, <1>6 DEF ExecuteFresh

LEMMA FreshStep == ASSUME IInv, NEW i \in Item, ExecuteFresh(i) PROVE IInv' /\ Kept
<1>0. PICK c : c = <<i, Len(items[i]) + 1>> OBVIOUS
<1>1. Typed /\ Len(items[i]) \in Nat BY DEF IInv, Typed
<1>2. /\ items' \in [Item -> Seq(Attempt)] /\ reserved' \in [Item -> Nat]
      /\ Len(items'[i]) = Len(items[i]) + 1 /\ Len(items'[i]) <= MaximumAttempts
      /\ \A j \in Item : j # i => items'[j] = items[j]
      /\ \A j \in Item : reserved[j] <= reserved'[j]
      /\ \A n \in 1..Len(items[i]) : /\ items'[i][n].state = items[i][n].state
                                     /\ items'[i][n].sub = items[i][n].sub
                                     /\ items'[i][n].reservation = items[i][n].reservation
      /\ AttemptOf(c)'.state = "queued" /\ AttemptOf(c)'.sub = Null
      /\ AttemptOf(c)'.reservation <= reserved'[i]
      /\ \A d : Known(d) /\ d[1] = i /\ AttemptOf(d).reservation = AttemptOf(c)'.reservation =>
           State(d) = "not_submitted"
  BY <1>0, FreshRecords
<1>3. /\ group' = group \cup {c} /\ waiters' = waiters \cup {c} /\ Cardinality(group) < MaximumItems
      /\ UNCHANGED <<subs, sending, looking, net, jobs, outcome, accepted>>
  BY <1>0 DEF ExecuteFresh, Enqueue, provider
<1>4. \A d : Known(d)' <=> Known(d) \/ d = c
  <2>1. \A d \in CustomId : d[1] \in Item /\ d[2] \in 1..MaximumAttempts /\ d = <<d[1], d[2]>>
    BY DEF CustomId
  <2>2. ASSUME NEW d \in CustomId PROVE (d[2] <= Len(items'[d[1]])) <=> (d[2] <= Len(items[d[1]]) \/ d = c)
    <3>1. CASE d[1] = i
      <4>1. d[2] \in Nat /\ Len(items'[d[1]]) = Len(items[d[1]]) + 1 /\ (d = c <=> d[2] = Len(items[i]) + 1)
        BY <1>0, <1>2, <2>1, <3>1, LaneAssumption
      <4> QED BY <1>1, <3>1, <4>1
    <3>2. CASE d[1] # i
      <4>1. d # c /\ items'[d[1]] = items[d[1]] BY <1>0, <1>2, <2>1, <3>2
      <4> QED BY <4>1
    <3> QED BY <3>1, <3>2
  <2>3. \A d \in CustomId : Exists(d)' <=> Exists(d) \/ d = c BY <2>2 DEF Exists
  <2>4. c \in CustomId BY <1>0, <1>1, <1>2, LaneAssumption DEF CustomId
  <2> QED BY <2>3, <2>4 DEF Known
<1>5. ~Known(c) BY <1>0, <1>1 DEF Known, Exists
<1>6. \A d : Known(d) => /\ State(d)' = State(d) /\ Sub(d)' = Sub(d)
                         /\ AttemptOf(d)'.reservation = AttemptOf(d).reservation
  <2> SUFFICES ASSUME NEW d, Known(d)
               PROVE  /\ State(d)' = State(d) /\ Sub(d)' = Sub(d)
                      /\ AttemptOf(d)'.reservation = AttemptOf(d).reservation
    OBVIOUS
  <2>1. d[1] \in Item /\ d[2] \in 1..Len(items[d[1]]) BY <1>1, Places
  <2>2. CASE d[1] = i BY <1>2, <2>1, <2>2 DEF State, Sub, AttemptOf
  <2>3. CASE d[1] # i BY <1>2, <2>1, <2>3 DEF State, Sub, AttemptOf
  <2> QED BY <2>2, <2>3
<1>7. State(c)' = "queued" /\ Sub(c)' = Null /\ IsLast(c)' BY <1>0, <1>2 DEF State, Sub, IsLast
<1>8. \A d : Known(d) => d[1] \in Item /\ (d[1] # i => (IsLast(d)' <=> IsLast(d)))
  BY <1>1, <1>2, Places DEF IsLast
<1>9. \A d : Known(d) /\ IsLast(d) /\ d[1] = i => State(d) \in {"cancelled", "not_submitted"}
  <2> SUFFICES ASSUME NEW d, Known(d), IsLast(d), d[1] = i
               PROVE  State(d) \in {"cancelled", "not_submitted"}
    OBVIOUS
  <2>1. items[i] # <<>> /\ AttemptOf(d) = Last(i)
    BY <1>1, Places DEF IsLast, AttemptOf, Last
  <2>2. Unprocessed(Last(i)) BY <2>1 DEF ExecuteFresh, Fresh
  <2> QED BY <2>1, <2>2 DEF Unprocessed, State, Sub, IInv, Named
<1>10. Typed' BY <1>1, <1>2, <1>3, <1>4 DEF Typed
<1>11. Grouped'
  <2>1. IsFiniteSet(group') /\ Cardinality(group') <= MaximumItems BY <1>3, GroupGrows DEF IInv
  <2>2. \A d \in group : d[1] # i BY <1>9 DEF IInv, Grouped
  <2> QED BY <1>3, <1>4, <1>6, <1>7, <1>8, <2>1, <2>2 DEF IInv, Grouped
<1>12. Followed'
  <2> SUFFICES ASSUME NEW d, Known(d), ~IsLast(d)' PROVE State(d) \in {"cancelled", "not_submitted"}
    BY <1>4, <1>6, <1>7 DEF Followed
  <2> QED BY <1>8, <1>9 DEF IInv, Followed
<1>13. Named' BY <1>3, <1>4, <1>6, <1>7 DEF IInv, Named
<1>14. Reserved'
  <2>1. \A d : Known(d) => AttemptOf(d).reservation \in Nat BY <1>1, Places DEF Attempt
  <2>2. \A d : Known(d) => AttemptOf(d)'.reservation <= reserved'[d[1]]
    <3>1. \A d : Known(d) => AttemptOf(d).reservation <= reserved[d[1]] BY DEF IInv, Reserved
    <3>2. \A j \in Item : reserved[j] \in Nat /\ reserved'[j] \in Nat BY <1>1, <1>2 DEF Typed
    <3> QED BY <1>2, <1>6, <1>8, <2>1, <3>1, <3>2
  <2>3. c[1] = i /\ AttemptOf(c)'.reservation <= reserved'[c[1]] BY <1>0, <1>2
  <2>4. ASSUME NEW d, NEW e, Known(d), Known(e), d[1] = e[1], d[2] < e[2],
               AttemptOf(d)'.reservation = AttemptOf(e)'.reservation
        PROVE  State(d)' = "not_submitted"
    BY <1>6, <2>4 DEF IInv, Reserved
  <2>5. ASSUME NEW d, Known(d), d[1] = i, AttemptOf(d)'.reservation = AttemptOf(c)'.reservation
        PROVE  State(d)' = "not_submitted"
    BY <1>2, <1>6, <2>5
  <2>6. \A e : Known(e) /\ e[1] = i => ~(c[2] < e[2]) BY <1>0, <1>1, Places
  <2>7. ~(c[2] < c[2]) BY <1>0, <1>1
  <2> QED BY <1>4, <2>2, <2>3, <2>4, <2>5, <2>6, <2>7 DEF Reserved
<1>15. \A S \in Submission : Out(S)' = Out(S) /\ AtProvider(S)' = AtProvider(S)
  BY <1>3 DEF Out, AtProvider
<1>16. \A S \in Submission : Out(S) => \A d \in S : Known(d) /\ Sub(d) = S BY DEF IInv, Held
<1>17. Held' BY <1>4, <1>6, <1>15, <1>16 DEF Held
<1>18. NotUnsent'
  <2>1. \A S \in Submission : AtProvider(S) => Out(S) BY DEF Out
  <2> QED BY <1>6, <1>15, <1>16, <2>1 DEF IInv, NotUnsent
<1>19. Underway'
  <2>1. \A S \in sending : Out(S) BY <1>1 DEF IInv, Underway, Out, Typed
  <2> QED BY <1>1, <1>3, <1>6, <1>15, <1>16, <2>1 DEF IInv, Underway, Typed
<1>20. Taken' BY <1>3 DEF IInv, Taken
<1>21. Kept BY <1>6 DEF Kept
<1> QED BY <1>10, <1>11, <1>12, <1>13, <1>14, <1>17, <1>18, <1>19, <1>20, <1>21 DEF IInv

----------------------------------------------------------------------------
(* A submission is made.                                                   *)

LEMMA GroupSubmission ==
  ASSUME IInv, NEW S, S = group \cap waiters, S # {}
  PROVE  /\ S \in Submission /\ IsFiniteSet(S) /\ ~Out(S)
         /\ \A c \in S : Known(c) /\ State(c) = "queued" /\ Sub(c) = Null
<1>1. \A c \in S : Known(c) /\ IsLast(c) /\ State(c) = "queued" /\ Sub(c) = Null BY DEF IInv, Grouped
<1>2. IsFiniteSet(S) /\ Cardinality(S) <= MaximumItems
  <2>1. IsFiniteSet(S) /\ Cardinality(S) <= Cardinality(group) BY FS_Subset DEF IInv, Grouped
  <2>2. Cardinality(group) \in Nat /\ Cardinality(S) \in Nat
    BY <2>1, FS_CardinalityType DEF IInv, Grouped
  <2> QED BY <2>1, <2>2, LaneAssumption DEF IInv, Grouped
<1>3. \A c, d \in S : c[1] = d[1] => c = d
  <2>1. \A c \in S : c = <<c[1], c[2]>> BY <1>1, Places DEF IInv
  <2> QED BY <1>1, <2>1 DEF IsLast
<1>4. S \in SUBSET CustomId BY <1>1 DEF Known
<1>5. S \in Submission BY <1>2, <1>3, <1>4 DEF Submission
<1>6. ~Out(S) BY <1>1, <1>5, LaneAssumption DEF IInv, Held
<1> QED BY <1>1, <1>2, <1>5, <1>6

LEMMA FlushStep == ASSUME IInv, Flush \/ CutFlush PROVE IInv' /\ Kept
<1>0. PICK S : S = group \cap waiters OBVIOUS
<1>1. Typed BY DEF IInv
<1>2. CASE S = {}
  <2>1. /\ UNCHANGED <<items, subs, reserved, waiters, sending, looking, net, jobs, outcome, accepted>>
        /\ group' = {}
    BY <1>0, <1>2 DEF Flush, CutFlush, disk
  <2>2. \A T \in Submission : /\ Out(T)' => Out(T)
                              /\ T \in sending' \cup looking' => subs'[T].state \notin Unsent
    BY <2>1 DEF IInv, Underway, Out, AtProvider
  <2> QED BY <1>1, <2>1, <2>2, SameReserved, RecordsStand DEF IInv, Typed
<1>3. CASE S # {}
  <2>1. /\ S \in Submission /\ IsFiniteSet(S) /\ ~Out(S) /\ S # Null
        /\ \A c \in S : Known(c) /\ State(c) = "queued" /\ Sub(c) = Null
    BY <1>0, <1>3, GroupSubmission, LaneAssumption
  <2>2. PICK M \in SUBSET S :
          /\ items' = UpdateMembers(M, LAMBDA a : [a EXCEPT !.sub = S])
          /\ \/ /\ M = S /\ subs' = [subs EXCEPT ![S] = [state |-> "sending", cancelRequested |-> FALSE]]
                /\ sending' = sending \cup {S} /\ net' = net \cup {S}
                /\ UNCHANGED <<waiters, looking>>
             \/ /\ CutSaves /\ subs' = [subs EXCEPT ![S] = [state |-> "prepared", cancelRequested |-> FALSE]]
                /\ sending' = {} /\ looking' = {} /\ waiters' = {} /\ UNCHANGED net
    <3>1. CASE Flush
      <4>1. items' = UpdateMembers(group \cap waiters, LAMBDA a : [a EXCEPT !.sub = group \cap waiters])
        BY <1>0, <1>3, <3>1 DEF Flush
      <4>2. items' = UpdateMembers(S, LAMBDA a : [a EXCEPT !.sub = S])
        BY <1>0, <4>1 DEF UpdateMembers
      <4>3. /\ subs' = [subs EXCEPT ![S] = [state |-> "sending", cancelRequested |-> FALSE]]
            /\ sending' = sending \cup {S} /\ net' = net \cup {S}
            /\ UNCHANGED <<waiters, looking>>
        BY <1>0, <1>3, <3>1 DEF Flush
      <4> QED BY <4>2, <4>3
    <3>2. CASE CutFlush BY <1>0, <1>3, <3>2, RestartDrops DEF CutFlush, provider
    <3> QED BY <3>1, <3>2
  <2>3. UNCHANGED <<reserved, jobs, outcome, accepted>> /\ group' = {}
    BY <1>0, <1>3, RestartDrops DEF Flush, CutFlush, provider
  <2>4. SameShape /\ \A c : Known(c) =>
          AttemptOf(c)' = IF c \in M THEN [AttemptOf(c) EXCEPT !.sub = S] ELSE AttemptOf(c)
    BY <1>1, <2>1, <2>2, Assigns
  <2>5. \A c : Known(c) /\ c \notin M => AttemptOf(c)' = AttemptOf(c) /\ State(c)' = State(c) /\ Sub(c)' = Sub(c)
    BY <2>4 DEF State, Sub
  <2>6. \A c \in M : /\ State(c)' = "queued" /\ Sub(c)' = S
                     /\ AttemptOf(c)'.reservation = AttemptOf(c).reservation
    <3> SUFFICES ASSUME NEW c \in M
                 PROVE  /\ State(c)' = "queued" /\ Sub(c)' = S
                        /\ AttemptOf(c)'.reservation = AttemptOf(c).reservation
      OBVIOUS
    <3>1. AttemptOf(c) \in Attempt /\ AttemptOf(c)' = [AttemptOf(c) EXCEPT !.sub = S]
      BY <1>1, <2>1, <2>4, Places
    <3> QED BY <2>1, <3>1 DEF Attempt, State, Sub
  <2>7. \A c : Known(c) => Changed(c)
    <3>1. \A c \in M : Changed(c) BY <2>1, <2>6 DEF Changed
    <3>2. \A c : Known(c) /\ c \notin M => Changed(c) BY <2>5 DEF Changed
    <3> QED BY <3>1, <3>2
  <2>8. \A c : Known(c)' <=> Known(c) BY <1>1, <2>4, ShapeKept
  <2>9. /\ subs' \in [Submission -> SubmissionRecord]
        /\ \A T \in Submission : T # S => subs'[T] = subs[T]
        /\ subs'[S].state \in {"sending", "prepared"}
    <3>1. PICK state \in {"sending", "prepared"} : subs' = [subs EXCEPT ![S] = [state |-> state, cancelRequested |-> FALSE]]
      BY <2>2
    <3>2. [state |-> state, cancelRequested |-> FALSE] \in SubmissionRecord
      BY <3>1 DEF SubmissionRecord, SubmissionState
    <3> QED BY <1>1, <2>1, <3>1, <3>2 DEF Typed
  <2>10. Typed'
    <3>1. net' \subseteq Submission /\ sending' \subseteq Submission /\ looking' \subseteq Submission
          /\ \A c \in waiters' : Known(c)'
      BY <1>1, <2>1, <2>2, <2>8 DEF Typed
    <3> QED BY <1>1, <2>3, <2>4, <2>9, <3>1 DEF Typed, SameShape
  <2>11. Grouped' BY <2>3, NoGroup
  <2>12. Followed' /\ Named' /\ Reserved'
    <3>1. \A c : Known(c) => AttemptOf(c)'.reservation = AttemptOf(c).reservation BY <2>5, <2>6
    <3> QED BY <1>1, <2>3, <2>4, <2>7, <3>1, SameReserved, RecordsChange
  <2>13. \A T \in Submission : T # S => (Out(T)' <=> Out(T)) /\ (AtProvider(T)' <=> AtProvider(T))
    BY <2>2, <2>3, <2>9 DEF Out, AtProvider
  <2>14. \A T \in Submission : Out(T) => \A c \in T : Known(c) /\ c \notin M /\ Sub(c) = T
    BY <2>1, LaneAssumption DEF IInv, Held
  <2>15. Out(S)' => M = S BY <2>1, <2>2, <2>3, <2>9 DEF Out, AtProvider, Unsent, Typed
  <2>16. Held'
    <3> SUFFICES ASSUME NEW T \in Submission, Out(T)' PROVE \A c \in T : Known(c) /\ Sub(c)' = T
      BY <2>8 DEF Held
    <3>1. CASE T = S BY <2>1, <2>6, <2>15, <3>1
    <3>2. CASE T # S BY <2>5, <2>13, <2>14, <3>2
    <3> QED BY <3>1, <3>2
  <2>17. NotUnsent'
    <3> SUFFICES ASSUME NEW T \in Submission, AtProvider(T)', NEW c \in T PROVE State(c)' # "not_submitted"
      BY DEF NotUnsent
    <3>1. CASE T = S BY <2>1, <2>5, <2>6, <3>1
    <3>2. CASE T # S
      <4>1. AtProvider(T) /\ Out(T) BY <2>13, <3>2 DEF Out
      <4> QED BY <2>5, <2>14, <4>1 DEF IInv, NotUnsent
    <3> QED BY <3>1, <3>2
  <2>18. Underway'
    <3> SUFFICES ASSUME NEW T \in Submission
        PROVE  /\ T \in net' => jobs'[T] = "none"
               /\ T \in sending' \cup looking' => subs'[T].state \notin Unsent
               /\ T \in sending' /\ jobs'[T] = "none" => \A c \in T : State(c)' = "queued"
               /\ subs'[T].state = "prepared" => CutSaves /\ ~AtProvider(T)'
               /\ jobs'[T] = "ended" => \A c \in T : outcome'[c] \in Outcome
      BY DEF Underway
    <3>1. /\ T \in net => jobs[T] = "none"
          /\ T \in sending \cup looking => subs[T].state \notin Unsent
          /\ T \in sending /\ jobs[T] = "none" => \A c \in T : State(c) = "queued"
          /\ subs[T].state = "prepared" => CutSaves /\ ~AtProvider(T)
          /\ jobs[T] = "ended" => \A c \in T : outcome[c] \in Outcome
      BY DEF IInv, Underway
    <3>2. CASE T = S
      <4>1. S \notin net /\ jobs[S] = "none" /\ S \notin sending \cup looking
        BY <2>1, <3>1, <3>2 DEF Out, AtProvider
      <4>2. subs'[S].state = "prepared" => CutSaves /\ S \notin net'
        BY <1>1, <2>1, <2>2, <4>1 DEF Typed
      <4>3. S \in sending' \cup looking' => subs'[S].state = "sending" /\ M = S
        BY <1>1, <2>1, <2>2, <4>1 DEF Typed
      <4> QED BY <2>3, <2>6, <3>2, <4>1, <4>2, <4>3 DEF AtProvider, Unsent
    <3>3. CASE T # S
      <4>1. T \in sending' => T \in sending /\ Out(T) BY <2>2, <3>1, <3>3 DEF Out
      <4>2. T \in looking' => T \in looking BY <2>2, <3>3
      <4>3. T \in net' => T \in net BY <2>2, <3>3
      <4>4. T \in sending' => \A c \in T : State(c)' = State(c) BY <2>5, <2>14, <4>1
      <4> QED BY <2>3, <2>9, <2>13, <3>1, <3>3, <4>1, <4>2, <4>3, <4>4
    <3> QED BY <3>2, <3>3
  <2>19. Taken' BY <2>3 DEF IInv, Taken
  <2>20. Kept BY <2>7 DEF Kept, Changed
  <2> QED BY <2>10, <2>11, <2>12, <2>16, <2>17, <2>18, <2>19, <2>20 DEF IInv
<1> QED BY <1>2, <1>3

----------------------------------------------------------------------------
(* The provider's steps.                                                   *)

\* The records stand where the disk and the process do.
LEMMA ProviderLeaves ==
  ASSUME UNCHANGED <<disk, memory>>
  PROVE  /\ \A c : (Known(c)' <=> Known(c)) /\ (IsLast(c)' <=> IsLast(c)) /\ AttemptOf(c)' = AttemptOf(c)
         /\ \A c : State(c)' = State(c) /\ Sub(c)' = Sub(c)
         /\ Kept
         /\ IInv => Grouped' /\ Followed' /\ Reserved'
<1>1. \A c : (Known(c)' <=> Known(c)) /\ (IsLast(c)' <=> IsLast(c)) /\ AttemptOf(c)' = AttemptOf(c)
  BY DEF disk, Known, Exists, IsLast, AttemptOf
<1>2. \A c : State(c)' = State(c) /\ Sub(c)' = Sub(c) BY <1>1 DEF State, Sub
<1>3. UNCHANGED <<group, reserved>> BY DEF disk, memory
<1>4. Kept BY <1>2 DEF Kept
<1>5. IInv => Grouped' /\ Followed' BY <1>1, <1>2, <1>3 DEF IInv, Grouped, Followed
<1>6. IInv => Reserved' BY <1>1, <1>2, <1>3 DEF IInv, Reserved
<1> QED BY <1>1, <1>2, <1>4, <1>5, <1>6

LEMMA AcceptStep == ASSUME IInv, NEW S \in Submission, Accept(S) PROVE IInv' /\ Kept
<1>1. /\ Typed /\ S \in net /\ jobs[S] = "none" /\ net' = net \ {S} /\ UNCHANGED <<disk, memory, outcome>>
      /\ UNCHANGED <<items, subs, reserved, waiters, group, sending, looking>>
      /\ jobs' = [jobs EXCEPT ![S] = "live"]
  BY DEF IInv, Underway, Accept, disk, memory
<1>2. /\ jobs' \in [Submission -> {"none", "live", "ended"}] /\ jobs'[S] = "live"
      /\ \A T \in Submission : T # S => jobs'[T] = jobs[T]
  BY <1>1 DEF Typed
<1>3. /\ \A c : (Known(c)' <=> Known(c)) /\ State(c)' = State(c) /\ Sub(c)' = Sub(c)
      /\ Kept /\ Grouped' /\ Followed' /\ Reserved'
  BY <1>1, ProviderLeaves
<1>4. \A T \in Submission : Out(T) => \A c \in T : Known(c) /\ Sub(c) = T BY DEF IInv, Held
<1>5. AtProvider(S) /\ Out(S) BY <1>1 DEF Out, AtProvider
<1>6. \A c \in S : accepted[c] = 0
  <2> SUFFICES ASSUME NEW c \in S, accepted[c] # 0 PROVE FALSE OBVIOUS
  <2>1. c \in CustomId /\ Sub(c) = S BY <1>4, <1>5 DEF Known
  <2>2. accepted[c] \in 0..2 BY <1>1, <2>1 DEF Typed
  <2>3. PICK T \in Submission : c \in T /\ jobs[T] # "none" BY <2>1, <2>2 DEF IInv, Taken
  <2>4. Sub(c) = T BY <1>4, <2>3 DEF Out, AtProvider
  <2> QED BY <1>1, <2>1, <2>3, <2>4
<1>7. /\ accepted' \in [CustomId -> 0..2]
      /\ \A c \in CustomId : accepted'[c] = IF c \in S THEN 1 ELSE accepted[c]
  <2>1. \A c \in CustomId : accepted[c] \in 0..2 BY <1>1 DEF Typed
  <2>2. accepted' = [c \in CustomId |-> IF c \in S /\ accepted[c] < 2 THEN accepted[c] + 1 ELSE accepted[c]]
    BY DEF Accept
  <2>3. \A c \in CustomId : accepted'[c] = IF c \in S THEN 1 ELSE accepted[c] BY <1>6, <2>1, <2>2
  <2>4. \A c \in CustomId : accepted'[c] \in 0..2 BY <2>1, <2>3
  <2> QED BY <2>2, <2>3, <2>4
<1>8. Typed'
  <2>1. net' \subseteq Submission BY <1>1 DEF Typed
  <2> QED BY <1>1, <1>2, <1>3, <1>7, <2>1 DEF Typed
<1>9. Named'
  <2>1. \A c : Known(c) => Sub(c) \in Submission \cup {Null}
    BY <1>1, Places DEF Attempt, Sub
  <2>2. \A T \in Submission : jobs[T] = "ended" => jobs'[T] = "ended" BY <1>1, <1>2
  <2> QED BY <1>1, <1>3, <2>1, <2>2 DEF IInv, Named
<1>10. \A T \in Submission : (AtProvider(T)' => AtProvider(T)) /\ (Out(T)' => Out(T))
  BY <1>1, <1>2, <1>5 DEF Out, AtProvider
<1>11. Held' BY <1>3, <1>4, <1>10 DEF Held
<1>12. NotUnsent' BY <1>3, <1>10 DEF IInv, NotUnsent
<1>13. Underway' BY <1>1, <1>2, <1>3, <1>10 DEF IInv, Underway
<1>14. Taken'
  <2> SUFFICES ASSUME NEW c \in CustomId, accepted'[c] > 0
               PROVE  accepted'[c] = 1 /\ \E T \in Submission : c \in T /\ jobs'[T] # "none"
    BY DEF Taken
  <2>1. CASE c \in S BY <1>2, <1>7, <2>1
  <2>2. CASE c \notin S
    <3>1. accepted[c] = 1 /\ \E T \in Submission : c \in T /\ jobs[T] # "none"
      BY <1>7, <2>2 DEF IInv, Taken
    <3> QED BY <1>2, <1>7, <2>2, <3>1
  <2> QED BY <2>1, <2>2
<1> QED BY <1>3, <1>8, <1>9, <1>11, <1>12, <1>13, <1>14 DEF IInv

LEMMA JobEndsStep == ASSUME IInv, NEW S \in Submission, JobEnds(S) PROVE IInv' /\ Kept
<1>1. /\ Typed /\ jobs[S] = "live" /\ UNCHANGED <<disk, memory, net, accepted>>
      /\ UNCHANGED <<items, subs, reserved, waiters, group, sending, looking>>
      /\ jobs' = [jobs EXCEPT ![S] = "ended"]
  BY DEF IInv, JobEnds, disk, memory
<1>2. PICK f \in [S -> Outcome] : outcome' = [c \in CustomId |-> IF c \in S THEN f[c] ELSE outcome[c]]
  BY DEF JobEnds
<1>3. /\ jobs' \in [Submission -> {"none", "live", "ended"}] /\ jobs'[S] = "ended"
      /\ \A T \in Submission : T # S => jobs'[T] = jobs[T]
  BY <1>1 DEF Typed
<1>4. /\ \A c : (Known(c)' <=> Known(c)) /\ State(c)' = State(c) /\ Sub(c)' = Sub(c)
      /\ Kept /\ Grouped' /\ Followed' /\ Reserved'
  BY <1>1, ProviderLeaves
<1>5. /\ outcome' \in [CustomId -> Outcome \cup {"none"}]
      /\ \A c \in CustomId : IF c \in S THEN outcome'[c] \in Outcome ELSE outcome'[c] = outcome[c]
  BY <1>1, <1>2 DEF Typed
<1>6. Typed' BY <1>1, <1>3, <1>4, <1>5 DEF Typed
<1>7. Out(S) /\ \A T \in Submission : Out(T) => \A c \in T : Known(c) /\ Sub(c) = T
  BY <1>1 DEF IInv, Held, Out, AtProvider
<1>8. Named'
  <2> SUFFICES ASSUME NEW c, Known(c), State(c) \in {"succeeded", "cancelled"}
               PROVE  jobs'[Sub(c)] = "ended" /\ outcome'[c] = State(c)
    BY <1>4 DEF IInv, Named
  <2>1. Sub(c) # Null /\ jobs[Sub(c)] = "ended" /\ outcome[c] = State(c) BY DEF IInv, Named
  <2>2. Sub(c) \in Submission BY <1>1, <2>1, Places DEF Attempt, Sub
  <2>3. c \notin S BY <1>1, <1>7, <2>1
  <2> QED BY <1>1, <1>3, <1>5, <2>1, <2>2, <2>3 DEF Known
<1>9. \A T \in Submission : (AtProvider(T)' <=> AtProvider(T)) /\ (Out(T)' <=> Out(T))
  BY <1>1, <1>3 DEF Out, AtProvider
<1>10. Held' BY <1>4, <1>7, <1>9 DEF Held
<1>11. NotUnsent' BY <1>4, <1>9 DEF IInv, NotUnsent
<1>12. Underway'
  <2>1. \A T \in Submission : T \subseteq CustomId BY DEF Submission
  <2>2. \A T \in Submission : jobs'[T] = "ended" => \A c \in T : outcome'[c] \in Outcome
    BY <1>3, <1>5, <2>1 DEF IInv, Underway
  <2> QED BY <1>1, <1>3, <1>4, <1>9, <2>2 DEF IInv, Underway
<1>13. Taken' BY <1>1, <1>3 DEF IInv, Taken
<1> QED BY <1>4, <1>6, <1>8, <1>10, <1>11, <1>12, <1>13 DEF IInv

----------------------------------------------------------------------------
(* The theorems.                                                           *)

LEMMA InitIInv == Init => IInv
<1> SUFFICES ASSUME Init PROVE IInv OBVIOUS
<1> USE DEF Init
<1>1. \A c : ~Known(c)
  <2>1. \A c \in CustomId : c[1] \in Item /\ c[2] \in 1..MaximumAttempts BY DEF CustomId
  <2> QED BY <2>1, LaneAssumption DEF Known, Exists
<1>2. Typed BY <1>1, LaneAssumption DEF Typed, SubmissionRecord, SubmissionState, Outcome
<1>3. Grouped BY FS_EmptySet, LaneAssumption DEF Grouped
<1>4. Followed /\ Named /\ Reserved BY <1>1 DEF Followed, Named, Reserved
<1>5. Held /\ NotUnsent /\ Underway BY DEF Held, NotUnsent, Underway, Out, AtProvider, Unsent
<1>6. Taken BY DEF Taken
<1> QED BY <1>2, <1>3, <1>4, <1>5, <1>6 DEF IInv

LEMMA StepIInv == ASSUME SavesApart, IInv, [Next]_vars PROVE IInv' /\ Kept
<1>1. CASE UNCHANGED vars
  <2>1. UNCHANGED <<items, subs, reserved, waiters, group, sending, looking, net, jobs, outcome, accepted>>
    BY <1>1 DEF vars, disk, memory, provider
  <2>2. \A T \in Submission : /\ Out(T)' => Out(T)
                              /\ T \in sending' \cup looking' => subs'[T].state \notin Unsent
    BY <2>1 DEF IInv, Underway, Out, AtProvider
  <2> QED BY <2>1, <2>2, SameReserved, RecordsStand DEF IInv, Typed
<1>2. ASSUME NEW i \in Item, ItemStep(i) PROVE IInv' /\ Kept
  BY <1>2, FreshStep, StopStep, UnsentStep, PreparedStep, WaitStep DEF ItemStep
<1>3. ASSUME NEW S \in Submission, SubmissionStep(S) PROVE IInv' /\ Kept
  <2>1. CASE Reply(S) \/ Lookup(S) \/ Loop(S)
    BY <2>1, SubmittedStep, RejectedStep, UnacknowledgedStep, NotFoundStep, LoopStep, CollectStep
    DEF Reply, Lookup, Loop
  <2>2. CASE ~(Reply(S) \/ Lookup(S) \/ Loop(S))
    BY <1>3, <2>2, SubmittedStep, RejectedStep, CollectStep, ResolveStep, AcceptStep, LoseStep, JobEndsStep
    DEF SubmissionStep
  <2> QED BY <2>1, <2>2
<1> QED BY <1>1, <1>2, <1>3, CancelStep, FlushStep, StopStep DEF Next

\* What the provider took is a known attempt, not one recorded as unsent.
LEMMA TakenKnown ==
  ASSUME IInv, NEW c \in CustomId, accepted[c] > 0
  PROVE  accepted[c] = 1 /\ Known(c) /\ State(c) # "not_submitted"
<1>1. PICK S \in Submission : c \in S /\ jobs[S] # "none" BY DEF IInv, Taken
<1>2. AtProvider(S) /\ Out(S) BY <1>1 DEF Out, AtProvider
<1> QED BY <1>1, <1>2 DEF IInv, Taken, Held, NotUnsent

\* Of two known attempts of an item the earlier one is not the last.
LEMMA EarlierFollowed ==
  ASSUME IInv, NEW c, NEW d, Known(c), Known(d), c[1] = d[1], c # d
  PROVE  c[2] < d[2] \/ d[2] < c[2]
<1>1. Typed BY DEF IInv
<1>2. /\ c = <<c[1], c[2]>> /\ d = <<d[1], d[2]>> /\ c[1] \in Item
      /\ c[2] \in 1..Len(items[c[1]]) /\ d[2] \in 1..Len(items[c[1]]) /\ Len(items[c[1]]) \in Nat
  BY <1>1, Places
<1> QED BY <1>2

LEMMA SentOnce == IInv => NoBlindResubmission
<1> SUFFICES ASSUME IInv PROVE NoBlindResubmission OBVIOUS
<1>1. \A c \in CustomId : accepted[c] \in 0..2 BY DEF IInv, Typed
<1>2. \A c \in CustomId : accepted[c] <= 1 BY <1>1, TakenKnown
<1>3. ASSUME NEW c \in CustomId, NEW d \in CustomId, c[1] = d[1], Billable(c), Billable(d), c[2] < d[2]
      PROVE  FALSE
  <2>1. Known(c) /\ Known(d) /\ State(c) # "not_submitted" BY <1>3, TakenKnown DEF Billable
  <2>2. ~IsLast(c)
    <3>1. d[2] \in 1..Len(items[c[1]]) /\ c[2] \in Nat BY <1>3, <2>1, Places DEF IInv
    <3> QED BY <1>3, <3>1 DEF IsLast
  <2>3. State(c) = "cancelled" BY <2>1, <2>2 DEF IInv, Followed
  <2>4. outcome[c] = "cancelled" BY <2>1, <2>3 DEF IInv, Named
  <2> QED BY <1>3, <2>4 DEF Billable
<1>4. ASSUME NEW c \in CustomId, NEW d \in CustomId, c[1] = d[1], Billable(c), Billable(d) PROVE c = d
  <2>1. Known(c) /\ Known(d) BY <1>4, TakenKnown DEF Billable
  <2> QED BY <1>3, <1>4, <2>1, EarlierFollowed
<1> QED BY <1>2, <1>4 DEF NoBlindResubmission

LEMMA RecordsTrue == IInv => RecordsAreTruthful
<1> SUFFICES ASSUME IInv PROVE RecordsAreTruthful OBVIOUS
<1>1. ASSUME NEW c \in CustomId, Exists(c)
      PROVE  /\ AttemptOf(c).state = "succeeded" => outcome[c] = "succeeded"
             /\ AttemptOf(c).state = "cancelled" => outcome[c] = "cancelled"
             /\ AttemptOf(c).state = "not_submitted" => accepted[c] = 0 /\ \A S \in net : c \notin S
  <2>1. Known(c) /\ State(c) = AttemptOf(c).state BY <1>1 DEF Known, State
  <2>2. State(c) \in {"succeeded", "cancelled"} => outcome[c] = State(c) BY <2>1 DEF IInv, Named
  <2>3. State(c) = "not_submitted" => accepted[c] = 0
    <3>1. accepted[c] \in 0..2 BY DEF IInv, Typed
    <3> QED BY <3>1, TakenKnown
  <2>4. ASSUME State(c) = "not_submitted", NEW S \in net PROVE c \notin S
    <3>1. S \in Submission BY DEF IInv, Typed
    <3> QED BY <2>4, <3>1 DEF IInv, NotUnsent, AtProvider
  <2> QED BY <2>1, <2>2, <2>3, <2>4
<1>2. ASSUME NEW c \in CustomId, NEW d \in CustomId, c[1] = d[1], c # d, accepted[c] > 0, accepted[d] > 0
      PROVE  AttemptOf(c).reservation # AttemptOf(d).reservation
  <2>1. /\ Known(c) /\ State(c) # "not_submitted" /\ Known(d) /\ State(d) # "not_submitted"
    BY <1>2, TakenKnown
  <2>2. c[2] < d[2] \/ d[2] < c[2] BY <1>2, <2>1, EarlierFollowed
  <2> QED BY <1>2, <2>1, <2>2 DEF IInv, Reserved
<1> QED BY <1>1, <1>2 DEF RecordsAreTruthful

\* BatchLane #plan, #reconcileThenPoll, resolveUncertain: the provider takes no
\* customId twice and never has two attempts of one item that it may bill.
THEOREM NothingIsSentBlindly ==
  ASSUME SavesApart
  PROVE  Spec => []NoBlindResubmission
<1>1. IInv /\ [Next]_vars => IInv' BY StepIInv
<1> QED BY <1>1, InitIInv, SentOnce, PTL DEF Spec

\* BatchLane #collect, #cancelItem, #plan: an attempt's record says what the
\* provider did, and only the reservation of an unsent attempt moves on.
THEOREM RecordsTellTheTruth ==
  ASSUME SavesApart
  PROVE  Spec => []RecordsAreTruthful
<1>1. IInv /\ [Next]_vars => IInv' BY StepIInv
<1> QED BY <1>1, InitIInv, RecordsTrue, PTL DEF Spec

\* BatchLane #updateMembers: no later save changes a record with a final outcome.
THEOREM FinalRecordsStay ==
  ASSUME SavesApart
  PROVE  Spec => ResultsKept
<1>1. IInv /\ [Next]_vars => IInv' BY StepIInv
<1>2. IInv /\ [Next]_vars =>
        [\A c \in CustomId : Exists(c) /\ ~Open(AttemptOf(c).state) => AttemptOf(c)'.state = AttemptOf(c).state]_vars
  <2> SUFFICES ASSUME IInv, [Next]_vars, NEW c \in CustomId, Exists(c), ~Open(AttemptOf(c).state)
               PROVE  AttemptOf(c)'.state = AttemptOf(c).state
    OBVIOUS
  <2>1. Kept BY StepIInv
  <2> QED BY <2>1 DEF Kept, Known, State, Open
<1> QED BY <1>1, <1>2, InitIInv, PTL DEF Spec, ResultsKept
=============================================================================
