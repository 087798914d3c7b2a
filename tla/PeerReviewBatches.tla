------------------------- MODULE PeerReviewBatches -------------------------
(***************************************************************************)
(* One reviewer's peer-review round: its candidates are packed into review *)
(* batches that fit a call, and pairs that ended up in different batches   *)
(* into merge checks; batches are asked side by side; one that stops at    *)
(* the output ceiling halves the reviewer's durable limit and the batches  *)
(* are planned again, with every answered batch taken from its record.     *)
(*                                                                         *)
(* A candidate is its place in the view; its size is what it adds to a     *)
(* call. Source context and the operations of a reply are left out.        *)
(***************************************************************************)
EXTENDS Naturals, Sequences, FiniteSets, FiniteSetsExt, SequencesExt, TLC

CONSTANTS
  Sizes,          \* the sizes of the candidates, in view order
  Budget,         \* what a call is packed to
  Required,       \* what a call that has to be sent may hold
  MaxCandidates,  \* outputRecordLimit of a review
  MaxSegments,    \* MAXIMUM_PAIR_SEGMENTS
  MergeChecks,    \* which settings of crossBatchMergeChecks
  Concurrency,    \* maximumParallelCalls
  MaxReplans,     \* replanOnOutputLimit's own bound
  MaxTrouble,     \* bound: calls that are not answered
  MaxCrashes,     \* bound: crashes
  Null

VARIABLES
  checks,         \* crossBatchMergeChecks
  limits, record, \* durable: peer-review-batch-limits, and how each batch's call ended
  pc,             \* "plan", "ask", "replan", "done" or "failed"
  parts, next, flying, ended,  \* the plan, the next of it to start, in flight, and how it ended
  retired,        \* batches that made it plan again
  why,            \* why it failed
  trouble, crashes

plan == <<parts, next, flying, ended>>
vars == <<checks, limits, record, pc, plan, retired, why, trouble, crashes>>

Candidates == DOMAIN Sizes
(* A batch, as its durable identity has it: a check of one pair names no pairs. *)
Batch(kind, ids, pairs, segment) == [kind |-> kind, ids |-> ids, pairs |-> pairs, segment |-> segment]
Review(ids) == Batch("review", ids, {}, Null)
Check(ids, pairs) == Batch("mergeCheck", ids, IF Cardinality(pairs) = 1 THEN {} ELSE pairs, Null)
Segment(ids, split, index, count) == Batch("mergeCheck", ids, {}, <<split, index, count>>)

Ended(part, how) == part \in DOMAIN record /\ record[part] = how

\* A part of a record: segments of equal length, the last one shorter.
SegmentSize(size, index, count) ==
  LET length == (size + count - 1) \div count
      Upto(k) == IF k * length > size THEN size ELSE k * length
  IN  Upto(index + 1) - Upto(index)

SizeOf(part) ==
  LET Of(c) == IF part.segment # Null /\ part.segment[1] = c
               THEN SegmentSize(Sizes[c], part.segment[2], part.segment[3]) ELSE Sizes[c]
      upTo[c \in 0..Len(Sizes)] == IF c = 0 THEN 0 ELSE upTo[c - 1] + IF c \in part.ids THEN Of(c) ELSE 0
  IN  upTo[Len(Sizes)]

\* Mutant of Fits: what stopped at its ceiling may be sent again.
FitsBySize(part) == SizeOf(part) <= Budget

\* sendable: one that stopped at its ceiling is not sent again.
Fits(part) == SizeOf(part) <= Budget /\ ~Ended(part, "ceiling")
StoppedAlone(part) == part.kind = "review" /\ Cardinality(part.ids) = 1 /\ Ended(part, "ceiling")
Admits(part) == (SizeOf(part) <= Required /\ ~Ended(part, "ceiling")) \/ StoppedAlone(part)

LesserOf(m, n) == IF m <= n THEN m ELSE n
GreaterOf(m, n) == IF m >= n THEN m ELSE n

\* reviewPartition: in order, as many as fit; one that fits nowhere is sent alone.
PutCandidate(p, c) ==
  IF Cardinality(p.current \union {c}) <= LesserOf(MaxCandidates, limits.review) /\ Fits(Review(p.current \union {c}))
  THEN [p EXCEPT !.current = @ \union {c}]
  ELSE LET full == IF p.current = {} THEN p.full ELSE Append(p.full, p.current) IN
       IF Fits(Review({c})) THEN [p EXCEPT !.full = full, !.current = {c}]
       ELSE [full |-> Append(full, {c}), current |-> {}, refused |-> p.refused \/ ~Admits(Review({c}))]

Partition ==
  LET from[s \in Nat \X [full : Seq(SUBSET Candidates), current : SUBSET Candidates, refused : BOOLEAN]] ==
        IF s[1] <= Len(Sizes) THEN from[<<s[1] + 1, PutCandidate(s[2], s[1])>>]
        ELSE [full |-> IF s[2].current = {} THEN s[2].full ELSE Append(s[2].full, s[2].current), refused |-> s[2].refused]
  IN  from[<<1, [full |-> <<>>, current |-> {}, refused |-> FALSE]>>]

Pairs(ids) == {{c, d} : c \in ids, d \in ids} \ {{c} : c \in ids}

\* segmentedPair: the fewest exact segments of one record that fit beside the other whole.
Segmented(pair) ==
  LET left == Min(pair)
      right == Max(pair)
      Of(split, count) == [i \in 1..count |-> Segment(pair, split, i - 1, count)]
      fit == {choice \in ({left, right} \X (2..MaxSegments)) : \A i \in 1..choice[2] : Fits(Of(choice[1], choice[2])[i])}
      fewest == {choice \in fit : \A other \in fit : choice[2] <= other[2]}
  IN  IF fit = {} THEN <<>>
      ELSE IF \E choice \in fewest : choice[1] = right THEN Of(right, Min({c[2] : c \in fewest}))
      ELSE Of(left, Min({c[2] : c \in fewest}))

\* A check of members covers the pairs of them that are left.
Packed(members, pending) == Check(members, Pairs(members) \cap pending)

\* A check of the first pair left, grown by the candidate that covers most pairs left.
Grown(pair, pending) ==
  LET Gain(c, members) == Cardinality({d \in members : {c, d} \in pending})
      most == GreaterOf(2, LesserOf(MaxCandidates, limits.mergeCheck))
      grow[s \in [members : SUBSET Candidates, tried : SUBSET Candidates]] ==
        LET left == {c \in Candidates \ (s.members \union s.tried) : Gain(c, s.members) > 0}
            best == {c \in left : \A d \in left : Gain(d, s.members) <= Gain(c, s.members)} IN
        IF Cardinality(s.members) >= most \/ left = {} THEN s.members
        ELSE LET c == Min(best) IN
             IF Fits(Packed(s.members \union {c}, pending))
             THEN grow[[members |-> s.members \union {c}, tried |-> s.tried \union {c}]]
             ELSE grow[[members |-> s.members, tried |-> s.tried \union {c}]]
  IN  grow[[members |-> pair, tried |-> {}]]

\* Every pair the partition separated is in some check.
MergeChecksOf(batches) ==
  LET apart == Pairs(Candidates) \ UNION {Pairs(batches[i]) : i \in DOMAIN batches}
      First(pending) == CHOOSE p \in pending : \A q \in pending :
                          Min(p) < Min(q) \/ (Min(p) = Min(q) /\ Max(p) <= Max(q))
      cover[pending \in SUBSET apart] ==
        IF pending = {} THEN <<>>
        ELSE LET pair == First(pending) IN
             IF Fits(Check(pair, {}))
             THEN LET members == Grown(pair, pending)
                  IN  <<Packed(members, pending)>> \o cover[pending \ Pairs(members)]
             ELSE LET segments == Segmented(pair)
                  IN  IF segments = <<>> THEN <<Null>> ELSE segments \o cover[pending \ {pair}]
  IN  cover[apart]

\* peerReviewBatches
Planned ==
  LET partition == Partition
      reviews == [i \in DOMAIN partition.full |-> Review(partition.full[i])]
  IN  IF partition.refused THEN <<Null>>
      ELSE reviews \o IF checks THEN MergeChecksOf(partition.full) ELSE <<>>

----------------------------------------------------------------------------
Init ==
  /\ checks \in MergeChecks
  /\ limits = [review |-> MaxCandidates, mergeCheck |-> MaxCandidates] /\ record = <<>>
  /\ pc = "plan" /\ parts = <<>> /\ next = 1 /\ flying = {} /\ ended = <<>>
  /\ retired = {} /\ why = Null /\ trouble = 0 /\ crashes = 0

Fail(reason) == pc' = "failed" /\ why' = reason

Plan ==
  /\ pc = "plan"
  /\ \E planned \in {Planned} :
       IF Null \in ToSet(planned)
       THEN Fail("limit exceeded") /\ UNCHANGED plan
       ELSE pc' = "ask" /\ parts' = planned /\ next' = 1 /\ flying' = {} /\ ended' = <<>> /\ UNCHANGED why
  /\ UNCHANGED <<checks, limits, record, retired, trouble, crashes>>

\* sideBySide: taken in order, and none after one has failed the plan.
Failed == {i \in DOMAIN ended : ended[i] \in {"ceiling", "fatal"}}
Start ==
  /\ pc = "ask" /\ next <= Len(parts) /\ Cardinality(flying) < Concurrency /\ Failed = {}
  /\ flying' = flying \union {next} /\ next' = next + 1
  /\ UNCHANGED <<checks, limits, record, pc, parts, ended, retired, why, trouble, crashes>>

Ends(part) ==
  IF part \in DOMAIN record THEN {record[part]}
  ELSE {"reply"} \union IF trouble = MaxTrouble THEN {} ELSE {"ceiling", "rejected", "fatal"}

\* Half of what stopped at the ceiling, for reviews and for checks each.
Halved(part) ==
  IF part.segment # Null \/ Cardinality(part.ids) <= (IF part.kind = "review" THEN 1 ELSE 2) THEN limits
  ELSE [limits EXCEPT ![part.kind] =
          LesserOf(@, GreaterOf(IF part.kind = "review" THEN 1 ELSE 2, Cardinality(part.ids) \div 2))]

Answer(i) ==
  /\ pc = "ask" /\ i \in flying
  /\ \E end \in Ends(parts[i]) :
       /\ trouble' = IF end = "reply" \/ parts[i] \in DOMAIN record THEN trouble ELSE trouble + 1
       /\ record' = IF end = "fatal" THEN record ELSE (parts[i] :> end) @@ record
       /\ limits' = IF end = "ceiling" THEN Halved(parts[i]) ELSE limits
       /\ ended' = (i :> IF end = "ceiling" /\ parts[i].kind = "review" /\ Cardinality(parts[i].ids) = 1
                         THEN "rejected" ELSE end) @@ ended
  /\ flying' = flying \ {i}
  /\ UNCHANGED <<checks, pc, parts, next, retired, why, crashes>>

\* All that started has ended: done, or the first failure in order is thrown.
Settle ==
  /\ pc = "ask" /\ flying = {} /\ (Failed # {} \/ next > Len(parts))
  /\ IF Failed = {} THEN pc' = "done" /\ UNCHANGED <<retired, why>>
     ELSE LET first == Min(Failed) IN
          IF ended[first] = "fatal" THEN Fail("fatal") /\ UNCHANGED retired
          ELSE IF parts[first] \in retired \/ Cardinality(retired) >= MaxReplans THEN Fail("retired") /\ UNCHANGED retired
          ELSE pc' = "plan" /\ retired' = retired \union {parts[first]} /\ UNCHANGED why
  /\ UNCHANGED <<checks, limits, record, plan, trouble, crashes>>

\* A crash between two calls, and the resume that plans from the records.
Crash ==
  /\ pc \notin {"done"} /\ why # "limit exceeded" /\ crashes < MaxCrashes
  /\ crashes' = crashes + 1
  /\ pc' = "plan" /\ parts' = <<>> /\ next' = 1 /\ flying' = {} /\ ended' = <<>> /\ retired' = {} /\ why' = Null
  /\ UNCHANGED <<checks, limits, record, trouble>>

\* The batch's own record is durable before the limit it halves.
CrashBeforeLimit(i) ==
  /\ pc = "ask" /\ i \in flying /\ crashes < MaxCrashes /\ trouble < MaxTrouble /\ parts[i] \notin DOMAIN record
  /\ crashes' = crashes + 1 /\ trouble' = trouble + 1
  /\ record' = (parts[i] :> "ceiling") @@ record
  /\ pc' = "plan" /\ parts' = <<>> /\ next' = 1 /\ flying' = {} /\ ended' = <<>> /\ retired' = {} /\ why' = Null
  /\ UNCHANGED <<checks, limits>>

Step == Plan \/ Start \/ (\E i \in flying : Answer(i)) \/ Settle
Next == Step \/ Crash \/ \E i \in flying : CrashBeforeLimit(i)
Spec == Init /\ [][Next]_vars

----------------------------------------------------------------------------
(* A finished round reviewed every candidate in exactly one batch, so a reviewer  *)
(* has one vote on each however often its batches were planned again; with merge  *)
(* checks every pair of candidates was before the reviewer in one call, or in     *)
(* segments that make up the whole record; and the round never failed because a   *)
(* batch that had stopped at its ceiling was planned once more                    *)
(* (peer-review-batches.ts peerReviewBatches, context-budget.ts                   *)
(* replanOnOutputLimit).                                                           *)
ReviewedOnce ==
  /\ why # "retired"
  /\ pc = "done" =>
       /\ \A c \in Candidates :
            Cardinality({i \in DOMAIN parts : parts[i].kind = "review" /\ c \in parts[i].ids}) = 1
       /\ checks => \A pair \in Pairs(Candidates) :
            \E i \in DOMAIN parts :
              /\ pair \subseteq parts[i].ids
              /\ parts[i].segment # Null =>
                   LET split == parts[i].segment[1]
                       mine == {p \in ToSet(parts) : p.ids = pair /\ p.segment # Null}
                       Of(p) == SegmentSize(Sizes[split], p.segment[2], p.segment[3])
                   IN  MapThenSumSet(Of, mine) = Sizes[split]
=============================================================================
