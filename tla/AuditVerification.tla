------------------------- MODULE AuditVerification -------------------------
(***************************************************************************)
(* How an Audit has its candidates checked (ModelAuditPipeline.verify and  *)
(* #askVerifier): which candidates are asked about and in what groups, the *)
(* questions that follow a rejection, the bound all of them share, and     *)
(* what becomes of the candidates. Severities are 1 (high) to 3 (low), a   *)
(* candidate's id is its place on the board. Answers are recorded by       *)
(* activity, so a resumed run hears them again without asking.             *)
(***************************************************************************)
EXTENDS Naturals, FiniteSets, Sequences, SequencesExt, FiniteSetsExt

CONSTANTS
  Audits,        \* the audits looked at: a board with the options of its verification
  MaxTrouble,    \* declined questions and replies that stop at their ceiling
  MaxStops,      \* failures or crashes the run is resumed from
  Null

VARIABLES
  board, options,    \* what convergence left, and the run's configuration
  status,            \* "ready", "asking" or "done"
  groups,            \* the questions of this execution, in groups that share a call
  limited,           \* candidates whose question fits no call
  at,                \* how far each candidate is in this execution
  spare, notAsked,   \* what the bound leaves, and what it left out
  calls,             \* questions put in this execution
  answers,           \* what was recorded for a question, kept across executions
  disposition,       \* of every candidate, once published
  trouble, stops

vars == <<board, options, status, groups, limited, at, spare, notAsked, calls, answers, disposition, trouble, stops>>

Outcomes == {"CONFIRMED", "REJECTED", "STILL_NEEDS_VERIFICATION"}
Open == "STILL_NEEDS_VERIFICATION"
Infinite == 99
Candidate == DOMAIN board

(* A finding is at a file and a range of its lines. *)
Overlap(f, g) == f[1] = g[1] /\ f[2] <= g[3] /\ g[2] <= f[3]
Tied(fs, i, j) == Overlap(fs[i], fs[j]) \/ \E k \in DOMAIN fs : Overlap(fs[i], fs[k]) /\ Overlap(fs[k], fs[j])
PlaceOf(fs, i) == {j \in DOMAIN fs : Tied(fs, i, j)}
FindingsByPlace(fs) == SetToSortSeq({PlaceOf(fs, i) : i \in DOMAIN fs}, LAMBDA a, b : Min(a) < Min(b))
Paths(c) == {board[c].findings[i][1] : i \in DOMAIN board[c].findings}

(* One reviewer's lowering out of the plan's scope does not count. *)
InScope(severity) == severity <= options.minimum
Severity(c) ==
  LET k == board[c] IN
  IF InScope(k.found) /\ ~InScope(k.now) /\ Cardinality(k.loweredBy) = 1 THEN k.found ELSE k.now

Ranked ==
  SetToSortSeq(Candidate, LAMBDA a, b :
    \/ Severity(a) < Severity(b)
    \/ Severity(a) = Severity(b) /\ board[a].support > board[b].support
    \/ Severity(a) = Severity(b) /\ board[a].support = board[b].support /\ a < b)
Skipped == {c \in Candidate : options.skip /\ ~InScope(Severity(c))}
Items == SelectSeq(Ranked, LAMBDA c : c \notin Skipped)
CheckerOf(c) == IF Severity(c) = 1 THEN "verifier" ELSE "mediumVerifier"

Init ==
  /\ \E a \in Audits : board = a.board /\ options = a.options
  /\ status = "ready" /\ groups = <<>> /\ limited = {} /\ at = [c \in Candidate |-> Null]
  /\ spare = 0 /\ notAsked = {} /\ calls = 0 /\ answers = <<>> /\ disposition = Null
  /\ trouble = 0 /\ stops = 0

----------------------------------------------------------------------------
(* Questions: one about a candidate or a place of it, a second opinion, or one of a group; at a higher   *)
(* output ceiling it is a question of its own.                                                           *)
Question(kind, about, place) == [kind |-> kind, about |-> about, place |-> place, higher |-> FALSE]
First(c) == Question("question", <<c>>, 0)
Place(c, i) == Question("place", <<c>>, i)
Second(c) == Question("second", <<c>>, 0)
Together(g) == Question("group", g, 0)
Higher(q) == [q EXCEPT !.higher = TRUE]
Bound == IF options.bound = Null THEN Infinite ELSE options.bound

(* A question that stopped at its ceiling was small enough; a resume finds it recorded. *)
OutputLimited(c) == First(c) \in DOMAIN answers /\ answers[First(c)].kind = "ceiling"
Fits(c) == OutputLimited(c) \/ board[c].fits

Requests ==
  LET fitting == SelectSeq(Items, Fits)
  IN  SubSeq(fitting, 1, Min({Len(fitting), Bound}))

(* group: the first question not yet taken, with later ones of its checker that cite a file it reads.  *)
Take(group, c) ==
  LET files == UNION {Paths(d) : d \in ToSet(group)} IN
  IF /\ Len(group) < options.perCall
     /\ CheckerOf(c) = CheckerOf(group[1])
     /\ Paths(c) \cap files # {}
     /\ Cardinality(files \union Paths(c)) <= options.filesPerCall
  THEN Append(group, c) ELSE group
RECURSIVE Grouped(_)
Grouped(requests) ==
  IF requests = <<>> THEN <<>>
  ELSE LET group == FoldLeft(Take, <<Head(requests)>>, Tail(requests))
       IN  <<group>> \o Grouped(SelectSeq(requests, LAMBDA c : c \notin ToSet(group)))

Begin ==
  /\ status = "ready"
  /\ groups' = Grouped(Requests)
  /\ limited' = {c \in ToSet(Items) : ~Fits(c)}
  /\ spare' = Bound - Len(groups')
  /\ at' = [c \in Candidate |-> Null] /\ notAsked' = {} /\ calls' = 0 /\ status' = "asking"
  /\ UNCHANGED <<board, options, answers, disposition, trouble, stops>>

(* Where a candidate is: "asked" its question q, "heard" its answer, waiting for its "turn" in a group  *)
(* that was split, or "settled"; confirmed are its places.                                             *)
Stage(stage, q, outcome, confirmed) == [stage |-> stage, q |-> q, outcome |-> outcome, confirmed |-> confirmed]
Asked(q, confirmed) == Stage("asked", q, Null, confirmed)
Settled(outcome, confirmed) == Stage("settled", Null, outcome, confirmed)
Is(c, stage) == at[c] # Null /\ at[c].stage = stage
IsOf(c, stage, kinds) == Is(c, stage) /\ at[c].q.kind \in kinds
Ended(g) == \A i \in DOMAIN g : Is(g[i], "settled")
Started(g) == at[g[1]] # Null

(* As many at a time as the run allows; their order is that of the files they cite, here any. *)
Start ==
  /\ status = "asking"
  /\ Cardinality({i \in DOMAIN groups : Started(groups[i]) /\ ~Ended(groups[i])}) < options.parallel
  /\ \E i \in DOMAIN groups :
       /\ ~Started(groups[i])
       /\ at' = [c \in Candidate |->
                   IF c \notin ToSet(groups[i]) THEN at[c]
                   ELSE Asked(IF Len(groups[i]) = 1 THEN First(c) ELSE Together(groups[i]), {})]
  /\ calls' = calls + 1
  /\ UNCHANGED <<board, options, status, groups, limited, spare, notAsked, answers, disposition, trouble, stops>>

(* What the provider answers: an outcome for each candidate asked about, a reply that stops at its       *)
(* ceiling, or nothing valid; what is on record is heard again. Without an answer a candidate stays open. *)
Replies(q) ==
  [kind : {"answered"}, to : [ToSet(q.about) -> Outcomes]]
    \union [kind : {"ceiling", "declined"}, to : {[c \in ToSet(q.about) |-> Open]}]
Hears(q, reply) ==
  IF q \in DOMAIN answers THEN reply = answers[q] /\ UNCHANGED <<answers, trouble>>
  ELSE /\ reply.kind # "answered" => trouble < MaxTrouble
       /\ trouble' = IF reply.kind # "answered" THEN trouble + 1 ELSE trouble
       /\ answers' = IF reply.kind = "declined" THEN answers
                     ELSE [k \in DOMAIN answers \union {q} |-> IF k = q THEN reply ELSE answers[k]]
Allowed == spare >= 1
Ask(c, q, confirmed) == at' = [at EXCEPT ![c] = Asked(q, confirmed)]
Spend == spare' = spare - 1 /\ calls' = calls + 1

(* askTogether: a group that fails is asked one at a time, out of what is spare. *)
AnswerGroup ==
  /\ status = "asking"
  /\ \E g \in ToSet(groups) : \E reply \in Replies(Together(g)) :
       /\ IsOf(g[1], "asked", {"group"})
       /\ Hears(Together(g), reply)
       /\ at' = [c \in Candidate |->
                   IF c \notin ToSet(g) THEN at[c]
                   ELSE IF reply.kind # "answered" THEN Stage("turn", Together(g), Null, {})
                   ELSE Stage("heard", Together(g), reply.to[c], {})]
  /\ UNCHANGED <<board, options, status, groups, limited, spare, notAsked, calls, disposition, stops>>

(* One question of a split group, after those before it: asked when the bound leaves one. *)
Turn(c) ==
  \A i, j \in DOMAIN at[c].q.about : j < i /\ at[c].q.about[i] = c =>
    Is(at[c].q.about[j], "heard") \/ Is(at[c].q.about[j], "settled")
AskAlone ==
  /\ status = "asking"
  /\ \E c \in Candidate :
       /\ Is(c, "turn") /\ Turn(c)
       /\ IF Allowed THEN Ask(c, First(c), {}) /\ Spend /\ UNCHANGED notAsked
          ELSE /\ at' = [at EXCEPT ![c] = Settled(Open, {})]
               /\ notAsked' = notAsked \union {c} /\ UNCHANGED <<spare, calls>>
  /\ UNCHANGED <<board, options, status, groups, limited, answers, disposition, trouble, stops>>

(* askOne and unanswered: a reply that stops at its ceiling is asked for once more at twice the ceiling; *)
(* a question without an answer leaves open what it is about.                                            *)
Raises(q) == ~q.higher /\ options.raises
Answer ==
  /\ status = "asking"
  /\ \E c \in {d \in Candidate : IsOf(d, "asked", {"question", "place", "second"})} : \E reply \in Replies(at[c].q) :
       /\ Hears(at[c].q, reply)
       /\ LET q == at[c].q
              raised == reply.kind = "ceiling" /\ Raises(q)
          IN  IF raised /\ Allowed THEN Ask(c, Higher(q), at[c].confirmed) /\ Spend /\ UNCHANGED notAsked
              ELSE /\ at' = [at EXCEPT ![c].stage = "heard", ![c].outcome = reply.to[c]]
                   /\ notAsked' = IF raised THEN notAsked \union {c} ELSE notAsked
                   /\ UNCHANGED <<spare, calls>>
  /\ UNCHANGED <<board, options, status, groups, limited, disposition, stops>>

(* The places of a rejected merge, asked one by one; then the second opinion on a severe rejection. *)
Places(c) == FindingsByPlace(board[c].findings)
ReasksPlaces(c) ==
  /\ Len(Places(c)) >= 2
  /\ options.reask = "always" \/ Cardinality(Paths(c)) >= 2
NeedsSecondIfVoted(c) ==
  options.second /\ Severity(c) = 1 /\ \E v \in board[c].votes : v # "reject"
NeedsSecond(c) ==
  /\ options.second /\ Severity(c) = 1
  /\ board[c].votes = {} \/ \E v \in board[c].votes : v # "reject"

AskPlace(c, i, confirmed) ==
  Ask(c, Place(c, i), confirmed) /\ Spend /\ UNCHANGED notAsked
ConfirmRejection(c, left) ==
  \/ /\ ~NeedsSecond(c)
     /\ at' = [at EXCEPT ![c] = Settled("REJECTED", {})]
     /\ notAsked' = notAsked \union left /\ UNCHANGED <<spare, calls>>
  \/ /\ NeedsSecond(c) /\ Allowed
     /\ Ask(c, Second(c), {}) /\ Spend
     /\ notAsked' = notAsked \union left
  \/ /\ NeedsSecond(c) /\ ~Allowed
     /\ at' = [at EXCEPT ![c] = Settled(Open, {})]
     /\ notAsked' = notAsked \union {c} /\ UNCHANGED <<spare, calls>>
(* Mutant of AfterPlaces: a rejected merge is rejected whatever was confirmed of its places. *)
AfterPlacesLost(c, confirmed, left) == ConfirmRejection(c, left)
AfterPlaces(c, confirmed, left) ==
  \/ /\ confirmed # {}
     /\ at' = [at EXCEPT ![c] = Settled("CONFIRMED", confirmed)]
     /\ notAsked' = notAsked \union left /\ UNCHANGED <<spare, calls>>
  \/ confirmed = {} /\ ConfirmRejection(c, left)

(* What follows a first answer, once every question of its group has one. *)
GroupHeard(c) ==
  \A g \in ToSet(groups) : c \in ToSet(g) =>
    \A d \in ToSet(g) : ~Is(d, "turn") /\ ~IsOf(d, "asked", {"group", "question"})
Follow ==
  /\ status = "asking"
  /\ \E c \in Candidate :
       /\ IsOf(c, "heard", {"question", "group"}) /\ GroupHeard(c)
       /\ \/ /\ at[c].outcome # "REJECTED"
             /\ at' = [at EXCEPT ![c] = Settled(at[c].outcome, {})] /\ UNCHANGED <<spare, calls, notAsked>>
          \/ at[c].outcome = "REJECTED" /\ ReasksPlaces(c) /\ Allowed /\ AskPlace(c, 1, {})
          \/ at[c].outcome = "REJECTED" /\ ReasksPlaces(c) /\ ~Allowed /\ ConfirmRejection(c, {c})
          \/ at[c].outcome = "REJECTED" /\ ~ReasksPlaces(c) /\ ConfirmRejection(c, {})
  /\ UNCHANGED <<board, options, status, groups, limited, answers, disposition, trouble, stops>>

(* What follows the answer about a place. *)
FollowPlace ==
  /\ status = "asking"
  /\ \E c \in Candidate :
       /\ IsOf(c, "heard", {"place"})
       /\ LET i == at[c].q.place
              confirmed == at[c].confirmed \union IF at[c].outcome = "CONFIRMED" THEN {i} ELSE {}
          IN  \/ i < Len(Places(c)) /\ Allowed /\ AskPlace(c, i + 1, confirmed)
              \/ i < Len(Places(c)) /\ ~Allowed /\ AfterPlaces(c, confirmed, {c})
              \/ i = Len(Places(c)) /\ AfterPlaces(c, confirmed, {})
  /\ UNCHANGED <<board, options, status, groups, limited, answers, disposition, trouble, stops>>

(* A severe rejection stands only when the second model rejects too. *)
Seconded(outcome) == IF outcome = "REJECTED" THEN "REJECTED" ELSE Open
FollowSecond ==
  /\ status = "asking"
  /\ \E c \in Candidate :
       /\ IsOf(c, "heard", {"second"})
       /\ at' = [at EXCEPT ![c] = Settled(Seconded(at[c].outcome), {})]
  /\ UNCHANGED <<board, options, status, groups, limited, spare, notAsked, calls, answers, disposition, trouble, stops>>

----------------------------------------------------------------------------
(* settleItem and canonicaliseIssues: what each candidate becomes. *)
Verified(c) ==
  CASE c \in Skipped -> Null
    [] at[c] = Null -> Open
    [] OTHER -> at[c].outcome
DispositionOf(c) ==
  LET v == Verified(c) IN
  IF options.auditors = 1 THEN IF v = "CONFIRMED" THEN "verified_single_source" ELSE "single_source"
  ELSE CASE v = "CONFIRMED" -> "accepted"
         [] v = "REJECTED" -> "rejected"
         [] v = Open -> "needs_verification"
         [] OTHER -> board[c].consensus
Finish ==
  /\ status = "asking" /\ \A i \in DOMAIN groups : Ended(groups[i])
  /\ status' = "done"
  /\ disposition' = [c \in Candidate |-> [is |-> DispositionOf(c), stands |->
       IF at[c] = Null THEN {} ELSE at[c].confirmed]]
  /\ UNCHANGED <<board, options, groups, limited, at, spare, notAsked, calls, answers, trouble, stops>>

(* The call fails in a way no question absorbs, or the process ends; the run is resumed. *)
Stop ==
  /\ status = "asking" /\ stops < MaxStops
  /\ stops' = stops + 1 /\ status' = "ready"
  /\ UNCHANGED <<board, options, groups, limited, at, spare, notAsked, calls, answers, disposition, trouble>>

Next == Begin \/ Start \/ AnswerGroup \/ AskAlone \/ Answer \/ Follow \/ FollowPlace \/ FollowSecond \/ Finish \/ Stop
Spec == Init /\ [][Next]_vars

----------------------------------------------------------------------------
(* What was heard about a candidate by a question of a kind, at either ceiling. *)
Heard(c, q, outcome) ==
  \E h \in {q, Higher(q)} : h \in DOMAIN answers /\ answers[h].kind = "answered" /\ answers[h].to[c] = outcome
HeardFirst(c, outcome) ==
  Heard(c, First(c), outcome) \/ \E g \in ToSet(groups) : c \in ToSet(g) /\ Heard(c, Together(g), outcome)

(* A severe candidate that not every vote rejects needs a second model to reject it.                  *)
SevereAndBacked(c) == options.second /\ Severity(c) = 1 /\ board[c].votes # {"reject"}

(* #askVerifier: no execution puts more questions than its bound, first ones, re-asked places, second  *)
(* opinions, raised ceilings and split groups together; what the bound leaves out is less important    *)
(* than what is asked. A candidate is planned only on a confirmation of itself, or of exactly the      *)
(* places it then stands for. It is rejected only on a rejection of it, and never though a place of it *)
(* was confirmed; one that is severe and backed only when a second model rejects it too. All of it     *)
(* also after resumes that hear recorded answers. (A resumed execution whose bound is spent on other   *)
(* questions does not hear what an earlier one was told of a place, so a resume excuses a candidate    *)
(* that no second opinion protects.)                                                                   *)
VerifiedForReason ==
  /\ options.bound # Null => calls <= options.bound /\ spare \in Nat
  /\ status = "done" => \A c \in Candidate \ Skipped :
       /\ disposition[c].is \in {"accepted", "verified_single_source"} =>
            \/ disposition[c].stands = {} /\ HeardFirst(c, "CONFIRMED")
            \/ /\ disposition[c].stands # {} /\ HeardFirst(c, "REJECTED")
               /\ \A i \in disposition[c].stands : Heard(c, Place(c, i), "CONFIRMED")
       /\ disposition[c].is = "rejected" =>
            /\ HeardFirst(c, "REJECTED") /\ (SevereAndBacked(c) => Heard(c, Second(c), "REJECTED"))
            /\ stops = 0 \/ options.bound = Null \/ SevereAndBacked(c) =>
                 \A i \in DOMAIN Places(c) : ~Heard(c, Place(c, i), "CONFIRMED")
       /\ at[c] = Null /\ c \notin limited =>
            \A d \in ToSet(Items) : at[d] # Null => Severity(d) <= Severity(c)
=============================================================================
