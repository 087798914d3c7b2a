----------------------------- MODULE PeerBoard -----------------------------
(***************************************************************************)
(* The peer-review rounds of an Audit and the board they write: reviewers  *)
(* answer against the board of the round's start, overlapping edits are    *)
(* set aside as conflicts, the rest is applied, and every candidate gets a *)
(* consensus outcome. From the second round the auditors are first asked   *)
(* to settle the conflicts.                                                *)
(*                                                                         *)
(* Claims, quotations and presentation are left out: every operation cites *)
(* evidence, and a reply is one disposition for what it is shown with at   *)
(* most one edit. Reviewers answer side by side, but no reply reads        *)
(* another and the board takes them in the order of the round, so they are *)
(* taken here in that order.                                               *)
(***************************************************************************)
EXTENDS Naturals, Sequences, FiniteSets, SequencesExt, FiniteSetsExt

CONSTANTS
  Group,       \* the independence group of each auditor
  Author,      \* the auditor of each finding of discovery
  Audits,      \* audits under check, as records with the fields
               \*   board: the candidates discovery leaves, each with its sources and severity
               \*   orders: the orders of the auditors a round may draw
               \*   policy: name, quorum and groups; rounds: maximumRounds
               \*   dispositions, edits: bounds on the votes and the other operations of replies
  Null

BoardAssumption ==
  \A a \in Audits : a.rounds \in 1..3 /\ \A p, q \in a.orders : Len(p) > 1 /\ IsInjective(p) /\ Range(p) = Range(q)

VARIABLES
  audit,
  panel,       \* the auditors, in the order of the round
  board,       \* candidate -> [sources, severity, votes, last, counter, parents, status, touched]
  conflicts,   \* operations set aside, in the order they were found
  round,
  pc,          \* "start", "resolve", "review", "done" or "error"
  asked,       \* conflicts still to put to the auditors this round
  replies,     \* one set of operations for each reviewer that has answered
  outcome,     \* candidate -> consensus, after the last round applied
  cast,        \* history: the last vote of each auditor on each candidate
  edits        \* operations other than votes so far

vars == <<audit, panel, board, conflicts, round, pc, asked, replies, outcome, cast, edits>>

policy == audit.policy
Auditors == Range(panel)
Active(b) == {c \in DOMAIN b : b[c].status \notin {"merged", "split"}}
AuthorOf(f) == IF f \in DOMAIN Author THEN Author[f] ELSE f[2]

Candidate(sources, severity, parents, counter) ==
  [sources |-> sources, severity |-> severity, votes |-> [a \in Auditors |-> Null], last |-> "open",
   counter |-> counter, parents |-> parents, status |-> "open", touched |-> round > 0]

Init ==
  /\ audit \in Audits /\ panel \in audit.orders
  /\ round = 0
  /\ board = [c \in DOMAIN audit.board |-> Candidate(audit.board[c].sources, audit.board[c].severity, {}, FALSE)]
  /\ conflicts = <<>> /\ pc = "start" /\ asked = <<>> /\ replies = <<>> /\ outcome = <<>> /\ cast = {} /\ edits = 0

----------------------------------------------------------------------------
(* What a reviewer is shown, and what its reply leaves.                     *)

Said(c) == {board[c].votes[a] : a \in Auditors} \ {Null}
Disputed(c) == Cardinality(Said(c)) > 1 \/ Said(c) \cap {"reject", "needs_verification"} # {} \/ board[c].counter

\* selectionReason
Selected(c, index) ==
  CASE round = 2 -> board[c].touched \/ Disputed(c)
    [] round = 3 -> board[c].status \in {"open", "needs_verification"}
    [] OTHER -> CASE policy.name = "full" -> TRUE
                  [] policy.name = "minimal" -> Disputed(c) \/ board[c].severity = "high" \/ Cardinality(board[c].sources) = 1
                  [] OTHER -> board[c].severity = "high" \/ index <= policy.quorum

Visible(c, r) == \E f \in board[c].sources : AuthorOf(f) # r
Shown(index) == {c \in Active(board) : Selected(c, index) /\ Visible(c, panel[index])}

Op(type, author, on, value) == [type |-> type, by |-> author, on |-> on, value |-> value, round |-> round]
Edits(r, shown) ==
  {Op("merge", r, pair, s) : pair \in kSubset(2, shown), s \in {"low", "high"}}
  \union {Op("split", r, {c}, "high") : c \in shown}
  \union {Op("severity", r, {c}, IF board[c].severity = "high" THEN s ELSE "high") : c \in shown, s \in {"low", "medium"}}
  \union {Op("counter", r, {c}, Null) : c \in shown}
  \union {Op("missing", r, {}, Null)}

\* A changed vote that cites nothing new is left out (changedVotesWithoutNewEvidence).
Votes(r, shown, disposition, fresh) ==
  {Op("vote", r, {c}, disposition) : c \in {d \in shown : fresh \/ board[d].votes[r] \in {Null, disposition}}}

----------------------------------------------------------------------------
(* Overlapping and contradictory operations.                                *)

Structural(o) == o.type \in {"merge", "split"}

\* All the operations reached from one by candidates they share.
Tied(o, ops) ==
  LET grow[n \in 0..Cardinality(ops)] ==
        IF n = 0 THEN {o} ELSE grow[n - 1] \union {p \in ops : \E q \in grow[n - 1] : p.on \cap q.on # {}}
  IN  grow[Cardinality(ops)]

Conflict(ops) == [on |-> UNION {o.on : o \in ops}, ops |-> ops]

\* adjudicatePeerOperations
Adjudicated(ops) ==
  LET structural == {o \in ops : Structural(o)}
      severities == {o \in ops : o.type = "severity"}
      Same(o) == {p \in severities : p.on = o.on}
  IN  {Conflict(g) : g \in {h \in {Tied(o, structural) : o \in structural} : Cardinality(h) > 1}}
      \union {Conflict(g) : g \in {h \in {Same(o) : o \in severities} : Cardinality({o.value : o \in h}) > 1}}

----------------------------------------------------------------------------
(* The board.                                                               *)

StatusOf == [open |-> "open", accept |-> "accepted", reject |-> "rejected", needs_verification |-> "needs_verification"]
Made(o, part) == <<o.type, o.by, o.round, part, o.on>>
Parts(o) == CASE o.type = "split" -> {1, 2} [] o.type \in {"merge", "missing"} -> {1} [] OTHER -> {}

\* Mutant of Inherit: the votes of a parent come with its evidence.
InheritVotes(b, o) ==
  LET p == CHOOSE x \in o.on : TRUE
  IN  [Candidate(UNION {b[x].sources : x \in o.on}, o.value, o.on, FALSE) EXCEPT !.votes = b[p].votes]

\* inheritContext: the evidence for and against comes along, the votes do not.
Inherit(b, o) ==
  Candidate(UNION {b[p].sources : p \in o.on}, o.value, o.on, \E p \in o.on : b[p].counter)

\* requireCandidate: every operation names active candidates, and none that an earlier one retires.
Sound(b, ops) ==
  /\ \A o \in ops : o.on \subseteq Active(b)
  /\ \A o, p \in {q \in ops : Structural(q)} : o = p \/ o.on \cap p.on = {}

\* projectBoard, of operations that are Sound: votes and evidence first, then what retires candidates.
Projected(b, ops) ==
  LET On(c, type) == {o \in ops : o.type = type /\ c \in o.on}
      Voted(c, a) == {o \in On(c, "vote") : o.by = a}
      ValueOf(some) == (CHOOSE o \in some : TRUE).value
      LastBy(c) == panel[Max({i \in DOMAIN panel : Voted(c, panel[i]) # {}})]
      plain == [c \in DOMAIN b |->
        IF \A o \in ops : c \notin o.on THEN b[c] ELSE
        [b[c] EXCEPT
           !.votes = [a \in Auditors |-> IF Voted(c, a) = {} THEN @[a] ELSE ValueOf(Voted(c, a))],
           !.last = IF On(c, "vote") = {} THEN @ ELSE ValueOf(Voted(c, LastBy(c))),
           !.severity = IF On(c, "severity") = {} THEN @ ELSE ValueOf(On(c, "severity")),
           !.counter = @ \/ On(c, "counter") # {},
           !.sources = @ \union {<<"evidence", o.by, o.round>> : o \in On(c, "counter")},
           !.status = IF On(c, "merge") # {} THEN "merged" ELSE IF On(c, "split") # {} THEN "split" ELSE @,
           !.touched = TRUE]]
      made == UNION {{<<Made(o, i), o>> : i \in Parts(o)} : o \in ops}
      born == [c \in {x[1] : x \in made} |->
                 LET o == (CHOOSE x \in made : x[1] = c)[2]
                 IN  IF o.type = "missing" THEN Candidate({<<"missing", o.by, o.round>>}, "low", {}, FALSE)
                                           ELSE Inherit(plain, o)]
  IN  [c \in DOMAIN plain \union DOMAIN born |-> IF c \in DOMAIN born THEN born[c] ELSE plain[c]]

Lineage(b, c) ==
  LET up[n \in 0..audit.rounds + 1] == IF n = 0 THEN {c} ELSE up[n - 1] \union UNION {b[p].parents : p \in up[n - 1]}
  IN  up[audit.rounds + 1]

\* decide
Decide(b, open, c) ==
  LET By(disposition) == {a \in Auditors : b[c].votes[a] = disposition}
      accepts == Cardinality(By("accept"))
      rejects == Cardinality(By("reject"))
      high == b[c].severity = "high"
  IN  CASE \E i \in DOMAIN open : open[i].on \cap Lineage(b, c) # {} -> "needs_verification"
        [] Len(panel) = 2 /\ (By("needs_verification") # {} \/ (accepts # 2 /\ rejects # 2)) -> "needs_verification"
        [] high /\ rejects > 0 -> "needs_verification"
        [] By("needs_verification") # {} \/ (b[c].counter /\ accepts > 0) -> "needs_verification"
        [] accepts >= policy.quorum /\ (~high \/ Cardinality({Group[a] : a \in By("accept")}) >= policy.groups) -> "accepted"
        [] rejects >= policy.quorum /\ accepts = 0 -> "rejected"
        [] round >= audit.rounds -> "non_consensus"
        [] OTHER -> "needs_verification"

----------------------------------------------------------------------------
(* A round of converge.                                                     *)

StartRound ==
  /\ pc = "start"
  /\ round' = round + 1
  /\ panel' \in audit.orders
  /\ asked' = IF round' > 1 THEN conflicts ELSE <<>>
  /\ pc' = IF asked' = <<>> THEN "review" ELSE "resolve"
  /\ UNCHANGED <<audit, board, conflicts, replies, outcome, cast, edits>>

Askable(list) == SelectSeq(list, LAMBDA k : k.on \subseteq Active(board))

\* independentConflicts
Independent(list, i) == \A j \in 1..i - 1 : list[j].on \cap list[i].on = {}

\* agreedConflictResolution: every auditor sees every candidate and all choose alike, or nothing.
Selections(k) ==
  LET seen == \A c \in k.on, a \in Auditors : Visible(c, a)
      allowed == Len(panel) >= policy.quorum /\ Cardinality({Group[a] : a \in Auditors}) >= policy.groups
  IN  {Null} \union IF seen /\ allowed THEN k.ops \union {Op("retain", Null, {}, Null)} ELSE {}

\* resolveConflicts: the answers are applied in order. Once nothing waits the board is read
\* again, where the status of a candidate is that of its last vote.
Resolve ==
  LET list == Askable(asked)
      together == {i \in DOMAIN list : Independent(list, i)}
      waiting == SelectSeq(list, LAMBDA k : \A i \in together : list[i] # k)
  IN
  /\ pc = "resolve"
  /\ \E picked \in {f \in [together -> {Null} \union UNION {Selections(list[i]) : i \in together}] :
                      \A i \in together : f[i] \in Selections(list[i])} :
       LET settled == {i \in together : picked[i] # Null}
           ops == {[picked[i] EXCEPT !.by = "peer-resolution", !.round = round] : i \in {j \in settled : picked[j].type # "retain"}}
           stale == \E i, j \in settled : i < j /\ Structural(picked[i]) /\ picked[i].on \cap list[j].on # {}
           next == IF stale THEN board ELSE Projected(board, ops)
       IN
       /\ conflicts' = SelectSeq(conflicts, LAMBDA k : \A i \in settled : list[i] # k)
       /\ asked' = waiting
       /\ pc' = IF stale THEN "error" ELSE IF waiting = <<>> THEN "review" ELSE "resolve"
       /\ board' = IF waiting # <<>> THEN next
                   ELSE [c \in DOMAIN next |-> IF c \in Active(next) THEN [next[c] EXCEPT !.status = StatusOf[next[c].last]] ELSE next[c]]
  /\ UNCHANGED <<audit, panel, round, replies, outcome, cast, edits>>

\* One reviewer's reply; a reply that stays invalid leaves nothing.
Reply ==
  LET index == Len(replies) + 1
      r == panel[index]
      shown == Shown(index)
      Answer(ops, used) == replies' = Append(replies, ops) /\ edits' = edits + used
  IN
  /\ pc = "review" /\ index <= Len(panel)
  /\ \/ Answer({}, 0)
     \/ /\ shown # {}
        /\ \E disposition \in audit.dispositions, fresh \in BOOLEAN :
             LET votes == Votes(r, shown, disposition, fresh) IN
             \/ Answer(votes, 0)
             \/ edits < audit.edits /\ \E e \in Edits(r, shown) : Answer(votes \union {e}, 1)
  /\ UNCHANGED <<audit, panel, board, conflicts, round, pc, asked, outcome, cast>>

\* The replies reach the board together, and every active candidate gets its outcome.
Apply ==
  /\ pc = "review" /\ Len(replies) = Len(panel)
  /\ \E ops \in {UNION Range(replies)} : \E found \in {Adjudicated(ops)} : \E accepted \in {ops \ UNION {k.ops : k \in found}} :
       IF ~Sound(board, accepted) THEN pc' = "error" /\ UNCHANGED <<board, conflicts, outcome, cast>> ELSE
       \E next \in {Projected(board, accepted)} :
       LET votes == {o \in accepted : o.type = "vote"}
           open == conflicts \o SetToSeq(found)
           results == [c \in Active(next) |-> Decide(next, open, c)]
       IN
       /\ conflicts' = open
       /\ outcome' = results
       /\ board' = [c \in DOMAIN next |-> IF c \notin DOMAIN results THEN next[c] ELSE
                      [next[c] EXCEPT !.status = IF results[c] \in {"accepted", "rejected"} THEN results[c] ELSE "needs_verification"]]
       /\ cast' = {v \in cast : ~\E o \in votes : o.by = v.by /\ v.on = o.on}
                  \union {[by |-> o.by, on |-> o.on, value |-> o.value] : o \in votes}
       /\ pc' = IF round = audit.rounds \/ \A c \in DOMAIN results : results[c] \in {"accepted", "rejected"} THEN "done" ELSE "start"
  /\ replies' = <<>>
  /\ UNCHANGED <<audit, panel, round, asked, edits>>

Next == StartRound \/ Resolve \/ Reply \/ Apply

Spec == Init /\ [][Next]_vars

----------------------------------------------------------------------------
(* Properties.                                                              *)

\* No round and no resolution acts on a candidate that another one retired (STALE_BOARD_CONFLICT,
\* RETIRED_ISSUE_CANDIDATE), and every finding stays a source of some active candidate, whatever
\* was merged, split or set aside.
BoardKept ==
  /\ pc # "error"
  /\ \A f \in DOMAIN Author : (\E c \in DOMAIN board : f \in board[c].sources) => \E c \in Active(board) : f \in board[c].sources

\* A claim the panel accepts was accepted by a quorum on that very claim, not on one it was made
\* from, by auditors of enough groups when it is severe; nobody's last word on it is against, and
\* no edit of it or of what it was made from is still unsettled.
AcceptedIsBacked ==
  \A c \in DOMAIN outcome : outcome[c] = "accepted" /\ pc \in {"start", "done"} =>
    LET By(value) == {v.by : v \in {w \in cast : w.on = {c} /\ w.value = value}} IN
    /\ Cardinality(By("accept")) >= policy.quorum
    /\ By("needs_verification") = {}
    /\ board[c].severity = "high" => By("reject") = {} /\ Cardinality({Group[a] : a \in By("accept")}) >= policy.groups
    /\ \A i \in DOMAIN conflicts : conflicts[i].on \cap Lineage(board, c) = {}

\* The panel's decisions are about claims that exist and that it agreed on.
PanelSound == BoardKept /\ AcceptedIsBacked
=============================================================================
