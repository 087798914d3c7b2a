---------------------------- MODULE Requirements ----------------------------
(***************************************************************************)
(* The requirements checkpoint of a Feature run: every contract is a       *)
(* content-addressed version with its parent, the head names the current   *)
(* one, and an edit names the version it was made against.  A contract is  *)
(* its draft and the ambiguities whose defaults are accepted; a draft is   *)
(* told apart by its high-impact ambiguities, the only ones that block.    *)
(***************************************************************************)
EXTENDS Naturals, Sequences, FiniteSets, Functions

CONSTANTS
  Draft,      \* the drafts models and operators may write
  Ambiguity,
  High        \* High[d]: the high-impact ambiguities of draft d

ASSUME DraftAssumption == High \in [Draft -> SUBSET Ambiguity]

\* The contract a draft starts as: only automatic mode accepts its defaults.
Drafted(mode, d) == [draft |-> d, accepted |-> IF mode = "automatic" THEN High[d] ELSE {}]

Pending(mode, c) == IF mode = "automatic" THEN {} ELSE High[c.draft] \ c.accepted

\* A version's identity is its contract and its parent; 0 is no version.
Version(c, parent) == [contract |-> c, parent |-> parent]

Persisted(vs, v) == IF \E i \in DOMAIN vs : vs[i] = v THEN vs ELSE Append(vs, v)
IdOf(vs, v) == CHOOSE i \in DOMAIN vs : vs[i] = v

Approved(c, as) == [c EXCEPT !.accepted = (@ \union as) \intersect High[c.draft]]

\* An edited draft needs every decision again.
Revised(mode, c, d) == IF d = c.draft THEN c ELSE Drafted(mode, d)

\* validateRequirementsRevision: a proposal changes the draft and may not drop
\* what an operator has to approve.
Proposable(c) == {d \in Draft : d # c.draft /\ (High[c.draft] # {} => High[d] # {})}

----------------------------------------------------------------------------
(* What independent reviews of one contract amount to.                      *)

\* "object" stands for revise, uncertain and a conflict the reviewer reports.
Vote == {"accept", "object", "limited"}

Consensus(votes, conflict) ==
  [blocking |-> conflict \/ \E r \in DOMAIN votes : votes[r] = "object",
   limited  |-> \E r \in DOMAIN votes : votes[r] = "limited"]

Settled(consensus) == ~consensus.blocking /\ ~consensus.limited

\* No later round can accept what the exploration contradicts.
LastRound(round, maximum, consensus, conflict) ==
  Settled(consensus) \/ round = maximum \/ conflict
=============================================================================
