---------------------------- MODULE MCFeatureRun ----------------------------
(* Two drafts that need an approval and one that needs none. *)
EXTENDS FeatureRun, TLC

MCHigh == ("d1" :> {"q"}) @@ ("d2" :> {"q"}) @@ ("d3" :> {})

Config(mode, reviewers, critic, rounds) ==
  [mode |-> mode, reviewers |-> reviewers, critic |-> critic, rounds |-> rounds]
MCConfigs ==
  {Config("automatic", TRUE, "capable", 1), Config("interactive", TRUE, "capable", 2),
   Config("automatic", TRUE, "weak", 1), Config("interactive", FALSE, "none", 1)}

MCVotes == ("r1" :> {"accept", "object"}) @@ ("r2" :> {"accept", "limited"})

Explored(conflict, review, limited) == [conflict |-> conflict, review |-> review, limited |-> limited]
Low == Explored(FALSE, FALSE, FALSE)
Risky == Explored(FALSE, TRUE, FALSE)
MCExplorations ==
  ("d1" :> {Low, Risky}) @@ ("d2" :> {Risky}) @@ ("d3" :> {Low, Explored(TRUE, FALSE, TRUE)})
=============================================================================
