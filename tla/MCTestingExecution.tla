------------------------ MODULE MCTestingExecution ------------------------
(* Two tasks in one batch; the second task's check also reads the first's file. *)
EXTENDS TestingExecution

MCScope == (1 :> {"f1"}) @@ (2 :> {"f2"})
MCSource == (1 :> {"f1"}) @@ (2 :> {"f1", "f2"})

Ask(updates, limit) == [updates |-> updates, limit |-> limit]
Nothing == [f \in {} |-> "o"]
MCAnswers == (1 :> {Ask("f1" :> "a", "none"), Ask("f1" :> "o", "none"), Ask(Nothing, "conflict")})
             @@ (2 :> {Ask("f2" :> "a", "none")})
MCResults == (1 :> {"passed", "failed", "unavailable"}) @@ (2 :> {"passed", "failed"})
=============================================================================
