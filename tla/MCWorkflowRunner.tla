-------------------------- MODULE MCWorkflowRunner --------------------------
(* Two small graphs for WorkflowRunner: a fan-out a -> {b, c} whose two     *)
(* branches are in the same stage, and a chain a -> b.                      *)
EXTENDS WorkflowRunner, TLC

CONSTANTS a, b, c

FanNode == {a, b, c}
FanPred == (a :> {} @@ b :> {a} @@ c :> {a})
FanPosition == (a :> 1 @@ b :> 2 @@ c :> 3)
FanStage == (a :> NoStage @@ b :> "DISCOVERY" @@ c :> "DISCOVERY")

ChainNode == {a, b}
ChainPred == (a :> {} @@ b :> {a})
ChainPosition == (a :> 1 @@ b :> 2)
ChainStage == (a :> NoStage @@ b :> "DISCOVERY")
=============================================================================
