----------------------------- MODULE DurableRun -----------------------------
(***************************************************************************)
(* What a durable run promises, whatever crashes: the activities recorded  *)
(* as done only grow, each after the ones it takes its inputs from, and    *)
(* the run is completed only when all of them are done.                    *)
(***************************************************************************)
EXTENDS Naturals

CONSTANTS Node, Pred

VARIABLES
  done,      \* nodes whose activity has an end record that survives a crash
  completed  \* the run is durably COMPLETED

TypeOK == done \subseteq Node /\ completed \in BOOLEAN

Init == done = {} /\ completed = FALSE

Finish(n) ==
  /\ Pred[n] \subseteq done
  /\ done' = done \union {n}
  /\ UNCHANGED completed

Complete ==
  /\ done = Node
  /\ completed' = TRUE
  /\ UNCHANGED done

Next == (\E n \in Node : Finish(n)) \/ Complete

Spec == Init /\ [][Next]_<<done, completed>>
=============================================================================
