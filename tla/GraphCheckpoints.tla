-------------------------- MODULE GraphCheckpoints --------------------------
(***************************************************************************)
(* Gate and human nodes, and the run's named artifacts they are kept in.   *)
(*                                                                         *)
(* A human node opens a checkpoint for its present inputs and passes on an *)
(* approval recorded for exactly that version; a response is accepted once *)
(* per version, and only for the current one.  A named artifact is stored  *)
(* by its content and then entered in artifacts.json, which a publish      *)
(* reads, changes and replaces.  Publishes are queued inside a process;    *)
(* the run and the operator's response may be in two.                      *)
(*                                                                         *)
(* A version stands for the hash of a node and its inputs.  The artifact's *)
(* own file is whole or absent, so only the index is modelled.             *)
(***************************************************************************)
EXTENDS Naturals, Sequences, FiniteSets

CONSTANTS
  Version,       \* what the human node may be given
  MaxRuns,       \* bound: executions of the nodes
  MaxResponses,  \* bound: responses
  MaxFaults,     \* bound: publishes that fail
  Null

Decision == {"approve", "reject"}
CheckpointAssumption ==
  /\ {MaxRuns, MaxResponses, MaxFaults} \subseteq Nat
  /\ Null \notin Decision \union {"passed", "rejected", "blocked"}

Process == {"run", "operator"}
Torn == Null   \* artifacts.json does not parse

VARIABLES
  policy,      \* "interactive", or the decision the run's policy gives
  inputs,      \* the version of what the node is given
  index,       \* artifacts.json: a set of kinds and values, or Torn
  decisions,   \* the create-once record of each version, or Null
  pc, todo,    \* per process: where it is, and what it has still to publish
  held,        \* per process: the index a publish under way has read, or Null
  outcome,     \* how the last execution of the node ended
  published,   \* history: what was last published under each kind
  overlapped,  \* history: two processes published at once
  told, runs, responses, faults

vars == <<policy, inputs, index, decisions, pc, todo, held, outcome,
          published, overlapped, told, runs, responses, faults>>

Init ==
  /\ policy \in {"interactive"} \union Decision
  /\ inputs \in Version
  /\ index = {} /\ decisions = [v \in Version |-> Null]
  /\ pc = [p \in Process |-> "idle"] /\ todo = [p \in Process |-> <<>>]
  /\ held = [p \in Process |-> Null]
  /\ outcome = Null /\ published = {} /\ overlapped = FALSE /\ told = {}
  /\ runs = 0 /\ responses = 0 /\ faults = 0

----------------------------------------------------------------------------
(* Named artifacts.                                                         *)

Entry(kind, value) == <<kind, value>>
With(entries, e) == {x \in entries : x[1] # e[1]} \union {e}
Read(kind) == {e[2] : e \in {x \in index : x[1] = kind}}

Goto(p, where) == pc' = [pc EXCEPT ![p] = where]
Publish(p, entries) == todo' = [todo EXCEPT ![p] = entries]

\* The call that published is told; what else it had to publish is not done.
Throw(p) ==
  /\ Goto(p, "idle") /\ Publish(p, <<>>)
  /\ outcome' = IF p = "run" THEN "failed" ELSE outcome

\* publish reads the index; one that does not parse fails the call.
ReadIndex(p) ==
  /\ todo[p] # <<>> /\ held[p] = Null
  /\ IF index = Torn
     THEN Throw(p) /\ UNCHANGED held
     ELSE held' = [held EXCEPT ![p] = index] /\ UNCHANGED <<pc, todo, outcome>>
  /\ UNCHANGED <<policy, inputs, index, decisions, published, overlapped, told, runs, responses, faults>>

Others(p) == {q \in Process \ {p} : held[q] # Null}

\* atomicJson: the temporary file has one name, so two processes that publish at
\* once may replace the index by what they wrote into it together, and the second
\* may find nothing to rename.
ReplaceIndex(p) ==
  /\ held[p] # Null
  /\ LET e == Head(todo[p]) IN
     \/ /\ index' \in {With(held[p], e)} \union IF Others(p) = {} THEN {} ELSE {Torn}
        /\ todo' = [todo EXCEPT ![p] = Tail(@)]
        /\ published' = With(published, e)
        /\ UNCHANGED <<pc, outcome, faults>>
     \/ /\ IF overlapped THEN UNCHANGED faults ELSE faults < MaxFaults /\ faults' = faults + 1
        /\ Throw(p) /\ UNCHANGED <<index, published>>
  /\ held' = [held EXCEPT ![p] = Null]
  /\ overlapped' = (overlapped \/ Others(p) # {})
  /\ UNCHANGED <<policy, inputs, decisions, told, runs, responses>>

\* createOnce links a complete file into place, or finds one there.
CreateOnce(v, decision) == [decisions EXCEPT ![v] = IF @ = Null THEN decision ELSE @]

----------------------------------------------------------------------------
(* The nodes.                                                               *)

Record(v) == [version |-> v, mode |-> IF policy = "interactive" THEN policy ELSE "automatic"]

\* Mutant of IsOpen: any version that is open will do.
IsOpenAtAll(v) == Read(<<"current">>) # {}
IsOpen(v) == Read(<<"current">>) = {Record(v)}

\* The human node, dispatched, opens its version unless that is the current one.
HumanNode ==
  /\ pc["run"] = "idle" /\ runs < MaxRuns /\ outcome # "passed"
  /\ runs' = runs + 1
  /\ inputs' \in Version
  /\ IF index = Torn
     THEN outcome' = "failed" /\ UNCHANGED <<pc, todo>>
     ELSE /\ outcome' = "running" /\ Goto("run", "opened")
          /\ Publish("run", IF IsOpen(inputs') THEN <<>>
                            ELSE <<Entry(<<"version", inputs'>>, Record(inputs')), Entry(<<"current">>, Record(inputs'))>>)
  /\ UNCHANGED <<policy, index, decisions, held, published, overlapped, told, responses, faults>>

\* An automatic policy decides here; a decision that is there stays.
Opened ==
  /\ pc["run"] = "opened" /\ todo["run"] = <<>>
  /\ Goto("run", "decided")
  /\ IF policy = "interactive"
     THEN UNCHANGED <<decisions, todo>>
     ELSE /\ decisions' = CreateOnce(inputs, policy)
          /\ Publish("run", IF decisions[inputs] # Null THEN <<>>
                            ELSE <<Entry(<<"decision", inputs>>, policy)>>)
  /\ UNCHANGED <<policy, inputs, index, held, outcome, published, overlapped, told, runs, responses, faults>>

Decided ==
  /\ pc["run"] = "decided" /\ todo["run"] = <<>>
  /\ Goto("run", "idle")
  /\ outcome' = CASE decisions[inputs] = Null -> "blocked"
                  [] decisions[inputs] = "reject" -> "rejected"
                  [] OTHER -> "passed"
  /\ UNCHANGED <<policy, inputs, index, decisions, todo, held, published, overlapped, told, runs, responses, faults>>

\* A gate records what its policy found, and only then fails or passes.
GateNode(passed) ==
  /\ pc["run"] = "idle" /\ runs < MaxRuns /\ outcome # "passed"
  /\ runs' = runs + 1 /\ outcome' = "running"
  /\ Goto("run", IF passed THEN "gatePassed" ELSE "gateFailed")
  /\ Publish("run", <<Entry(<<"gate">>, passed)>>)
  /\ UNCHANGED <<policy, inputs, index, decisions, held, published, overlapped, told, responses, faults>>

GateRecorded ==
  /\ pc["run"] \in {"gatePassed", "gateFailed"} /\ todo["run"] = <<>>
  /\ outcome' = pc["run"] /\ Goto("run", "idle")
  /\ UNCHANGED <<policy, inputs, index, decisions, todo, held, published, overlapped, told, runs, responses, faults>>

\* A process dies; the other one goes on.
Crash(p) ==
  /\ pc[p] # "idle"
  /\ Throw(p) /\ held' = [held EXCEPT ![p] = Null]
  /\ UNCHANGED <<policy, inputs, index, decisions, published, overlapped, told, runs, responses, faults>>

----------------------------------------------------------------------------
(* respondCheckpoint: the run is blocked when it is looked at; it may be    *)
(* resumed by another process before the decision is made.                  *)

Respond ==
  /\ pc["operator"] = "idle" /\ responses < MaxResponses
  /\ outcome = "blocked" /\ pc["run"] = "idle" /\ policy = "interactive"
  /\ responses' = responses + 1 /\ Goto("operator", "checked")
  /\ UNCHANGED <<policy, inputs, index, decisions, todo, held, outcome, published, overlapped, told, runs, faults>>

\* Accepted only for the current version, and only as its first decision.
Decide(v, decision) ==
  /\ pc["operator"] = "checked"
  /\ IF index # Torn /\ (\E r \in Read(<<"current">>) : r.version = v) /\ decisions[v] = Null
     THEN /\ decisions' = CreateOnce(v, decision)
          /\ Publish("operator", <<Entry(<<"decision", v>>, decision)>>)
          /\ Goto("operator", "responded") /\ told' = told \union {<<v, decision>>}
     ELSE Goto("operator", "idle") /\ UNCHANGED <<decisions, todo, told>>
  /\ UNCHANGED <<policy, inputs, index, held, outcome, published, overlapped, runs, responses, faults>>

Responded ==
  /\ pc["operator"] = "responded" /\ todo["operator"] = <<>>
  /\ Goto("operator", "idle")
  /\ UNCHANGED <<policy, inputs, index, decisions, todo, held, outcome, published, overlapped, told, runs, responses, faults>>

Next ==
  \/ \E p \in Process : ReadIndex(p) \/ ReplaceIndex(p) \/ Crash(p)
  \/ HumanNode \/ Opened \/ Decided
  \/ \E passed \in BOOLEAN : GateNode(passed)
  \/ GateRecorded
  \/ Respond \/ Responded
  \/ \E v \in Version, decision \in Decision : Decide(v, decision)

Spec == Init /\ [][Next]_vars

----------------------------------------------------------------------------
\* graph-checkpoints.ts: a node passes only on an approval of the very inputs it
\* was given, whatever was approved before; a recorded decision never changes,
\* whoever records another; and unless two processes published at once, nothing
\* published is missing from the index, so a blocked node's checkpoint can be found
\* and answered by the version it waits for.
DecisionObeyed ==
  /\ outcome = "passed" => decisions[inputs] = "approve"
  /\ outcome = "rejected" => decisions[inputs] = "reject"
  /\ \A t \in told : decisions[t[1]] = t[2]
  /\ ~overlapped => index = published
  /\ ~overlapped /\ outcome = "blocked" => Read(<<"current">>) = {Record(inputs)}
=============================================================================
