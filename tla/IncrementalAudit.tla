-------------------------- MODULE IncrementalAudit --------------------------
(***************************************************************************)
(* Runs that reuse another run's saved model outputs: the incremental      *)
(* Audit (incremental-audit.ts) and the Testing replay                     *)
(* (replay-contracts.ts).  Each run of a scenario has a world, its         *)
(* repository and its settings as it started, and may name an earlier run  *)
(* as its base, which may itself have reused, may have stopped part way    *)
(* and may be resumed while the later run works.  A digest is the value    *)
(* it is taken of; the repository index is a function of all files.        *)
(***************************************************************************)
EXTENDS Naturals, FiniteSets, Sequences

CONSTANTS
  Scenarios,    \* [worlds, stops, upgrades, abreast]: a world per run, how often runs stop and
                \* the build changes, and do runs work at the same time
  Units,        \* a sequence of discovery units: [paths, manifests, tools]
  Stages,       \* of each mode, a sequence: is the stage's output reusable
  Targets,      \* what a file with a content imports, as far as it exists
  Readable,     \* what a unit's model may read beyond the unit
  Ceiling,      \* the output ceiling of the model
  Null

VARIABLES
  worlds,       \* of the scenario
  run,          \* the runs' stores
  at,           \* where each live run is
  registry,     \* the protocol version this build selects
  stops, upgrades,  \* that are left
  abreast

vars == <<worlds, run, at, registry, stops, upgrades, abreast>>

Last == 2
Keys == {<<"unit", u, t>> : u \in DOMAIN Units, t \in 1..Last} \union {<<"stage", k, 0>> : k \in UNION {DOMAIN Stages[m] : m \in DOMAIN Stages}}
Fresh == [unit |-> 1, stage |-> 0, phase |-> "begin", turn |-> 1, seen |-> Null, got |-> Null]
Store == [state |-> "absent", contract |-> Null, decision |-> [u \in DOMAIN Units |-> Null], record |-> [u \in DOMAIN Units |-> Null],
          input |-> [k \in Keys |-> Null], output |-> [k \in Keys |-> Null], looked |-> [k \in Keys |-> Null],
          pins |-> [k \in 0..Len(Stages["audit"]) |-> Null]]
Runs == DOMAIN worlds
Base(i) == worlds[i].base
Alone == abreast \/ \A i \in Runs : run[i].state # "RUNNING"

Init ==
  /\ \E s \in Scenarios : worlds = s.worlds /\ stops = s.stops /\ upgrades = s.upgrades /\ abreast = s.abreast
  /\ run = [i \in DOMAIN worlds |-> Store] /\ at = [i \in DOMAIN worlds |-> Fresh]
  /\ registry = 1

----------------------------------------------------------------------------
(* A file imports what exists; the closure is taken from the unit's files outward. *)
Imports(w, p) == IF w.files[p] = 0 THEN {} ELSE {q \in Targets[p][w.files[p]] : w.files[q] # 0}
RECURSIVE Closure(_, _, _)
Closure(w, own, more) ==
  LET next == (UNION {Imports(w, p) : p \in own \union more}) \ (own \union more)
  IN  IF next = {} THEN more ELSE Closure(w, own, more \union next)

Of(f, s) == [x \in s |-> f[x]]
DiscoveryUnitIdentity(w, u, pin) ==
  [files |-> Of(w.files, Units[u].paths), imports |-> Of(w.files, Closure(w, Units[u].paths, {})),
   manifests |-> Of(w.manifests, Units[u].manifests), settings |-> w.common, protocol |-> pin]

(* Unknown never means equal: no record, no footprint, or a manifest that cannot be read is a reason. *)
ReadsUnchanged(record, before, now) == \A p \in record.reads \ record.paths : before[p] # 0 /\ before[p] = now[p]
DecideUnit(current, record, before, now) ==
  /\ record # Null
  /\ record.recorded /\ ReadsUnchanged(record, before, now)
  /\ record.identity = current
  /\ \A d \in DOMAIN current.manifests : current.manifests[d] # "unreadable"

----------------------------------------------------------------------------
(* The contract a run is created with: what prevents any reuse, and each later stage's chained identity. *)
Rewritten(before, now) == now.head < before.head
FallbackReasons(before, now, state) ==
  \/ state = "RUNNING"
  \/ before.graph # now.graph
  \/ /\ before.head # Null
     /\ (now.head = Null \/ Rewritten(before, now))
StageComponents(w, k, pin, upstream) ==
  [repository |-> w.files, manifests |-> IF w.mode = "audit" THEN w.manifests ELSE Null, settings |-> w.common,
   own |-> w.own[k], protocol |-> pin, upstream |-> upstream]
StageIdentities(w, pins) ==
  LET identity[k \in 0..Len(w.own)] == IF k = 0 THEN Null ELSE StageComponents(w, k, pins[k], identity[k - 1])
  IN  identity
StagesOf(w) == {k \in DOMAIN Stages[w.mode] : Stages[w.mode][k] \/ w.executes}
SourcePin(pins, k) == IF pins[k] = Null THEN registry ELSE pins[k]
SourcePins(source) == [k \in DOMAIN source.pins |-> SourcePin(source.pins, k)]
StageReused(mode, k, before, now, source, known) ==
  /\ Stages[mode][k] /\ known[k] = now[k]
  /\ (mode = "audit" => source.state = "COMPLETED")
Contract(i) ==
  LET w == worlds[i]  b == worlds[w.base]  source == run[w.base]
      fallback == w.mode = "audit" /\ FallbackReasons(b, w, source.state)
      known == StageIdentities(b, SourcePins(source))
      wanted == StageIdentities(w, [k \in DOMAIN source.pins |-> registry])
  IN  [fallback |-> fallback, baseState |-> source.state,
       stages |-> {k \in StagesOf(w) : ~fallback /\ StageReused(w.mode, k, b, wanted, source, known)}]

(* A replay refuses a live source and pins the protocols it decided by; an incremental Audit does neither. *)
Start(i) ==
  /\ Alone /\ run[i].state = "absent" /\ \A j \in Runs : j < i => run[j].state # "absent"
  /\ ~(Base(i) # 0 /\ worlds[i].mode # "audit" /\ run[Base(i)].state = "RUNNING")
  /\ \E contract \in {IF Base(i) = 0 THEN Null ELSE Contract(i)} :
       run' = [run EXCEPT ![i].state = "RUNNING", ![i].contract = contract,
                          ![i].pins = [k \in DOMAIN @ |-> IF contract # Null /\ worlds[i].mode # "audit" THEN registry ELSE Null]]
  /\ at' = [at EXCEPT ![i] = IF worlds[i].mode = "audit" THEN Fresh ELSE [Fresh EXCEPT !.unit = 0, !.stage = 1, !.phase = "ask"]]
  /\ UNCHANGED <<worlds, registry, stops, upgrades, abreast>>

----------------------------------------------------------------------------
(* A unit's reuse is decided once, against the base's records as this execution first read them. *)
Pinned(i, k) == IF run[i].pins[k] = Null THEN registry ELSE run[i].pins[k]
Seen(i) == IF at[i].seen = Null THEN run[Base(i)].record ELSE at[i].seen
Decision(i, u) ==
  IF ~run[i].contract.fallback /\ DecideUnit(DiscoveryUnitIdentity(worlds[i], u, Pinned(i, 0)), Seen(i)[u], worlds[Base(i)].files, worlds[i].files)
  THEN "reuse" ELSE "regenerate"
DecidedAgain(i, u) == Decision(i, u)
Decided(i, u) == IF run[i].decision[u] # Null THEN run[i].decision[u] ELSE Decision(i, u)
Begin(i) ==
  /\ run[i].state = "RUNNING" /\ at[i].phase = "begin"
  /\ \E u \in {at[i].unit} :
       IF run[i].contract = Null
       THEN run' = [run EXCEPT ![i].pins[0] = Pinned(i, 0)] /\ at' = [at EXCEPT ![i].phase = "ask"]
       ELSE /\ run' = [run EXCEPT ![i].pins[0] = Pinned(i, 0), ![i].decision[u] = Decided(i, u)]
            /\ at' = [at EXCEPT ![i].phase = "ask",
                                ![i].seen = IF run[i].decision[u] = Null /\ ~run[i].contract.fallback THEN Seen(i) ELSE @]
  /\ UNCHANGED <<worlds, registry, stops, upgrades, abreast>>

(* What is asked: a unit that reuses is sent the index its base stored; a turn carries what the turn before it read. *)
Key(i) == IF at[i].stage > 0 THEN <<"stage", at[i].stage, 0>> ELSE <<"unit", at[i].unit, at[i].turn>>
IndexFor(i, u) == IF run[i].decision[u] = "reuse" THEN worlds[Base(i)].files ELSE worlds[i].files
ToolResult(i, u) ==
  LET p == run[i].output[<<"unit", u, 1>>].value IN IF p = Null THEN Null ELSE <<p, worlds[i].files[p]>>
Findings(i) == [u \in DOMAIN Units |-> IF worlds[i].mode = "audit" THEN run[i].output[<<"unit", u, Last>>].value ELSE Null]
StageRequest(i, k, ceiling) ==
  [stage |-> k, protocol |-> Pinned(i, k), settings |-> <<worlds[i].common, worlds[i].own[k]>>, ceiling |-> ceiling,
   given |-> IF k = 1 THEN <<Findings(i), worlds[i].files>> ELSE run[i].output[<<"stage", k - 1, 0>>].value]
Request(i) ==
  IF at[i].stage > 0 THEN StageRequest(i, at[i].stage, worlds[i].ceiling)
  ELSE [protocol |-> Pinned(i, 0), settings |-> worlds[i].common, given |-> Of(worlds[i].files, Units[at[i].unit].paths),
        index |-> IndexFor(i, at[i].unit), result |-> IF at[i].turn = 1 THEN Null ELSE ToolResult(i, at[i].unit)]

(* A saved output is served under the identity asked for, or a higher ceiling its answer did not need. *)
Served(saved, request, lower, ceiling) ==
  /\ saved # Null
  /\ \/ saved.identity = request
     \/ lower # Null /\ saved.identity = lower /\ saved.written <= ceiling
Admitted(i) ==
  IF at[i].stage > 0 THEN at[i].stage \in run[i].contract.stages ELSE run[i].decision[at[i].unit] = "reuse"
Lookup(i, request) ==
  IF Admitted(i) /\ Served(run[Base(i)].output[Key(i)], request,
                           IF at[i].stage > 0 /\ worlds[i].ceiling < Ceiling THEN StageRequest(i, at[i].stage, Ceiling) ELSE Null, worlds[i].ceiling)
  THEN run[Base(i)].output[Key(i)] ELSE Null

Advance(i) ==
  at' = [at EXCEPT ![i] =
    LET now == at[i]
        left == {k \in StagesOf(worlds[i]) : k > now.stage}
    IN  CASE now.stage = 0 /\ now.turn < Last -> [now EXCEPT !.turn = @ + 1, !.phase = "ask", !.got = Null]
          [] now.stage = 0 /\ now.turn = Last -> [now EXCEPT !.phase = "complete", !.got = Null]
          [] now.stage > 0 /\ left # {} -> [now EXCEPT !.stage = @ + 1, !.phase = "ask", !.got = Null]
          [] OTHER -> [now EXCEPT !.phase = "done", !.got = Null]]

(* An activity this run finished is recovered; one it paid to ask is asked again, never replayed. *)
Ask(i) ==
  /\ run[i].state = "RUNNING" /\ at[i].phase = "ask"
  /\ \E key \in {Key(i)}, request \in {Request(i)} :
       IF run[i].output[key] # Null THEN Advance(i) /\ UNCHANGED run
       ELSE \E saved \in {IF run[i].contract = Null \/ run[i].input[key] # Null THEN Null ELSE Lookup(i, request)} :
              /\ run' = [run EXCEPT ![i].pins[at[i].stage] = Pinned(i, at[i].stage),
                           ![i].looked[key] = IF run[i].contract = Null \/ run[i].input[key] # Null THEN @
                                              ELSE IF saved = Null THEN "regenerated" ELSE "reused"]
              /\ at' = [at EXCEPT ![i].phase = IF saved = Null THEN "call" ELSE "serve", ![i].got = saved]
  /\ UNCHANGED <<worlds, registry, stops, upgrades, abreast>>

(* The served output joins this run under its own identity, unless it no longer parses. *)
Serve(i) ==
  /\ run[i].state = "RUNNING" /\ at[i].phase = "serve"
  /\ run' = [run EXCEPT ![i].output[Key(i)] = [at[i].got EXCEPT !.identity = Request(i), !.made = FALSE]]
  /\ Advance(i) /\ UNCHANGED <<worlds, registry, stops, upgrades, abreast>>
Reject(i) ==
  /\ run[i].state = "RUNNING" /\ at[i].phase = "serve" /\ registry > 1
  /\ run' = [run EXCEPT ![i].looked[Key(i)] = "regenerated"]
  /\ at' = [at EXCEPT ![i].phase = "call"] /\ UNCHANGED <<worlds, registry, stops, upgrades, abreast>>

(* The request is recorded before it is paid, and a recorded one is asked again only as it was. *)
Send(i) ==
  /\ run[i].state = "RUNNING" /\ at[i].phase = "call"
  /\ run[i].input[Key(i)] \in {Null, Request(i)}
  /\ run' = [run EXCEPT ![i].input[Key(i)] = Request(i)]
  /\ at' = [at EXCEPT ![i].phase = "answer"] /\ UNCHANGED <<worlds, registry, stops, upgrades, abreast>>
Answers(i) ==
  IF at[i].stage = 0 /\ at[i].turn = 1
  THEN {[value |-> p, written |-> 1] : p \in {q \in Readable[at[i].unit] : worlds[i].files[q] # 0} \union {Null}}
  ELSE {[value |-> <<i, Key(i)>>, written |-> n] : n \in IF at[i].stage > 0 THEN 1..worlds[i].ceiling ELSE {1}}
Answer(i) ==
  /\ run[i].state = "RUNNING" /\ at[i].phase = "answer"
  /\ \E answer \in Answers(i) :
       run' = [run EXCEPT ![i].output[Key(i)] = [identity |-> Request(i), value |-> answer.value, written |-> answer.written, origin |-> i, made |-> TRUE]]
  /\ Advance(i) /\ UNCHANGED <<worlds, registry, stops, upgrades, abreast>>

(* A unit's record is published as it finishes, with what its tools read. *)
Reads(i, u) == {run[i].output[<<"unit", u, 1>>].value} \ {Null}
Complete(i) ==
  /\ run[i].state = "RUNNING" /\ at[i].phase = "complete"
  /\ \E u \in {at[i].unit} :
       /\ run' = [run EXCEPT ![i].record[u] =
            [identity |-> DiscoveryUnitIdentity(worlds[i], u, Pinned(i, 0)), paths |-> Units[u].paths, recorded |-> Units[u].tools, reads |-> Reads(i, u)]]
       /\ at' = [at EXCEPT ![i] = IF u < Len(Units) THEN [@ EXCEPT !.unit = u + 1, !.turn = 1, !.phase = "begin"]
                                  ELSE [@ EXCEPT !.unit = 0, !.stage = 1, !.phase = "ask"]]
  /\ UNCHANGED <<worlds, registry, stops, upgrades, abreast>>
Finish(i) ==
  /\ run[i].state = "RUNNING" /\ at[i].phase = "done"
  /\ run' = [run EXCEPT ![i].state = "COMPLETED"]
  /\ at' = [at EXCEPT ![i] = [Fresh EXCEPT !.phase = "done"]] /\ UNCHANGED <<worlds, registry, stops, upgrades, abreast>>

(* A run that stops keeps its store alone; a resume, on the files it read, keeps its contract and its decisions. *)
Stop(i) ==
  /\ run[i].state = "RUNNING" /\ stops > 0 /\ stops' = stops - 1
  /\ run' = [run EXCEPT ![i].state = "FAILED"] /\ at' = [at EXCEPT ![i] = Fresh]
  /\ UNCHANGED <<worlds, registry, upgrades, abreast>>
Resume(i) ==
  /\ Alone /\ run[i].state = "FAILED"
  /\ run' = [run EXCEPT ![i].state = "RUNNING"]
  /\ at' = [at EXCEPT ![i] = IF worlds[i].mode = "audit" THEN Fresh ELSE [Fresh EXCEPT !.unit = 0, !.stage = 1, !.phase = "ask"]]
  /\ UNCHANGED <<worlds, registry, stops, upgrades, abreast>>
Upgrade ==
  /\ upgrades > 0 /\ upgrades' = upgrades - 1 /\ registry' = registry + 1
  /\ \A i \in Runs : run[i].state # "RUNNING"
  /\ UNCHANGED <<worlds, run, at, stops, abreast>>

Next ==
  \/ \E i \in Runs : \/ Start(i) \/ Begin(i) \/ Ask(i) \/ Serve(i) \/ Reject(i) \/ Send(i) \/ Answer(i)
                     \/ Complete(i) \/ Finish(i) \/ Stop(i) \/ Resume(i)
  \/ Upgrade

Spec == Init /\ [][Next]_vars

----------------------------------------------------------------------------
(* What a unit's findings may rest on: the smallest set that holds its files and what they import. *)
RestsOn(w, u) ==
  {p \in DOMAIN w.files : \A s \in SUBSET DOMAIN w.files :
     (Units[u].paths \subseteq s /\ \A q \in s : Imports(w, q) \subseteq s) => p \in s}
Same(o, i, ps) == \A p \in ps : worlds[o].files[p] = worlds[i].files[p]

(* A reused finding was made by the same unit under the same settings and protocol, and every file it rests on, *)
(* was given or read, in the run that asked for it, through any number of runs, is as it was then. *)
UnitReuseSound(i, u) ==
  \E output \in {run[i].output[<<"unit", u, Last>>]} :
    (run[i].record[u] # Null /\ ~output.made) =>
      \E o \in {output.origin} :
        /\ Same(o, i, RestsOn(worlds[o], u) \union RestsOn(worlds[i], u) \union Reads(i, u))
        /\ \A d \in Units[u].manifests : worlds[i].manifests[d] = worlds[o].manifests[d] /\ worlds[i].manifests[d] # "unreadable"
        /\ worlds[i].common = worlds[o].common /\ worlds[i].graph = worlds[o].graph
        /\ run[i].pins[0] = run[o].pins[0] /\ Units[u].tools /\ run[i].decision[u] = "reuse"

(* A reused stage output comes from a run that had completed, with every file, manifest, setting and protocol of *)
(* the stage and of those before it the same, and fits the ceiling it is now asked under; execution is never reused. *)
StageReuseSound(i, k) ==
  \E output \in {run[i].output[<<"stage", k, 0>>]} :
    (output # Null /\ ~output.made) =>
      \E o \in {output.origin} :
        /\ Same(o, i, DOMAIN worlds[i].files) /\ worlds[i].common = worlds[o].common
        /\ \A j \in 1..k : worlds[i].own[j] = worlds[o].own[j] /\ run[i].pins[j] = run[o].pins[j]
        /\ Stages[worlds[i].mode][k] /\ output.written <= worlds[i].ceiling
        /\ worlds[i].mode = "audit" => worlds[i].manifests = worlds[o].manifests /\ run[i].contract.baseState = "COMPLETED"

(* A resumed run asks what it paid to ask, word for word, and the report counts as reused what was not paid for. *)
ResumedAsAsked == \A i \in Runs : at[i].phase = "call" => run[i].input[Key(i)] \in {Null, Request(i)}
ReportTrue ==
  \A i \in Runs : run[i].state = "COMPLETED" /\ run[i].contract # Null =>
    \A key \in Keys : run[i].output[key] # Null => (run[i].looked[key] = "reused" <=> ~run[i].output[key].made)

(* Reuse is sound in every run of a scenario, however runs stop, resume and build on one another            *)
(* (incremental-audit.ts decideUnit and planIncrementalAudit, replay-contracts.ts readReplayableOutput).   *)
ReuseSound ==
  /\ \A i \in Runs : run[i].contract # Null => /\ \A u \in DOMAIN Units : UnitReuseSound(i, u)
                                                /\ \A k \in DOMAIN Stages[worlds[i].mode] : StageReuseSound(i, k)
  /\ ResumedAsAsked /\ ReportTrue
=============================================================================
