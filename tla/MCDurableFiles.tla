--------------------------- MODULE MCDurableFiles ---------------------------
(* The files, records and processes a run depends on, one of them at a time: *)
(* which says whose steps are taken, and the variables it does not use are   *)
(* Null.                                                                     *)
EXTENDS TLC, Naturals, Sequences

CONSTANTS e1, e2, e3, end1, end2, start3, a1, a2, r1, r2, c1, c2, Null

VARIABLES
  which, file, synced, queue, pc, start, ready, undo, told, log, faults, crashes, loaded, uncut, stored, state,
  maximumTokens, mapping, identity, trace, outputs, replayRecord, source, limit, call, waiting, sends, asked,
  refused, returned, traced, artifacts, offsets, batch, policy, inputs, index, decisions, todo, held, outcome,
  published, overlapped, runs, responses, dialect, resolved, probing, kept, roots, sessions, trouble, platform,
  proc, exited, stopped, armed, passes, pass, ended, failed, closed, heldOpen

Entry(key, value) == [key |-> key, value |-> value]
Bundles == {<<Entry("truth", "t"), Entry("run", "r")>>, <<Entry("observation", "o")>>,
            <<Entry("run", "r"), Entry("observation", "p")>>}

(* What a CLI process writes: a reply, a reply past the ceiling, its own tools, limits, an early end, a stopped one. *)
Stream(events, exit, halt) == [events |-> events, exit |-> exit, stopped |-> halt]
Streams ==
  {Stream(<<"result">>, 0, "none"), Stream(<<"long", "result">>, 0, "none"), Stream(<<"empty", "result">>, 0, "none"),
   Stream(<<"configured", "result">>, 0, "none"), Stream(<<"tool", "result">>, 0, "none"), Stream(<<"ceiling">>, 1, "none"),
   Stream(<<"quota", "throttled">>, 1, "none"), Stream(<<"throttled">>, 0, "none"), Stream(<<"auth", "upstream">>, 1, "none"), Stream(<<"upstream">>, 1, "none"), Stream(<<"failed", "result">>, 1, "none"),
   Stream(<<>>, 0, "none")} \union {Stream(<<"result">>, 0, how) : how \in {"left", "timeout", "cancelled"}}

E == INSTANCE EventLog WITH
  Event <- {e1, e2, e3}, Expensive <- {e1, e2}, MaxFaults <- 3, MaxCrashes <- 2, None <- Null
J == INSTANCE ActivityJournal WITH
  Record <- {end1, end2, start3}, Expensive <- {end1, end2}, FaultsOverlap <- FALSE,
  MaxConcurrent <- 3, MaxFaults <- 3, MaxCrashes <- 2
B == INSTANCE TokenBudget WITH
  Activity <- {a1, a2}, Estimate <- {1, 2}, MaxUsage <- 2, Limit <- {2, 3},
  MaxReservations <- 3, MaxFaults <- 1, MaxCrashes <- 1
M == INSTANCE ModelActivity WITH
  Request <- {r1, r2}, Caller <- {c1, c2}, Limit <- {1, 2}, MaxSends <- 2, MaxAttempts <- 3,
  MaxFaults <- 1, MaxCrashes <- 1, Named <- {1}
C == INSTANCE CorpusStore WITH
  Bundles <- Bundles, Stored <- {"truth"}, MaxBatches <- 3, MaxFaults <- 2, MaxCrashes <- 2,
  Requires <- ("truth" :> {}) @@ ("run" :> {"truth"}) @@ ("observation" :> {"run"})
G == INSTANCE GraphCheckpoints WITH
  Version <- {1, 2}, MaxRuns <- 3, MaxResponses <- 2, MaxFaults <- 1
X == INSTANCE CliTransport WITH
  Calls <- {a1, a2}, Dialects <- {"claude", "codex", "gemini", "antigravity"}, Requests <- {"t1", "t2"}, Streams <- Streams,
  MaxTurns <- 2, MaxUpgrades <- 1, MaxTrouble <- 1
O == INSTANCE NativeProcess WITH
  Platforms <- {"linux", "darwin", "win32"}, Pids <- 1..4, Looks <- 4

ASSUME DurableFilesAssumption ==
  /\ E!LogAssumption /\ J!JournalAssumption /\ M!ActivityAssumption /\ C!CorpusAssumption /\ G!CheckpointAssumption
  /\ X!TransportAssumption /\ O!ProcessAssumption
  /\ Null \notin B!Reservation \union Seq(B!Reservation)

NotE == <<
  loaded, uncut, stored, state, maximumTokens, mapping, identity, trace, outputs, replayRecord, source, limit,
  call, waiting, sends, asked, refused, returned, traced, artifacts, offsets, batch, policy, inputs, index,
  decisions, todo, held, outcome, published, overlapped, runs, responses, dialect, resolved, probing, kept, roots,
  sessions, trouble, platform, proc, exited, stopped, armed, passes, pass, ended, failed, closed, heldOpen>>
NotJ == <<
  queue, ready, undo, told, log, stored, state, maximumTokens, mapping, identity, trace, outputs, replayRecord,
  source, limit, call, waiting, sends, asked, refused, returned, traced, artifacts, offsets, batch, policy, inputs,
  index, decisions, todo, held, outcome, published, overlapped, runs, responses, dialect, resolved, probing, kept,
  roots, sessions, trouble, platform, proc, exited, stopped, armed, passes, pass, ended, failed, closed, heldOpen>>
NotB == <<
  file, synced, queue, pc, start, ready, undo, log, loaded, uncut, mapping, identity, trace, outputs, replayRecord,
  source, limit, call, waiting, sends, asked, refused, returned, traced, artifacts, offsets, batch, policy, inputs,
  index, decisions, todo, held, outcome, published, overlapped, runs, responses, dialect, resolved, probing, kept,
  roots, sessions, trouble, platform, proc, exited, stopped, armed, passes, pass, ended, failed, closed, heldOpen>>
NotM == <<
  file, synced, queue, pc, start, ready, undo, told, loaded, uncut, stored, state, maximumTokens, artifacts,
  offsets, batch, policy, inputs, index, decisions, todo, held, outcome, published, overlapped, runs, responses,
  dialect, resolved, probing, kept, roots, sessions, trouble, platform, proc, exited, stopped, armed, passes, pass,
  ended, failed, closed, heldOpen>>
NotC == <<
  queue, start, ready, undo, log, loaded, uncut, stored, maximumTokens, mapping, identity, trace, outputs,
  replayRecord, source, limit, call, waiting, sends, asked, refused, returned, traced, policy, inputs, index,
  decisions, todo, held, outcome, published, overlapped, runs, responses, dialect, resolved, probing, kept, roots,
  sessions, trouble, platform, proc, exited, stopped, armed, passes, pass, ended, failed, closed, heldOpen>>
NotG == <<
  file, synced, queue, start, ready, undo, log, crashes, loaded, uncut, stored, state, maximumTokens, mapping,
  identity, trace, outputs, replayRecord, source, limit, call, waiting, sends, asked, refused, returned, traced,
  artifacts, offsets, batch, dialect, resolved, probing, kept, roots, sessions, trouble, platform, proc, exited,
  stopped, armed, passes, pass, ended, failed, closed, heldOpen>>
NotX == <<
  synced, queue, pc, start, ready, undo, told, log, faults, crashes, loaded, uncut, stored, state, maximumTokens,
  mapping, identity, trace, outputs, replayRecord, source, limit, waiting, sends, asked, refused, returned, traced,
  artifacts, offsets, batch, policy, inputs, index, decisions, todo, held, outcome, published, overlapped, runs,
  responses, platform, proc, exited, stopped, armed, passes, pass, ended, failed, closed, heldOpen>>
NotO == <<
  file, synced, queue, pc, start, ready, undo, told, log, faults, crashes, loaded, uncut, stored, state,
  maximumTokens, mapping, identity, trace, outputs, replayRecord, source, limit, call, waiting, sends, asked,
  refused, returned, traced, artifacts, offsets, batch, policy, inputs, index, decisions, todo, held, published,
  overlapped, runs, responses, dialect, resolved, probing, kept, roots, sessions, trouble>>
vars == <<which,
  file, synced, queue, pc, start, ready, undo, told, log, faults, crashes, loaded, uncut, stored, state,
  maximumTokens, mapping, identity, trace, outputs, replayRecord, source, limit, call, waiting, sends, asked,
  refused, returned, traced, artifacts, offsets, batch, policy, inputs, index, decisions, todo, held, outcome,
  published, overlapped, runs, responses, dialect, resolved, probing, kept, roots, sessions, trouble, platform,
  proc, exited, stopped, armed, passes, pass, ended, failed, closed, heldOpen>>

Init ==
  \/ /\ which = "events" /\ E!Init
     /\ loaded = Null /\ uncut = Null /\ stored = Null /\ state = Null /\ maximumTokens = Null /\ mapping = Null
     /\ identity = Null /\ trace = Null /\ outputs = Null /\ replayRecord = Null /\ source = Null /\ limit = Null
     /\ call = Null /\ waiting = Null /\ sends = Null /\ asked = Null /\ refused = Null /\ returned = Null
     /\ traced = Null /\ artifacts = Null /\ offsets = Null /\ batch = Null /\ policy = Null /\ inputs = Null
     /\ index = Null /\ decisions = Null /\ todo = Null /\ held = Null /\ outcome = Null /\ published = Null
     /\ overlapped = Null /\ runs = Null /\ responses = Null /\ dialect = Null /\ resolved = Null /\ probing = Null
     /\ kept = Null /\ roots = Null /\ sessions = Null /\ trouble = Null /\ platform = Null /\ proc = Null
     /\ exited = Null /\ stopped = Null /\ armed = Null /\ passes = Null /\ pass = Null /\ ended = Null
     /\ failed = Null /\ closed = Null /\ heldOpen = Null
  \/ /\ which = "journal" /\ J!Init
     /\ queue = Null /\ ready = Null /\ undo = Null /\ told = Null /\ log = Null /\ stored = Null /\ state = Null
     /\ maximumTokens = Null /\ mapping = Null /\ identity = Null /\ trace = Null /\ outputs = Null
     /\ replayRecord = Null /\ source = Null /\ limit = Null /\ call = Null /\ waiting = Null /\ sends = Null
     /\ asked = Null /\ refused = Null /\ returned = Null /\ traced = Null /\ artifacts = Null /\ offsets = Null
     /\ batch = Null /\ policy = Null /\ inputs = Null /\ index = Null /\ decisions = Null /\ todo = Null
     /\ held = Null /\ outcome = Null /\ published = Null /\ overlapped = Null /\ runs = Null /\ responses = Null
     /\ dialect = Null /\ resolved = Null /\ probing = Null /\ kept = Null /\ roots = Null /\ sessions = Null
     /\ trouble = Null /\ platform = Null /\ proc = Null /\ exited = Null /\ stopped = Null /\ armed = Null
     /\ passes = Null /\ pass = Null /\ ended = Null /\ failed = Null /\ closed = Null /\ heldOpen = Null
  \/ /\ which = "budget" /\ B!Init
     /\ file = Null /\ synced = Null /\ queue = Null /\ pc = Null /\ start = Null /\ ready = Null /\ undo = Null
     /\ log = Null /\ loaded = Null /\ uncut = Null /\ mapping = Null /\ identity = Null /\ trace = Null
     /\ outputs = Null /\ replayRecord = Null /\ source = Null /\ limit = Null /\ call = Null /\ waiting = Null
     /\ sends = Null /\ asked = Null /\ refused = Null /\ returned = Null /\ traced = Null /\ artifacts = Null
     /\ offsets = Null /\ batch = Null /\ policy = Null /\ inputs = Null /\ index = Null /\ decisions = Null
     /\ todo = Null /\ held = Null /\ outcome = Null /\ published = Null /\ overlapped = Null /\ runs = Null
     /\ responses = Null /\ dialect = Null /\ resolved = Null /\ probing = Null /\ kept = Null /\ roots = Null
     /\ sessions = Null /\ trouble = Null /\ platform = Null /\ proc = Null /\ exited = Null /\ stopped = Null
     /\ armed = Null /\ passes = Null /\ pass = Null /\ ended = Null /\ failed = Null /\ closed = Null
     /\ heldOpen = Null
  \/ /\ which = "activity" /\ M!Init
     /\ file = Null /\ synced = Null /\ queue = Null /\ pc = Null /\ start = Null /\ ready = Null /\ undo = Null
     /\ told = Null /\ loaded = Null /\ uncut = Null /\ stored = Null /\ state = Null /\ maximumTokens = Null
     /\ artifacts = Null /\ offsets = Null /\ batch = Null /\ policy = Null /\ inputs = Null /\ index = Null
     /\ decisions = Null /\ todo = Null /\ held = Null /\ outcome = Null /\ published = Null /\ overlapped = Null
     /\ runs = Null /\ responses = Null /\ dialect = Null /\ resolved = Null /\ probing = Null /\ kept = Null
     /\ roots = Null /\ sessions = Null /\ trouble = Null /\ platform = Null /\ proc = Null /\ exited = Null
     /\ stopped = Null /\ armed = Null /\ passes = Null /\ pass = Null /\ ended = Null /\ failed = Null
     /\ closed = Null /\ heldOpen = Null
  \/ /\ which = "corpus" /\ C!Init
     /\ queue = Null /\ start = Null /\ ready = Null /\ undo = Null /\ log = Null /\ loaded = Null /\ uncut = Null
     /\ stored = Null /\ maximumTokens = Null /\ mapping = Null /\ identity = Null /\ trace = Null
     /\ outputs = Null /\ replayRecord = Null /\ source = Null /\ limit = Null /\ call = Null /\ waiting = Null
     /\ sends = Null /\ asked = Null /\ refused = Null /\ returned = Null /\ traced = Null /\ policy = Null
     /\ inputs = Null /\ index = Null /\ decisions = Null /\ todo = Null /\ held = Null /\ outcome = Null
     /\ published = Null /\ overlapped = Null /\ runs = Null /\ responses = Null /\ dialect = Null
     /\ resolved = Null /\ probing = Null /\ kept = Null /\ roots = Null /\ sessions = Null /\ trouble = Null
     /\ platform = Null /\ proc = Null /\ exited = Null /\ stopped = Null /\ armed = Null /\ passes = Null
     /\ pass = Null /\ ended = Null /\ failed = Null /\ closed = Null /\ heldOpen = Null
  \/ /\ which = "checkpoints" /\ G!Init
     /\ file = Null /\ synced = Null /\ queue = Null /\ start = Null /\ ready = Null /\ undo = Null /\ log = Null
     /\ crashes = Null /\ loaded = Null /\ uncut = Null /\ stored = Null /\ state = Null /\ maximumTokens = Null
     /\ mapping = Null /\ identity = Null /\ trace = Null /\ outputs = Null /\ replayRecord = Null /\ source = Null
     /\ limit = Null /\ call = Null /\ waiting = Null /\ sends = Null /\ asked = Null /\ refused = Null
     /\ returned = Null /\ traced = Null /\ artifacts = Null /\ offsets = Null /\ batch = Null /\ dialect = Null
     /\ resolved = Null /\ probing = Null /\ kept = Null /\ roots = Null /\ sessions = Null /\ trouble = Null
     /\ platform = Null /\ proc = Null /\ exited = Null /\ stopped = Null /\ armed = Null /\ passes = Null
     /\ pass = Null /\ ended = Null /\ failed = Null /\ closed = Null /\ heldOpen = Null
  \/ /\ which = "cli" /\ X!Init
     /\ synced = Null /\ queue = Null /\ pc = Null /\ start = Null /\ ready = Null /\ undo = Null /\ told = Null
     /\ log = Null /\ faults = Null /\ crashes = Null /\ loaded = Null /\ uncut = Null /\ stored = Null
     /\ state = Null /\ maximumTokens = Null /\ mapping = Null /\ identity = Null /\ trace = Null /\ outputs = Null
     /\ replayRecord = Null /\ source = Null /\ limit = Null /\ waiting = Null /\ sends = Null /\ asked = Null
     /\ refused = Null /\ returned = Null /\ traced = Null /\ artifacts = Null /\ offsets = Null /\ batch = Null
     /\ policy = Null /\ inputs = Null /\ index = Null /\ decisions = Null /\ todo = Null /\ held = Null
     /\ outcome = Null /\ published = Null /\ overlapped = Null /\ runs = Null /\ responses = Null
     /\ platform = Null /\ proc = Null /\ exited = Null /\ stopped = Null /\ armed = Null /\ passes = Null
     /\ pass = Null /\ ended = Null /\ failed = Null /\ closed = Null /\ heldOpen = Null
  \/ /\ which = "process" /\ O!Init
     /\ file = Null /\ synced = Null /\ queue = Null /\ pc = Null /\ start = Null /\ ready = Null /\ undo = Null
     /\ told = Null /\ log = Null /\ faults = Null /\ crashes = Null /\ loaded = Null /\ uncut = Null
     /\ stored = Null /\ state = Null /\ maximumTokens = Null /\ mapping = Null /\ identity = Null /\ trace = Null
     /\ outputs = Null /\ replayRecord = Null /\ source = Null /\ limit = Null /\ call = Null /\ waiting = Null
     /\ sends = Null /\ asked = Null /\ refused = Null /\ returned = Null /\ traced = Null /\ artifacts = Null
     /\ offsets = Null /\ batch = Null /\ policy = Null /\ inputs = Null /\ index = Null /\ decisions = Null
     /\ todo = Null /\ held = Null /\ published = Null /\ overlapped = Null /\ runs = Null /\ responses = Null
     /\ dialect = Null /\ resolved = Null /\ probing = Null /\ kept = Null /\ roots = Null /\ sessions = Null
     /\ trouble = Null

Next ==
  \/ which = "events" /\ E!Next /\ UNCHANGED <<which, NotE>>
  \/ which = "journal" /\ J!Next /\ UNCHANGED <<which, NotJ>>
  \/ which = "budget" /\ B!Next /\ UNCHANGED <<which, NotB>>
  \/ which = "activity" /\ M!Next /\ UNCHANGED <<which, NotM>>
  \/ which = "corpus" /\ C!Next /\ UNCHANGED <<which, NotC>>
  \/ which = "checkpoints" /\ G!Next /\ UNCHANGED <<which, NotG>>
  \/ which = "cli" /\ X!Next /\ UNCHANGED <<which, NotX>>
  \/ which = "process" /\ O!Next /\ UNCHANGED <<which, NotO>>

Spec == Init /\ [][Next]_vars

Symmetry == Permutations({a1, a2})

(* The properties of the modules. *)
LogKept == which = "events" => E!LogKept
AckedKept == which = "journal" => J!AckedKept
BudgetKept == which = "budget" => B!BudgetKept
AnswersKept == which = "activity" => M!AnswersKept
CorpusKept == which = "corpus" => C!CorpusKept
DecisionObeyed == which = "checkpoints" => G!DecisionObeyed
CliTurnsSound == which = "cli" => X!CliTurnsSound
NativeTreeEnded == which = "process" => O!NativeTreeEnded
=============================================================================
