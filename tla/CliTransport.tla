--------------------------- MODULE CliTransport ---------------------------
(***************************************************************************)
(* A subscription CLI as a provider (CliTransport, dialects.ts, prompt.ts, *)
(* classify.ts): the calls of a run share one transport. Each call probes  *)
(* the CLI, makes a directory, runs one process and reads its events; when *)
(* the model asked for tools the CLI's own session and its directory are   *)
(* kept for the turn that answers them. A conversation is the sequence of  *)
(* tool requests answered in it, a token count a small number.             *)
(***************************************************************************)
EXTENDS Naturals, FiniteSets, Sequences, SequencesExt

CONSTANTS
  Calls,       \* what sends: a node's tool loop each
  Dialects,    \* of "claude", "codex", "gemini", "antigravity"
  Requests,    \* the tool requests a model may make
  Streams,     \* what a process may write: [events, exit]
  MaxTurns, MaxUpgrades, MaxTrouble, Null

TransportAssumption == /\ \A stream \in Streams : stream.events \in Seq(ToSet(stream.events)) /\ "none" \notin ToSet(stream.events)
                       /\ IsFiniteSet(Calls) /\ {MaxTurns, MaxUpgrades, MaxTrouble} \subseteq Nat

VARIABLES
  dialect,
  file,       \* the CLI file's content, as a version
  resolved,   \* #executable: the version probed and the file's stamp before it
  probing,    \* the call whose probe the others wait for
  kept,       \* #conversations, by key
  roots,      \* the directories on disk
  sessions,   \* what the CLI stored: the conversation and the tokens it cost, by session
  call,       \* what each call does
  trouble     \* failed calls, closings and removals of what waited too long

vars == <<dialect, file, resolved, probing, kept, roots, sessions, call, trouble>>

KeepsSessions == dialect # "gemini"
CumulativeUsage == dialect \in {"codex", "antigravity"}
Idle == [pc |-> "idle", turns |-> <<>>, stamp |-> 0, version |-> 0, seen |-> {}, session |-> Null, resume |-> FALSE, reported |-> 0,
         left |-> FALSE, told |-> Null]

Init ==
  /\ dialect \in Dialects /\ file = 1 /\ resolved = Null /\ probing = Null /\ kept = <<>> /\ roots = {} /\ sessions = <<>>
  /\ call = [c \in Calls |-> Idle] /\ trouble = 0

----------------------------------------------------------------------------
(* The readers: the events of a stream in turn, until one is forbidden. *)
Error(code, retryable) == [kind |-> "error", code |-> code, retryable |-> retryable]
ForbiddenToolUse(duringReply) == Error("MALFORMED_RESPONSE", duringReply)
Has(stream, event) == event \in ToSet(stream.events)
Least(places) == CHOOSE i \in places : \A j \in places : i <= j
FirstOf(stream, bad) ==
  LET at == {i \in DOMAIN stream.events : stream.events[i] \in bad} IN IF at = {} THEN "none" ELSE stream.events[Least(at)]
FailureClasses ==
  <<[says |-> "auth", error |-> Error("AUTH", FALSE)], [says |-> "model", error |-> Error("INVALID_REQUEST", FALSE)],
    [says |-> "ceiling", error |-> Error("OUTPUT_LIMIT", FALSE)], [says |-> "quota", error |-> Error("QUOTA", FALSE)],
    [says |-> "throttled", error |-> Error("RATE_LIMIT", TRUE)], [says |-> "upstream", error |-> Error("HTTP", TRUE)]>>
ClassifyCliFailure(stream) ==
  LET known == {i \in DOMAIN FailureClasses : Has(stream, FailureClasses[i].says)}
  IN  IF known = {} THEN Error("HTTP", FALSE) ELSE FailureClasses[Least(known)].error
Failures == {"auth", "model", "ceiling", "quota", "throttled", "upstream", "failed"}
Incomplete(stream) ==
  IF stream.exit = 0 /\ ToSet(stream.events) \intersect Failures = {}
  THEN Error("MALFORMED_RESPONSE", FALSE) ELSE ClassifyCliFailure(stream)
Complete(stream) == Has(stream, "result") /\ ~Has(stream, "failed") /\ stream.exit = 0
ClaudeReader(stream) ==
  LET bad == FirstOf(stream, {"configured", "tool", "ceiling"})
  IN  IF bad # "none" THEN (CASE bad = "configured" -> ForbiddenToolUse(FALSE) [] bad = "tool" -> ForbiddenToolUse(TRUE)
                            [] OTHER -> Error("OUTPUT_LIMIT", FALSE))
      ELSE IF ~Has(stream, "result") THEN Incomplete(stream)
      ELSE IF Complete(stream) THEN [kind |-> "reply"] ELSE ClassifyCliFailure(stream)
CodexReader(stream) ==
  LET bad == FirstOf(stream, {"configured", "tool"})
  IN  IF bad # "none" THEN (IF bad = "tool" THEN ForbiddenToolUse(TRUE) ELSE Error("INVALID_REQUEST", FALSE))
      ELSE IF Has(stream, "result") /\ stream.exit = 0 THEN [kind |-> "reply"] ELSE Incomplete(stream)
GeminiReader(stream) ==
  IF Has(stream, "tool") THEN ForbiddenToolUse(TRUE) ELSE IF Complete(stream) THEN [kind |-> "reply"] ELSE Incomplete(stream)
AntigravityReader(stream) ==
  LET bad == FirstOf(stream, {"tool", "ceiling"})
  IN  IF bad # "none" THEN (IF bad = "tool" THEN ForbiddenToolUse(TRUE) ELSE ClassifyCliFailure(stream))
      ELSE IF ~Has(stream, "result") THEN Incomplete(stream)
      ELSE IF ~Complete(stream) THEN ClassifyCliFailure(stream)
      ELSE IF Has(stream, "empty") THEN Error("MALFORMED_RESPONSE", TRUE) ELSE [kind |-> "reply"]
(* A reply reported past the ceiling is refused where the CLI takes no ceiling; a process not ended as asked is an error. *)
Read(stream) ==
  CASE stream.stopped = "left" -> Error("LEFT", FALSE)
    [] stream.stopped = "timeout" -> Error("TIMEOUT", TRUE)
    [] stream.stopped = "cancelled" -> Error("CANCELLED", FALSE)
    [] OTHER -> LET outcome == CASE dialect = "claude" -> ClaudeReader(stream) [] dialect = "codex" -> CodexReader(stream)
                                 [] dialect = "gemini" -> GeminiReader(stream) [] OTHER -> AntigravityReader(stream)
                IN  IF outcome.kind = "reply" /\ dialect # "claude" /\ Has(stream, "long") THEN Error("OUTPUT_LIMIT", FALSE) ELSE outcome

----------------------------------------------------------------------------
(* #resolve: a cached version is used while the file's stamp is the one taken before it was probed. *)
Send(c) ==
  /\ call[c].pc = "idle" /\ Len(call[c].turns) < MaxTurns
  /\ call' = [call EXCEPT ![c] = [Idle EXCEPT !.pc = "resolve", !.turns = call[c].turns, !.seen = {file}]]
  /\ UNCHANGED <<dialect, file, resolved, probing, kept, roots, sessions, trouble>>
Resolve(c) ==
  /\ call[c].pc = "resolve" /\ probing = Null
  /\ \/ /\ resolved # Null /\ resolved.stamp = file
        /\ call' = [call EXCEPT ![c].pc = "sweep", ![c].version = resolved.version] /\ UNCHANGED <<resolved, probing>>
     \/ /\ resolved # Null => resolved.stamp # file
        /\ resolved' = Null /\ probing' = c /\ call' = [call EXCEPT ![c].pc = "probe", ![c].stamp = file]
  /\ UNCHANGED <<dialect, file, kept, roots, sessions, trouble>>
Probe(c) ==
  /\ call[c].pc = "probe"
  /\ resolved' = [version |-> file, stamp |-> call[c].stamp] /\ probing' = Null
  /\ call' = [call EXCEPT ![c].pc = "sweep", ![c].version = file]
  /\ UNCHANGED <<dialect, file, kept, roots, sessions, trouble>>
(* The CLI is updated in place. *)
Upgrade ==
  /\ file <= MaxUpgrades /\ file' = file + 1
  /\ call' = [c \in Calls |-> [call[c] EXCEPT !.seen = IF @ = {} THEN @ ELSE @ \union {file'}]]
  /\ UNCHANGED <<dialect, resolved, probing, kept, roots, sessions, trouble>>

(* conversationKey and #take: a kept session is continued once, by the conversation that asked for its tools. *)
KeyOf(turns) == turns
KeptOf(key) == IF key \in DOMAIN kept THEN kept[key] ELSE <<>>
Put(key, conversations) ==
  [k \in (DOMAIN kept \union {key}) \ {x \in {key} : conversations = <<>>} |-> IF k = key THEN conversations ELSE kept[k]]
Without(store, ids) == [s \in DOMAIN store \ ids |-> store[s]]
Fresh == CHOOSE n \in 1..(Cardinality(roots) + 1) : n \notin roots
Started(c, id, continued, reported) ==
  call' = [call EXCEPT ![c].pc = "run", ![c].session = id, ![c].resume = continued, ![c].reported = reported]
Continue(c) ==
  /\ call[c].pc = "ready" /\ KeepsSessions /\ call[c].turns # <<>> /\ KeptOf(KeyOf(call[c].turns)) # <<>>
  /\ LET conversations == KeptOf(KeyOf(call[c].turns))
     IN  kept' = Put(KeyOf(call[c].turns), Tail(conversations)) /\ Started(c, conversations[1].session, TRUE, conversations[1].usage)
  /\ UNCHANGED <<dialect, file, resolved, probing, roots, sessions, trouble>>
(* A call sent whole: a fresh directory, and a session of its own when it offers tools. *)
Whole(c) ==
  /\ \/ call[c].pc = "again"
     \/ call[c].pc = "ready" /\ (KeepsSessions /\ call[c].turns # <<>> => KeptOf(KeyOf(call[c].turns)) = <<>>)
  /\ roots' = roots \union {Fresh} /\ Started(c, Fresh, FALSE, 0)
  /\ UNCHANGED <<dialect, file, resolved, probing, kept, sessions, trouble>>

(* The CLI's own work: it adds the turn to its session, and reports the session's or the turn's tokens. *)
Before(c) == IF call[c].resume THEN sessions[call[c].session] ELSE [turns |-> call[c].turns, tokens |-> 0]
TurnUsageWhole(c, usage) == usage
TurnUsage(c, usage) ==
  IF call[c].resume /\ CumulativeUsage THEN (IF usage > call[c].reported THEN usage - call[c].reported ELSE 0) ELSE usage
Clean(stream) == stream.exit = 0 /\ Has(stream, "result") /\ ~Has(stream, "tool")
Told(c, stream, own, usage) ==
  [own |-> own, charged |-> TurnUsage(c, usage), clean |-> Clean(stream), read |-> Before(c).turns = call[c].turns]
Removed(c) == roots' = roots \ {call[c].session} /\ sessions' = Without(sessions, {call[c].session})
Returned(c, pc, turns, told) == call' = [call EXCEPT ![c] = [Idle EXCEPT !.pc = pc, !.turns = turns, !.told = told]]
Reply(c) ==
  /\ call[c].pc = "run"
  /\ \E stream \in Streams, own \in {Len(call[c].turns) + 1} :
       /\ Read(stream).kind = "reply"
       /\ \E usage \in {IF CumulativeUsage THEN Before(c).tokens + own ELSE own} :
          \/ \E request \in Requests, told \in {Told(c, stream, own, usage)} : \* it asks for tools
               /\ Returned(c, "idle", Append(call[c].turns, request), told)
               /\ \/ /\ KeepsSessions /\ UNCHANGED roots
                     /\ sessions' = [s \in DOMAIN sessions \union {call[c].session} |->
                                       IF s # call[c].session THEN sessions[s]
                                       ELSE [turns |-> Append(Before(c).turns, request), tokens |-> Before(c).tokens + own]]
                     /\ \E key \in {KeyOf(Append(call[c].turns, request))} :
                          kept' = Put(key, Append(KeptOf(key), [session |-> call[c].session, usage |-> usage]))
                  \/ ~KeepsSessions /\ Removed(c) /\ UNCHANGED kept
          \/ Removed(c) /\ UNCHANGED kept /\ Returned(c, "ended", call[c].turns, Told(c, stream, own, usage))
  /\ UNCHANGED <<dialect, file, resolved, probing, trouble>>

(* A continued session that fails for its own sake is sent whole once; any other failure is the caller's. *)
NotRepeated == {"QUOTA", "CANCELLED", "TIMEOUT", "OUTPUT_LIMIT", "AUTH", "RATE_LIMIT", "INVALID_REQUEST"}
SentWhole(c, error) ==
  call[c].resume /\ ~(error.retryable /\ error.code # "MALFORMED_RESPONSE") /\ error.code \notin NotRepeated \union {"LEFT"}
Fail(c) ==
  /\ call[c].pc = "run" /\ trouble < MaxTrouble /\ trouble' = trouble + 1
  /\ \E stream \in Streams :
       /\ Read(stream).kind = "error"
       /\ call' = [call EXCEPT ![c] = [Idle EXCEPT !.pc = IF SentWhole(c, Read(stream)) THEN "again" ELSE IF Read(stream).retryable THEN "idle" ELSE "ended", !.turns = call[c].turns,
                                     !.version = call[c].version, !.seen = call[c].seen, !.left = Read(stream).code = "LEFT"]]
  /\ Removed(c) /\ UNCHANGED <<dialect, file, resolved, probing, kept>>

(* #sweep, before each call is sent, removes what two hours were not enough for, the oldest first; close removes all. *)
AllKept == UNION {{kept[k][i].session : i \in DOMAIN kept[k]} : k \in DOMAIN kept}
RemoveUnkept(rest) ==
  LET ids == AllKept \ UNION {{rest[k][i].session : i \in DOMAIN rest[k]} : k \in DOMAIN rest}
  IN  kept' = rest /\ roots' = roots \ ids /\ sessions' = Without(sessions, ids)
Sweep(c) ==
  /\ call[c].pc = "sweep" /\ call' = [call EXCEPT ![c].pc = "ready"]
  /\ \/ UNCHANGED <<kept, roots, sessions, trouble>>
     \/ /\ trouble < MaxTrouble /\ trouble' = trouble + 1
        /\ \E key \in DOMAIN kept, n \in 1..Cardinality(Calls) :
             n <= Len(kept[key]) /\ RemoveUnkept(Put(key, SubSeq(kept[key], n + 1, Len(kept[key]))))
  /\ UNCHANGED <<dialect, file, resolved, probing>>
Close ==
  /\ trouble < MaxTrouble /\ trouble' = trouble + 1 /\ RemoveUnkept(<<>>)
  /\ UNCHANGED <<dialect, file, resolved, probing, call>>

Next ==
  \/ Upgrade \/ Close
  \/ \E c \in Calls : Send(c) \/ Resolve(c) \/ Probe(c) \/ Sweep(c) \/ Continue(c) \/ Whole(c) \/ Reply(c) \/ Fail(c)

Spec == Init /\ [][Next]_vars

----------------------------------------------------------------------------
Running == {c \in Calls : call[c].pc = "run"}

(* The directories and CLI sessions that exist are the ones a process or a kept conversation uses, each by one of    *)
(* them; a session is continued only with the conversation it holds; a turn is charged its own tokens; no process    *)
(* follows one that left others running; a call runs the version the file had since it began; and a reply is taken   *)
(* only from a stream that completed without the CLI's own tools.                                                    *)
CliTurnsSound ==
  /\ roots = {call[c].session : c \in Running} \union AllKept /\ DOMAIN sessions \subseteq roots
  /\ \A c, d \in Running : call[c].session = call[d].session => c = d
  /\ \A c \in Running : call[c].session \notin AllKept
  /\ \A k, l \in DOMAIN kept : \A i \in DOMAIN kept[k], j \in DOMAIN kept[l] : kept[k][i].session = kept[l][j].session => k = l /\ i = j
  /\ \A c \in Running : call[c].resume => sessions[call[c].session].turns = call[c].turns
  /\ \A c \in Calls : call[c].pc = "run" => ~call[c].left /\ call[c].version \in call[c].seen
  /\ \A c \in Calls : call[c].told # Null =>
       call[c].told.charged = call[c].told.own /\ call[c].told.read /\ call[c].told.clean
=============================================================================
