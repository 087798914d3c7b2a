---------------------------- MODULE ToolLoop ----------------------------
(***************************************************************************)
(* One model activity with tools: ModelHarness.invoke and the turns, tool  *)
(* results and repairs it makes of it (model-harness.ts, the canonical     *)
(* harness adapter, model-history.ts, snapshot-tools.ts, tools/registry).  *)
(* The reply to each turn is recorded when it is paid; what the tools      *)
(* answered, what they read and what they have left to read are held in    *)
(* memory and made again from the recorded replies after a stop. A line is *)
(* its file and number, a text its size.                                   *)
(***************************************************************************)
EXTENDS Naturals, FiniteSets, FiniteSetsExt, Sequences, SequencesExt

CONSTANTS
  Lines,        \* the snapshot: for each file the sizes of its lines, line ends included
  Unit,         \* the files the activity was given
  Setups,       \* [maximum: bytes beyond the unit, whole: the unit was sent whole, turns, repairs, context, replies]
  CallLimit, Trailer, NodeBudget,  \* of one result, of what it says it left out, of all results of an attempt
  Frame, Mark, Name,               \* sizes: the frame of a result, a line's number, a location
  Initial, Added, Marker,          \* sizes: the prompt, what a repair adds, the reference to an archive
  MaxTrouble, MaxStops

VARIABLES
  setup,
  records,   \* durable: the turn's input and reply, by attempt and turn
  marks,     \* durable: attempts recorded as stopped at a limit, out of time or refused
  pc, attempt, turn,
  history,   \* the results of each exchange of this attempt
  tools,     \* this attempt's tool state
  reports,   \* what each attempt read beyond the unit, and whether its turns were spent
  why,       \* the kind of the mark being made
  ends,      \* how the executions of this activity ended
  trouble, stops

durable == <<setup, records, marks>>
vars == <<durable, pc, attempt, turn, history, tools, reports, why, ends, trouble, stops>>

MarkKinds == {"limited", "timed", "refused"}
Least(a, b) == IF a < b THEN a ELSE b
Total(sizes) == FoldLeft(LAMBDA sum, size : sum + size, 0, sizes)
Bytes(file, first, last) == Total(SubSeq(Lines[file], first, last))
Named(file, first, last) == {<<file, line>> : line \in first..last}
FreshTools == [bytes |-> 0, reads |-> {}, refused |-> 0, used |-> 0, stored |-> 0, results |-> <<>>]

Init ==
  /\ setup \in Setups /\ records = <<>> /\ marks = {}
  /\ pc = "start" /\ attempt = 0 /\ turn = 0 /\ history = <<>> /\ tools = FreshTools /\ reports = <<>> /\ why = "none"
  /\ ends = {} /\ trouble = 0 /\ stops = 0

----------------------------------------------------------------------------
(* ToolRegistry.invoke: a result is framed, then charged to the node; one that does not fit fails. *)
Failed(state, code) == [state EXCEPT !.results = Append(@, [ok |-> FALSE, code |-> code, size |-> 1, lines |-> {}])]
BoundOutput(raw) == Least(raw, CallLimit)
Exceeded(state, size) == state.used + size > NodeBudget
Deliver(state, raw, lines) ==
  LET size == Frame + BoundOutput(raw)
  IN  IF Exceeded(state, size) THEN Failed(state, "NODE_BYTE_BUDGET_EXCEEDED")
      ELSE [state EXCEPT !.used = @ + size,
              !.results = Append(@, [ok |-> TRUE, code |-> "none", size |-> size, lines |-> IF raw > CallLimit THEN {} ELSE lines])]
Delivered(state) == Last(state.results)

(* readFile, boundOutput and wholeLines: a read cut at the limit carries whole lines, and all of it is stored. *)
WholeLines(call, limit) == {n \in call.first..call.last : Bytes(call.file, call.first, n) <= limit}
ReadFile(state, call, limit) ==
  LET whole == WholeLines(call, limit)
      raw == Bytes(call.file, call.first, call.last)
      carried == IF whole = {} THEN limit ELSE Bytes(call.file, call.first, call.first + Cardinality(whole) - 1)
  IN  Deliver(IF raw > limit THEN [state EXCEPT !.stored = raw] ELSE state, carried, {<<call.file, n>> : n \in whole})
Remaining(state) == setup.maximum - Least(state.bytes, setup.maximum)
ReadBeyond(state, call) ==
  LET result == ReadFile(state, call, Least(Remaining(state), CallLimit))
  IN  IF Lines[call.file][call.first] > Remaining(state)
      THEN [Failed(state, "READ_BUDGET_SPENT") EXCEPT !.refused = @ + 1]
      ELSE IF ~Delivered(result).ok THEN result
      ELSE [result EXCEPT !.bytes = @ + Delivered(result).size, !.reads = @ \union Delivered(result).lines]

(* LineBlocks: a block too long or refused is only named, and room is kept to say so. *)
Write(block, size) ==
  IF block.size + size > CallLimit - Trailer THEN [block EXCEPT !.left = TRUE] ELSE [block EXCEPT !.size = @ + size]
AddBlock(block, asked) ==
  LET size == Bytes(asked.file, asked.first, asked.last)
      shown == size + Mark * (asked.last - asked.first + 1)
      lines == Named(asked.file, asked.first, asked.last)
  IN  CASE block.size + shown > CallLimit - Trailer -> Write(block, Name)
        [] asked.file \in Unit /\ setup.whole -> Write(block, Name)
        [] asked.file \in Unit /\ ~setup.whole -> [Write(block, shown) EXCEPT !.lines = @ \union lines]
        [] asked.file \notin Unit /\ block.bytes + size > setup.maximum -> [Write(block, Name) EXCEPT !.refused = @ + 1]
        [] OTHER -> [Write(block, shown) EXCEPT !.lines = @ \union lines, !.bytes = @ + size, !.reads = @ \union lines]
LookupKept(state, call) ==
  LET block == FoldLeft(AddBlock, [size |-> 0, left |-> FALSE, lines |-> {}, bytes |-> state.bytes,
                                   reads |-> state.reads, refused |-> state.refused], call.blocks)
      charged == [state EXCEPT !.bytes = block.bytes, !.reads = block.reads, !.refused = block.refused]
      trailer == (IF block.left THEN Trailer \div 2 ELSE 0) + (IF block.refused > state.refused THEN Trailer \div 2 ELSE 0)
  IN  IF call.blocks = <<>> THEN Failed(state, "ZERO_RESULTS") ELSE Deliver(charged, block.size + trailer, block.lines)
(* Lines charged for a result that then fails were never delivered: neither spent nor citable. *)
Lookup(state, call) ==
  LET result == LookupKept(state, call)
  IN  IF Delivered(result).ok THEN result ELSE [result EXCEPT !.bytes = state.bytes, !.reads = state.reads]

(* snapshotTools' invoke *)
RunTool(state, call) ==
  CASE call.tool = "lookup" -> Lookup(state, call)
    [] call.tool = "read" /\ call.file \notin Unit -> ReadBeyond(state, call)
    [] call.tool = "read" /\ call.file \in Unit -> ReadFile(state, call, CallLimit)
    [] call.tool = "artifact" /\ state.stored > 0 -> Deliver(state, Least(state.stored, CallLimit), {})
    [] call.tool = "artifact" /\ state.stored = 0 -> Failed(state, "ARTIFACT_OUTSIDE_ACTIVITY_CONTEXT")
    [] OTHER -> Failed(state, "TOOL_NOT_ALLOWED")
(* execute: after the last tool turn a call is answered, unrun. *)
RunCall(state, call) == IF turn = setup.turns THEN Failed(state, "TOOL_TURN_LIMIT_REACHED") ELSE RunTool(state, call)
RunTools(state, calls) == FoldLeft(RunCall, [state EXCEPT !.results = <<>>], calls)

----------------------------------------------------------------------------
(* boundModelHistory: the fewest complete exchanges are archived that leave the rest within the call. *)
Cost(exchange) == 1 + Total([i \in DOMAIN exchange |-> exchange[i].size])
CostOf(exchanges) == Total([i \in DOMAIN exchanges |-> Cost(exchanges[i])])
FitsFrom(end) ==
  Initial + (IF attempt > 0 THEN Added ELSE 0) + (IF end > 0 THEN Marker ELSE 0)
    + CostOf(SubSeq(history, end + 1, Len(history))) <= setup.context
Boundaries == {end \in 0..Len(history) : FitsFrom(end)}
Archived == CHOOSE end \in Boundaries : \A other \in Boundaries : end <= other
(* What is left out is stored before the call, so the tools the call asks for can read it. *)
Kept == IF Archived > 0 THEN [tools EXCEPT !.stored = CostOf(SubSeq(history, 1, Archived))] ELSE tools
Input == <<Archived, SubSeq(history, Archived + 1, Len(history))>>

Spent == \E i \in DOMAIN history : \E j \in DOMAIN history[i] : history[i][j].code = "TOOL_TURN_LIMIT_REACHED"
Report == [reads |-> tools.reads, refused |-> tools.refused, spent |-> Spent]
End(kind, told) == pc' = "ended" /\ ends' = ends \union {[end |-> kind, told |-> IF kind \in MarkKinds THEN <<>> ELSE told]}
Memory == <<attempt, turn, history, tools, reports, why>>

(* invokeBounded: an attempt recorded as limited, refused or out of time is not asked again. *)
Start ==
  /\ pc = "start" /\ UNCHANGED <<durable, attempt, reports, trouble, stops>>
  /\ turn' = 0 /\ history' = <<>> /\ tools' = FreshTools
  /\ \E kinds \in {{k \in MarkKinds : <<attempt, k>> \in marks}} :
       \/ kinds = {} /\ pc' = "turn" /\ UNCHANGED <<why, ends>>
       \/ \E k \in kinds : attempt = 0 /\ why' = k /\ End(k, reports)
       \/ \E k \in kinds : attempt > 0 /\ why' = k /\ pc' = "activity" /\ UNCHANGED ends

(* A turn not yet answered is asked, and its reply recorded; a call may also stop at a limit or run out of time. *)
Ask ==
  /\ pc = "turn" /\ Boundaries # {} /\ <<attempt, turn>> \notin DOMAIN records
  /\ \E reply \in setup.replies :
       records' = [at \in DOMAIN records \union {<<attempt, turn>>} |->
                     IF at = <<attempt, turn>> THEN [input |-> Input, reply |-> reply] ELSE records[at]]
  /\ UNCHANGED <<setup, marks, pc, Memory, ends, trouble, stops>>
Trouble ==
  /\ pc = "turn" /\ Boundaries # {} /\ <<attempt, turn>> \notin DOMAIN records /\ trouble < MaxTrouble
  /\ why' \in {"limited", "timed"} /\ pc' = "mark" /\ trouble' = trouble + 1
  /\ UNCHANGED <<durable, attempt, turn, history, tools, reports, ends, stops>>
NoRoom == pc = "turn" /\ Boundaries = {} /\ End("capacity", Append(reports, Report)) /\ UNCHANGED <<durable, Memory, trouble, stops>>
Answered(kind) ==
  /\ pc = "turn" /\ Boundaries # {} /\ <<attempt, turn>> \in DOMAIN records
  /\ records[<<attempt, turn>>].reply.kind = kind

(* CanonicalHarnessAdapter.execute: tools in so many turns, one more to answer, and no turn after that. *)
UseTools ==
  /\ Answered("tools") /\ turn <= setup.turns
  /\ tools' = RunTools(Kept, records[<<attempt, turn>>].reply.calls)
  /\ history' = Append(history, tools'.results)
  /\ turn' = turn + 1 /\ UNCHANGED <<durable, pc, attempt, reports, why, ends, trouble, stops>>
AskedPastLimit ==
  /\ Answered("tools") /\ turn > setup.turns
  /\ End("rejected", Append(reports, Report)) /\ UNCHANGED <<durable, Memory, trouble, stops>>

Accept == Answered("answer") /\ End("answered", Append(reports, Report)) /\ UNCHANGED <<durable, Memory, trouble, stops>>
(* invoke: a reply that cannot be parsed is repaired, as an activity of its own, so many times. *)
Repair ==
  /\ Answered("invalid") /\ attempt < setup.repairs /\ attempt' = attempt + 1 /\ pc' = "start"
  /\ reports' = Append(reports, Report) /\ UNCHANGED <<durable, turn, history, tools, why, ends, trouble, stops>>
Reject ==
  /\ Answered("invalid") /\ attempt = setup.repairs
  /\ End("rejected", Append(reports, Report)) /\ UNCHANGED <<durable, Memory, trouble, stops>>
Refused ==
  /\ Answered("refusal") /\ why' = "refused" /\ pc' = "mark"
  /\ UNCHANGED <<durable, attempt, turn, history, tools, reports, ends, trouble, stops>>

(* markOutputLimited, markTimeLimited and markRefused: the attempt, then the activity it repairs. *)
MarkAttempt ==
  /\ pc = "mark" /\ marks' = marks \union {<<attempt, why>>}
  /\ IF attempt = 0 THEN End(why, reports) ELSE pc' = "activity" /\ UNCHANGED ends
  /\ UNCHANGED <<setup, records, Memory, trouble, stops>>
RepairMarkedOnly ==
  /\ pc = "activity" /\ End(why, reports) /\ UNCHANGED <<durable, Memory, trouble, stops>>
MarkActivity ==
  /\ pc = "activity" /\ marks' = marks \union {<<0, why>>} /\ End(why, reports)
  /\ UNCHANGED <<setup, records, Memory, trouble, stops>>

(* The process stops, or the run fails at a later step, and the stage is run again. *)
Stop ==
  /\ stops < MaxStops /\ stops' = stops + 1 /\ pc' = "start" /\ attempt' = 0 /\ turn' = 0 /\ history' = <<>>
  /\ tools' = FreshTools /\ reports' = <<>> /\ why' = "none" /\ UNCHANGED <<durable, ends, trouble>>

Next ==
  \/ Start \/ Ask \/ Trouble \/ NoRoom \/ UseTools \/ AskedPastLimit \/ Accept \/ Repair \/ Reject \/ Refused
  \/ MarkAttempt \/ MarkActivity \/ Stop

Spec == Init /\ [][Next]_vars

----------------------------------------------------------------------------
AllResults == FlattenSeq(history)
Beyond(lines) == {line \in lines : line[1] \notin Unit}
SizeOf(lines) == FoldSet(LAMBDA line, sum : sum + Lines[line[1]][line[2]], 0, lines)

(* The lines an activity may cite outside its unit are exactly the ones its results carried, within its budget for  *)
(* them (but for artifacts of cut reads) and the node's; a recorded turn is asked for again with the same input;    *)
(* every execution ends alike and reports the same reads; and an activity that ended at a limit, out of time or      *)
(* refused, also by a repair, is itself marked so: its stage splits it instead of failing at the same repair again.  *)
ToolLoopSound ==
  /\ tools.reads = UNION {Beyond(AllResults[i].lines) : i \in DOMAIN AllResults}
  /\ Total([i \in DOMAIN AllResults |-> SizeOf(Beyond(AllResults[i].lines))]) <= setup.maximum
  /\ Total([i \in DOMAIN AllResults |-> IF AllResults[i].ok THEN AllResults[i].size ELSE 0]) <= NodeBudget
  /\ pc = "turn" /\ <<attempt, turn>> \in DOMAIN records => Boundaries # {} /\ records[<<attempt, turn>>].input = Input
  /\ Cardinality(ends) <= 1
  /\ \A kind \in MarkKinds : (\E e \in ends : e.end = kind) => <<0, kind>> \in marks
=============================================================================
