--------------------------- MODULE AuditDiscovery ---------------------------
(***************************************************************************)
(* One auditor's discovery: the repository is packed into units that fit a *)
(* call, a file too large into line windows; units are asked side by side; *)
(* one that stops at the output ceiling or runs past the time limit is     *)
(* split, one that is declined is tried in parts to find what was declined,*)
(* one that fails at the provider is a gap, and three of those in a row,   *)
(* or a finder's own failure, end the discovery until it is resumed.       *)
(* Lines near text reported as prompt injection are read once more.        *)
(*                                                                         *)
(* A file is the sizes of its lines; a call's size is that of its lines.   *)
(* Requests, index and findings are left out; a module is bundles of files.*)
(***************************************************************************)
EXTENDS Naturals, Sequences, FiniteSets, FiniteSetsExt, SequencesExt, TLC

CONSTANTS
  Lines,          \* the sizes of each file's lines; files are numbered in path order
  Repositories,   \* each a sequence of modules, each a sequence of bundles of files
  Budget,         \* maximumInputTokens
  Overlap,        \* DISCOVERY_WINDOW_OVERLAP_LINES
  Concurrency,
  MaxInARow,      \* MAXIMUM_FAILED_UNITS_IN_A_ROW
  Sites,          \* where a finding may report prompt injection: sets of <<name, line>>
  Context,        \* INJECTION_FOLLOW_UP_CONTEXT_LINES, before and after
  MaxFollowUps,   \* MAXIMUM_INJECTION_FOLLOW_UPS
  MaxTrouble,     \* bound: calls that do not answer
  MaxResumes,     \* bound: resumes
  Null

VARIABLES
  repository, sites,
  status,          \* "asking", "following", "done" or "failed"
  work, flying,    \* items to ask, and being asked
  deferred,        \* parts of a declined unit that were declined too
  separable,       \* lists of such parts one of which was not
  broken,          \* lists of parts one of which failed the discovery
  examined, gaps,  \* units answered, and units recorded as not examined with the cause
  inARow, answered,             \* FailedUnits
  windows, pieces,              \* ranges to follow up, and what is left of the first
  followed, found, notes,       \* windows followed, whether this one was, and how each range ended
  cache,           \* durable: what a unit's call ended with
  trouble, resumes

asking == <<work, flying, deferred, separable, broken, examined, gaps>>
following == <<windows, pieces, followed, found, notes>>
vars == <<repository, sites, status, asking, inARow, answered, following, cache, trouble, resumes>>

----------------------------------------------------------------------------
(* Units.                                                                   *)

Total(sizes, lo, hi) ==
  LET upTo[k \in lo - 1..hi] == IF k < lo THEN 0 ELSE upTo[k - 1] + sizes[k] IN upTo[hi]
Size == [f \in DOMAIN Lines |-> Total(Lines[f], 1, Len(Lines[f]))]
Bytes(files) == Total([i \in DOMAIN files |-> Size[files[i]]], 1, Len(files))

Scope(files, late) == [files |-> files, window |-> Null, late |-> late]
Window(file, lo, hi, late) == [files |-> <<file>>, window |-> <<lo, hi>>, late |-> late]

Surface(u) ==
  UNION {{<<u.files[i], k>> :
            k \in IF u.window = Null THEN DOMAIN Lines[u.files[i]] ELSE u.window[1]..u.window[2]}
         : i \in DOMAIN u.files}
FilesOf(modules) == FlattenSeq(FlattenSeq(modules))
Source == Surface(Scope(FilesOf(repository), FALSE))

\* Packed: scopes that are full, the one being filled, and files that fit none.
Flush(p) == [p EXCEPT !.scopes = IF p.pending = <<>> THEN @ ELSE Append(@, p.pending), !.pending = <<>>]
Fits(files, limit) == Bytes(files) <= limit.bytes \/ (limit.alone /\ Len(files) = 1)

PackFile(p, file, limit) ==
  IF ~Fits(<<file>>, limit) THEN [p EXCEPT !.left = Append(@, file)]
  ELSE IF Fits(Append(p.pending, file), limit) THEN [p EXCEPT !.pending = Append(@, file)]
  ELSE [Flush(p) EXCEPT !.pending = <<file>>]

\* A file and its tests are one bundle: an oversized module is split between bundles where it can be.
PackBundle(p, bundle, limit) ==
  IF Fits(p.pending \o bundle, limit) THEN [p EXCEPT !.pending = @ \o bundle]
  ELSE IF Fits(bundle, limit) THEN [Flush(p) EXCEPT !.pending = bundle]
  ELSE FoldLeft(LAMBDA q, f : PackFile(q, f, limit), p, bundle)

\* A module is kept whole where it can be.
PackModule(p, module, limit) ==
  LET files == FlattenSeq(module) IN
  IF Fits(p.pending \o files, limit) THEN [p EXCEPT !.pending = @ \o files]
  ELSE IF Fits(files, limit) THEN [Flush(p) EXCEPT !.pending = files]
  ELSE Flush(FoldLeft(LAMBDA q, b : PackBundle(q, b, limit), Flush(p), module))

\* allocateDiscoveryScopes
Pack(modules, limit) ==
  Flush(FoldLeft(LAMBDA p, m : PackModule(p, m, limit), [scopes |-> <<>>, pending |-> <<>>, left |-> <<>>], modules))

MinOf(m, n) == IF m <= n THEN m ELSE n
MaxOf(m, n) == IF m >= n THEN m ELSE n

\* Mutant of NextStart: the window after one that ends before a long line starts past it.
NextStartPast(start, end) == end + 2
NextStart(start, end) == MaxOf(start + 1, end + 1 - MinOf(Overlap, (end - start + 1) \div 2))

\* allocateLineWindows: the largest window from each start, sharing some lines with
\* the one before; a line that fits alone in none is named.
LineWindows(sizes, limit) ==
  LET last == Len(sizes)
      End(start) == Max({k \in start..last : Total(sizes, start, k) <= limit})
      from[start \in Nat] ==
        IF start > last THEN [windows |-> {}, tooLarge |-> {}]
        ELSE IF sizes[start] > limit
        THEN [from[start + 1] EXCEPT !.tooLarge = @ \union {start}]
        ELSE IF End(start) = last THEN [windows |-> {<<start, last>>}, tooLarge |-> {}]
        ELSE [from[NextStart(start, End(start))] EXCEPT !.windows = @ \union {<<start, End(start)>>}]
  IN  from[1]

\* Half a window or file, sharing some lines.
Halves(file, lo, hi, late) ==
  LET middle == lo + ((hi - lo + 2) \div 2) - 1
      shared == MinOf(Overlap, (middle - lo + 1) \div 2)
  IN  IF hi - lo < 1 THEN <<>>
      ELSE <<Window(file, lo, middle, late), Window(file, middle + 1 - shared, hi, late)>>

\* The modules of some of the files, whose bundles may be empty.
Within(files) == [m \in DOMAIN repository |-> [b \in DOMAIN repository[m] |->
                    SelectSeq(repository[m][b], LAMBDA f : f \in ToSet(files))]]

\* splitOutputLimitedUnit: nothing when one line is left.
Split(u) ==
  IF u.window # Null THEN Halves(u.files[1], u.window[1], u.window[2], u.late)
  ELSE IF Len(u.files) = 1 THEN Halves(u.files[1], 1, Len(Lines[u.files[1]]), u.late)
  ELSE LET half == (Bytes(u.files) + 1) \div 2
           packed == Pack(Within(u.files), [bytes |-> half, alone |-> TRUE]).scopes
           middle == (Len(u.files) + 1) \div 2
           parts == IF Len(packed) > 1 THEN packed
                    ELSE <<SubSeq(u.files, 1, middle), SubSeq(u.files, middle + 1, Len(u.files))>>
       IN  [i \in DOMAIN parts |-> Scope(parts[i], u.late)]

----------------------------------------------------------------------------
(* What is asked.                                                           *)

\* list: the units whose replacement the unit is part of, the outermost first;
\* part: whether the last of them was declined.
Item(u, list, part) == [unit |-> u, list |-> list, part |-> part]
Items(units, list, part) == {Item(units[i], list, part) : i \in DOMAIN units}
Under(list) == {i \in work \union flying \union deferred : IsPrefix(list, i.list)}

Whole == Scope(FilesOf(repository), FALSE)
Packed == Pack(repository, [bytes |-> Budget, alone |-> FALSE])
TooLarge == UNION {{<<f, k>> : k \in LineWindows(Lines[f], Budget).tooLarge} : f \in ToSet(Packed.left)}

\* discoverPrimary: one call for all that fits in one, else units that fit.
Allocated ==
  IF Bytes(Whole.files) <= Budget THEN {Item(Whole, <<>>, FALSE)}
  ELSE Items([i \in DOMAIN Packed.scopes |-> Scope(Packed.scopes[i], FALSE)], <<>>, FALSE)
       \union UNION {{Item(Window(f, w[1], w[2], FALSE), <<>>, FALSE) : w \in LineWindows(Lines[f], Budget).windows}
                     : f \in ToSet(Packed.left)}

Init ==
  /\ repository \in Repositories /\ sites \in Sites
  /\ status = "asking" /\ work = Allocated /\ flying = {} /\ deferred = {} /\ separable = {} /\ broken = {}
  /\ examined = {} /\ gaps = {} /\ inARow = 0 /\ answered = FALSE
  /\ windows = <<>> /\ pieces = <<>> /\ followed = 0 /\ found = FALSE /\ notes = {}
  /\ cache = <<>> /\ trouble = 0 /\ resumes = 0

\* sideBySide under one shared limit: units start in any order, and no other part of
\* a list one of whose parts failed the discovery.
Startable(item) == item \in work /\ item.list \notin broken
Start(item) ==
  /\ status = "asking" /\ Startable(item) /\ Cardinality(flying) < Concurrency
  /\ work' = work \ {item} /\ flying' = flying \union {item}
  /\ UNCHANGED <<repository, sites, status, deferred, separable, broken, examined, gaps, inARow, answered,
                 following, cache, trouble, resumes>>

\* Whether a call past its time limit ends as that: the unit can be split and was not for that already.
SplitsOnTimeLimit(u) == ~u.late /\ Split(u) # <<>>

\* What a call may end with: what it ended with before, where that is durable.
Key(u, as) == <<as, u.files, u.window>>
Ends(key, late) ==
  IF key \in DOMAIN cache THEN {cache[key]}
  ELSE {"answer"} \union
       IF trouble = MaxTrouble THEN {}
       ELSE {"ceiling", "declined", "failed", "fatal"} \union IF late THEN {"late"} ELSE {}

\* What the call leaves behind. A provider failure is sent again by a resume, also one that counts
\* as declined (usedOwnCliTools).
Keep(key, end) ==
  /\ trouble' = IF key \in DOMAIN cache \/ end = "answer" THEN trouble ELSE trouble + 1
  /\ \/ end \in {"failed", "fatal", "declined"} /\ UNCHANGED cache
     \/ end \notin {"failed", "fatal"} /\ cache' = (key :> end) @@ cache

\* FailedUnits
Count(end) ==
  /\ inARow' = CASE end = "failed" -> inARow + 1
                 [] end \in {"answer", "declined"} -> 0
                 [] OTHER -> inARow
  /\ answered' = (answered \/ end \in {"answer", "declined"})

Throw(item) == broken' = broken \union {item.list} /\ UNCHANGED <<work, deferred, separable, examined, gaps>>
Tell(item) == separable' = IF item.part THEN separable \union {item.list} ELSE separable
Record(u, cause) == gaps' = gaps \union {[unit |-> u, cause |-> cause]}
Replace(item, units, part) == work' = work \union Items(units, Append(item.list, item.unit), part)

\* settle: declined units tried in parts, but a window is not, nor what cannot be split.
Settle(items) ==
  LET again == {i \in items : i.unit.window = Null /\ Split(i.unit) # <<>>} IN
  /\ work' = work \union UNION {Items(Split(i.unit), Append(i.list, i.unit), TRUE) : i \in again}
  /\ gaps' = gaps \union {[unit |-> i.unit, cause |-> "declined"] : i \in items \ again}

\* audit: the answer is kept, a unit too slow or too large for a reply is split.
Audited(item, end) ==
  CASE end = "answer" ->
         examined' = examined \union {item.unit} /\ Tell(item) /\ UNCHANGED <<work, deferred, broken, gaps>>
    [] end \in {"ceiling", "late"} ->
         LET parts == Split([item.unit EXCEPT !.late = @ \/ end = "late"]) IN
         IF parts = <<>> THEN Throw(item)
         ELSE Replace(item, parts, FALSE) /\ Tell(item) /\ UNCHANGED <<deferred, broken, examined, gaps>>
    [] end = "declined" /\ item.part ->
         deferred' = deferred \union {item} /\ UNCHANGED <<work, separable, broken, examined, gaps>>
    [] end = "declined" /\ ~item.part -> Settle({item}) /\ UNCHANGED <<deferred, separable, broken, examined>>
    [] end = "failed" /\ item.unit # Whole /\ inARow' < MaxInARow ->
         Record(item.unit, "provider_failed") /\ UNCHANGED <<work, deferred, separable, broken, examined>>
    [] OTHER -> Throw(item)

Answer(item) ==
  /\ status = "asking" /\ item \in flying
  /\ \E end \in Ends(Key(item.unit, "unit"), SplitsOnTimeLimit(item.unit)) :
       /\ Keep(Key(item.unit, "unit"), end)
       /\ IF item.unit = Whole /\ end # "declined" THEN UNCHANGED <<inARow, answered>> ELSE Count(end)
       /\ Audited(item, end)
  /\ flying' = flying \ {item}
  /\ UNCHANGED <<repository, sites, status, following, resumes>>

\* Every part of the list that was not declined has ended.
Declined(list) == {d \in deferred : d.list = list}
CanRetry(list) == list \notin broken /\ Declined(list) # {} /\ Under(list) = Declined(list)

\* retried: all parts of a declined unit ended. A part declined beside parts that were
\* not is split again; when every part was declined, the cause is in no one part.
Retried(list) ==
  /\ status = "asking" /\ CanRetry(list)
  /\ deferred' = deferred \ Declined(list)
  /\ IF list \in separable THEN Settle(Declined(list))
     ELSE /\ gaps' = gaps \union {[unit |-> d.unit, cause |-> "declined"] : d \in Declined(list)}
          /\ UNCHANGED work
  /\ UNCHANGED <<repository, sites, status, flying, separable, broken, examined, inARow, answered, following,
                 cache, trouble, resumes>>

\* The failure of a list reaches the list around it once what had started has ended.
CanBreak(list) ==
  /\ list \in broken /\ (list # <<>> => Front(list) \notin broken)
  /\ \A i \in Under(list) : i \in work \union deferred /\ (i \in work => ~Startable(i))
Break(list) ==
  /\ status = "asking" /\ CanBreak(list)
  /\ IF list = <<>> THEN status' = "failed" /\ UNCHANGED broken
     ELSE broken' = broken \union {Front(list)} /\ UNCHANGED status
  /\ UNCHANGED <<repository, sites, work, flying, deferred, separable, examined, gaps, inARow, answered,
                 following, cache, trouble, resumes>>

----------------------------------------------------------------------------
(* Follow-ups of what was reported as prompt injection.                     *)

Near(file) == {k \in DOMAIN Lines[file] :
                 \E s \in sites \cap UNION {Surface(u) : u \in examined} :
                   s[1] = file /\ k + Context.before >= s[2] /\ k <= s[2] + Context.after}

\* injectionWindows: one for each run of near lines, in file and line order.
InjectionWindows ==
  LET Runs(f) == {Window(f, lo, hi, FALSE) : lo, hi \in Near(f)}
      Whole_(w) == LET near == Near(w.files[1]) IN
                   /\ w.window[1]..w.window[2] \subseteq near
                   /\ w.window[1] - 1 \notin near /\ w.window[2] + 1 \notin near
      Before(v, w) == \/ v.files[1] < w.files[1]
                      \/ v.files[1] = w.files[1] /\ v.window[1] < w.window[1]
  IN  SetToSortSeq({w \in UNION {Runs(f) : f \in ToSet(Whole.files)} : w.window[1] <= w.window[2] /\ Whole_(w)}, Before)

\* The primary pass is over: a finder none of whose units answered fails.
Finish ==
  /\ status = "asking" /\ work = {} /\ flying = {} /\ deferred = {} /\ broken = {}
  /\ IF ~answered /\ \E g \in gaps : g.cause = "provider_failed"
     THEN status' = "failed" /\ UNCHANGED windows
     ELSE status' = "following" /\ windows' = InjectionWindows
  /\ UNCHANGED <<repository, sites, asking, inARow, answered, pieces, followed, found, notes, cache, trouble, resumes>>

Note(u, as) == [unit |-> u, as |-> as]

\* Windows at most MaxFollowUps of which had something examined; one too large for a
\* call is read as windows that fit.
NextWindow ==
  /\ status = "following" /\ pieces = <<>> /\ windows # <<>>
  /\ LET w == Head(windows)
         file == w.files[1]
         lines == SubSeq(Lines[file], w.window[1], w.window[2])
         fit == LineWindows(lines, Budget)
         Piece(p) == Window(file, p[1] + w.window[1] - 1, p[2] + w.window[1] - 1, FALSE)
         total == followed + IF found THEN 1 ELSE 0 IN
     /\ followed' = total /\ found' = FALSE
     /\ IF total >= MaxFollowUps THEN notes' = notes \union {Note(w, "over_cap")} /\ UNCHANGED pieces
        ELSE /\ pieces' = LET sorted == SetToSortSeq(fit.windows, LAMBDA p, q : p[1] < q[1])
                         IN  [i \in DOMAIN sorted |-> Piece(sorted[i])]
             /\ notes' = notes \union {Note(Piece(<<k, k>>), "exceeds_context_budget") : k \in fit.tooLarge}
  /\ windows' = Tail(windows)
  /\ UNCHANGED <<repository, sites, status, asking, inARow, answered, cache, trouble, resumes>>

\* follow: one call at a time; one that stops at the output ceiling is halved.
Follow ==
  /\ status = "following" /\ pieces # <<>>
  /\ LET u == Head(pieces) IN
     \E end \in Ends(Key(u, "injection"), FALSE) :
       /\ Keep(Key(u, "injection"), end) /\ Count(end)
       /\ found' = (found \/ end = "answer")
       /\ IF end = "fatal" \/ (end = "failed" /\ inARow' >= MaxInARow)
          THEN status' = "failed" /\ UNCHANGED <<pieces, notes>>
          ELSE /\ UNCHANGED status
               /\ IF end = "ceiling" /\ Split(u) # <<>>
                  THEN pieces' = Split(u) \o Tail(pieces) /\ UNCHANGED notes
                  ELSE pieces' = Tail(pieces) /\ notes' = notes \union {Note(u, end)}
  /\ UNCHANGED <<repository, sites, asking, windows, followed, resumes>>

Done ==
  /\ status = "following" /\ pieces = <<>> /\ windows = <<>>
  /\ status' = "done"
  /\ UNCHANGED <<repository, sites, asking, inARow, answered, following, cache, trouble, resumes>>

\* A resumed run, after a failure or a crash, discovers from the start with what is durable.
Resume ==
  /\ status # "done" /\ resumes < MaxResumes
  /\ resumes' = resumes + 1
  /\ status' = "asking" /\ work' = Allocated /\ flying' = {} /\ deferred' = {} /\ separable' = {} /\ broken' = {}
  /\ examined' = {} /\ gaps' = {} /\ inARow' = 0 /\ answered' = FALSE
  /\ windows' = <<>> /\ pieces' = <<>> /\ followed' = 0 /\ found' = FALSE /\ notes' = {}
  /\ UNCHANGED <<repository, sites, cache, trouble>>

Lists == {i.list : i \in work \union flying \union deferred} \union broken \union {<<>>}
Step ==
  \/ \E item \in work : Start(item)
  \/ \E item \in flying : Answer(item)
  \/ \E list \in Lists : Retried(list)
  \/ \E list \in broken : Break(list)
  \/ Finish \/ NextWindow \/ Follow \/ Done

Next == Step \/ Resume
Spec == Init /\ [][Next]_vars

----------------------------------------------------------------------------
(* A finished discovery accounts for every line of the repository: it was in a    *)
(* unit that was answered, in one recorded as declined or failed, or is named as  *)
(* too large for any call, however units were split, declined and retried before  *)
(* and after a resume; and every line near text reported as prompt injection was  *)
(* read once more or has its own note (model-discovery.ts, discoverPrimary and    *)
(* followInjections).                                                              *)
EveryLineAccounted ==
  status = "done" =>
    /\ Source \subseteq TooLarge \union UNION {Surface(u) : u \in examined \union {g.unit : g \in gaps}}
    /\ \A f \in ToSet(Whole.files) : \A k \in Near(f) : \E n \in notes : <<f, k>> \in Surface(n.unit)
    /\ (\E g \in gaps : g.cause = "provider_failed") => answered

\* The lists that units are asked under form a tree of waits: an auditor that is still asking
\* has a call in flight, one it may start, parts all of which ended, or a failure to pass on.
\* As no step is ever undone, a discovery ends or fails for a resume to go on with.
NeverWaitsForNothing ==
  status = "asking" =>
    \/ flying # {} \/ (work = {} /\ deferred = {} /\ broken = {})
    \/ \E i \in work : Startable(i)
    \/ \E list \in Lists : CanRetry(list) \/ CanBreak(list)

\* A discovery comes to an end, and then every line is accounted for.
DiscoveryComplete == EveryLineAccounted /\ NeverWaitsForNothing
=============================================================================
