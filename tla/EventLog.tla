------------------------------ MODULE EventLog ------------------------------
(***************************************************************************)
(* events.jsonl of one run: RunStore.appendEvent serialises its writes     *)
(* through a promise chain, cuts a failed append back to where it began,   *)
(* remembers a cut that failed too, and trims the torn tail a crash left.  *)
(* Callers retry what they were told has failed.                           *)
(***************************************************************************)
EXTENDS LogFile

CONSTANTS
  Event,       \* the events to record
  Expensive,   \* the events whose append is synced
  MaxFaults,   \* bound: I/O errors
  MaxCrashes,  \* bound: crashes and power losses
  None

\* What the constants are; the instance that is checked assumes it.
LogAssumption ==
  /\ Expensive \subseteq Event
  /\ MaxFaults \in Nat /\ MaxCrashes \in Nat
  /\ None \notin Nat

VARIABLES
  file, synced,   \* the file, and how much of it is on stable storage
  queue,          \* #eventWrites: the calls not settled, the head under way
  pc,             \* where the head's write stands
  start,          \* its start
  ready, undo,    \* #eventsReady, #eventsUndo
  told,           \* what the caller of each event was told last
  log,            \* history: the events acknowledged, in order
  faults, crashes \* bounds

disk == <<file, synced>>
memory == <<queue, pc, start, ready, undo>>
vars == <<file, synced, queue, pc, start, ready, undo, told, log, faults, crashes>>

Init ==
  /\ file = <<>> /\ synced = 0
  /\ queue = <<>> /\ pc = "settled" /\ start = 0
  /\ ready = FALSE /\ undo = None
  /\ told = [e \in Event |-> "nothing"]
  /\ log = <<>>
  /\ faults = 0 /\ crashes = 0

----------------------------------------------------------------------------
\* The file as the steps change it.

TruncateTo(n) ==
  /\ file' = CutTo(file, n)
  /\ synced' = IF n < synced THEN n ELSE synced

Fault ==
  /\ faults < MaxFaults
  /\ faults' = faults + 1

\* The promise of the head settles and the next write may begin.
Settle(outcome) ==
  /\ pc' = "settled"
  /\ queue' = Tail(queue)
  /\ told' = [told EXCEPT ![Head(queue)] = outcome]
  /\ log' = IF outcome = "recorded" THEN Append(log, Head(queue)) ELSE log

Continue(step) ==
  /\ pc' = step
  /\ UNCHANGED <<queue, told, log>>

----------------------------------------------------------------------------
\* appendEvent joins the chain; a caller retries only what failed.
AppendEvent(e) ==
  /\ told[e] \in {"nothing", "failed"}
  /\ queue' = Append(queue, e)
  /\ told' = [told EXCEPT ![e] = "pending"]
  /\ UNCHANGED <<file, synced, pc, start, ready, undo, log, faults, crashes>>

\* Mutant: the remembered cut is made and kept.
UndoKept ==
  /\ pc = "settled" /\ queue # <<>>
  /\ IF undo = None THEN UNCHANGED <<file, synced>> ELSE TruncateTo(undo)
  /\ Continue("undone")
  /\ UNCHANGED <<start, ready, undo, faults, crashes>>

\* A cut left over from an append that failed is made first.
Undo ==
  /\ pc = "settled" /\ queue # <<>>
  /\ IF undo = None
     THEN /\ Continue("undone")
          /\ UNCHANGED <<file, synced, undo, faults>>
     ELSE \/ /\ TruncateTo(undo)
             /\ undo' = None
             /\ Continue("undone")
             /\ UNCHANGED faults
          \/ /\ Fault
             /\ Settle("failed")
             /\ UNCHANGED <<file, synced, undo>>
  /\ UNCHANGED <<start, ready, crashes>>

\* The first append of a process trims the tail a crash left torn.
MakeReady ==
  /\ pc = "undone"
  /\ IF ready
     THEN /\ Continue("ready")
          /\ UNCHANGED <<file, synced, ready, faults>>
     ELSE \/ /\ TruncateTo(RetainedLength(file))
             /\ ready' = TRUE
             /\ Continue("ready")
             /\ UNCHANGED faults
          \/ /\ Fault
             /\ Settle("failed")
             /\ UNCHANGED <<file, synced, ready>>
  /\ UNCHANGED <<start, undo, crashes>>

\* open and stat; a failure here leaves nothing to cut.
Open ==
  /\ pc = "ready"
  /\ \/ /\ start' = Len(file)
        /\ Continue("opened")
        /\ UNCHANGED faults
     \/ /\ Fault
        /\ Settle("failed")
        /\ UNCHANGED start
  /\ UNCHANGED <<file, synced, ready, undo, crashes>>

\* A write that fails leaves nothing of the record or a part of it.
Write ==
  /\ pc = "opened"
  /\ \/ /\ file' = Append(file, WholeChunk(Head(queue)))
        /\ Continue("written")
        /\ UNCHANGED faults
     \/ /\ Fault
        /\ file' \in {file, Append(file, TornChunk(Head(queue)))}
        /\ Continue("cutting")
  /\ UNCHANGED <<synced, start, ready, undo, crashes>>

Sync ==
  /\ pc = "written"
  /\ \/ /\ synced' = IF Head(queue) \in Expensive THEN Len(file) ELSE synced
        /\ Settle("recorded")
        /\ UNCHANGED faults
     \/ /\ Head(queue) \in Expensive
        /\ Fault
        /\ Continue("cutting")
        /\ UNCHANGED synced
  /\ UNCHANGED <<file, start, ready, undo, crashes>>

\* A failed append is cut back to where it began; a failed cut is remembered.
Cut ==
  /\ pc = "cutting"
  /\ \/ /\ TruncateTo(start)
        /\ UNCHANGED <<undo, faults>>
     \/ /\ Fault
        /\ undo' = start
        /\ UNCHANGED <<file, synced>>
  /\ Settle("failed")
  /\ UNCHANGED <<start, ready, crashes>>

\* The process dies, perhaps with the machine: its memory is lost, and the
\* callers' successors learn what was recorded by reading the file.
Crash ==
  /\ crashes < MaxCrashes
  /\ crashes' = crashes + 1
  /\ file' \in AfterPowerLoss(file, synced)
  /\ synced' = Len(file')
  /\ queue' = <<>> /\ pc' = "settled" /\ start' = 0
  /\ ready' = FALSE /\ undo' = None
  /\ told' = [e \in Event |->
       CASE told[e] = "recorded" /\ e \in Expensive -> "recorded"
         [] \E i \in DOMAIN Records(file') : Records(file')[i] = e -> "recorded"
         [] OTHER -> "nothing"]
  /\ log' = Records(file')
  /\ UNCHANGED faults

Next ==
  \/ \E e \in Event : AppendEvent(e)
  \/ Undo \/ MakeReady \/ Open \/ Write \/ Sync \/ Cut
  \/ Crash

Spec == Init /\ [][Next]_vars

----------------------------------------------------------------------------
Positions == 0..Len(file)

\* The types, with every remembered position inside the file and a write
\* under way only on behalf of a queued call.
TypeOK ==
  /\ file \in Seq(Chunk(Event))
  /\ synced \in Positions
  /\ queue \in Seq(Event)
  /\ pc \in {"settled", "undone", "ready", "opened", "written", "cutting"}
  /\ pc # "settled" => queue # <<>>
  /\ start \in Nat
  /\ pc \in {"opened", "written", "cutting"} => start \in Positions
  /\ ready \in BOOLEAN
  /\ undo \in Positions \union {None}
  /\ told \in [Event -> {"nothing", "pending", "recorded", "failed"}]
  /\ log \in Seq(Event)
  /\ faults \in 0..MaxFaults /\ crashes \in 0..MaxCrashes

\* The events acknowledged stay in the file, in the order of the calls, and every
\* line can be read, whatever write, sync, cut or crash fails or comes between.
\* Once no cut is left to make, the log holds nothing else: an event reported
\* failed left nothing, so that its retry does not record it twice.  An expensive
\* event once acknowledged is there whatever crashes follow.
LogKept ==
  /\ Parses(file)
  /\ Len(log) <= RetainedLength(file)
  /\ \A i \in 1..Len(log) : file[i] = WholeChunk(log[i])
  /\ pc = "settled" /\ undo = None => Records(file) = log
  /\ \A e \in Expensive : told[e] = "recorded" =>
       \E i \in 1..RetainedLength(file) : file[i] = WholeChunk(e)
=============================================================================
