--------------------------- MODULE ActivityJournal ---------------------------
(***************************************************************************)
(* journal.jsonl of one run.  Unlike the event log, nothing serialises     *)
(* ActivityJournal.append: sibling nodes append at the same time, and each *)
(* cuts the file back to its own start when it fails.  After a crash the   *)
(* journal is loaded (loadJournal) before anything is appended.            *)
(***************************************************************************)
EXTENDS LogFile, FiniteSets

CONSTANTS
  Record,         \* the records to append, each by a caller of its own
  Expensive,      \* the records whose append is synced
  FaultsOverlap,  \* whether an append may fail while siblings append
  MaxConcurrent,  \* bound: appends under way at a time
  MaxFaults,      \* bound: I/O errors
  MaxCrashes      \* bound: crashes and power losses

\* What the constants are; the instance that is checked assumes it.
JournalAssumption ==
  /\ Expensive \subseteq Record /\ FaultsOverlap \in BOOLEAN
  /\ MaxConcurrent \in Nat /\ MaxFaults \in Nat /\ MaxCrashes \in Nat

VARIABLES
  file, synced,   \* the file, and how much of it is on stable storage
  loaded,         \* whether this process has loaded the journal
  pc,             \* where the append of each record stands
  start,          \* the length of the file each append found
  uncut,          \* history: the records whose cut failed
  faults, crashes \* bounds

vars == <<file, synced, loaded, pc, start, uncut, faults, crashes>>

UnderWay == {r \in Record : pc[r] \in {"opened", "written", "cutting"}}

Init ==
  /\ file = <<>> /\ synced = 0 /\ loaded = FALSE
  /\ pc = [r \in Record |-> "new"]
  /\ start = [r \in Record |-> 0]
  /\ uncut = {}
  /\ faults = 0 /\ crashes = 0

----------------------------------------------------------------------------
Fault ==
  /\ faults < MaxFaults
  /\ faults' = faults + 1

\* The append of r fails with nothing written since it began but its own.
Overlaps(r, written) == UnderWay # {r} \/ Len(file) # start[r] + written
FaultOf(r, written) == Fault /\ (Overlaps(r, written) => FaultsOverlap)

Goto(r, step) == pc' = [pc EXCEPT ![r] = step]

\* truncate by path; past the end it pads with zero bytes, which no line parses.
Truncated(n, r) ==
  IF n <= Len(file) THEN CutTo(file, n)
  ELSE [i \in 1..n |-> IF i <= Len(file) THEN file[i] ELSE TornChunk(r)]

TruncateTo(n, r) ==
  /\ file' = Truncated(n, r)
  /\ synced' = IF n < synced THEN n ELSE synced

----------------------------------------------------------------------------
\* loadJournal: the torn tail is cut; a line that does not parse is an error,
\* and so is a cut that fails.  The records that are there need no append.
Load ==
  /\ ~loaded
  /\ \/ /\ TruncateTo(RetainedLength(file), CHOOSE r \in Record : TRUE)
        /\ loaded' = Parses(file)
        /\ UNCHANGED faults
     \/ /\ RetainedLength(file) < Len(file)
        /\ Fault
        /\ UNCHANGED <<file, synced, loaded>>
  /\ UNCHANGED <<pc, start, uncut, crashes>>

\* append: open and stat.  A caller told that it failed may retry.
Open(r) ==
  /\ loaded
  /\ pc[r] \in {"new", "failed"}
  /\ Cardinality(UnderWay) < MaxConcurrent
  /\ (\E q \in Record : pc[q] = "cutting") => FaultsOverlap
  /\ \/ /\ start' = [start EXCEPT ![r] = Len(file)]
        /\ Goto(r, "opened")
        /\ UNCHANGED faults
     \/ /\ Fault
        /\ Goto(r, "failed")
        /\ UNCHANGED start
  /\ UNCHANGED <<file, synced, loaded, uncut, crashes>>

\* A write that fails leaves nothing of the record or a part of it.
Write(r) ==
  /\ pc[r] = "opened"
  /\ \/ /\ file' = Append(file, WholeChunk(r))
        /\ Goto(r, "written")
        /\ UNCHANGED faults
     \/ /\ FaultOf(r, 0)
        /\ file' \in {file, Append(file, TornChunk(r))}
        /\ Goto(r, "cutting")
  /\ UNCHANGED <<synced, loaded, start, uncut, crashes>>

\* fsync under the policy "expensive-only".
Sync(r) ==
  /\ pc[r] = "written"
  /\ \/ /\ synced' = IF r \in Expensive THEN Len(file) ELSE synced
        /\ Goto(r, "acked")
        /\ UNCHANGED faults
     \/ /\ r \in Expensive
        /\ FaultOf(r, 1)
        /\ Goto(r, "cutting")
        /\ UNCHANGED synced
  /\ UNCHANGED <<file, loaded, start, uncut, crashes>>

\* Mutant: the file is cut one record too far.
CutTooFar(r) ==
  /\ pc[r] = "cutting"
  /\ TruncateTo(IF start[r] = 0 THEN 0 ELSE start[r] - 1, r)
  /\ Goto(r, "failed")
  /\ UNCHANGED <<loaded, start, uncut, faults, crashes>>

\* The failed append is cut back to its start; a failed cut is passed over.
Cut(r) ==
  /\ pc[r] = "cutting"
  /\ \/ /\ TruncateTo(start[r], r)
        /\ UNCHANGED <<uncut, faults>>
     \/ /\ Fault
        /\ uncut' = uncut \union {r}
        /\ UNCHANGED <<file, synced>>
  /\ Goto(r, "failed")
  /\ UNCHANGED <<loaded, start, crashes>>

\* The process dies, perhaps with the machine.  What was acknowledged and
\* synced is not appended again; of the rest, what the file holds is not.
Crash ==
  /\ crashes < MaxCrashes
  /\ crashes' = crashes + 1
  /\ file' \in AfterPowerLoss(file, synced)
  /\ synced' = Len(file')
  /\ loaded' = FALSE
  /\ pc' = [r \in Record |->
       IF \/ pc[r] = "acked" /\ r \in Expensive
          \/ \E i \in DOMAIN Records(file') : Records(file')[i] = r
       THEN "acked" ELSE "new"]
  /\ start' = [r \in Record |-> 0]
  /\ UNCHANGED <<uncut, faults>>

Next ==
  \/ Load
  \/ \E r \in Record : Open(r) \/ Write(r) \/ Sync(r) \/ Cut(r)
  \/ Crash

Spec == Init /\ [][Next]_vars

----------------------------------------------------------------------------
\* What is synced is never beyond the end of the file, and no more appends overlap
\* than nodes run side by side.
TypeOK ==
  /\ file \in Seq(Chunk(Record))
  /\ synced \in 0..Len(file)
  /\ loaded \in BOOLEAN
  /\ pc \in [Record -> {"new", "opened", "written", "cutting", "acked", "failed"}]
  /\ start \in [Record -> Nat]
  /\ uncut \subseteq Record
  /\ Cardinality(UnderWay) <= MaxConcurrent
  /\ faults \in 0..MaxFaults /\ crashes \in 0..MaxCrashes

\* Where r is a line of its own.
Lines(r) ==
  {i \in DOMAIN file : file[i] = WholeChunk(r) /\ (i > 1 => file[i-1].whole)}

\* As long as every cut was made, no failed append and no crash leaves a line that
\* does not parse, so that the journal can be loaded; a record acknowledged is in the journal, an
\* expensive one (the end of a paid activity) after any crash too, and one that
\* was reported failed is not: a retry does not record an attempt twice.
AckedKept ==
  uncut = {} =>
    /\ Parses(file)
    /\ \A r \in Record :
         /\ pc[r] = "acked" => Lines(r) # {}
         /\ pc[r] = "failed" => Lines(r) = {}
         /\ Cardinality(Lines(r)) <= 1

\* What docs/durability.md says of a recorded end: with no append under way,
\* a paid result that was acknowledged is in the journal, whatever failed.
EndSurvives ==
  UnderWay = {} /\ uncut = {} =>
    \A r \in Expensive : pc[r] = "acked" => Lines(r) # {}
=============================================================================
