---------------------------- MODULE CorpusStore ----------------------------
(***************************************************************************)
(* The evaluation corpus: a journal of batches, each ended by a commit     *)
(* record, beside the artifacts they name.  Operations run one at a time   *)
(* (#exclusive).  Loading cuts back to the last commit; a commit that      *)
(* fails forgets the state, for nobody knows what is on disk.  An export   *)
(* is a batch as well, and its report names the bytes it was made from.    *)
(*                                                                         *)
(* An entry is a key and a value: a ground truth, a run, an observation, a *)
(* version of an adjudication, an export.  A digest is what it is taken    *)
(* of.  Redaction and the queries over the state are left out.             *)
(***************************************************************************)
EXTENDS LogFile, FiniteSetsExt, Functions

CONSTANTS
  Bundles,      \* what may be imported: sequences of entries
  Requires,     \* Requires[k]: the keys that must be there before key k
  Stored,       \* the keys whose value is an artifact
  MaxBatches,   \* bound: batches
  MaxFaults,    \* bound: I/O errors
  MaxCrashes,   \* bound: crashes and power losses
  Null

CorpusAssumption ==
  /\ \A b \in Bundles : b \in Seq(Range(b)) /\ \A i \in DOMAIN b : b[i].key \in DOMAIN Requires
  /\ \A k \in DOMAIN Requires : Requires[k] \subseteq DOMAIN Requires
  /\ {"commit", "export"} \intersect DOMAIN Requires = {}
  /\ {MaxBatches, MaxFaults, MaxCrashes} \subseteq Nat

VARIABLES
  file, synced,    \* corpus.jsonl, and how much of it is on stable storage
  artifacts,       \* the entries and reports in the artifact store
  state, offsets,  \* #state: the committed batches, or Null; #commitOffsets
  pc, batch,       \* the operation under way, and the entries it commits
  told,            \* history: the entries whose import or export was reported appended
  faults, crashes

vars == <<file, synced, artifacts, state, offsets, pc, batch, told, faults, crashes>>

Init ==
  /\ file = <<>> /\ synced = 0 /\ artifacts = {}
  /\ state = Null /\ offsets = <<0>>
  /\ pc = "idle" /\ batch = <<>> /\ told = {}
  /\ faults = 0 /\ crashes = 0

Fault == faults < MaxFaults /\ faults' = faults + 1

Entries(batches) == UNION {Range(batches[n]) : n \in DOMAIN batches}
IsExport(entry) == entry.key = "export"

----------------------------------------------------------------------------
(* The journal.                                                             *)

Line(n, what) == [batch |-> n, what |-> what]
Commit(count) == [key |-> "commit", value |-> count]
Lines(n, entries) ==
  [i \in 1..Len(entries) + 1 |->
     Line(n, IF i > Len(entries) THEN Commit(Len(entries)) ELSE entries[i])]

\* The n-th of a finite set of numbers.
Nth(numbers, n) == CHOOSE i \in numbers : Cardinality({j \in numbers : j <= i}) = n

\* Where a line that commits a batch ends; a line begun by a torn one is none.
Commits(f) == {i \in DOMAIN f : /\ f[i].whole /\ f[i].rec.what.key = "commit"
                                /\ i > 1 => f[i - 1].whole}
Offsets(f) ==
  [n \in 1..Cardinality(Commits(f)) + 1 |->
     IF n = 1 THEN 0 ELSE Nth(Commits(f), n - 1)]

Batch(f, n) == LET at == Offsets(f) IN [i \in 1..at[n + 1] - at[n] - 1 |-> f[at[n] + i].rec.what]
Batches(f) == [n \in 1..Cardinality(Commits(f)) |-> Batch(f, n)]

\* The same rules admit an import and replay the journal: a key has one value, and
\* what it rests on is there.
Applies(known, entries) ==
  \A i \in DOMAIN entries :
    LET before == known \union {entries[j] : j \in 1..i - 1} IN
    /\ \A e \in before : e.key = entries[i].key /\ ~IsExport(e) => e = entries[i]
    /\ ~IsExport(entries[i]) => Requires[entries[i].key] \subseteq {e.key : e \in before}

\* loadable: batches in sequence and complete, and every artifact in place.
Intact(f) ==
  LET at == Offsets(f) IN
  \A n \in 1..Cardinality(Commits(f)) :
    /\ \A i \in at[n] + 1..at[n + 1] : f[i].whole /\ f[i].rec.batch = n
    /\ f[at[n + 1]].rec.what.value = at[n + 1] - at[n] - 1 /\ Batch(f, n) # <<>>
    /\ Applies(Entries([k \in 1..n - 1 |-> Batch(f, k)]), Batch(f, n))
    /\ \A e \in Range(Batch(f, n)) : e.key \in Stored => e \in artifacts

Committed(f) == Offsets(f)[Cardinality(Commits(f)) + 1]

\* An operation that finds no state loads it: what follows the last commit is cut.
Load ==
  /\ pc = "idle" /\ state = Null
  /\ \/ /\ Intact(file)
        /\ state' = Batches(file) /\ offsets' = Offsets(file)
        /\ file' = CutTo(file, Committed(file))
        /\ synced' = IF Len(file') < synced THEN Len(file') ELSE synced
        /\ UNCHANGED faults
     \/ Fault /\ UNCHANGED <<file, synced, state, offsets>>
  /\ UNCHANGED <<artifacts, pc, batch, told, crashes>>

----------------------------------------------------------------------------
(* Imports and exports.                                                     *)

Begin(entries) ==
  /\ Len(state) < MaxBatches
  /\ pc' = "put" /\ batch' = entries
  /\ UNCHANGED <<file, synced, artifacts, state, offsets, told, faults, crashes>>

\* The entries of a bundle that are not there yet, in its order.
New(bundle) ==
  LET places == {i \in DOMAIN bundle : bundle[i] \notin Entries(state)} IN
  [n \in 1..Cardinality(places) |-> bundle[Nth(places, n)]]

\* What is there already is skipped; a conflict refuses the whole bundle.
Import(bundle) ==
  /\ pc = "idle" /\ state # Null
  /\ Applies(Entries(state), bundle)
  /\ LET new == New(bundle) IN new # <<>> /\ Begin(new)

\* lastDataBatch: exports do not change what the next report is made from.
LastDataBatch ==
  Max({0} \union {n \in DOMAIN state : \E e \in Range(state[n]) : ~IsExport(e)})

\* #prefixDigest: the bytes up to the end of a batch.
Prefix(n) == CutTo(file, offsets[n + 1])

Report == [asOf |-> LastDataBatch, prefix |-> Prefix(LastDataBatch)]

Export ==
  /\ pc = "idle" /\ state # Null
  /\ LET e == [key |-> "export", value |-> Report] IN
     e \notin Entries(state) /\ Begin(<<e>>)

\* An artifact is whole or absent, and there before its record.
Put ==
  /\ pc = "put"
  /\ \/ /\ artifacts' = artifacts \union {e \in Range(batch) : e.key \in Stored \/ IsExport(e)}
        /\ pc' = "write" /\ UNCHANGED <<batch, faults>>
     \/ /\ Fault /\ pc' = "idle" /\ batch' = <<>> /\ UNCHANGED artifacts
  /\ UNCHANGED <<file, synced, state, offsets, told, crashes>>

\* Mutant of Forgotten: the state is kept when a commit fails.
Unforgotten == state
Forgotten == Null

Failed ==
  /\ state' = Forgotten /\ pc' = "idle" /\ batch' = <<>>
  /\ UNCHANGED <<offsets, told>>

\* A write that fails leaves any part of the batch.
Write ==
  /\ pc = "write"
  /\ LET written == [i \in 1..Len(batch) + 1 |-> WholeChunk(Lines(Len(state) + 1, batch)[i])] IN
     \/ /\ file' = file \o written /\ pc' = "sync"
        /\ UNCHANGED <<state, offsets, batch, told, faults>>
     \/ /\ Fault /\ Failed
        /\ \E n \in 0..Len(written) :
             file' \in {file \o CutTo(written, n)} \union
               IF n = Len(written) THEN {} ELSE {file \o CutTo(written, n) \o <<TornChunk(written[n + 1].rec)>>}
  /\ UNCHANGED <<synced, artifacts, crashes>>

Sync ==
  /\ pc = "sync"
  /\ \/ /\ synced' = Len(file)
        /\ state' = Append(state, batch)
        /\ offsets' = Append(offsets, offsets[Len(offsets)] + Len(batch) + 1)
        /\ told' = told \union Range(batch)
        /\ pc' = "idle" /\ batch' = <<>> /\ UNCHANGED faults
     \/ Fault /\ Failed /\ UNCHANGED synced
  /\ UNCHANGED <<file, artifacts, crashes>>

\* The process ends, perhaps with the machine.
Crash ==
  /\ crashes < MaxCrashes /\ crashes' = crashes + 1
  /\ file' \in AfterPowerLoss(file, synced) /\ synced' = Len(file')
  /\ state' = Null /\ offsets' = <<0>> /\ pc' = "idle" /\ batch' = <<>>
  /\ UNCHANGED <<artifacts, told, faults>>

Next ==
  \/ Load \/ (\E b \in Bundles : Import(b)) \/ Export
  \/ Put \/ Write \/ Sync \/ Crash

Spec == Init /\ [][Next]_vars

----------------------------------------------------------------------------
\* store.ts: whatever write, sync, put or crash fails or comes between, the journal
\* loads with whole batches only, what an import reported appended is among them,
\* the state in memory is what a load would find, and every report that was
\* exported can be rebuilt from the very bytes it names.
CorpusKept ==
  /\ Intact(file)
  /\ told \subseteq Entries(Batches(file))
  /\ pc = "idle" /\ state # Null => state = Batches(file) /\ offsets = Offsets(file)
  /\ \A e \in Entries(Batches(file)) : IsExport(e) =>
       /\ e \in artifacts
       /\ e.value.prefix = CutTo(file, Offsets(file)[e.value.asOf + 1])
=============================================================================
