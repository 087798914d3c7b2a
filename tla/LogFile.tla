------------------------------- MODULE LogFile -------------------------------
(***************************************************************************)
(* An append-only file of newline-terminated records, as the activity      *)
(* journal and the event log keep it.  The file is the sequence of chunks  *)
(* written to it: a whole chunk is a record with its newline, a torn one a *)
(* prefix of a record.  A torn chunk and the chunk that follows it share   *)
(* one line, which no reader can parse.                                    *)
(***************************************************************************)
EXTENDS Integers, Sequences

Chunk(R) == [rec: R, whole: BOOLEAN]
WholeChunk(r) == [rec |-> r, whole |-> TRUE]
TornChunk(r) == [rec |-> r, whole |-> FALSE]

\* The length up to and with the last newline.
RetainedLength(file) ==
  CHOOSE n \in 0..Len(file) :
    /\ n > 0 => file[n].whole
    /\ \A i \in n+1..Len(file) : ~file[i].whole

CutTo(file, n) == SubSeq(file, 1, n)

\* What a reader takes for records: every line that ends.
Records(file) ==
  [i \in 1..RetainedLength(file) |-> file[i].rec]

\* Every line that ends is one record: no torn chunk has a successor in its line.
Parses(file) == \A i \in 1..RetainedLength(file) : file[i].whole

\* What power loss leaves: at least what was synced, at most what was
\* written, with the first lost chunk perhaps in part.
AfterPowerLoss(file, synced) ==
  LET kept == {CutTo(file, n) : n \in synced..Len(file)}
      torn == {Append(CutTo(file, n), TornChunk(file[n+1].rec)) :
                 n \in synced..Len(file)-1}
  IN kept \union torn
=============================================================================
