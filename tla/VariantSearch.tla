--------------------------- MODULE VariantSearch ---------------------------
(***************************************************************************)
(* The search for other places of the defects an Audit confirmed           *)
(* (ModelAuditPipeline.searchVariants, variant-search.ts): seeds in        *)
(* batches, a call per batch, proposals without duplicates, their check,   *)
(* and the artifacts the confirmed ones join, each published on its own.   *)
(* A place is a file and a line; the run may stop between any two writes   *)
(* and starts the node again.                                              *)
(***************************************************************************)
EXTENDS Naturals, FiniteSets, Sequences, SequencesExt

CONSTANTS
  Issues,         \* what verification left: a sequence of issues, most severe first
  Proposals,      \* the variants a model may propose
  MaxProposed,    \* of one call
  SeedsPerBatch, FilesPerBatch, Minimum, Skip,
  MaxTrouble,     \* calls that do not fit or are declined
  MaxStops, Null

VARIABLES
  base,         \* variant-search-base
  batches,      \* variant-search-batches
  records,      \* variant-search-batch-<id>, by batch
  tooLarge,     \* batches recorded as stopped at a limit
  verdict,      \* recorded answers of the checkers
  published,    \* canonical-issues, source-findings and verification-results
  pc, queue, found, kept, checked, trouble, stops

stored == <<base, batches, records, tooLarge, verdict, published>>
vars == <<stored, pc, queue, found, kept, checked, trouble, stops>>

Before == [issues |-> Issues, findings |-> [i \in DOMAIN Issues |-> Issues[i].id], results |-> {Issues[i].id : i \in DOMAIN Issues}]
InScope(severity) == severity <= Minimum

Init ==
  /\ base = Null /\ batches = Null /\ records = <<>> /\ tooLarge = {} /\ verdict = <<>> /\ published = Before
  /\ pc = "start" /\ queue = <<>> /\ found = <<>> /\ kept = <<>> /\ checked = <<>> /\ trouble = 0 /\ stops = 0

----------------------------------------------------------------------------
(* What the search starts from is stored once: a resumed search does not start from its own additions. *)
BaseRead == published
Base == IF base = Null THEN published ELSE base
StoreBase ==
  /\ pc = "start" /\ base' = Base
  /\ pc' = "batches" /\ UNCHANGED <<batches, records, tooLarge, verdict, published, queue, found, kept, checked, trouble, stops>>

IsSeed(issue) == issue.outcome = "CONFIRMED" /\ InScope(issue.severity)
Files(batch) == {p[1] : p \in UNION {i.places : i \in ToSet(batch)}}
KeyOf(issue) == issue.module
Take(batch, issue) ==
  IF /\ Len(batch) < SeedsPerBatch /\ KeyOf(issue) = KeyOf(batch[1])
     /\ Cardinality(Files(Append(batch, issue))) <= FilesPerBatch
  THEN Append(batch, issue) ELSE batch
RECURSIVE VariantBatches(_)
VariantBatches(seeds) ==
  IF seeds = <<>> THEN <<>>
  ELSE LET batch == FoldLeft(Take, <<Head(seeds)>>, Tail(seeds))
       IN  <<batch>> \o VariantBatches(SelectSeq(seeds, LAMBDA i : i \notin ToSet(batch)))
StoreBatches ==
  /\ pc = "batches"
  /\ batches' = IF batches = Null THEN VariantBatches(SelectSeq(base.issues, IsSeed)) ELSE batches
  /\ queue' = batches' /\ found' = <<>> /\ pc' = "search"
  /\ UNCHANGED <<base, records, tooLarge, verdict, published, kept, checked, trouble, stops>>

(* search: a recorded batch is not asked again; one that does not fit goes on as two halves.  *)
Halves(batch) ==
  LET middle == (Len(batch) + 1) \div 2 IN <<SubSeq(batch, 1, middle), SubSeq(batch, middle + 1, Len(batch))>>
Answers(batch) ==
  {s \in BoundedSeq({v \in Proposals : \E i \in ToSet(batch) : v.of = i.id}, MaxProposed) : IsInjective(s)}
Recorded ==
  /\ pc = "search" /\ queue # <<>> /\ Head(queue) \in DOMAIN records
  /\ found' = found \o records[Head(queue)] /\ queue' = Tail(queue)
  /\ UNCHANGED <<stored, pc, kept, checked, trouble, stops>>
Record(batch, answer) ==
  /\ records' = [b \in DOMAIN records \union {batch} |-> IF b = batch THEN answer ELSE records[b]]
  /\ UNCHANGED <<base, batches, tooLarge, verdict, published, pc, queue, found, kept, checked, stops>>
Search ==
  /\ pc = "search" /\ queue # <<>> /\ Head(queue) \notin DOMAIN records \union tooLarge
  /\ \/ \E answer \in Answers(Head(queue)) : Record(Head(queue), answer) /\ UNCHANGED trouble
     \/ trouble < MaxTrouble /\ trouble' = trouble + 1 /\ Record(Head(queue), <<>>)
     \/ /\ trouble < MaxTrouble /\ Len(Head(queue)) > 1 /\ trouble' = trouble + 1
        /\ tooLarge' = tooLarge \union {Head(queue)}
        /\ UNCHANGED <<base, batches, records, verdict, published, pc, queue, found, kept, checked, stops>>
Halve ==
  /\ pc = "search" /\ queue # <<>> /\ Head(queue) \in tooLarge
  /\ queue' = Halves(Head(queue)) \o Tail(queue)
  /\ UNCHANGED <<stored, pc, found, kept, checked, trouble, stops>>

(* withoutDuplicates: a variant's own places are those its issue does not cite. *)
Overlaps(p, q) == p = q
Covered(own, places) == \A p \in own : \E q \in places : Overlaps(p, q)
Seed(variant) == CHOOSE i \in ToSet(base.issues) : i.id = variant.of
Own(variant) == {p \in variant.places : ~\E q \in Seed(variant).places : Overlaps(p, q)}
RestatesItsIssue(variant) == Own(variant) = {}
RepeatsAnIssue(variant) == \E i \in ToSet(base.issues) : Covered(Own(variant), i.places)
RepeatsAVariant(variant, earlier) == \E v \in ToSet(earlier) : Covered(Own(variant), Own(v))
Keep(earlier, variant) ==
  IF RestatesItsIssue(variant) \/ RepeatsAnIssue(variant) \/ RepeatsAVariant(variant, earlier)
  THEN earlier ELSE Append(earlier, variant)
Deduplicate ==
  /\ pc = "search" /\ queue = <<>>
  /\ kept' = SelectSeq(FoldLeft(Keep, <<>>, found), LAMBDA v : ~Skip \/ InScope(v.severity))
  /\ checked' = <<>> /\ pc' = "verify"
  /\ UNCHANGED <<stored, queue, found, trouble, stops>>

(* #askVerifier about the next variant: an answer is recorded, no answer is not. *)
Verify ==
  /\ pc = "verify" /\ Len(checked) < Len(kept)
  /\ LET variant == kept[Len(checked) + 1] IN
     \E outcome \in {"CONFIRMED", "REJECTED", "STILL_NEEDS_VERIFICATION"} :
       /\ variant.id \in DOMAIN verdict => outcome = verdict[variant.id]
       /\ verdict' = IF outcome = "STILL_NEEDS_VERIFICATION" THEN verdict
                     ELSE [v \in DOMAIN verdict \union {variant.id} |-> IF v = variant.id THEN outcome ELSE verdict[v]]
       /\ checked' = Append(checked, [variant |-> variant, outcome |-> outcome])
  /\ UNCHANGED <<base, batches, records, tooLarge, published, pc, queue, found, kept, trouble, stops>>

(* The confirmed ones join: findings first, then results, the issues that refer to them last.  *)
Added == SelectSeq(checked, LAMBDA c : c.outcome = "CONFIRMED")
AddedIds == [i \in DOMAIN Added |-> Added[i].variant.id]
Issue(variant) ==
  [id |-> variant.id, severity |-> variant.severity, outcome |-> "CONFIRMED", disposition |-> "accepted",
   places |-> variant.places, module |-> variant.id]
Publish(stage) ==
  /\ pc = stage /\ Len(checked) = Len(kept)
  /\ UNCHANGED <<base, batches, records, tooLarge, verdict, queue, found, kept, checked, trouble, stops>>
PublishFindings ==
  /\ Publish("verify") /\ published' = [published EXCEPT !.findings = base.findings \o AddedIds] /\ pc' = "results"
PublishResults ==
  /\ Publish("results") /\ published' = [published EXCEPT !.results = base.results \union ToSet(AddedIds)] /\ pc' = "issues"
PublishRanked ==
  /\ Publish("issues")
  /\ published' = [published EXCEPT !.issues = base.issues \o [i \in DOMAIN Added |-> Issue(Added[i].variant)]]
  /\ pc' = "done"

(* The process ends anywhere before the node's end is recorded; the node starts again. *)
Stop ==
  /\ pc # "start" /\ stops < MaxStops /\ stops' = stops + 1
  /\ pc' = "start" /\ UNCHANGED <<stored, queue, found, kept, checked, trouble>>

Next ==
  \/ StoreBase \/ StoreBatches \/ Recorded \/ Search \/ Halve \/ Deduplicate \/ Verify
  \/ PublishFindings \/ PublishResults \/ PublishRanked \/ Stop
Spec == Init /\ [][Next]_vars

----------------------------------------------------------------------------
(* searchVariants, across stops between any two of its writes: the published findings name nothing twice,  *)
(* every published issue has its finding and its result on record, what verification left is still there,  *)
(* and what was added was confirmed, repeats no rejected issue and no other addition.                      *)
VariantsJoinOnce ==
  LET added == {published.issues[i] : i \in DOMAIN published.issues} \ ToSet(Issues)
      own(i) == LET v == CHOOSE p \in Proposals : p.id = i.id
                    seed == CHOOSE s \in ToSet(Issues) : s.id = v.of
                IN  v.places \ seed.places
  IN  /\ IsInjective(published.findings) /\ IsPrefix(Issues, published.issues)
      /\ \A i \in ToSet(published.issues) : i.id \in ToSet(published.findings) /\ i.id \in published.results
      /\ \A i \in added :
           /\ verdict[i.id] = "CONFIRMED" /\ own(i) # {}
           /\ \A r \in ToSet(Issues) : r.disposition = "rejected" => ~(own(i) \subseteq r.places)
           /\ \A j \in added \ {i} : ~(own(i) \subseteq own(j) /\ own(j) \subseteq own(i))
=============================================================================
