----------------------------- MODULE CallProofs -----------------------------
(***************************************************************************)
(* What a model call keeps and runs.  Its records: one request is asked,   *)
(* its answer is paid for once and every caller is given the same one.     *)
(* Checkpoints: a node passes only on an approval of the inputs it was     *)
(* given.  The CLI a call may use: a session has one user and is continued *)
(* with the conversation it holds.  The CLI's processes: none is left when *)
(* a tree is said to have ended.  All hold for any number of executions,   *)
(* callers, calls, processes, failures and crashes.                        *)
(***************************************************************************)
EXTENDS ModelActivity, Sequences, SequenceTheorems, FiniteSetTheorems, WellFoundedInduction, TLAPS

CONSTANTS Version, MaxRuns, MaxResponses, Loops, Dialects, Requests, Streams, MaxTurns, MaxUpgrades, MaxTrouble, Platforms, Pids, Looks

VARIABLES policy, inputs, index, decisions, pc, todo, held, outcome, published, overlapped, told, runs, responses,
  dialect, file, resolved, probing, kept, roots, sessions, trouble,
  platform, proc, exited, stopped, armed, passes, pass, ended, failed, closed, heldOpen

G == INSTANCE GraphCheckpoints
X == INSTANCE CliTransport WITH Calls <- Loops
O == INSTANCE NativeProcess

----------------------------------------------------------------------------
(* The records of a model activity.                                        *)

\* The answers a stored trace vouches for and whose copy is intact.
Kept == traced \intersect outputs

\* Where the execution stands, and what it holds there.
Calls == call # Null
AtOne(places) == call # Null /\ call.at \in places

\* What is on file of an answer that may be used again.
TracedAnswer(n) ==
  /\ trace # Null /\ trace.validated /\ trace.ref = n /\ trace.execution = log

Mapped ==
  mapping # Null =>
    /\ Redacted(mapping.value) = mapping.value
    /\ call = Null \/ AtOne({"start", "return"})
    /\ mapping.from = "provider" => identity # Null /\ TracedAnswer(mapping.value.answer)
    /\ mapping.from = "source" => identity = Null /\ replayRecord = "reused"
    /\ \A r \in asked : mapping.digest = Fingerprint(r)

Vouched ==
  /\ traced \subseteq 0..sends
  /\ \A n \in Kept : n = sends /\ TracedAnswer(n) /\ trace.digest = identity
  /\ trace # Null /\ trace.validated /\ trace.ref # Null => trace.ref \in traced

Asked ==
  /\ \A r \in asked : identity = Fingerprint(r)
  /\ identity = Null => sends = 0
  /\ identity # Null => identity.form <= limit
  /\ asked \intersect refused = {}

\* A request a record refused stays refused, for the token limit only rises.
Refused ==
  \A r \in refused :
    \/ mapping # Null
    \/ /\ identity # Null
       /\ identity.request # r \/ (identity.form # 0 /\ identity.form < limit)

\* What the execution knows at each of its writes.
Unpaid ==
  /\ AtOne({"reject", "input"}) => Kept = {} \/ Changed(call.request)
  /\ AtOne({"reject"}) => source # Null /\ identity = Null
  /\ AtOne({"input"}) => replayRecord # "reused"
  /\ AtOne({"send", "sent", "put", "log", "trace"}) => Kept = {} /\ identity = Fingerprint(call.request)

Paid ==
  /\ AtOne({"sent", "put"}) => sends \notin traced
  /\ AtOne({"put"}) => call.value = Unmasked(sends) /\ call.validated
  /\ AtOne({"log", "trace"}) /\ call.ref # Null =>
       /\ call.ref = sends /\ call.value \in Payload /\ call.value.answer = sends /\ call.validated
  /\ AtOne({"start", "reject", "input", "send", "sent", "put"}) => call.ref = Null
  /\ AtOne({"start", "reject", "input", "send", "sent", "put", "log", "trace"}) => call.from = "provider"

Answering ==
  /\ AtOne({"map"}) =>
       /\ call.value \in Payload
       /\ \A r \in asked : r = call.request
       /\ call.from = "provider" => identity # Null /\ TracedAnswer(call.value.answer)
       /\ call.from = "source" => identity = Null /\ replayRecord = "reused"
  /\ AtOne({"return"}) => mapping # Null /\ call.value \in Payload /\ mapping.value = Redacted(call.value)

\* The log has room for the line this execution may add.
Room ==
  /\ AtOne({"start", "reject", "input", "send", "sent", "put", "log"}) => mapping # Null \/ log < MaxAttempts
  /\ AtOne({"trace"}) => log > 0

Replayed ==
  /\ identity # Null => replayRecord # "reused"
  /\ source = Null => replayRecord = Null

Served ==
  /\ \A p \in returned : mapping # Null /\ Redacted(p) = mapping.value
  /\ waiting # {} => call # Null

IInv ==
  /\ TypeOK /\ Mapped /\ Vouched /\ Asked /\ Refused
  /\ Unpaid /\ Paid /\ Answering /\ Room /\ Replayed /\ Served

----------------------------------------------------------------------------
\* Masking keeps the answer, and masks once.
LEMMA Payloads ==
  ASSUME ActivityAssumption
  PROVE  /\ 0 \in Answer
         /\ \A n \in Answer : Unmasked(n) \in Payload /\ Unmasked(n).answer = n
         /\ \A p \in Payload : /\ p.answer \in Answer
                               /\ Redacted(p) \in Payload /\ Redacted(p).answer = p.answer
                               /\ Redacted(Redacted(p)) = Redacted(p)
<1>1. MaxSends \in Nat BY DEF ActivityAssumption
<1>2. 0 \in Answer BY <1>1 DEF Answer
<1>3. \A n \in Answer : Unmasked(n) \in Payload /\ Unmasked(n).answer = n BY DEF Payload, Unmasked
<1>4. ASSUME NEW p \in Payload
      PROVE  /\ p.answer \in Answer
             /\ Redacted(p) \in Payload /\ Redacted(p).answer = p.answer
             /\ Redacted(Redacted(p)) = Redacted(p)
  <2>1. p = [answer |-> p.answer, masked |-> p.masked] /\ p.answer \in Answer BY DEF Payload
  <2>2. Redacted(p) = [answer |-> p.answer, masked |-> p.answer \in Named] BY <2>1 DEF Redacted
  <2>3. Redacted(Redacted(p)) = [answer |-> p.answer, masked |-> p.answer \in Named] BY <2>2 DEF Redacted
  <2>4. (p.answer \in Named) \in BOOLEAN OBVIOUS
  <2> QED BY <2>1, <2>2, <2>3, <2>4 DEF Payload
<1> QED BY <1>2, <1>3, <1>4

\* A request is told by its fingerprint, under every token limit.
LEMMA Prints ==
  ASSUME ActivityAssumption, TypeOK, NEW r \in Request
  PROVE  /\ Fingerprint(r) \in Digest /\ Fingerprint(r) # Null
         /\ Fingerprint(r).request = r /\ Fingerprint(r).form = 0
         /\ \A q \in Request : Accepts(Fingerprint(q), r) <=> q = r
         /\ \A q \in Request : Fingerprint(q) = Fingerprint(r) => q = r
         /\ \A d \in Digest : Accepts(d, r) <=> d.request = r /\ d.form \in {0, limit}
BY DEF ActivityAssumption, TypeOK, Fingerprint, Legacy, Accepts, Digest

\* An execution that goes on keeps its shape.
LEMMA Goes ==
  ASSUME ActivityAssumption, TypeOK, call # Null,
         NEW at \in {"start", "reject", "input", "send", "sent", "put", "log", "trace", "map", "return"},
         Goto(at)
  PROVE  /\ call' \in Call /\ call' # Null /\ call'.at = at
         /\ call'.request = call.request /\ call'.value = call.value /\ call'.from = call.from
         /\ call'.validated = call.validated /\ call'.ref = call.ref
BY DEF ActivityAssumption, TypeOK, Goto, Call

\* What is not touched stays so.
LEMMA Frame ==
  ASSUME IInv, UNCHANGED <<disk, source, limit, sends, asked, refused, traced>>
  PROVE  Vouched' /\ Asked' /\ Refused' /\ Replayed'
BY DEF IInv, Vouched, Kept, TracedAnswer, Asked, Refused, Replayed, disk, Fingerprint

\* Nothing is known of an execution that has ended.
LEMMA NoCall ==
  ASSUME call' = Null
  PROVE  Unpaid' /\ Paid' /\ Answering' /\ Room'
BY DEF Unpaid, Paid, Answering, Room, AtOne

\* Between its first read and its last write an execution has no mapping.
LEMMA Unmapped ==
  ASSUME IInv, call # Null, call.at \notin {"start", "return"}
  PROVE  mapping = Null
BY DEF IInv, Mapped, AtOne

LEMMA Moves ==
  ASSUME IInv, mapping = Null, UNCHANGED <<mapping, returned>>, call' # Null
  PROVE  Mapped' /\ Served'
BY DEF IInv, Mapped, Served

\* An execution that ends without an answer leaves what is on file.
LEMMA Rejects ==
  ASSUME IInv, UNCHANGED <<disk, source, limit, sends, asked, traced>>, Reject
  PROVE  Mapped' /\ Served'
BY DEF IInv, Mapped, Served, Reject, disk, TracedAnswer, Fingerprint, Redacted

----------------------------------------------------------------------------
LEMMA JoinStep ==
  ASSUME IInv, NEW c \in Caller, NEW r \in Request, Join(c, r)
  PROVE  IInv'
<1> USE DEF IInv, Join, disk, history
<1>1. TypeOK' BY DEF TypeOK
<1>2. Vouched' /\ Asked' /\ Refused' /\ Replayed' BY Frame
<1>3. Mapped' /\ Served' BY DEF Mapped, Served, AtOne, TracedAnswer, Fingerprint, Redacted
<1>4. Unpaid' /\ Paid' /\ Room'
  BY DEF Unpaid, Paid, Room, AtOne, Kept, Changed, Accepts, Fingerprint, Legacy
<1>5. Answering' BY DEF Answering, AtOne, TracedAnswer, Redacted
<1> QED BY <1>1, <1>2, <1>3, <1>4, <1>5

LEMMA StartStep ==
  ASSUME ActivityAssumption, IInv, NEW c \in Caller, NEW r \in Request, NEW replayOnly \in BOOLEAN,
         Start(c, r, replayOnly)
  PROVE  IInv'
<1> USE DEF IInv, Start, disk, history
<1>1. call' \in Call /\ call' # Null
  <2>1. call' \in Call BY DEF Call
  <2> QED BY <2>1 DEF ActivityAssumption
<1>2. TypeOK' BY <1>1 DEF TypeOK
<1>3. Vouched' /\ Asked' /\ Refused' /\ Replayed' BY Frame
<1>4. Mapped' /\ Served' BY <1>1 DEF Mapped, Served, AtOne, TracedAnswer, Fingerprint, Redacted
<1>5. Unpaid' /\ Paid' /\ Answering' /\ Room' BY DEF Unpaid, Paid, Answering, Room, AtOne
<1> QED BY <1>2, <1>3, <1>4, <1>5

LEMMA ReturnExistingStep ==
  ASSUME IInv, ReturnExisting
  PROVE  IInv'
<1> USE DEF IInv, ReturnExisting, Return, disk
<1>1. TypeOK' BY DEF TypeOK, Mapping
<1>2. Vouched' /\ Asked' /\ Refused' /\ Replayed' BY Frame
<1>3. Mapped' /\ Served' BY DEF Mapped, Served, TracedAnswer, Fingerprint, Redacted
<1> QED BY <1>1, <1>2, <1>3, NoCall

LEMMA RefuseExistingStep ==
  ASSUME IInv, RefuseExisting
  PROVE  IInv'
<1> USE DEF IInv, RefuseExisting, At, disk
<1>1. TypeOK' BY DEF TypeOK, Call, Reject
<1>2. Mapped' /\ Served' BY Rejects
<1>3. Vouched' /\ Refused' /\ Replayed' BY DEF Vouched, Kept, TracedAnswer, Refused, Replayed
<1>4. Asked' BY DEF Asked, Mapped, Accepts, Fingerprint
<1> QED BY <1>1, <1>2, <1>3, <1>4, NoCall DEF Reject

LEMMA NotCompletedStep ==
  ASSUME IInv, NotCompleted
  PROVE  IInv'
<1> USE DEF IInv, NotCompleted, disk
<1>1. TypeOK' BY DEF TypeOK, Reject
<1>2. Mapped' /\ Served' BY Rejects
<1>3. Vouched' /\ Asked' /\ Refused' /\ Replayed' BY Frame
<1> QED BY <1>1, <1>2, <1>3, NoCall DEF Reject

\* A trace that may be used is of this request and of an answer on file.
LEMMA RecoverStep ==
  ASSUME ActivityAssumption, IInv, Recover
  PROVE  IInv'
<1> USE DEF IInv, Recover, At, Recoverable, disk, history
<1>1. trace.ref \in Answer /\ Unmasked(trace.ref) \in Payload /\ trace.ref # Null /\ trace.ref \in Kept
  BY Payloads DEF TypeOK, ActivityAssumption, Vouched, Kept
<1>2. /\ call' \in Call /\ call' # Null /\ call'.value = Unmasked(trace.ref) /\ call'.from = "provider"
      /\ call'.at = "map" /\ call'.request = call.request
  BY <1>1 DEF TypeOK, Call, ActivityAssumption, Paid, AtOne
<1>3. identity # Null /\ trace.execution = log /\ trace.digest = identity
  BY <1>1, Prints DEF Vouched, TracedAnswer, TypeOK, Trace, ActivityAssumption
<1>4. \A q \in asked : q = call.request
  <2>1. call.request \in Request BY DEF TypeOK, Call
  <2> QED BY <1>3, <2>1, Prints DEF Asked, TypeOK
<1>5. TypeOK' BY <1>2 DEF TypeOK
<1>6. Mapped' /\ Served' BY <1>2, Moves
<1>7. Vouched' /\ Asked' /\ Refused' /\ Replayed' BY Frame
<1>8. Unpaid' /\ Paid' /\ Room' BY <1>2 DEF Unpaid, Paid, Room, AtOne
<1>9. Answering' BY <1>1, <1>2, <1>3, <1>4, Payloads DEF Answering, AtOne, TracedAnswer
<1> QED BY <1>5, <1>6, <1>7, <1>8, <1>9

LEMMA LookUpStep ==
  ASSUME ActivityAssumption, IInv, LookUp
  PROVE  IInv'
<1> USE DEF IInv, LookUp, At, Unanswered, Consults, history
<1>1. Redacted(Unmasked(0)) \in Payload BY Payloads
<1>2. /\ call' \in Call /\ call' # Null /\ call'.request = call.request
      /\ call'.at = "map" => call'.from = "source" /\ call'.value = Redacted(Unmasked(0)) /\ replayRecord' = "reused"
      /\ call'.at \in {"map", "input", "reject"}
      /\ call'.at = "input" => replayRecord' = "regenerated"
      /\ call'.ref = call.ref /\ call'.at # "map" => call'.from = call.from
  <2>0. call \in Call /\ Null \notin Call BY DEF TypeOK, ActivityAssumption
  <2>1. CASE source.request # call.request
    BY <2>0, <2>1 DEF Call
  <2>2. CASE source.request = call.request /\ source.fits
    BY <1>1, <2>0, <2>2 DEF Call
  <2>3. CASE source.request = call.request /\ ~source.fits
    BY <2>0, <2>3 DEF Call
  <2> QED BY <2>1, <2>2, <2>3
<1>3. Kept = {}
  BY DEF Vouched, TracedAnswer, TypeOK, Trace, ActivityAssumption
<1>4. asked = {}
  BY Prints DEF Asked, TypeOK
<1>5. TypeOK' BY <1>2 DEF TypeOK
<1>6. Mapped' /\ Served' BY <1>2, Moves
<1>7. Vouched' /\ Asked' /\ Refused' /\ Replayed'
  BY DEF Vouched, Kept, TracedAnswer, Asked, Refused, Replayed, Fingerprint
<1>8. Unpaid' BY <1>2, <1>3 DEF Unpaid, AtOne, Kept
<1>9. Paid' BY <1>2 DEF Paid, AtOne
<1>10. Answering' BY <1>1, <1>2, <1>4, Payloads DEF Answering, AtOne
<1>11. Room' BY <1>2 DEF Room, AtOne
<1> QED BY <1>5, <1>6, <1>7, <1>8, <1>9, <1>10, <1>11

LEMMA RejectSourceStep ==
  ASSUME ActivityAssumption, IInv, RejectSource
  PROVE  IInv'
<1> USE DEF IInv, RejectSource, At, history
<1>1. /\ call' \in Call /\ call' # Null /\ call'.at = "input" /\ call'.request = call.request
      /\ call'.ref = call.ref /\ call'.from = call.from
  BY Goes
<1>2. TypeOK' BY <1>1 DEF TypeOK
<1>3. Mapped' /\ Served' BY <1>1, Unmapped, Moves
<1>4. Vouched' /\ Asked' /\ Refused' /\ Replayed'
  BY DEF Vouched, Kept, TracedAnswer, Asked, Refused, Replayed, Fingerprint, Unpaid, AtOne
<1>5. Unpaid' BY <1>1 DEF Unpaid, AtOne, Kept, Changed, Accepts, Fingerprint, Legacy
<1>6. Paid' /\ Answering' /\ Room' BY <1>1 DEF Paid, Answering, Room, AtOne
<1> QED BY <1>2, <1>3, <1>4, <1>5, <1>6

LEMMA SkipSourceStep ==
  ASSUME ActivityAssumption, IInv, SkipSource
  PROVE  IInv'
<1> USE DEF IInv, SkipSource, At, Unanswered, Consults, disk, history
<1>1. /\ call' \in Call /\ call' # Null /\ call'.at = "input" /\ call'.request = call.request
      /\ call'.ref = call.ref /\ call'.from = call.from
  BY Goes
<1>2. Kept = {} \/ Changed(call.request)
  <2> SUFFICES ASSUME NEW n \in Kept PROVE Changed(call.request) OBVIOUS
  <2>1. /\ trace # Null /\ trace.validated /\ trace.ref \in outputs /\ trace.digest = identity
    BY DEF Vouched, TracedAnswer, Kept
  <2>2. ~Accepts(identity, call.request) /\ identity # Null
    BY <2>1 DEF Recoverable, TypeOK, Trace, ActivityAssumption
  <2> QED BY <2>2 DEF Changed
<1>3. replayRecord # "reused" BY DEF Replayed, TypeOK, ActivityAssumption
<1>4. TypeOK' BY <1>1 DEF TypeOK
<1>5. Mapped' /\ Served' BY <1>1, Moves
<1>6. Vouched' /\ Asked' /\ Refused' /\ Replayed' BY Frame
<1>7. Unpaid' BY <1>1, <1>2, <1>3 DEF Unpaid, AtOne, Kept, Changed, Accepts, Fingerprint, Legacy
<1>8. Paid' /\ Answering' /\ Room' BY <1>1 DEF Paid, Answering, Room, AtOne
<1> QED BY <1>4, <1>5, <1>6, <1>7, <1>8

----------------------------------------------------------------------------
\* The recorded request is another one, and no request asked for is.
LEMMA RefuseInputStep ==
  ASSUME ActivityAssumption, IInv, RefuseInput
  PROVE  IInv'
<1>0. Limit \subseteq Nat BY DEF ActivityAssumption
<1> USE DEF IInv, RefuseInput, At, disk
<1>1. identity # Null /\ identity \in Digest /\ call.request \in Request /\ ~Accepts(identity, call.request)
  BY DEF Changed, TypeOK, Call
<1>2. TypeOK' BY <1>1 DEF TypeOK, Reject
<1>3. Mapped' /\ Served' BY Rejects
<1>4. Vouched' /\ Replayed' BY DEF Vouched, Kept, TracedAnswer, Replayed
<1>5. Asked' BY <1>1, Prints DEF Asked, TypeOK, Fingerprint
<1>6. Refused'
  <2>1. identity.request # call.request \/ identity.form \notin {0, limit} BY <1>1, Prints
  <2>2. limit \in Nat /\ identity.form \in Nat /\ identity.form <= limit
    <3>1. \A m \in {0} \union Limit : m \in Nat BY <1>0
    <3> QED BY <1>1, <3>1 DEF TypeOK, Digest, Asked, ActivityAssumption
  <2> QED BY <1>1, <2>1, <2>2 DEF Refused
<1> QED BY <1>2, <1>3, <1>4, <1>5, <1>6, NoCall DEF Reject

LEMMA PublishInputStep ==
  ASSUME ActivityAssumption, IInv, PublishInput
  PROVE  IInv'
<1> USE DEF IInv, PublishInput, At, history
<1>1. /\ call' \in Call /\ call' # Null /\ call'.at = "send" /\ call'.request = call.request
      /\ call'.ref = call.ref /\ call'.from = call.from
  BY Goes
<1>2. call.request \in Request BY DEF TypeOK, Call
<1>3. Kept = {} /\ replayRecord # "reused" /\ mapping = Null BY Unmapped DEF Unpaid, AtOne
<1>4. identity # Null => identity \in Digest /\ Accepts(identity, call.request) BY DEF Changed, TypeOK
<1>5. TypeOK' BY <1>1, <1>2, Prints DEF TypeOK
<1>6. Mapped' /\ Served' BY <1>1, <1>3, Moves
<1>7. Vouched' /\ Replayed' BY <1>3 DEF Vouched, Kept, TracedAnswer, Replayed
<1>8. Asked'
  <2>1. \A q \in asked : q = call.request BY <1>2, <1>4, Prints DEF Asked, TypeOK
  <2>2. limit \in Nat BY DEF TypeOK, ActivityAssumption
  <2> QED BY <1>2, <2>1, <2>2, Prints DEF Asked, Fingerprint
<1>9. Refused'
  <2> SUFFICES ASSUME NEW q \in refused PROVE q # call.request
    BY <1>2, Prints DEF Refused
  <2>1. limit \in Nat BY DEF TypeOK, ActivityAssumption
  <2> QED BY <1>2, <1>3, <1>4, <2>1, Prints DEF Refused
<1>10. Unpaid' BY <1>1, <1>3 DEF Unpaid, AtOne, Kept, Fingerprint
<1>11. Paid' /\ Answering' /\ Room' BY <1>1 DEF Paid, Answering, Room, AtOne
<1> QED BY <1>5, <1>6, <1>7, <1>8, <1>9, <1>10, <1>11

\* The request sent is the one on file, so it is no other than was sent before.
LEMMA SendStep ==
  ASSUME ActivityAssumption, IInv, Send
  PROVE  IInv'
<1> USE DEF IInv, Send, At, disk
<1>1. /\ call' \in Call /\ call' # Null /\ call'.at = "sent" /\ call'.request = call.request
      /\ call'.ref = call.ref /\ call'.from = call.from
  BY Goes
<1>2. identity = Fingerprint(call.request) /\ call.request \in Request /\ Kept = {}
  BY DEF Unpaid, AtOne, TypeOK, Call
<1>3. mapping = Null BY Unmapped
<1>4. sends \in Nat /\ sends' = sends + 1 BY DEF TypeOK
<1>5. TypeOK' BY <1>1, <1>2 DEF TypeOK, ActivityAssumption
<1>6. Mapped' /\ Served' BY <1>1, <1>3, Moves
<1>7. Vouched' /\ Refused' /\ Replayed'
  BY <1>2, <1>4 DEF Vouched, Kept, TracedAnswer, Refused, Replayed
<1>8. Asked'
  <2>1. call.request \notin refused BY <1>2, <1>3, Prints DEF Refused
  <2>2. asked \subseteq {call.request} BY <1>2, Prints DEF Asked, TypeOK
  <2> QED BY <1>2, <2>1, <2>2, Prints DEF Asked, Fingerprint
<1>9. Unpaid' BY <1>1, <1>2 DEF Unpaid, AtOne, Kept, Fingerprint
<1>10. Paid' BY <1>1, <1>4 DEF Paid, AtOne, Vouched
<1>11. Answering' /\ Room' BY <1>1 DEF Answering, Room, AtOne
<1> QED BY <1>5, <1>6, <1>7, <1>8, <1>9, <1>10, <1>11

\* The ways in which no answer comes of a call: it was not sent, what came cannot
\* be used, or the answer could not be saved.
LEMMA GivesUp ==
  ASSUME ActivityAssumption, IInv, AtOne({"send", "sent", "put"}), Goto("log"),
         UNCHANGED <<disk, source, limit, waiting, sends, history, crashes>>, faults' \in 0..MaxFaults
  PROVE  IInv'
<1> USE DEF IInv, AtOne, disk, history
<1>1. /\ call' \in Call /\ call' # Null /\ call'.at = "log" /\ call'.request = call.request
      /\ call'.ref = call.ref /\ call'.from = call.from
  BY Goes
<1>2. TypeOK' BY <1>1 DEF TypeOK
<1>3. Mapped' /\ Served' BY <1>1, Unmapped, Moves
<1>4. Vouched' /\ Asked' /\ Refused' /\ Replayed' BY Frame
<1>5. Unpaid' BY <1>1 DEF Unpaid, Kept, Fingerprint
<1>6. Paid' /\ Answering' /\ Room' BY <1>1 DEF Paid, Answering, Room
<1> QED BY <1>2, <1>3, <1>4, <1>5, <1>6

LEMMA NotSavedStep ==
  ASSUME ActivityAssumption, IInv, NotSent \/ Unusable \/ PutFails
  PROVE  IInv'
BY GivesUp DEF NotSent, Unusable, PutFails, At, AtOne, IInv, TypeOK, ActivityAssumption

LEMMA AnsweredStep ==
  ASSUME ActivityAssumption, IInv, Answered
  PROVE  IInv'
<1> USE DEF IInv, Answered, At, disk, history
<1>1. Unmasked(sends) \in Payload BY Payloads DEF TypeOK, Answer
<1>2. /\ call' \in Call /\ call' # Null /\ call'.at = "put" /\ call'.request = call.request
      /\ call'.ref = call.ref /\ call'.from = call.from
      /\ call'.value = Unmasked(sends) /\ call'.validated
  BY <1>1 DEF TypeOK, Call, ActivityAssumption
<1>3. TypeOK' BY <1>2 DEF TypeOK
<1>4. Mapped' /\ Served' BY <1>2, Unmapped, Moves
<1>5. Vouched' /\ Asked' /\ Refused' /\ Replayed' BY Frame
<1>6. Unpaid' BY <1>2 DEF Unpaid, AtOne, Kept, Fingerprint
<1>7. Paid' BY <1>2 DEF Paid, AtOne, Unmasked
<1>8. Answering' /\ Room' BY <1>2 DEF Answering, Room, AtOne
<1> QED BY <1>3, <1>4, <1>5, <1>6, <1>7, <1>8

\* The copy that is saved is of an answer no trace names yet.
LEMMA PutOutputStep ==
  ASSUME ActivityAssumption, IInv, PutOutput
  PROVE  IInv'
<1> USE DEF IInv, PutOutput, At, history
<1>1. /\ call.value = Unmasked(sends) /\ call.validated /\ call.value \in Payload /\ call.value.answer = sends
      /\ sends \in Answer /\ call.from = "provider"
  BY Payloads DEF Paid, AtOne, TypeOK, Answer
<1>2. /\ call' \in Call /\ call' # Null /\ call'.at = "log" /\ call'.ref = sends /\ call'.request = call.request
      /\ call'.value = call.value /\ call'.validated /\ call'.from = "provider"
  BY <1>1 DEF TypeOK, Call, ActivityAssumption
<1>3. Kept' = Kept BY <1>1 DEF Kept, Paid, AtOne
<1>4. TypeOK' BY <1>1, <1>2 DEF TypeOK
<1>5. Mapped' /\ Served' BY <1>2, Unmapped, Moves
<1>6. Vouched' /\ Asked' /\ Refused' /\ Replayed'
  BY <1>3 DEF Vouched, TracedAnswer, Asked, Refused, Replayed, Fingerprint
<1>7. Unpaid' BY <1>2, <1>3 DEF Unpaid, AtOne, Fingerprint
<1>8. Paid' BY <1>1, <1>2, Payloads DEF Paid, AtOne
<1>9. Answering' /\ Room' BY <1>2 DEF Answering, Room, AtOne
<1> QED BY <1>4, <1>5, <1>6, <1>7, <1>8, <1>9

\* A line more in the log leaves no trace behind that still counts.
LEMMA RecordTraceStep ==
  ASSUME ActivityAssumption, IInv, RecordTrace
  PROVE  IInv'
<1> USE DEF IInv, RecordTrace, At, history
<1>1. /\ call' \in Call /\ call' # Null /\ call'.at = "trace" /\ call'.request = call.request
      /\ call'.ref = call.ref /\ call'.from = call.from /\ call'.value = call.value
      /\ call'.validated = call.validated
  BY Goes
<1>2. mapping = Null /\ Kept = {} BY Unmapped DEF Unpaid, AtOne
<1>3. log \in Nat /\ log < MaxAttempts /\ MaxAttempts \in Nat
  BY <1>2 DEF Room, AtOne, TypeOK, ActivityAssumption
<1>4. TypeOK' BY <1>1, <1>3 DEF TypeOK
<1>5. Mapped' /\ Served' BY <1>1, <1>2, Moves
<1>6. Vouched' /\ Asked' /\ Refused' /\ Replayed'
  BY <1>2 DEF Vouched, Kept, TracedAnswer, Asked, Refused, Replayed, Fingerprint
<1>7. Unpaid' BY <1>1 DEF Unpaid, AtOne, Kept, Fingerprint
<1>8. Paid' BY <1>1 DEF Paid, AtOne
<1>9. Answering' /\ Room' BY <1>1, <1>3 DEF Answering, Room, AtOne
<1> QED BY <1>4, <1>5, <1>6, <1>7, <1>8, <1>9

LEMMA RecordFailsStep ==
  ASSUME ActivityAssumption, IInv, RecordFails
  PROVE  IInv'
<1> USE DEF IInv, RecordFails, At, Reject
<1>1. mapping = Null /\ Kept = {} BY Unmapped DEF Unpaid, AtOne
<1>2. log \in Nat /\ log < MaxAttempts /\ MaxAttempts \in Nat
  BY <1>1 DEF Room, AtOne, TypeOK, ActivityAssumption
<1>3. TypeOK' BY <1>2 DEF TypeOK, ActivityAssumption
<1>4. Mapped' /\ Served' BY <1>1 DEF Mapped, Served
<1>5. Vouched' /\ Asked' /\ Refused' /\ Replayed'
  BY <1>1 DEF Vouched, Kept, TracedAnswer, Asked, Refused, Replayed, Fingerprint
<1> QED BY <1>3, <1>4, <1>5, NoCall

----------------------------------------------------------------------------
\* The trace names the answer just saved, or none.
LEMMA PublishTraceStep ==
  ASSUME ActivityAssumption, IInv, PublishTrace
  PROVE  IInv'
<1> USE DEF IInv, PublishTrace, At
<1>1. call.request \in Request /\ call \in Call BY DEF TypeOK, Call
<1>2. mapping = Null /\ returned = {} BY Unmapped DEF Served
<1>3. Kept = {} /\ identity = Fingerprint(call.request) /\ identity # Null
  BY <1>1, Prints DEF Unpaid, AtOne
<1>4. trace' \in Trace /\ trace' # Null
  <2>1. log \in 1..MaxAttempts BY DEF Room, AtOne, TypeOK, ActivityAssumption
  <2>2. trace' \in Trace BY <1>1, <2>1, Prints DEF Trace, Call
  <2> QED BY <2>2 DEF ActivityAssumption
<1>5. call.ref # Null =>
        /\ call.ref = sends /\ call.ref \in Answer /\ call.value \in Payload /\ call.value.answer = sends
        /\ call.validated /\ call.from = "provider"
        /\ call' \in Call /\ call' # Null /\ call'.at = "map" /\ call'.request = call.request
        /\ call'.value = call.value /\ call'.from = call.from
  BY Goes DEF Paid, AtOne, TypeOK, Answer
<1>6. call.ref = Null => call' = Null /\ waiting' = {} BY DEF Reject, Goto
<1>7. call' = Null \/ (call' # Null /\ call'.at = "map") BY <1>5, <1>6
<1>8. traced' = traced \/ (call.ref # Null /\ traced' = traced \union {sends}) BY <1>5
<1>9. TypeOK'
  <2>1. traced' \subseteq Answer BY <1>5, <1>8 DEF TypeOK
  <2>2. call' \in Call \union {Null} /\ waiting' \subseteq Caller /\ returned' = returned
    BY <1>5, <1>6 DEF Reject, TypeOK
  <2> QED BY <1>4, <2>1, <2>2 DEF TypeOK
<1>10. Mapped' BY <1>2 DEF Mapped
<1>11. Vouched'
  <2>1. traced' \subseteq 0..sends
    <3>1. sends \in 0..sends BY DEF TypeOK, ActivityAssumption
    <3>2. traced \subseteq 0..sends BY DEF Vouched
    <3> QED BY <1>8, <3>1, <3>2
  <2>2. trace'.validated /\ trace'.ref # Null => trace'.ref \in traced' OBVIOUS
  <2>3. ASSUME NEW n \in Kept'
        PROVE  n = sends /\ TracedAnswer(n)' /\ trace'.digest = identity
    <3>1. n = sends /\ call.ref # Null BY <1>3, <1>8 DEF Kept
    <3> QED BY <1>3, <1>4, <1>5, <3>1 DEF TracedAnswer
  <2> QED BY <2>1, <2>2, <2>3 DEF Vouched
<1>12. Asked' /\ Refused' /\ Replayed' BY DEF Asked, Refused, Replayed, Fingerprint
<1>13. Unpaid' /\ Paid' /\ Room' BY <1>7 DEF Unpaid, Paid, Room, AtOne
<1>14. Answering'
  <2>1. \A q \in asked : q = call.request BY <1>1, <1>3, Prints DEF Asked, TypeOK
  <2> QED BY <1>3, <1>4, <1>5, <1>6, <1>7, <2>1 DEF Answering, AtOne, TracedAnswer
<1>15. Served' BY <1>2, <1>5, <1>6 DEF Served, Reject
<1> QED BY <1>9, <1>10, <1>11, <1>12, <1>13, <1>14, <1>15

\* A publish that fails changes nothing on file.
LEMMA WriteFailsStep ==
  ASSUME ActivityAssumption, IInv, WriteFails
  PROVE  IInv'
<1> USE DEF IInv, WriteFails, disk
<1>1. TypeOK' BY DEF TypeOK, Reject, ActivityAssumption
<1>2. Mapped' /\ Served' BY Rejects
<1>3. Vouched' /\ Asked' /\ Refused' /\ Replayed' BY Frame
<1> QED BY <1>1, <1>2, <1>3, NoCall DEF Reject

LEMMA PublishMappingStep ==
  ASSUME ActivityAssumption, IInv, PublishMapping
  PROVE  IInv'
<1> USE DEF IInv, PublishMapping, At, history
<1>1. /\ call' \in Call /\ call' # Null /\ call'.at = "return" /\ call'.request = call.request
      /\ call'.value = call.value /\ call'.from = call.from
  BY Goes
<1>2. call.request \in Request /\ call.from \in {"provider", "source"} /\ call.value \in Payload
  BY DEF TypeOK, Call, Answering, AtOne
<1>3. mapping' \in Mapping /\ mapping' # Null
  <2>1. mapping' \in Mapping BY <1>2, Payloads, Prints DEF Mapping
  <2> QED BY <2>1 DEF ActivityAssumption
<1>4. mapping'.value = Redacted(call.value) /\ mapping'.from = call.from
      /\ mapping'.digest = Fingerprint(call.request)
  OBVIOUS
<1>5. mapping = Null /\ returned = {} BY Unmapped DEF Served
<1>6. TypeOK' BY <1>1, <1>3 DEF TypeOK
<1>7. Mapped'
  <2>1. Redacted(mapping'.value) = mapping'.value /\ mapping'.value.answer = call.value.answer
    BY <1>2, <1>4, Payloads
  <2>2. \A q \in asked : mapping'.digest = Fingerprint(q) BY <1>4 DEF Answering, AtOne
  <2>3. call.from = "provider" => identity # Null /\ TracedAnswer(call.value.answer)
    BY DEF Answering, AtOne
  <2>4. call.from = "source" => identity = Null /\ replayRecord = "reused" BY DEF Answering, AtOne
  <2> QED BY <1>1, <1>4, <2>1, <2>2, <2>3, <2>4 DEF Mapped, AtOne, TracedAnswer, Fingerprint, Redacted
<1>8. Vouched' /\ Asked' /\ Replayed' BY DEF Vouched, Kept, TracedAnswer, Asked, Replayed, Fingerprint
<1>9. Refused' BY <1>3 DEF Refused
<1>10. Unpaid' /\ Paid' /\ Room' BY <1>1 DEF Unpaid, Paid, Room, AtOne
<1>11. Answering' BY <1>1, <1>2, <1>3, <1>4 DEF Answering, AtOne, Redacted
<1>12. Served' BY <1>1, <1>5 DEF Served
<1> QED BY <1>6, <1>7, <1>8, <1>9, <1>10, <1>11, <1>12

LEMMA SettleStep ==
  ASSUME IInv, Settle
  PROVE  IInv'
<1> USE DEF IInv, Settle, At, Return, disk
<1>1. mapping # Null /\ call.value \in Payload /\ mapping.value = Redacted(call.value)
  BY DEF Answering, AtOne
<1>2. TypeOK' BY <1>1 DEF TypeOK
<1>3. Vouched' /\ Asked' /\ Refused' /\ Replayed' BY Frame
<1>4. Mapped' BY DEF Mapped, TracedAnswer, Fingerprint, Redacted
<1>5. Served' BY <1>1 DEF Served, Redacted
<1> QED BY <1>2, <1>3, <1>4, <1>5, NoCall

\* A raised limit makes no refused request acceptable.
LEMMA CrashStep ==
  ASSUME ActivityAssumption, IInv, Crash
  PROVE  IInv'
<1> USE DEF IInv, Crash, disk, history
<1>1. limit \in Nat /\ limit' \in Nat /\ limit <= limit' BY DEF TypeOK, ActivityAssumption
<1>2. identity # Null => identity.form \in Nat
  <2>1. \A m \in {0} \union Limit : m \in Nat BY DEF ActivityAssumption
  <2> QED BY <2>1 DEF TypeOK, Digest
<1>3. TypeOK' BY DEF TypeOK, ActivityAssumption
<1>4. Mapped' /\ Served' BY DEF Mapped, Served, TracedAnswer, Fingerprint, Redacted
<1>5. Vouched' /\ Replayed' BY DEF Vouched, Kept, TracedAnswer, Replayed
<1>6. Asked' BY <1>1, <1>2 DEF Asked, Fingerprint
<1>7. Refused' BY <1>1, <1>2 DEF Refused
<1> QED BY <1>3, <1>4, <1>5, <1>6, <1>7, NoCall

LEMMA DamageStep ==
  ASSUME ActivityAssumption, IInv, Damage
  PROVE  IInv'
<1> USE DEF IInv, Damage, history
<1>1. outputs' \subseteq outputs OBVIOUS
<1>2. Kept' \subseteq Kept BY <1>1 DEF Kept
<1>3. TypeOK' BY <1>1 DEF TypeOK, ActivityAssumption
<1>4. Mapped' /\ Served' BY DEF Mapped, Served, AtOne, TracedAnswer, Fingerprint, Redacted
<1>5. Vouched' /\ Asked' /\ Refused' /\ Replayed'
  BY <1>2 DEF Vouched, TracedAnswer, Asked, Refused, Replayed, Fingerprint
<1>6. Unpaid' BY <1>2 DEF Unpaid, AtOne, Changed, Accepts, Fingerprint, Legacy
<1>7. Paid' /\ Room' BY DEF Paid, Room, AtOne, Unmasked
<1>8. Answering' BY DEF Answering, AtOne, TracedAnswer, Redacted
<1> QED BY <1>3, <1>4, <1>5, <1>6, <1>7, <1>8

----------------------------------------------------------------------------
LEMMA InitIInv == ASSUME ActivityAssumption, Init PROVE IInv
<1> USE DEF Init
<1>1. limit \in Nat /\ limit # 0 /\ limit \in Limit BY DEF ActivityAssumption
<1>2. CASE mapping = Null /\ identity = Null /\ trace = Null /\ outputs = {} /\ sends = 0 /\ traced = {} /\ log = 0
           /\ source \in Source \union {Null}
  <2>1. TypeOK BY <1>1, <1>2 DEF TypeOK, ActivityAssumption
  <2> QED BY <1>2, <2>1 DEF IInv, Mapped, Vouched, Kept, Asked, Refused, Unpaid, Paid, Answering, Room, Replayed,
      Served, AtOne
<1>3. ASSUME NEW r \in Request, NEW stage \in {"sent", "traced", "mapped"},
             source = Null, identity = Legacy(r), sends = 1,
             log = IF stage = "sent" THEN 0 ELSE 1,
             outputs = IF stage = "sent" THEN {} ELSE {1},
             traced = outputs,
             trace = IF stage = "sent" THEN Null
                     ELSE [digest |-> Legacy(r), validated |-> TRUE, ref |-> 1, execution |-> 1],
             mapping = IF stage = "mapped"
                       THEN [digest |-> Legacy(r), value |-> Redacted(Unmasked(1)), from |-> "provider"]
                       ELSE Null
      PROVE  IInv
  <2>1. identity \in Digest /\ identity # Null /\ identity.form = limit
    <3>1. identity \in Digest /\ identity.form = limit BY <1>1, <1>3 DEF Legacy, Digest
    <3> QED BY <3>1 DEF ActivityAssumption
  <2>2. 1 \in Answer /\ 1 \in 0..MaxSends /\ 1 \in 1..MaxAttempts /\ 0 \in 0..MaxAttempts /\ 1 # Null
    BY DEF ActivityAssumption, Answer
  <2>3. trace # Null =>
          /\ trace \in Trace /\ trace.validated /\ trace.ref = 1
          /\ trace.execution = log /\ trace.digest = identity
    BY <1>3, <2>1, <2>2 DEF Trace
  <2>4. mapping # Null =>
          /\ mapping \in Mapping /\ mapping.value = Redacted(Unmasked(1)) /\ mapping.from = "provider"
          /\ trace # Null
    <3>1. Redacted(Unmasked(1)) \in Payload BY <2>2, Payloads
    <3>2. stage # "sent" => trace \in Trace /\ trace # Null
      <4>1. stage # "sent" => trace \in Trace BY <1>3, <2>1, <2>2 DEF Trace
      <4> QED BY <4>1 DEF ActivityAssumption
    <3> QED BY <1>3, <2>1, <3>1, <3>2 DEF Mapping
  <2>5. outputs \subseteq {1} /\ (1 \in outputs => trace # Null) /\ traced = outputs /\ (trace # Null => 1 \in traced)
    <3>1. stage # "sent" => trace \in Trace BY <1>3, <2>1, <2>2 DEF Trace
    <3> QED BY <1>3, <3>1 DEF ActivityAssumption
  <2>6. TypeOK
    <3>1. log \in 0..MaxAttempts /\ sends \in 0..MaxSends BY <1>3, <2>2
    <3>2. trace \in Trace \union {Null} /\ mapping \in Mapping \union {Null} BY <2>3, <2>4
    <3> QED BY <1>1, <1>3, <2>1, <2>2, <2>5, <3>1, <3>2 DEF TypeOK, ActivityAssumption
  <2>7. Mapped
    BY <2>1, <2>2, <2>3, <2>4, Payloads DEF Mapped, TracedAnswer
  <2>8. Vouched
    BY <1>3, <2>2, <2>3, <2>5 DEF Vouched, Kept, TracedAnswer
  <2>9. Asked /\ Refused /\ Replayed /\ Served
    BY <1>1, <1>3, <2>1 DEF Asked, Refused, Replayed, Served, ActivityAssumption
  <2> QED BY <2>6, <2>7, <2>8, <2>9 DEF IInv, Unpaid, Paid, Answering, Room, AtOne
<1> QED BY <1>2, <1>3

LEMMA StepIInv == ASSUME ActivityAssumption, IInv, [Next]_vars PROVE IInv'
<1>1. CASE UNCHANGED vars
  <2>1. TypeOK' BY <1>1 DEF vars, IInv, TypeOK
  <2>2. Mapped' /\ Served' BY <1>1 DEF vars, IInv, Mapped, Served, AtOne, TracedAnswer, Fingerprint, Redacted
  <2>3. Vouched' /\ Asked' /\ Refused' /\ Replayed' BY <1>1, Frame DEF vars, disk
  <2>4. Unpaid' /\ Paid' /\ Room'
    BY <1>1 DEF vars, IInv, Unpaid, Paid, Room, AtOne, Kept, Changed, Accepts, Fingerprint, Legacy
  <2>5. Answering' BY <1>1 DEF vars, IInv, Answering, AtOne, TracedAnswer, Redacted
  <2> QED BY <2>1, <2>2, <2>3, <2>4, <2>5 DEF IInv
<1>2. CASE Invoke BY <1>2, JoinStep, StartStep DEF Invoke
<1>3. CASE Execute
  BY <1>3, ReturnExistingStep, RefuseExistingStep, RecoverStep, NotCompletedStep, LookUpStep, RejectSourceStep,
    SkipSourceStep, RefuseInputStep, PublishInputStep, SendStep, NotSavedStep, AnsweredStep, PutOutputStep,
    RecordTraceStep, RecordFailsStep, PublishTraceStep, WriteFailsStep, PublishMappingStep, SettleStep
  DEF Execute
<1>4. CASE Crash \/ Damage BY <1>4, CrashStep, DamageStep
<1> QED BY <1>1, <1>2, <1>3, <1>4 DEF Next

LEMMA IInvMeans == ActivityAssumption /\ IInv => TypeOK /\ AnswersKept
<1> SUFFICES ASSUME ActivityAssumption, IInv PROVE TypeOK /\ AnswersKept OBVIOUS
<1> USE DEF IInv
<1>1. PaidAnswerKept
  <2>1. \A n \in traced : n < sends => n \notin outputs
    BY DEF Vouched, Kept, TypeOK
  <2> QED BY <2>1 DEF PaidAnswerKept, Mapped, TracedAnswer
<1>2. Cardinality(asked) <= 1
  <2>1. CASE asked = {}
    <3>1. Cardinality({}) = 0 BY FS_EmptySet
    <3> QED BY <2>1, <3>1
  <2>2. CASE asked # {}
    <3>1. PICK r \in asked : TRUE BY <2>2
    <3>2. asked = {r} BY <3>1, Prints DEF Asked, TypeOK
    <3>3. Cardinality({r}) = 1 BY FS_Singleton
    <3> QED BY <3>2, <3>3
  <2> QED BY <2>1, <2>2
<1>3. OneRequestAsked BY <1>2 DEF OneRequestAsked, Asked
<1>4. ReplayAccounted
  BY DEF ReplayAccounted, Served, Mapped, Replayed, Asked, TypeOK, Mapping
<1> QED BY <1>1, <1>3, <1>4 DEF AnswersKept

\* ModelActivities.invoke and execute (model-activities.ts): one activity, one
\* request, one answer, for any number of callers, requests, sends, faults and
\* restarts, whatever write is the last.
THEOREM AnswersAreKept == ActivityAssumption => (Spec => [](TypeOK /\ AnswersKept))
<1> SUFFICES ASSUME ActivityAssumption PROVE Spec => [](TypeOK /\ AnswersKept) OBVIOUS
<1>1. Init => IInv BY InitIInv
<1>2. IInv /\ [Next]_vars => IInv' BY StepIInv
<1>3. IInv => TypeOK /\ AnswersKept BY IInvMeans
<1> QED BY <1>1, <1>2, <1>3, PTL DEF Spec
----------------------------------------------------------------------------
(* Checkpoints.                                                            *)

RunPlace == {"idle", "opened", "decided", "gatePassed", "gateFailed"}
OperatorPlace == {"idle", "checked", "responded"}

CheckpointTyped ==
  /\ inputs \in Version
  /\ decisions \in [Version -> G!Decision \union {Null}]
  /\ policy \in {"interactive"} \union G!Decision
  /\ DOMAIN pc = G!Process /\ DOMAIN todo = G!Process /\ DOMAIN held = G!Process
  /\ pc["run"] \in RunPlace /\ pc["operator"] \in OperatorPlace
  /\ overlapped \in BOOLEAN

\* An ended node ended as its version was decided, and what an operator was told
\* is what is recorded.
Recorded ==
  /\ outcome = "passed" => decisions[inputs] = "approve"
  /\ outcome = "rejected" => decisions[inputs] = "reject"
  /\ \A t \in told : t[1] \in Version /\ t[2] \in G!Decision /\ decisions[t[1]] = t[2]

\* Unless publishes overlapped, one under way has read what the index still holds.
Current ==
  ~overlapped => /\ index = published
                 /\ \A p \in G!Process : held[p] # Null => held[p] = index

\* What each process has still to publish, by where it is.
IsDecisionEntry(e) == \E v \in Version, d \in G!Decision : e = G!Entry(<<"decision", v>>, d)
VersionEntry == G!Entry(<<"version", inputs>>, G!Record(inputs))
CurrentEntry == G!Entry(<<"current">>, G!Record(inputs))

RunPublishes ==
  /\ pc["run"] = "idle" => todo["run"] = <<>>
  /\ pc["run"] = "opened" => todo["run"] \in {<<>>, <<CurrentEntry>>, <<VersionEntry, CurrentEntry>>}
  /\ pc["run"] = "decided" => todo["run"] = <<>> \/ \E e : IsDecisionEntry(e) /\ todo["run"] = <<e>>
  /\ pc["run"] \in {"gatePassed", "gateFailed"} =>
       todo["run"] = <<>> \/ \E b \in BOOLEAN : todo["run"] = <<G!Entry(<<"gate">>, b)>>

OperatorPublishes ==
  todo["operator"] = <<>> \/ \E e : IsDecisionEntry(e) /\ todo["operator"] = <<e>>

Publishing == \A p \in G!Process : held[p] # Null => todo[p] # <<>>

\* The version the node waits for is the one the index calls current.
Open == G!Read(<<"current">>) = {G!Record(inputs)}
Found ==
  /\ pc["run"] # "idle" => outcome = "running"
  /\ ~overlapped =>
       /\ outcome = "blocked" => Open
       /\ pc["run"] = "opened" /\ todo["run"] = <<>> => Open
       /\ pc["run"] = "decided" => Open

CheckpointInv == CheckpointTyped /\ Recorded /\ Current /\ RunPublishes /\ OperatorPublishes /\ Publishing /\ Found

----------------------------------------------------------------------------

\* What the entries of an index name by a kind.
NamedIn(S, kind) == {e[2] : e \in {x \in S : x[1] = kind}}

LEMMA ReadIsNamed == \A kind : G!Read(kind) = NamedIn(index, kind) /\ G!Read(kind)' = NamedIn(index', kind)
BY DEF G!Read, NamedIn

\* A new entry of another kind leaves what a kind names.
LEMMA WithOther ==
  ASSUME NEW S, NEW e, NEW kind, e[1] # kind
  PROVE  NamedIn(G!With(S, e), kind) = NamedIn(S, kind)
BY DEF G!With, NamedIn

\* A new entry is all that its kind names.
LEMMA WithSame ==
  ASSUME NEW S, NEW e
  PROVE  NamedIn(G!With(S, e), e[1]) = {e[2]}
BY DEF G!With, NamedIn

\* Only the current entry is of the current kind.
LEMMA Kinds ==
  /\ \A v, d : G!Entry(<<"decision", v>>, d)[1] # <<"current">>
  /\ \A v, d : G!Entry(<<"version", v>>, d)[1] # <<"current">>
  /\ \A b : G!Entry(<<"gate">>, b)[1] # <<"current">>
  /\ \A r : G!Entry(<<"current">>, r)[1] = <<"current">> /\ G!Entry(<<"current">>, r)[2] = r
<1>1. \A v : Len(<<"decision", v>>) = 2 /\ Len(<<"version", v>>) = 2 /\ Len(<<"current">>) = 1 OBVIOUS
<1>2. <<"gate">>[1] = "gate" /\ <<"current">>[1] = "current" OBVIOUS
<1> QED BY <1>1, <1>2 DEF G!Entry

LEMMA InitCheckpoints == G!CheckpointAssumption /\ G!Init => CheckpointInv
BY DEF G!CheckpointAssumption, G!Init, CheckpointInv, CheckpointTyped, Recorded, Current, RunPublishes,
       OperatorPublishes, Publishing, Found, G!Process, G!Decision, RunPlace, OperatorPlace

\* Decisions only grow.
LEMMA RecordedOnce ==
  ASSUME CheckpointTyped, G!CheckpointAssumption, NEW v \in Version, NEW d \in G!Decision,
         decisions' = G!CreateOnce(v, d)
  PROVE  /\ decisions' \in [Version -> G!Decision \union {Null}]
         /\ \A w \in Version : decisions[w] # Null => decisions'[w] = decisions[w]
         /\ decisions[v] = Null => decisions'[v] = d
BY DEF CheckpointTyped, G!CreateOnce, G!CheckpointAssumption

----------------------------------------------------------------------------

LEMMA ThrowStep ==
  ASSUME CheckpointInv, NEW p \in G!Process, G!Throw(p),
         held' = held \/ held' = [held EXCEPT ![p] = Null], held'[p] = Null,
         UNCHANGED <<policy, inputs, index, decisions, published, told>>,
         overlapped' \in BOOLEAN, overlapped => overlapped'
  PROVE  CheckpointInv'
<1> USE DEF G!Throw, G!Goto, G!Publish, G!Process
<1>1. CheckpointTyped' BY DEF CheckpointInv, CheckpointTyped, RunPlace, OperatorPlace
<1>2. Recorded' BY DEF CheckpointInv, Recorded
<1>3. Current' BY DEF CheckpointInv, CheckpointTyped, Current
<1>4. RunPublishes' /\ OperatorPublishes' /\ Publishing'
  BY DEF CheckpointInv, CheckpointTyped, RunPublishes, OperatorPublishes, Publishing, CurrentEntry, VersionEntry,
      G!Record
<1>5. Found' BY DEF CheckpointInv, CheckpointTyped, Found, Open, G!Read, G!Record
<1> QED BY <1>1, <1>2, <1>3, <1>4, <1>5 DEF CheckpointInv

LEMMA ReadStep == ASSUME CheckpointInv, NEW p \in G!Process, G!ReadIndex(p) PROVE CheckpointInv'
<1>1. CASE index = G!Torn
  BY <1>1, ThrowStep DEF G!ReadIndex, CheckpointInv, CheckpointTyped
<1>2. CASE index # G!Torn
  <2> USE <1>2 DEF G!ReadIndex, G!Process, G!Torn
  <2>1. CheckpointTyped' /\ Recorded' BY DEF CheckpointInv, CheckpointTyped, Recorded
  <2>2. Current' BY DEF CheckpointInv, CheckpointTyped, Current
  <2>3. RunPublishes' /\ OperatorPublishes' /\ Publishing'
    BY DEF CheckpointInv, CheckpointTyped, RunPublishes, OperatorPublishes, Publishing, CurrentEntry, VersionEntry,
        G!Record
  <2>4. Found' BY DEF CheckpointInv, CheckpointTyped, Found, Open, G!Read, G!Record
  <2> QED BY <2>1, <2>2, <2>3, <2>4 DEF CheckpointInv
<1> QED BY <1>1, <1>2

\* What is replaced is what a publish read, changed in one entry.
LEMMA ReplaceStep == ASSUME CheckpointInv, NEW p \in G!Process, G!ReplaceIndex(p) PROVE CheckpointInv'
<1> DEFINE e == Head(todo[p])
<1>1. held[p] # Null /\ todo[p] # <<>> BY DEF CheckpointInv, Publishing, G!ReplaceIndex
<1>2. CASE G!Throw(p) /\ UNCHANGED <<index, published>>
  BY <1>2, ThrowStep DEF G!ReplaceIndex, CheckpointInv, CheckpointTyped
<1>3. CASE /\ index' \in {G!With(held[p], e)} \union (IF G!Others(p) = {} THEN {} ELSE {G!Torn})
           /\ todo' = [todo EXCEPT ![p] = Tail(@)]
           /\ published' = G!With(published, e)
           /\ UNCHANGED <<pc, outcome, faults>>
  <2>1. /\ held' = [held EXCEPT ![p] = Null]
        /\ overlapped' = (overlapped \/ G!Others(p) # {})
        /\ UNCHANGED <<policy, inputs, decisions, told, runs, responses>>
    BY DEF G!ReplaceIndex
  <2>2. CheckpointTyped' /\ Recorded' BY <1>3, <2>1 DEF CheckpointInv, CheckpointTyped, Recorded
  <2>3. ~overlapped' => ~overlapped /\ index' = G!With(index, e)
    BY <1>1, <1>3, <2>1 DEF CheckpointInv, CheckpointTyped, Current
  <2>4. Current'
    <3>1. ~overlapped' => G!Others(p) = {} BY <2>1 DEF CheckpointInv, CheckpointTyped
    <3>2. ~overlapped' => \A q \in G!Process : held'[q] = Null
      BY <2>1, <3>1 DEF CheckpointInv, CheckpointTyped, G!Others
    <3> QED BY <1>3, <2>3, <3>2 DEF CheckpointInv, Current
  <2>5. CASE p = "operator"
    <3>1. PICK x : IsDecisionEntry(x) /\ todo["operator"] = <<x>>
      BY <1>1, <2>5 DEF CheckpointInv, OperatorPublishes
    <3>2. e = x /\ todo'["operator"] = <<>> /\ todo'["run"] = todo["run"]
      BY <1>3, <2>5, <3>1 DEF CheckpointInv, CheckpointTyped, G!Process
    <3>3. e[1] # <<"current">> BY <3>1, <3>2, Kinds DEF IsDecisionEntry
    <3>4. ~overlapped' => G!Read(<<"current">>)' = G!Read(<<"current">>)
      BY <2>3, <3>3, WithOther, ReadIsNamed
    <3>5. RunPublishes' /\ OperatorPublishes' /\ Publishing'
      BY <1>3, <2>1, <2>5, <3>2
      DEF CheckpointInv, CheckpointTyped, RunPublishes, OperatorPublishes, Publishing, CurrentEntry, VersionEntry,
          G!Record, G!Process
    <3>6. Found' BY <1>3, <2>1, <2>3, <3>2, <3>4 DEF CheckpointInv, Found, Open, G!Record
    <3> QED BY <2>2, <2>4, <3>5, <3>6 DEF CheckpointInv
  <2>6. CASE p = "run"
    <3>1. /\ todo'["run"] = Tail(todo["run"]) /\ todo'["operator"] = todo["operator"]
          /\ held'["run"] = Null /\ held'["operator"] = held["operator"]
      BY <1>3, <2>1, <2>6 DEF CheckpointInv, CheckpointTyped, G!Process
    <3>2. OperatorPublishes' /\ Publishing'
      BY <3>1 DEF CheckpointInv, OperatorPublishes, Publishing, G!Process, IsDecisionEntry
    <3>3. CASE pc["run"] = "opened"
      <4>1. CASE todo["run"] = <<CurrentEntry>>
        <5>1. e = CurrentEntry /\ todo'["run"] = <<>> BY <2>6, <3>1, <4>1
        <5>2. ~overlapped' => G!Read(<<"current">>)' = {G!Record(inputs)}
          <6>1. e[1] = <<"current">> /\ e[2] = G!Record(inputs) BY <5>1, Kinds DEF CurrentEntry
          <6>2. NamedIn(G!With(index, e), <<"current">>) = {G!Record(inputs)} BY <6>1, WithSame
          <6> QED BY <2>3, <6>2, ReadIsNamed
        <5>3. RunPublishes' BY <1>3, <3>3, <5>1 DEF RunPublishes
        <5>4. Found' BY <1>3, <2>1, <3>3, <5>2 DEF CheckpointInv, Found, Open, G!Record
        <5> QED BY <2>2, <2>4, <3>2, <5>3, <5>4 DEF CheckpointInv
      <4>2. CASE todo["run"] = <<VersionEntry, CurrentEntry>>
        <5>1. todo'["run"] = <<CurrentEntry>> BY <2>6, <3>1, <4>2
        <5>2. RunPublishes' BY <1>3, <2>1, <3>3, <5>1 DEF RunPublishes, CurrentEntry, VersionEntry, G!Record
        <5>3. todo'["run"] # <<>> BY <5>1
        <5>4. Found' BY <1>3, <2>1, <3>3, <5>3 DEF CheckpointInv, Found
        <5> QED BY <2>2, <2>4, <3>2, <5>2, <5>4 DEF CheckpointInv
      <4> QED BY <1>1, <2>6, <3>3, <4>1, <4>2 DEF CheckpointInv, RunPublishes
    <3>4. CASE pc["run"] # "opened"
      <4>1. pc["run"] \in {"decided", "gatePassed", "gateFailed"}
        BY <1>1, <2>6, <3>4 DEF CheckpointInv, CheckpointTyped, RunPublishes, RunPlace
      <4>2. \E x : todo["run"] = <<x>> /\ x[1] # <<"current">>
        <5>1. CASE pc["run"] = "decided"
          <6>1. PICK x : IsDecisionEntry(x) /\ todo["run"] = <<x>>
            BY <1>1, <2>6, <5>1 DEF CheckpointInv, RunPublishes
          <6>2. x[1] # <<"current">> BY <6>1, Kinds DEF IsDecisionEntry
          <6> QED BY <6>1, <6>2
        <5>2. CASE pc["run"] \in {"gatePassed", "gateFailed"}
          BY <1>1, <2>6, <5>2, Kinds DEF CheckpointInv, RunPublishes
        <5> QED BY <4>1, <5>1, <5>2
      <4>3. e[1] # <<"current">> /\ todo'["run"] = <<>> BY <2>6, <3>1, <4>2
      <4>4. ~overlapped' => G!Read(<<"current">>)' = G!Read(<<"current">>)
        BY <2>3, <4>3, WithOther, ReadIsNamed
      <4>5. RunPublishes' BY <1>3, <4>1, <4>3 DEF RunPublishes
      <4>6. Found' BY <1>3, <2>1, <2>3, <4>1, <4>4 DEF CheckpointInv, Found, Open, G!Record
      <4> QED BY <2>2, <2>4, <3>2, <4>5, <4>6 DEF CheckpointInv
    <3> QED BY <3>3, <3>4
  <2> QED BY <2>5, <2>6 DEF G!Process
<1> QED BY <1>2, <1>3 DEF G!ReplaceIndex

LEMMA NodeStep ==
  ASSUME CheckpointInv, G!CheckpointAssumption,
      G!HumanNode \/ G!Opened \/ G!Decided \/ G!GateRecorded \/ \E b \in BOOLEAN : G!GateNode(b)
  PROVE  CheckpointInv'
<1> USE DEF G!Process, G!Goto, G!Publish
<1>1. CASE G!HumanNode
  <2> USE <1>1 DEF G!HumanNode
  <2>1. CheckpointTyped' /\ Recorded' BY DEF CheckpointInv, CheckpointTyped, Recorded, RunPlace
  <2>2. Current' /\ Publishing' /\ OperatorPublishes'
    BY DEF CheckpointInv, CheckpointTyped, Current, Publishing, OperatorPublishes, RunPublishes, IsDecisionEntry
  <2>3. RunPublishes' BY DEF CheckpointInv, CheckpointTyped, RunPublishes, CurrentEntry, VersionEntry, G!Record,
      G!Entry
  <2>4. Found'
    <3>1. CASE index = G!Torn BY <3>1 DEF CheckpointInv, CheckpointTyped, Found
    <3>2. CASE index # G!Torn
      <4>1. outcome' = "running" /\ pc'["run"] = "opened" BY <3>2 DEF CheckpointInv, CheckpointTyped
      <4>2. todo'["run"] = <<>> => Open'
        <5>1. todo'["run"] = <<>> => G!IsOpen(inputs')
          <6>1. todo'["run"] = IF G!IsOpen(inputs') THEN <<>>
                  ELSE <<G!Entry(<<"version", inputs'>>, G!Record(inputs')),
                         G!Entry(<<"current">>, G!Record(inputs'))>>
            BY <3>2 DEF CheckpointInv, CheckpointTyped
          <6> QED BY <6>1
        <5>2. G!IsOpen(inputs') => Open' BY DEF G!IsOpen, Open, G!Read, G!Record
        <5> QED BY <5>1, <5>2
      <4> QED BY <4>1, <4>2 DEF Found
    <3> QED BY <3>1, <3>2
  <2> QED BY <2>1, <2>2, <2>3, <2>4 DEF CheckpointInv
<1>2. CASE G!Opened
  <2> USE <1>2 DEF G!Opened
  <2>1. /\ decisions' \in [Version -> G!Decision \union {Null}]
        /\ \A w \in Version : decisions[w] # Null => decisions'[w] = decisions[w]
    BY RecordedOnce DEF CheckpointInv, CheckpointTyped
  <2>2. CheckpointTyped' BY <2>1 DEF CheckpointInv, CheckpointTyped, RunPlace
  <2>3. Recorded' BY <2>1 DEF CheckpointInv, CheckpointTyped, Recorded, G!Decision, G!CheckpointAssumption
  <2>4. Current' /\ Publishing' /\ OperatorPublishes'
    BY DEF CheckpointInv, CheckpointTyped, Current, Publishing, OperatorPublishes, IsDecisionEntry
  <2>5. RunPublishes' BY DEF CheckpointInv, CheckpointTyped, RunPublishes, IsDecisionEntry
  <2>6. Found' BY DEF CheckpointInv, CheckpointTyped, Found, Open, G!Read, G!Record
  <2> QED BY <2>2, <2>3, <2>4, <2>5, <2>6 DEF CheckpointInv
<1>3. CASE G!Decided
  <2> USE <1>3 DEF G!Decided
  <2>1. CheckpointTyped' BY DEF CheckpointInv, CheckpointTyped, RunPlace
  <2>2. Recorded' BY DEF CheckpointInv, CheckpointTyped, Recorded, G!Decision, G!CheckpointAssumption
  <2>3. Current' /\ Publishing' /\ OperatorPublishes' /\ RunPublishes'
    BY DEF CheckpointInv, CheckpointTyped, Current, Publishing, OperatorPublishes, RunPublishes
  <2>4. Found' BY DEF CheckpointInv, CheckpointTyped, Found, Open, G!Read, G!Record
  <2> QED BY <2>1, <2>2, <2>3, <2>4 DEF CheckpointInv
<1>4. CASE G!GateRecorded
  <2> USE <1>4 DEF G!GateRecorded
  <2>1. CheckpointTyped' /\ Recorded' BY DEF CheckpointInv, CheckpointTyped, Recorded, RunPlace
  <2>2. Current' /\ Publishing' /\ OperatorPublishes' /\ RunPublishes'
    BY DEF CheckpointInv, CheckpointTyped, Current, Publishing, OperatorPublishes, RunPublishes
  <2>3. Found' BY DEF CheckpointInv, CheckpointTyped, Found, Open, G!Read, G!Record
  <2> QED BY <2>1, <2>2, <2>3 DEF CheckpointInv
<1>5. ASSUME NEW b \in BOOLEAN, G!GateNode(b) PROVE CheckpointInv'
  <2> USE <1>5 DEF G!GateNode
  <2>1. CheckpointTyped' /\ Recorded' BY DEF CheckpointInv, CheckpointTyped, Recorded, RunPlace
  <2>2. Current' /\ Publishing' /\ OperatorPublishes'
    BY DEF CheckpointInv, CheckpointTyped, Current, Publishing, OperatorPublishes, IsDecisionEntry
  <2>3. RunPublishes' BY DEF CheckpointInv, CheckpointTyped, RunPublishes, CurrentEntry, VersionEntry
  <2>4. Found' BY DEF CheckpointInv, CheckpointTyped, Found
  <2> QED BY <2>1, <2>2, <2>3, <2>4 DEF CheckpointInv
<1> QED BY <1>1, <1>2, <1>3, <1>4, <1>5

LEMMA OperatorStep ==
  ASSUME CheckpointInv, G!CheckpointAssumption,
         G!Respond \/ G!Responded \/ \E v \in Version, d \in G!Decision : G!Decide(v, d)
  PROVE  CheckpointInv'
<1> USE DEF G!Process, G!Goto, G!Publish
<1>1. CASE G!Respond \/ G!Responded
  <2> USE <1>1 DEF G!Respond, G!Responded
  <2>1. CheckpointTyped' /\ Recorded' BY DEF CheckpointInv, CheckpointTyped, Recorded, OperatorPlace
  <2>2. Current' /\ Publishing' /\ OperatorPublishes'
    BY DEF CheckpointInv, CheckpointTyped, Current, Publishing, OperatorPublishes, IsDecisionEntry
  <2>3. RunPublishes' BY DEF CheckpointInv, CheckpointTyped, RunPublishes, CurrentEntry, VersionEntry, G!Record,
      IsDecisionEntry
  <2>4. Found' BY DEF CheckpointInv, CheckpointTyped, Found, Open, G!Read, G!Record
  <2> QED BY <2>1, <2>2, <2>3, <2>4 DEF CheckpointInv
<1>2. ASSUME NEW v \in Version, NEW d \in G!Decision, G!Decide(v, d) PROVE CheckpointInv'
  <2> USE <1>2 DEF G!Decide
  <2>1. /\ decisions' \in [Version -> G!Decision \union {Null}]
        /\ \A w \in Version : decisions[w] # Null => decisions'[w] = decisions[w]
        /\ decisions[v] = Null /\ decisions' # decisions => decisions'[v] = d
    BY RecordedOnce DEF CheckpointInv, CheckpointTyped
  <2>2. CheckpointTyped' BY <2>1 DEF CheckpointInv, CheckpointTyped, OperatorPlace
  <2>3. Recorded'
    <3>1. told' # told => told' = told \union {<<v, d>>} /\ decisions[v] = Null /\ decisions' = G!CreateOnce(v, d)
      OBVIOUS
    <3>2. told' # told => decisions'[v] = d BY <3>1, RecordedOnce DEF CheckpointInv
    <3> QED BY <2>1, <3>1, <3>2 DEF CheckpointInv, CheckpointTyped, Recorded, G!Decision, G!CheckpointAssumption
  <2>4. OperatorPublishes' /\ Publishing'
    <3> DEFINE x == G!Entry(<<"decision", v>>, d)
    <3>1. IsDecisionEntry(x) BY DEF IsDecisionEntry
    <3>2. todo' = todo \/ todo' = [todo EXCEPT !["operator"] = <<x>>] OBVIOUS
    <3>3. todo'["operator"] \in {todo["operator"], <<x>>} /\ todo'["run"] = todo["run"]
      BY <3>2 DEF CheckpointInv, CheckpointTyped
    <3>4. OperatorPublishes' BY <3>1, <3>3 DEF CheckpointInv, OperatorPublishes, IsDecisionEntry
    <3>5. Publishing' BY <3>3 DEF CheckpointInv, Publishing
    <3> QED BY <3>4, <3>5
  <2>5. RunPublishes' BY DEF CheckpointInv, CheckpointTyped, RunPublishes, CurrentEntry, VersionEntry, G!Record,
      IsDecisionEntry
  <2>6. Current' /\ Found' BY DEF CheckpointInv, CheckpointTyped, Current, Found, Open, G!Read, G!Record
  <2> QED BY <2>2, <2>3, <2>4, <2>5, <2>6 DEF CheckpointInv
<1> QED BY <1>1, <1>2

\* Every step keeps the invariant.
LEMMA StepCheckpoints == G!CheckpointAssumption /\ CheckpointInv /\ [G!Next]_G!vars => CheckpointInv'
<1> SUFFICES ASSUME G!CheckpointAssumption, CheckpointInv, [G!Next]_G!vars PROVE CheckpointInv' OBVIOUS
<1>1. CASE UNCHANGED G!vars
  BY <1>1 DEF G!vars, CheckpointInv, CheckpointTyped, Recorded, Current, RunPublishes, OperatorPublishes,
              Publishing, Found, Open, G!Read, G!Record, CurrentEntry, VersionEntry
<1>2. ASSUME NEW p \in G!Process, G!Crash(p) PROVE CheckpointInv'
  BY <1>2, ThrowStep DEF G!Crash, CheckpointInv, CheckpointTyped
<1> QED BY <1>1, <1>2, ReadStep, ReplaceStep, NodeStep, OperatorStep DEF G!Next

LEMMA CheckpointsMean == CheckpointInv => G!DecisionObeyed
BY DEF CheckpointInv, Recorded, Current, Found, Open, G!DecisionObeyed

\* graph-checkpoints.ts and RunStore.publish: a node passes or is rejected only by
\* the decision of its own version, an accepted decision stays, and unless two
\* processes published at once every publish is in the index and a blocked node's
\* checkpoint is the current one.
THEOREM DecisionsAreObeyed == G!CheckpointAssumption => (G!Spec => []G!DecisionObeyed)
<1> SUFFICES ASSUME G!CheckpointAssumption PROVE G!Spec => []G!DecisionObeyed OBVIOUS
<1>1. G!Init => CheckpointInv BY InitCheckpoints
<1>2. CheckpointInv /\ [G!Next]_G!vars => CheckpointInv' BY StepCheckpoints
<1>3. CheckpointInv => G!DecisionObeyed BY CheckpointsMean
<1> QED BY <1>1, <1>2, <1>3, PTL DEF G!Spec

----------------------------------------------------------------------------
(* The turns of a CLI.                                                     *)

\* What the CLI stores of a session, what is kept of one for its next turn, and what a caller is told.
Conversation == [turns : Seq(Requests), tokens : Nat]
Keeping == [session : Nat, usage : Nat]
Notice == [own : Nat, charged : Nat, clean : BOOLEAN, read : BOOLEAN]
CallState ==
  [pc : {"idle", "resolve", "probe", "sweep", "ready", "again", "run", "ended"}, turns : Seq(Requests), stamp : Nat,
   version : Nat, seen : SUBSET Nat, session : Nat \union {Null}, resume : BOOLEAN, reported : Nat, left : BOOLEAN,
   told : Notice \union {Null}]

\* What a call knows of the CLI file, and what it was told.
CallSound(x, now) ==
  /\ x \in CallState
  /\ x.pc = "run" => x.session \in Nat
  /\ x.pc \notin {"idle", "ended"} => now \in x.seen /\ ~x.left
  /\ x.pc = "probe" => x.stamp <= now
  /\ x.pc \in {"sweep", "ready", "again", "run"} => x.version \in x.seen
  /\ x.told # Null => x.told.charged = x.told.own /\ x.told.read /\ x.told.clean
CallsSound == file \in Nat /\ DOMAIN call = Loops /\ \A c \in Loops : CallSound(call[c], file)

\* The version in use was probed after the stamp beside it was taken.
Resolved ==
  resolved # Null =>
    resolved.stamp \in Nat /\ resolved.version \in Nat /\ resolved.stamp <= resolved.version /\ resolved.version <= file

\* Each session that is kept holds the conversation it is kept under, at the tokens last reported.
Stored ==
  /\ \A s \in DOMAIN sessions : sessions[s] \in Conversation
  /\ \A k \in DOMAIN kept : kept[k] \in Seq(Keeping)
  /\ \A k \in DOMAIN kept : \A i \in DOMAIN kept[k] :
       /\ kept[k][i].session \in DOMAIN sessions
       /\ sessions[kept[k][i].session].turns = k
       /\ X!CumulativeUsage => sessions[kept[k][i].session].tokens = kept[k][i].usage
  /\ \A c \in X!Running : call[c].resume =>
       /\ call[c].session \in DOMAIN sessions
       /\ sessions[call[c].session].turns = call[c].turns
       /\ X!CumulativeUsage => sessions[call[c].session].tokens = call[c].reported

\* A session has one user.
Owned ==
  /\ IsFiniteSet(roots) /\ roots \subseteq Nat
  /\ roots = {call[c].session : c \in X!Running} \union X!AllKept /\ DOMAIN sessions \subseteq roots
  /\ \A c, d \in X!Running : call[c].session = call[d].session => c = d
  /\ \A c \in X!Running : call[c].session \notin X!AllKept
  /\ \A k, l \in DOMAIN kept : \A i \in DOMAIN kept[k], j \in DOMAIN kept[l] :
       kept[k][i].session = kept[l][j].session => k = l /\ i = j

\* The invariant of the turns.
CInv == CallsSound /\ Resolved /\ Stored /\ Owned

\* A call, field by field.
State(place, turns, stamp, version, seen, session, resume, reported, left, notice) ==
  [pc |-> place, turns |-> turns, stamp |-> stamp, version |-> version, seen |-> seen, session |-> session, resume |-> resume,
   reported |-> reported, left |-> left, told |-> notice]

LEMMA StateIs ==
  ASSUME NEW x \in CallState
  PROVE  x = State(x.pc, x.turns, x.stamp, x.version, x.seen, x.session, x.resume, x.reported, x.left, x.told)
BY DEF CallState, State

LEMMA IdleIs == X!Idle = State("idle", <<>>, 0, 0, {}, Null, FALSE, 0, FALSE, Null)
BY DEF X!Idle, State

\* A step of one call.
OneCall(c, x) == DOMAIN call' = Loops /\ call'[c] = x /\ \A d \in Loops \ {c} : call'[d] = call[d]

LEMMA OneCallSound ==
  ASSUME CallsSound, NEW c \in Loops, NEW x, OneCall(c, x), CallSound(x, file), file' = file
  PROVE  CallsSound'
BY DEF CallsSound, OneCall, CallSound

\* What a step makes of its call.
LEMMA SendIs ==
  ASSUME CInv, NEW c \in Loops, X!Send(c)
  PROVE  OneCall(c, State("resolve", call[c].turns, 0, 0, {file}, Null, FALSE, 0, FALSE, Null))
<1>1. call' = [call EXCEPT ![c] = [X!Idle EXCEPT !.pc = "resolve", !.turns = call[c].turns, !.seen = {file}]] BY DEF X!Send
<1>3. DOMAIN call = Loops BY DEF CInv, CallsSound
<1>4. call'[c] = [[[X!Idle EXCEPT !.pc = "resolve"] EXCEPT !.turns = call[c].turns] EXCEPT !.seen = {file}] BY <1>1, <1>3
<1>5. call'[c] = State("resolve", call[c].turns, 0, 0, {file}, Null, FALSE, 0, FALSE, Null)
  BY <1>4, IdleIs DEF State
<1> QED BY <1>1, <1>5, <1>3 DEF OneCall

LEMMA StartedIs ==
  ASSUME CallsSound, NEW c \in Loops, NEW id, NEW continued, NEW reported, X!Started(c, id, continued, reported)
  PROVE  OneCall(c, State("run", call[c].turns, call[c].stamp, call[c].version, call[c].seen, id, continued, reported,
                          call[c].left, call[c].told))
<1>1. call' = [call EXCEPT ![c].pc = "run", ![c].session = id, ![c].resume = continued, ![c].reported = reported] BY DEF X!Started
<1>2. DOMAIN call = Loops /\ call[c] \in CallState BY DEF CallsSound, CallSound
<1>3. DOMAIN call' = Loops /\ \A d \in Loops \ {c} : call'[d] = call[d] BY <1>1, <1>2
<1>4. call'[c] = [[[[call[c] EXCEPT !.pc = "run"] EXCEPT !.session = id] EXCEPT !.resume = continued] EXCEPT !.reported = reported]
  BY <1>1, <1>2
<1>5. call[c] = State(call[c].pc, call[c].turns, call[c].stamp, call[c].version, call[c].seen, call[c].session, call[c].resume,
                      call[c].reported, call[c].left, call[c].told) BY <1>2, StateIs
<1>6. call'[c] = State("run", call[c].turns, call[c].stamp, call[c].version, call[c].seen, id, continued, reported,
                          call[c].left, call[c].told) BY <1>4, <1>5 DEF State
<1> QED BY <1>3, <1>6 DEF OneCall

LEMMA ReturnedIs ==
  ASSUME CallsSound, NEW c \in Loops, NEW place, NEW turns, NEW notice, X!Returned(c, place, turns, notice)
  PROVE  OneCall(c, State(place, turns, 0, 0, {}, Null, FALSE, 0, FALSE, notice))
<1>1. call' = [call EXCEPT ![c] = [X!Idle EXCEPT !.pc = place, !.turns = turns, !.told = notice]] BY DEF X!Returned
<1>3. DOMAIN call = Loops BY DEF CallsSound
<1>4. call'[c] = [[[X!Idle EXCEPT !.pc = place] EXCEPT !.turns = turns] EXCEPT !.told = notice] BY <1>1, <1>3
<1>5. call'[c] = State(place, turns, 0, 0, {}, Null, FALSE, 0, FALSE, notice)
  BY <1>4, IdleIs DEF State
<1> QED BY <1>1, <1>5, <1>3 DEF OneCall

----------------------------------------------------------------------------
(* The readers. *)

LEMMA LeastNatural ==
  ASSUME NEW S \in SUBSET Nat, S # {}
  PROVE  \E x \in S : \A y \in S : x <= y
<1>1. PICK x \in S : \A y \in S : <<y, x>> \notin OpToRel(<, Nat)
  BY WFMin, NatLessThanWellFounded, Zenon
<1>2. \A y \in S : y \in Nat /\ x \in Nat OBVIOUS
<1>3. \A y \in S : ~(y < x)
  BY <1>1, <1>2, Zenon DEF OpToRel
<1> QED BY <1>2, <1>3

\* The first of some places is one of them.
LEMMA LeastIs ==
  ASSUME NEW S \in SUBSET Nat, S # {}
  PROVE  X!Least(S) \in S
BY LeastNatural DEF X!Least

\* FirstOf: no forbidden event was read when it found none.
LEMMA NoneOf ==
  ASSUME NEW stream, stream.events \in Seq(X!ToSet(stream.events)), NEW bad, "none" \notin bad, X!FirstOf(stream, bad) = "none"
  PROVE  \A event \in bad : ~X!Has(stream, event)
<1> DEFINE at == {i \in DOMAIN stream.events : stream.events[i] \in bad}
<1>1. at \in SUBSET Nat OBVIOUS
<1>2. at = {}
  <2> SUFFICES ASSUME at # {} PROVE FALSE OBVIOUS
  <2>1. X!Least(at) \in at
    <3> HIDE DEF at
    <3> QED BY <1>1, LeastIs
  <2>2. X!FirstOf(stream, bad) = stream.events[X!Least(at)] BY DEF X!FirstOf
  <2> QED BY <2>1, <2>2
<1> QED BY <1>2 DEF X!Has, X!ToSet

\* classifyCliFailure and a reader that ran out of events never make a reply of a failure.
LEMMA Failed ==
  ASSUME NEW stream
  PROVE  X!ClassifyCliFailure(stream).kind = "error" /\ X!Incomplete(stream).kind = "error"
<1> DEFINE known == {i \in DOMAIN X!FailureClasses : X!Has(stream, X!FailureClasses[i].says)}
<1>1. DOMAIN X!FailureClasses = 1..6 /\ \A i \in 1..6 : X!FailureClasses[i].error.kind = "error" BY DEF X!FailureClasses, X!Error
<1>2. ASSUME known # {} PROVE X!Least(known) \in 1..6
  <2>1. known \in SUBSET Nat BY <1>1
  <2>2. known \subseteq 1..6 BY <1>1
  <2>3. X!Least(known) \in known
    <3> HIDE DEF known
    <3> QED BY <1>2, <2>1, LeastIs
  <2> QED BY <2>2, <2>3
<1>3. X!ClassifyCliFailure(stream) = IF known = {} THEN X!Error("HTTP", FALSE) ELSE X!FailureClasses[X!Least(known)].error
  BY DEF X!ClassifyCliFailure
<1>4. X!ClassifyCliFailure(stream).kind = "error"
  <2> HIDE DEF known
  <2> QED BY <1>1, <1>2, <1>3 DEF X!Error
<1> QED BY <1>4 DEF X!Incomplete, X!Error

\* Every dialect's reader takes a reply only from a stream that completed, exited 0 and named no tool.
LEMMA ReplyIsClean ==
  ASSUME X!TransportAssumption, NEW stream \in Streams, X!Read(stream).kind = "reply"
  PROVE  X!Clean(stream)
<1> DEFINE reader == CASE dialect = "claude" -> X!ClaudeReader(stream) [] dialect = "codex" -> X!CodexReader(stream)
                        [] dialect = "gemini" -> X!GeminiReader(stream) [] OTHER -> X!AntigravityReader(stream)
<1>0. stream.events \in Seq(X!ToSet(stream.events)) BY DEF X!TransportAssumption
<1>1. \A code, retryable : X!Error(code, retryable).kind = "error" BY DEF X!Error
<1>2. reader.kind = "reply"
  <2> HIDE DEF reader
  <2>1. \/ X!Read(stream) \in {X!Error("LEFT", FALSE), X!Error("TIMEOUT", TRUE), X!Error("CANCELLED", FALSE)}
        \/ X!Read(stream) = (IF reader.kind = "reply" /\ dialect # "claude" /\ X!Has(stream, "long") THEN X!Error("OUTPUT_LIMIT", FALSE) ELSE reader)
    BY DEF X!Read, reader
  <2> QED BY <1>1, <2>1
<1>3. ASSUME X!ClaudeReader(stream).kind = "reply" PROVE X!Clean(stream)
  <2> DEFINE bad == X!FirstOf(stream, {"configured", "tool", "ceiling"})
  <2>1. bad = "none" /\ X!Has(stream, "result") /\ X!Complete(stream)
    BY <1>1, <1>3, Failed DEF X!ClaudeReader, X!ForbiddenToolUse
  <2>2. ~X!Has(stream, "tool") BY <1>0, <2>1, NoneOf
  <2> QED BY <2>1, <2>2 DEF X!Clean, X!Complete
<1>4. ASSUME X!CodexReader(stream).kind = "reply" PROVE X!Clean(stream)
  <2> DEFINE bad == X!FirstOf(stream, {"configured", "tool"})
  <2>1. bad = "none" /\ X!Has(stream, "result") /\ stream.exit = 0
    BY <1>1, <1>4, Failed DEF X!CodexReader, X!ForbiddenToolUse
  <2>2. ~X!Has(stream, "tool") BY <1>0, <2>1, NoneOf
  <2> QED BY <2>1, <2>2 DEF X!Clean
<1>5. ASSUME X!GeminiReader(stream).kind = "reply" PROVE X!Clean(stream)
  BY <1>1, <1>5, Failed DEF X!GeminiReader, X!ForbiddenToolUse, X!Clean, X!Complete
<1>6. ASSUME X!AntigravityReader(stream).kind = "reply" PROVE X!Clean(stream)
  <2> DEFINE bad == X!FirstOf(stream, {"tool", "ceiling"})
  <2>1. bad = "none" /\ X!Has(stream, "result") /\ X!Complete(stream)
    BY <1>1, <1>6, Failed DEF X!AntigravityReader, X!ForbiddenToolUse
  <2>2. ~X!Has(stream, "tool") BY <1>0, <2>1, NoneOf
  <2> QED BY <2>1, <2>2 DEF X!Clean, X!Complete
<1> QED BY <1>2, <1>3, <1>4, <1>5, <1>6

----------------------------------------------------------------------------
(* The sessions. *)

\* The kept sessions, place by place.
LEMMA InAllKept == \A s : s \in X!AllKept <=> \E k \in DOMAIN kept : \E i \in DOMAIN kept[k] : s = kept[k][i].session
BY DEF X!AllKept

LEMMA InAllKeptNext == \A s : s \in X!AllKept' <=> \E k \in DOMAIN kept' : \E i \in DOMAIN kept'[k] : s = kept'[k][i].session
BY DEF X!AllKept

\* A step that touches no session.
LEMMA Untouched ==
  ASSUME Stored, Owned, UNCHANGED <<dialect, kept, roots, sessions>>, X!Running' = X!Running,
         \A c \in X!Running : /\ call'[c].session = call[c].session /\ call'[c].resume = call[c].resume
                            /\ call'[c].turns = call[c].turns /\ call'[c].reported = call[c].reported
  PROVE  Stored' /\ Owned'
<1>1. {call[c].session : c \in X!Running}' = {call[c].session : c \in X!Running} OBVIOUS
<1>2. X!AllKept' = X!AllKept BY DEF X!AllKept
<1>3. Stored' BY DEF Stored, X!CumulativeUsage
<1>4. Owned' BY <1>1, <1>2 DEF Owned
<1> QED BY <1>3, <1>4

\* Nothing but what was kept, each under its key and once.
Within(rest) ==
  /\ \A k \in DOMAIN rest :
       /\ k \in DOMAIN kept /\ rest[k] \in Seq(Keeping)
       /\ \A i \in DOMAIN rest[k] : \E j \in DOMAIN kept[k] : rest[k][i] = kept[k][j]
  /\ \A k, l \in DOMAIN rest : \A i \in DOMAIN rest[k], j \in DOMAIN rest[l] :
       rest[k][i].session = rest[l][j].session => k = l /\ i = j

\* All but the first n of what was kept under a key is still kept.
CutFrom(rest, key, n) ==
  /\ Within(rest)
  /\ \A k \in DOMAIN kept : \A j \in DOMAIN kept[k] : (k # key \/ j > n) =>
       k \in DOMAIN rest /\ \E i \in DOMAIN rest[k] : rest[k][i] = kept[k][j]
  /\ \A k \in DOMAIN rest : \A i \in DOMAIN rest[k] : \A j \in DOMAIN kept[key] : j <= n =>
       rest[k][i].session # kept[key][j].session

\* Taking the oldest of a key leaves the rest in place.
LEMMA CutKept ==
  ASSUME Stored, Owned, NEW key \in DOMAIN kept, NEW n \in 0..Len(kept[key]), NEW rest,
         rest = X!Put(key, SubSeq(kept[key], n + 1, Len(kept[key])))
  PROVE  CutFrom(rest, key, n)
<1> DEFINE old == kept[key]
           cut == SubSeq(old, n + 1, Len(old))
<1>1. old \in Seq(Keeping) /\ Len(old) \in Nat /\ n \in Nat BY DEF Stored
<1>2. cut \in Seq(Keeping) /\ Len(cut) = Len(old) - n /\ \A i \in 1..Len(cut) : cut[i] = old[i + n]
  <2>1. Len(old) - n \in Nat /\ n + 1 \in Int BY <1>1
  <2>2. cut \in Seq(Keeping) BY <1>1 DEF cut
  <2>3. Len(cut) = Len(old) - n /\ \A i \in 1..Len(cut) : cut[i] = old[i + n] BY <1>1, <2>1
  <2> QED BY <2>2, <2>3
<1>3. /\ DOMAIN rest \subseteq DOMAIN kept
      /\ \A k \in DOMAIN kept : k # key => k \in DOMAIN rest
      /\ cut # <<>> => key \in DOMAIN rest
      /\ \A k \in DOMAIN rest : rest[k] = IF k = key THEN cut ELSE kept[k]
  BY DEF X!Put
<1> DEFINE Old(k, i) == IF k = key THEN i + n ELSE i
<1>4. \A k \in DOMAIN kept : kept[k] \in Seq(Keeping) /\ DOMAIN kept[k] = 1..Len(kept[k]) /\ Len(kept[k]) \in Nat BY DEF Stored
<1>5. DOMAIN cut = 1..Len(cut) /\ DOMAIN old = 1..Len(old) /\ Len(cut) \in Nat BY <1>1, <1>2
<1> HIDE DEF cut
<1>6. \A k \in DOMAIN rest : \A i \in DOMAIN rest[k] :
        Old(k, i) \in DOMAIN kept[k] /\ rest[k][i] = kept[k][Old(k, i)] /\ i \in Nat /\ (k = key => Old(k, i) > n)
  <2> SUFFICES ASSUME NEW k \in DOMAIN rest, NEW i \in DOMAIN rest[k]
               PROVE  Old(k, i) \in DOMAIN kept[k] /\ rest[k][i] = kept[k][Old(k, i)] /\ i \in Nat /\ (k = key => Old(k, i) > n)
    OBVIOUS
  <2>1. CASE k = key BY <1>1, <1>2, <1>3, <1>5, <2>1
  <2>2. CASE k # key BY <1>3, <1>4, <2>2
  <2> QED BY <2>1, <2>2
<1>7. \A k \in DOMAIN rest : k \in DOMAIN kept /\ rest[k] \in Seq(Keeping) BY <1>2, <1>3, <1>4
<1>8. \A k, l \in DOMAIN rest : \A i \in DOMAIN rest[k], j \in DOMAIN rest[l] :
        rest[k][i].session = rest[l][j].session => k = l /\ i = j
  <2> SUFFICES ASSUME NEW k \in DOMAIN rest, NEW l \in DOMAIN rest, NEW i \in DOMAIN rest[k], NEW j \in DOMAIN rest[l],
                      rest[k][i].session = rest[l][j].session
               PROVE  k = l /\ i = j
    OBVIOUS
  <2>1. k = l /\ Old(k, i) = Old(l, j)
    <3> HIDE DEF Old
    <3> QED BY <1>6, <1>7 DEF Owned
  <2> QED BY <1>1, <1>6, <2>1
<1>9. \A k \in DOMAIN kept : \A j \in DOMAIN kept[k] : (k # key \/ j > n) =>
        k \in DOMAIN rest /\ \E i \in DOMAIN rest[k] : rest[k][i] = kept[k][j]
  <2> SUFFICES ASSUME NEW k \in DOMAIN kept, NEW j \in DOMAIN kept[k], k # key \/ j > n
               PROVE  k \in DOMAIN rest /\ \E i \in DOMAIN rest[k] : rest[k][i] = kept[k][j]
    OBVIOUS
  <2>1. CASE k # key BY <1>3, <2>1
  <2>2. CASE k = key
    <3>1. j \in 1..Len(old) /\ j > n BY <1>5, <2>2
    <3>2. j - n \in 1..Len(cut) /\ cut[j - n] = old[j] BY <1>1, <1>2, <3>1
    <3>3. cut # <<>> BY <3>2
    <3> QED BY <1>3, <1>5, <2>2, <3>2, <3>3
  <2> QED BY <2>1, <2>2
<1>10. \A k \in DOMAIN rest : \A i \in DOMAIN rest[k] : \A j \in DOMAIN kept[key] : j <= n =>
         rest[k][i].session # kept[key][j].session
  <2> SUFFICES ASSUME NEW k \in DOMAIN rest, NEW i \in DOMAIN rest[k], NEW j \in DOMAIN kept[key], j <= n,
                      rest[k][i].session = kept[key][j].session
               PROVE  FALSE
    OBVIOUS
  <2>1. k = key /\ Old(k, i) = j
    <3> HIDE DEF Old
    <3> QED BY <1>6, <1>7 DEF Owned
  <2>2. j \in Nat BY <1>5
  <2> QED BY <1>1, <1>6, <2>1, <2>2
<1> QED
  <2> HIDE DEF Old
  <2>1. Within(rest) BY <1>6, <1>7, <1>8 DEF Within
  <2> QED BY <1>9, <1>10, <2>1 DEF CutFrom

\* #remove: the directories and sessions of what is no longer kept go with it.
LEMMA Narrowed ==
  ASSUME Stored, Owned, NEW rest, Within(rest), X!RemoveUnkept(rest), dialect' = dialect, X!Running' = X!Running,
         \A c \in X!Running : /\ call'[c].session = call[c].session /\ call'[c].resume = call[c].resume
                            /\ call'[c].turns = call[c].turns /\ call'[c].reported = call[c].reported
  PROVE  Stored' /\ Owned'
<1> DEFINE left == UNION {{rest[k][i].session : i \in DOMAIN rest[k]} : k \in DOMAIN rest}
           ids == X!AllKept \ left
<1>1. kept' = rest /\ roots' = roots \ ids /\ sessions' = X!Without(sessions, ids) BY DEF X!RemoveUnkept
<1>2. X!AllKept' = left BY <1>1 DEF X!AllKept
<1>3. left \subseteq X!AllKept BY DEF Within, X!AllKept
<1>4. \A s : s \in left <=> \E k \in DOMAIN rest : \E i \in DOMAIN rest[k] : s = rest[k][i].session OBVIOUS
<1> HIDE DEF left
<1>5. {call[c].session : c \in X!Running}' = {call[c].session : c \in X!Running} OBVIOUS
<1>6. roots' = {call[c].session : c \in X!Running} \union left BY <1>1, <1>3 DEF Owned
<1>7. DOMAIN sessions' = DOMAIN sessions \ ids /\ \A s \in DOMAIN sessions' : sessions'[s] = sessions[s]
  BY <1>1 DEF X!Without
<1>8. \A c \in X!Running : call[c].session \notin ids BY DEF Owned
<1>9. \A k \in DOMAIN rest : \A i \in DOMAIN rest[k] :
        /\ rest[k][i].session \in DOMAIN sessions'
        /\ sessions'[rest[k][i].session].turns = k
        /\ X!CumulativeUsage => sessions'[rest[k][i].session].tokens = rest[k][i].usage
  <2> SUFFICES ASSUME NEW k \in DOMAIN rest, NEW i \in DOMAIN rest[k]
               PROVE  /\ rest[k][i].session \in DOMAIN sessions'
                      /\ sessions'[rest[k][i].session].turns = k
                      /\ X!CumulativeUsage => sessions'[rest[k][i].session].tokens = rest[k][i].usage
    OBVIOUS
  <2>1. PICK j \in DOMAIN kept[k] : rest[k][i] = kept[k][j] BY DEF Within
  <2>2. k \in DOMAIN kept BY DEF Within
  <2>3. rest[k][i].session \in left BY <1>4
  <2> HIDE DEF ids
  <2>4. rest[k][i].session \notin ids BY <2>3 DEF ids
  <2>5. /\ kept[k][j].session \in DOMAIN sessions
        /\ sessions[kept[k][j].session].turns = k
        /\ X!CumulativeUsage => sessions[kept[k][j].session].tokens = kept[k][j].usage
    BY <2>2 DEF Stored
  <2> QED BY <1>7, <2>1, <2>4, <2>5
<1>10. Stored'
  <2> HIDE DEF ids
  <2>1. X!CumulativeUsage' = X!CumulativeUsage BY DEF X!CumulativeUsage
  <2>2. \A s \in DOMAIN sessions' : sessions'[s] \in Conversation BY <1>7 DEF Stored
  <2>3. \A k \in DOMAIN kept' : kept'[k] \in Seq(Keeping) BY <1>1 DEF Within
  <2>4. \A c \in X!Running' : call'[c].resume =>
          /\ call'[c].session \in DOMAIN sessions'
          /\ sessions'[call'[c].session].turns = call'[c].turns
          /\ X!CumulativeUsage => sessions'[call'[c].session].tokens = call'[c].reported
    BY <1>7, <1>8 DEF Stored
  <2> QED BY <1>1, <1>9, <2>1, <2>2, <2>3, <2>4 DEF Stored
<1>11. Owned'
  <2>1. IsFiniteSet(roots') /\ roots' \subseteq Nat BY <1>1, FS_Subset DEF Owned
  <2>2. DOMAIN sessions' \subseteq roots' BY <1>1, <1>7 DEF Owned
  <2>3. \A c, d \in X!Running' : call'[c].session = call'[d].session => c = d BY DEF Owned
  <2>4. \A c \in X!Running' : call'[c].session \notin X!AllKept' BY <1>2, <1>3 DEF Owned
  <2>5. \A k, l \in DOMAIN kept' : \A i \in DOMAIN kept'[k], j \in DOMAIN kept'[l] :
          kept'[k][i].session = kept'[l][j].session => k = l /\ i = j BY <1>1 DEF Within
  <2> QED BY <1>2, <1>5, <1>6, <2>1, <2>2, <2>3, <2>4, <2>5 DEF Owned
<1> QED BY <1>10, <1>11

\* A call whose process has ended gives up its directory and its session.
LEMMA Released ==
  ASSUME CallsSound, Stored, Owned, NEW c \in X!Running, NEW x, OneCall(c, x), x.pc # "run", X!Removed(c), UNCHANGED <<dialect, kept>>
  PROVE  Stored' /\ Owned'
<1> DEFINE s == call[c].session
<1>1. c \in Loops /\ call[c].pc = "run" /\ s \in Nat BY DEF X!Running, CallsSound, CallSound
<1>2. X!Running' = X!Running \ {c} BY <1>1 DEF X!Running, OneCall
<1>3. \A d \in X!Running' : d \in X!Running /\ call'[d] = call[d] /\ call[d].session # s
  BY <1>2 DEF OneCall, Owned, X!Running
<1>4. roots' = roots \ {s} /\ sessions' = X!Without(sessions, {s}) BY DEF X!Removed
<1>5. DOMAIN sessions' = DOMAIN sessions \ {s} /\ \A t \in DOMAIN sessions' : sessions'[t] = sessions[t]
  BY <1>4 DEF X!Without
<1>6. X!AllKept' = X!AllKept /\ s \notin X!AllKept BY DEF X!AllKept, Owned
<1>7. {call[d].session : d \in X!Running}' = {call[d].session : d \in X!Running} \ {s} BY <1>2, <1>3
<1>8. Stored'
  <2>1. X!CumulativeUsage' = X!CumulativeUsage BY DEF X!CumulativeUsage
  <2>2. \A k \in DOMAIN kept : \A i \in DOMAIN kept[k] : kept[k][i].session # s BY <1>6, InAllKept
  <2>3. \A t \in DOMAIN sessions' : sessions'[t] \in Conversation BY <1>5 DEF Stored
  <2>4. \A k \in DOMAIN kept : \A i \in DOMAIN kept[k] :
          /\ kept[k][i].session \in DOMAIN sessions'
          /\ sessions'[kept[k][i].session].turns = k
          /\ X!CumulativeUsage => sessions'[kept[k][i].session].tokens = kept[k][i].usage
    BY <1>5, <2>2 DEF Stored
  <2>5. \A d \in X!Running' : call'[d].resume =>
          /\ call'[d].session \in DOMAIN sessions'
          /\ sessions'[call'[d].session].turns = call'[d].turns
          /\ X!CumulativeUsage => sessions'[call'[d].session].tokens = call'[d].reported
    BY <1>3, <1>5 DEF Stored
  <2> QED BY <2>1, <2>3, <2>4, <2>5 DEF Stored
<1>9. Owned'
  <2>1. IsFiniteSet(roots') /\ roots' \subseteq Nat BY <1>4, FS_Subset DEF Owned
  <2>2. roots' = {call[d].session : d \in X!Running}' \union X!AllKept' BY <1>4, <1>6, <1>7 DEF Owned
  <2>3. DOMAIN sessions' \subseteq roots' BY <1>4, <1>5 DEF Owned
  <2>4. \A d, e \in X!Running' : call'[d].session = call'[e].session => d = e BY <1>3 DEF Owned
  <2>5. \A d \in X!Running' : call'[d].session \notin X!AllKept' BY <1>3, <1>6 DEF Owned
  <2> QED BY <2>1, <2>2, <2>3, <2>4, <2>5 DEF Owned
<1> QED BY <1>8, <1>9

\* #take: the oldest session kept for the conversation becomes the call's own.
LEMMA Taken ==
  ASSUME CallsSound, Stored, Owned, NEW c \in Loops, X!Continue(c)
  PROVE  Stored' /\ Owned' /\ CallsSound'
<1> DEFINE key == X!KeyOf(call[c].turns)
           first == kept[key][1]
<1>1. key \in DOMAIN kept /\ kept[key] # <<>> /\ X!KeptOf(key) = kept[key] /\ key = call[c].turns
  BY DEF X!Continue, X!KeptOf, X!KeyOf
<1>2. kept[key] \in Seq(Keeping) /\ 1 \in DOMAIN kept[key] /\ first \in Keeping BY <1>1 DEF Stored
<1>3. kept' = X!Put(key, Tail(kept[key])) /\ X!Started(c, first.session, TRUE, first.usage) BY <1>1 DEF X!Continue
<1>40. kept' = X!Put(key, SubSeq(kept[key], 1 + 1, Len(kept[key])))
  <2> DEFINE old == kept[key]
             cut == SubSeq(old, 1 + 1, Len(old))
  <2>1. old \in Seq(Keeping) /\ old # <<>> /\ Len(old) \in Nat /\ Len(old) >= 1 BY <1>1, <1>2
  <2>2. Tail(old) \in Seq(Keeping) /\ Len(Tail(old)) = Len(old) - 1 /\ \A i \in 1..Len(Tail(old)) : Tail(old)[i] = old[i + 1]
    BY <2>1
  <2>3. cut \in Seq(Keeping) /\ Len(cut) = Len(old) - 1 /\ \A i \in 1..Len(cut) : cut[i] = old[i + 1] BY <2>1
  <2>4. Tail(old) = cut
    <3> HIDE DEF cut, old
    <3>1. Len(Tail(old)) = Len(cut) /\ \A i \in 1..Len(cut) : Tail(old)[i] = cut[i] BY <2>2, <2>3
    <3> QED BY <2>2, <2>3, <3>1, SeqEqual
  <2> QED BY <1>3, <2>4
<1>5. 1 \in 0..Len(kept[key]) BY <1>2
<1>6. UNCHANGED <<dialect, file, resolved, probing, roots, sessions>> BY DEF X!Continue
<1> HIDE DEF key
<1>7. /\ Within(kept')
      /\ \A k \in DOMAIN kept : \A j \in DOMAIN kept[k] : (k # key \/ j > 1) =>
           k \in DOMAIN kept' /\ \E i \in DOMAIN kept'[k] : kept'[k][i] = kept[k][j]
      /\ \A k \in DOMAIN kept' : \A i \in DOMAIN kept'[k] : \A j \in DOMAIN kept[key] : j <= 1 =>
           kept'[k][i].session # kept[key][j].session
  <2> DEFINE rest == kept'
  <2>1. rest = X!Put(key, SubSeq(kept[key], 1 + 1, Len(kept[key]))) BY <1>40
  <2> HIDE DEF rest
  <2>2. CutFrom(rest, key, 1) BY <1>1, <1>5, <2>1, CutKept
  <2> QED BY <2>2 DEF rest, CutFrom
<1> DEFINE x == State("run", call[c].turns, call[c].stamp, call[c].version, call[c].seen, first.session, TRUE, first.usage,
                      call[c].left, call[c].told)
<1>8. OneCall(c, x) BY <1>3, StartedIs
<1>9. call[c].pc = "ready" /\ CallSound(call[c], file) BY DEF X!Continue, CallsSound
<1>10. x.pc = "run" /\ x.session = first.session /\ x.resume = TRUE /\ x.reported = first.usage /\ x.turns = call[c].turns
  BY DEF State
<1>11. CallSound(x, file)
  <2>1. x \in CallState BY <1>2, <1>9 DEF State, CallState, CallSound, Keeping
  <2> QED BY <1>2, <1>9, <2>1 DEF State, CallSound, Keeping
<1> HIDE DEF x
<1>12. CallsSound' BY <1>6, <1>8, <1>11, OneCallSound
<1>13. X!Running' = X!Running \union {c} /\ c \notin X!Running BY <1>8, <1>9, <1>10 DEF OneCall, X!Running
<1>14. \A d \in X!Running : d # c /\ call'[d] = call[d] BY <1>8, <1>13 DEF OneCall, X!Running
<1>15. call'[c] = x BY <1>8 DEF OneCall
<1>16. X!AllKept' \union {first.session} = X!AllKept /\ first.session \notin X!AllKept'
  <2>1. \A s \in X!AllKept' : s \in X!AllKept BY <1>7, InAllKept, InAllKeptNext DEF Within
  <2>2. first.session \in X!AllKept BY <1>1, <1>2, InAllKept
  <2>3. first.session \notin X!AllKept' BY <1>2, <1>7, InAllKeptNext
  <2>4. ASSUME NEW s \in X!AllKept, s # first.session PROVE s \in X!AllKept'
    <3>1. PICK k \in DOMAIN kept : \E j \in DOMAIN kept[k] : s = kept[k][j].session BY InAllKept
    <3>2. PICK j \in DOMAIN kept[k] : s = kept[k][j].session BY <3>1
    <3>3. kept[k] \in Seq(Keeping) BY DEF Stored
    <3>4. k # key \/ j > 1 BY <1>2, <2>4, <3>2, <3>3
    <3> QED BY <1>7, <3>2, <3>4, InAllKeptNext
  <2> QED BY <2>1, <2>2, <2>3, <2>4
<1>17. {call[d].session : d \in X!Running}' = {call[d].session : d \in X!Running} \union {first.session}
  BY <1>10, <1>13, <1>14, <1>15
<1>18. first.session \in DOMAIN sessions /\ sessions[first.session].turns = key
       /\ (X!CumulativeUsage => sessions[first.session].tokens = first.usage)
  BY <1>1, <1>2 DEF Stored
<1>19. Stored'
  <2>1. X!CumulativeUsage' = X!CumulativeUsage BY <1>6 DEF X!CumulativeUsage
  <2>2. \A s \in DOMAIN sessions' : sessions'[s] \in Conversation BY <1>6 DEF Stored
  <2>3. \A k \in DOMAIN kept' : kept'[k] \in Seq(Keeping) BY <1>7 DEF Within
  <2>4. \A k \in DOMAIN kept' : \A i \in DOMAIN kept'[k] :
          /\ kept'[k][i].session \in DOMAIN sessions
          /\ sessions[kept'[k][i].session].turns = k
          /\ X!CumulativeUsage => sessions[kept'[k][i].session].tokens = kept'[k][i].usage
    BY <1>7 DEF Stored, Within
  <2>5. \A d \in X!Running' : call'[d].resume =>
          /\ call'[d].session \in DOMAIN sessions
          /\ sessions[call'[d].session].turns = call'[d].turns
          /\ X!CumulativeUsage => sessions[call'[d].session].tokens = call'[d].reported
    BY <1>1, <1>10, <1>13, <1>14, <1>15, <1>18 DEF Stored
  <2> QED BY <1>6, <2>1, <2>2, <2>3, <2>4, <2>5 DEF Stored
<1>20. Owned'
  <2>1. roots' = {call[d].session : d \in X!Running}' \union X!AllKept' BY <1>6, <1>16, <1>17 DEF Owned
  <2>2. \A d \in X!Running : call[d].session # first.session BY <1>16 DEF Owned
  <2>3. \A d, e \in X!Running' : call'[d].session = call'[e].session => d = e
    BY <1>10, <1>13, <1>14, <1>15, <2>2 DEF Owned
  <2>4. \A d \in X!Running' : call'[d].session \notin X!AllKept' BY <1>10, <1>13, <1>14, <1>15, <1>16 DEF Owned
  <2> QED BY <1>6, <1>7, <2>1, <2>3, <2>4 DEF Owned, Within
<1> QED BY <1>12, <1>19, <1>20

\* The directory of a call sent whole is not yet in use.
LEMMA FreshIs ==
  ASSUME IsFiniteSet(roots)
  PROVE  X!Fresh \in Nat /\ X!Fresh \notin roots
<1> DEFINE many == 1..(Cardinality(roots) + 1)
<1>1. Cardinality(roots) \in Nat BY FS_CardinalityType
<1>2. Cardinality(many) = Cardinality(roots) + 1
  <2>1. \A n \in Nat \ {0} : Cardinality(1..n) = n BY FS_Interval
  <2> QED BY <1>1, <2>1
<1>3. ~(many \subseteq roots)
  <2> SUFFICES ASSUME many \subseteq roots PROVE FALSE OBVIOUS
  <2>1. Cardinality(many) <= Cardinality(roots) BY FS_Subset
  <2> QED BY <1>1, <1>2, <2>1
<1>4. \E n \in many : n \notin roots BY <1>3
<1>5. X!Cardinality(roots) = Cardinality(roots) BY DEF X!Cardinality, Cardinality
<1> QED BY <1>1, <1>4, <1>5 DEF X!Fresh

\* A call sent whole is the only user of a new directory.
LEMMA Opened ==
  ASSUME CallsSound, Stored, Owned, NEW c \in Loops, X!Whole(c)
  PROVE  Stored' /\ Owned' /\ CallsSound'
<1> DEFINE id == X!Fresh
           x == State("run", call[c].turns, call[c].stamp, call[c].version, call[c].seen, id, FALSE, 0,
                      call[c].left, call[c].told)
<1>1. id \in Nat /\ id \notin roots BY FreshIs DEF Owned
<1>2. roots' = roots \union {id} /\ UNCHANGED <<dialect, file, resolved, probing, kept, sessions>> BY DEF X!Whole
<1>3. X!Started(c, id, FALSE, 0) /\ call[c].pc \in {"again", "ready"} BY DEF X!Whole
<1> HIDE DEF id
<1>4. OneCall(c, x) BY <1>3, StartedIs
<1>5. CallSound(call[c], file) BY DEF CallsSound
<1>6. x.pc = "run" /\ x.session = id /\ x.resume = FALSE BY DEF State
<1>7. CallSound(x, file)
  <2>1. x \in CallState BY <1>1, <1>5 DEF State, CallState, CallSound
  <2> QED BY <1>1, <1>3, <1>5, <2>1 DEF State, CallSound
<1> HIDE DEF x
<1>8. CallsSound' BY <1>2, <1>4, <1>7, OneCallSound
<1>9. X!Running' = X!Running \union {c} /\ c \notin X!Running BY <1>3, <1>4, <1>6 DEF OneCall, X!Running
<1>10. \A d \in X!Running : d # c /\ call'[d] = call[d] BY <1>4, <1>9 DEF OneCall, X!Running
<1>11. call'[c] = x BY <1>4 DEF OneCall
<1>12. X!AllKept' = X!AllKept BY <1>2 DEF X!AllKept
<1>13. {call[d].session : d \in X!Running}' = {call[d].session : d \in X!Running} \union {id}
  BY <1>6, <1>9, <1>10, <1>11
<1>14. Stored'
  <2>1. X!CumulativeUsage' = X!CumulativeUsage BY <1>2 DEF X!CumulativeUsage
  <2> QED BY <1>2, <1>6, <1>9, <1>10, <1>11, <2>1 DEF Stored
<1>15. Owned'
  <2>1. IsFiniteSet(roots') /\ roots' \subseteq Nat BY <1>1, <1>2, FS_AddElement DEF Owned
  <2>2. roots' = {call[d].session : d \in X!Running}' \union X!AllKept' BY <1>2, <1>12, <1>13 DEF Owned
  <2>3. \A d \in X!Running : call[d].session \in roots BY DEF Owned
  <2>4. \A d, e \in X!Running' : call'[d].session = call'[e].session => d = e
    BY <1>1, <1>6, <1>9, <1>10, <1>11, <2>3 DEF Owned
  <2>5. \A d \in X!Running' : call'[d].session \notin X!AllKept' BY <1>1, <1>6, <1>9, <1>10, <1>11, <1>12 DEF Owned
  <2> QED BY <1>2, <2>1, <2>2, <2>4, <2>5 DEF Owned
<1> QED BY <1>8, <1>14, <1>15

\* What a reply says of the turn: its own tokens, of the conversation sent.
LEMMA ReplyTold ==
  ASSUME CallsSound, Stored, X!TransportAssumption, NEW c \in X!Running, NEW stream \in Streams, X!Read(stream).kind = "reply",
         NEW own, own = Len(call[c].turns) + 1,
         NEW usage, usage = IF X!CumulativeUsage THEN X!Before(c).tokens + own ELSE own
  PROVE  /\ X!Before(c).turns = call[c].turns /\ X!Before(c).tokens \in Nat /\ own \in Nat /\ usage \in Nat
         /\ X!Told(c, stream, own, usage) = [own |-> own, charged |-> own, clean |-> TRUE, read |-> TRUE]
<1>1. c \in Loops /\ call[c] \in CallState BY DEF X!Running, CallsSound, CallSound
<1>2. call[c].turns \in Seq(Requests) /\ own \in Nat /\ own >= 1 /\ call[c].reported \in Nat BY <1>1 DEF CallState
<1>3. /\ X!Before(c).turns = call[c].turns /\ X!Before(c).tokens \in Nat
      /\ call[c].resume /\ X!CumulativeUsage => X!Before(c).tokens = call[c].reported
      /\ ~call[c].resume => X!Before(c).tokens = 0
  <2>1. CASE call[c].resume
    <3>1. call[c].session \in DOMAIN sessions /\ sessions[call[c].session].turns = call[c].turns
          /\ (X!CumulativeUsage => sessions[call[c].session].tokens = call[c].reported) BY <2>1 DEF Stored
    <3>2. sessions[call[c].session].tokens \in Nat BY <3>1 DEF Stored, Conversation
    <3>3. X!Before(c) = sessions[call[c].session] BY <2>1 DEF X!Before
    <3> QED BY <2>1, <3>1, <3>2, <3>3
  <2>2. CASE ~call[c].resume BY <2>2 DEF X!Before
  <2> QED BY <2>1, <2>2
<1>4. usage \in Nat BY <1>2, <1>3
<1>5. X!TurnUsage(c, usage) = own
  <2>1. CASE call[c].resume /\ X!CumulativeUsage BY <1>2, <1>3, <2>1 DEF X!TurnUsage
  <2>2. CASE ~call[c].resume /\ X!CumulativeUsage BY <1>2, <1>3, <2>2 DEF X!TurnUsage
  <2>3. CASE ~X!CumulativeUsage BY <2>3 DEF X!TurnUsage
  <2> QED BY <2>1, <2>2, <2>3
<1>6. X!Clean(stream) = TRUE
  <2>1. X!Clean(stream) \in BOOLEAN BY DEF X!Clean, X!Has
  <2> QED BY <2>1, ReplyIsClean
<1>7. (X!Before(c).turns = call[c].turns) = TRUE BY <1>3
<1> QED BY <1>2, <1>3, <1>4, <1>5, <1>6, <1>7 DEF X!Told

\* A call that was told of a turn is idle again.
LEMMA ReturnedSound ==
  ASSUME CallsSound, NEW c \in Loops, NEW place \in {"idle", "ended"}, NEW turns \in Seq(Requests), NEW own \in Nat,
         X!Returned(c, place, turns, [own |-> own, charged |-> own, clean |-> TRUE, read |-> TRUE]), file' = file
  PROVE  /\ CallsSound'
         /\ OneCall(c, State(place, turns, 0, 0, {}, Null, FALSE, 0, FALSE,
                            [own |-> own, charged |-> own, clean |-> TRUE, read |-> TRUE]))
<1> DEFINE notice == [own |-> own, charged |-> own, clean |-> TRUE, read |-> TRUE]
           x == State(place, turns, 0, 0, {}, Null, FALSE, 0, FALSE, notice)
<1>1. notice \in Notice /\ notice.charged = notice.own /\ notice.read /\ notice.clean BY DEF Notice
<1> HIDE DEF notice
<1>2. OneCall(c, x) BY ReturnedIs DEF notice
<1>3. x \in CallState BY <1>1 DEF State, CallState
<1>4. x.pc = place /\ x.told = notice BY DEF State
<1>5. CallSound(x, file)
  <2> HIDE DEF x
  <2> QED BY <1>1, <1>3, <1>4 DEF CallSound
<1>6. CallsSound'
  <2> HIDE DEF x
  <2> QED BY <1>2, <1>5, OneCallSound
<1> QED BY <1>2, <1>6 DEF notice

\* The session that asked for tools is kept for the turn that answers them.
LEMMA KeptReply ==
  ASSUME CallsSound, Stored, Owned, NEW c \in X!Running, NEW x, OneCall(c, x), x.pc = "idle",
         NEW request \in Requests, NEW own \in Nat, NEW usage \in Nat,
         X!Before(c).turns = call[c].turns, X!Before(c).tokens \in Nat,
         usage = IF X!CumulativeUsage THEN X!Before(c).tokens + own ELSE own,
         UNCHANGED <<dialect, roots>>,
         sessions' = [s \in DOMAIN sessions \union {call[c].session} |->
                        IF s # call[c].session THEN sessions[s]
                        ELSE [turns |-> Append(X!Before(c).turns, request), tokens |-> X!Before(c).tokens + own]],
         NEW key, key = Append(call[c].turns, request),
         kept' = X!Put(key, Append(X!KeptOf(key), [session |-> call[c].session, usage |-> usage]))
  PROVE  Stored' /\ Owned'
<1> DEFINE s == call[c].session
           here == [session |-> s, usage |-> usage]
           old == X!KeptOf(key)
           new == Append(old, here)
<1>1. c \in Loops /\ call[c].pc = "run" /\ s \in Nat /\ call[c] \in CallState BY DEF X!Running, CallsSound, CallSound
<1>2. here \in Keeping /\ here.session = s /\ here.usage = usage BY <1>1 DEF Keeping
<1>3. old \in Seq(Keeping) /\ Len(old) \in Nat BY DEF Stored, X!KeptOf
<1>4. X!Running' = X!Running \ {c} BY <1>1 DEF X!Running, OneCall
<1>5. \A d \in X!Running' : d \in X!Running /\ call'[d] = call[d] /\ call[d].session # s
  BY <1>4 DEF OneCall, Owned, X!Running
<1> HIDE DEF here, old
<1>6. /\ new \in Seq(Keeping) /\ new # <<>> /\ DOMAIN new = 1..(Len(old) + 1)
      /\ new[Len(old) + 1] = here /\ \A i \in 1..Len(old) : new[i] = old[i]
  BY <1>2, <1>3, AppendProperties
<1>7. kept' = [k \in DOMAIN kept \union {key} |-> IF k = key THEN new ELSE kept[k]]
  <2>1. kept' = X!Put(key, new) BY DEF here, old
  <2> HIDE DEF new
  <2> QED BY <1>6, <2>1 DEF X!Put
<1> HIDE DEF new
<1>8. DOMAIN kept' = DOMAIN kept \union {key} /\ kept'[key] = new /\ \A k \in DOMAIN kept : k # key => kept'[k] = kept[k]
  BY <1>7
<1>9. DOMAIN old = 1..Len(old) /\ (old # <<>> => key \in DOMAIN kept /\ old = kept[key]) BY <1>3 DEF old, X!KeptOf
<1>10. key \in DOMAIN kept => old = kept[key] BY DEF old, X!KeptOf
\* What is kept now was kept before, or is the call's own.
<1>11. \A k \in DOMAIN kept' : \A i \in DOMAIN kept'[k] :
         \/ k \in DOMAIN kept /\ i \in DOMAIN kept[k] /\ kept'[k][i] = kept[k][i]
         \/ k = key /\ i = Len(old) + 1 /\ kept'[k][i] = here
  <2> SUFFICES ASSUME NEW k \in DOMAIN kept', NEW i \in DOMAIN kept'[k]
               PROVE  \/ k \in DOMAIN kept /\ i \in DOMAIN kept[k] /\ kept'[k][i] = kept[k][i]
                      \/ k = key /\ i = Len(old) + 1 /\ kept'[k][i] = here
    OBVIOUS
  <2>1. CASE k # key BY <1>8, <2>1
  <2>2. CASE k = key
    <3>1. i \in 1..(Len(old) + 1) BY <1>6, <1>8, <2>2
    <3>2. CASE i = Len(old) + 1 BY <1>6, <1>8, <2>2, <3>2
    <3>3. CASE i # Len(old) + 1
      <4>1. i \in 1..Len(old) BY <1>3, <3>1, <3>3
      <4>2. old # <<>> BY <1>9, <4>1
      <4> QED BY <1>6, <1>8, <1>9, <2>2, <4>1, <4>2
    <3> QED BY <3>2, <3>3
  <2> QED BY <2>1, <2>2
<1>12. \A k \in DOMAIN kept : \A i \in DOMAIN kept[k] :
         k \in DOMAIN kept' /\ i \in DOMAIN kept'[k] /\ kept'[k][i] = kept[k][i]
  <2> SUFFICES ASSUME NEW k \in DOMAIN kept, NEW i \in DOMAIN kept[k]
               PROVE  k \in DOMAIN kept' /\ i \in DOMAIN kept'[k] /\ kept'[k][i] = kept[k][i]
    OBVIOUS
  <2>1. CASE k # key BY <1>8, <2>1
  <2>2. CASE k = key
    <3>1. old = kept[k] /\ i \in 1..Len(old) BY <1>9, <1>10, <2>2
    <3>2. i \in 1..(Len(old) + 1) BY <1>3, <3>1
    <3> QED BY <1>6, <1>8, <2>2, <3>1, <3>2
  <2> QED BY <2>1, <2>2
<1>13. key \in DOMAIN kept' /\ Len(old) + 1 \in DOMAIN kept'[key] /\ kept'[key][Len(old) + 1] = here
  <2>1. Len(old) + 1 \in 1..(Len(old) + 1) BY <1>3
  <2> QED BY <1>6, <1>8, <2>1, Zenon
<1>14. X!AllKept' = X!AllKept \union {s} /\ s \notin X!AllKept
  <2>1. s \notin X!AllKept BY DEF Owned
  <2>2. \A t \in X!AllKept' : t \in X!AllKept \union {s} BY <1>2, <1>11, InAllKept, InAllKeptNext
  <2>3. \A t \in X!AllKept : t \in X!AllKept' BY <1>12, InAllKept, InAllKeptNext
  <2>4. s \in X!AllKept' BY <1>2, <1>13, InAllKeptNext
  <2> QED BY <2>1, <2>2, <2>3, <2>4
<1>15. /\ DOMAIN sessions' = DOMAIN sessions \union {s} /\ sessions'[s].turns = key /\ sessions'[s].tokens = X!Before(c).tokens + own
       /\ \A t \in DOMAIN sessions : t # s => sessions'[t] = sessions[t]
       /\ sessions'[s] \in Conversation
  <2>1. key \in Seq(Requests) BY <1>1, AppendProperties DEF CallState
  <2> QED BY <1>1, <2>1 DEF Conversation
<1>16. {call[d].session : d \in X!Running}' \union {s} = {call[d].session : d \in X!Running} BY <1>4, <1>5
<1>17. Stored'
  <2>1. X!CumulativeUsage' => X!CumulativeUsage BY DEF X!CumulativeUsage
  <2>2. \A t \in DOMAIN sessions' : sessions'[t] \in Conversation BY <1>15 DEF Stored
  <2>3. \A k \in DOMAIN kept' : kept'[k] \in Seq(Keeping) BY <1>6, <1>8 DEF Stored
  <2>4. \A k \in DOMAIN kept' : \A i \in DOMAIN kept'[k] :
          /\ kept'[k][i].session \in DOMAIN sessions'
          /\ sessions'[kept'[k][i].session].turns = k
          /\ X!CumulativeUsage' => sessions'[kept'[k][i].session].tokens = kept'[k][i].usage
    <3> SUFFICES ASSUME NEW k \in DOMAIN kept', NEW i \in DOMAIN kept'[k]
                 PROVE  /\ kept'[k][i].session \in DOMAIN sessions'
                        /\ sessions'[kept'[k][i].session].turns = k
                        /\ X!CumulativeUsage' => sessions'[kept'[k][i].session].tokens = kept'[k][i].usage
      OBVIOUS
    <3>1. CASE k \in DOMAIN kept /\ i \in DOMAIN kept[k] /\ kept'[k][i] = kept[k][i]
      <4>1. kept[k][i].session # s BY <1>14, <3>1, InAllKept
      <4> QED BY <1>15, <2>1, <3>1, <4>1 DEF Stored
    <3>2. CASE k = key /\ kept'[k][i] = here BY <1>2, <1>15, <2>1, <3>2
    <3> QED BY <1>11, <3>1, <3>2
  <2>5. \A d \in X!Running' : call'[d].resume =>
          /\ call'[d].session \in DOMAIN sessions'
          /\ sessions'[call'[d].session].turns = call'[d].turns
          /\ X!CumulativeUsage' => sessions'[call'[d].session].tokens = call'[d].reported
    <3> SUFFICES ASSUME NEW d \in X!Running', call'[d].resume
                 PROVE  /\ call'[d].session \in DOMAIN sessions'
                        /\ sessions'[call'[d].session].turns = call'[d].turns
                        /\ X!CumulativeUsage' => sessions'[call'[d].session].tokens = call'[d].reported
      OBVIOUS
    <3>1. /\ call[d].session \in DOMAIN sessions
          /\ sessions[call[d].session].turns = call[d].turns
          /\ X!CumulativeUsage => sessions[call[d].session].tokens = call[d].reported
      BY <1>5 DEF Stored
    <3> QED BY <1>5, <1>15, <2>1, <3>1
  <2> QED BY <2>2, <2>3, <2>4, <2>5, Zenon DEF Stored
<1>18. Owned'
  <2>1. roots' = {call[d].session : d \in X!Running}' \union X!AllKept' BY <1>14, <1>16 DEF Owned
  <2>2. DOMAIN sessions' \subseteq roots' BY <1>1, <1>15 DEF Owned
  <2>3. \A d, e \in X!Running' : call'[d].session = call'[e].session => d = e BY <1>5 DEF Owned
  <2>4. \A d \in X!Running' : call'[d].session \notin X!AllKept' BY <1>5, <1>14 DEF Owned
  <2>5. \A k, l \in DOMAIN kept' : \A i \in DOMAIN kept'[k], j \in DOMAIN kept'[l] :
          kept'[k][i].session = kept'[l][j].session => k = l /\ i = j
    <3> SUFFICES ASSUME NEW k \in DOMAIN kept', NEW l \in DOMAIN kept', NEW i \in DOMAIN kept'[k], NEW j \in DOMAIN kept'[l],
                        kept'[k][i].session = kept'[l][j].session
                 PROVE  k = l /\ i = j
      OBVIOUS
    <3>1. \A m \in DOMAIN kept : \A n \in DOMAIN kept[m] : kept[m][n].session # s BY <1>14, InAllKept
    <3>2. CASE k \in DOMAIN kept /\ i \in DOMAIN kept[k] /\ kept'[k][i] = kept[k][i]
               /\ l \in DOMAIN kept /\ j \in DOMAIN kept[l] /\ kept'[l][j] = kept[l][j]
      BY <3>2 DEF Owned
    <3> DEFINE Old(m, n) == m \in DOMAIN kept /\ n \in DOMAIN kept[m] /\ kept'[m][n] = kept[m][n]
               Own(m, n) == m = key /\ n = Len(old) + 1 /\ kept'[m][n] = here
    <3>3. (Old(k, i) \/ Own(k, i)) /\ (Old(l, j) \/ Own(l, j)) BY <1>11
    <3>4. \A m, n : Old(m, n) => kept'[m][n].session # s BY <3>1
    <3>5. \A m, n : Own(m, n) => kept'[m][n].session = s BY <1>2
    <3>6. CASE Own(k, i) /\ Own(l, j) BY <3>6
    <3> HIDE DEF Old, Own
    <3>7. (Old(k, i) /\ Old(l, j)) \/ (Own(k, i) /\ Own(l, j)) BY <3>3, <3>4, <3>5
    <3> QED BY <3>2, <3>6, <3>7 DEF Old
  <2> QED BY <2>1, <2>2, <2>3, <2>4, <2>5 DEF Owned
<1> QED BY <1>17, <1>18

----------------------------------------------------------------------------
(* The steps. *)

LEMMA InitCInv == X!Init => CInv
<1> SUFFICES ASSUME X!Init PROVE CInv OBVIOUS
<1>1. CallsSound
  <2>1. X!Idle \in CallState BY IdleIs DEF State, CallState
  <2>2. CallSound(X!Idle, file) BY <2>1, IdleIs DEF X!Init, CallSound, State
  <2> QED BY <2>2 DEF X!Init, CallsSound
<1>2. Resolved BY DEF X!Init, Resolved
<1>3. X!Running = {}
  <2>1. \A c \in Loops : call[c].pc = "idle" BY IdleIs DEF X!Init, State
  <2> QED BY <2>1 DEF X!Running
<1>4. DOMAIN kept = {} /\ DOMAIN sessions = {} /\ roots = {} BY DEF X!Init
<1>5. X!AllKept = {} BY <1>4 DEF X!AllKept
<1>6. Stored BY <1>3, <1>4 DEF Stored
<1>7. Owned BY <1>3, <1>4, <1>5, FS_EmptySet DEF Owned
<1> QED BY <1>1, <1>2, <1>6, <1>7 DEF CInv

\* A step of a call that runs no process, before it or after.
LEMMA NotRunning ==
  ASSUME CInv, NEW c \in Loops, NEW x, OneCall(c, x), call[c].pc # "run", x.pc # "run", UNCHANGED <<dialect, kept, roots, sessions>>
  PROVE  Stored' /\ Owned'
<1>1. X!Running' = X!Running BY DEF OneCall, X!Running
<1>2. \A d \in X!Running : call'[d] = call[d] BY DEF OneCall, X!Running
<1> QED BY <1>1, <1>2, Untouched DEF CInv

\* #resolve and the probe: the version used is one the file had since the call began.
LEMMA ResolveSound ==
  ASSUME CInv, NEW c \in Loops, X!Resolve(c)
  PROVE  CInv'
<1> DEFINE s == call[c]
<1>1. s \in CallState /\ CallSound(s, file) /\ s.pc = "resolve" /\ DOMAIN call = Loops
  BY DEF CInv, CallsSound, CallSound, X!Resolve
<1>2. s = State(s.pc, s.turns, s.stamp, s.version, s.seen, s.session, s.resume, s.reported, s.left, s.told) BY <1>1, StateIs
<1>3. UNCHANGED <<dialect, file, kept, roots, sessions>> BY DEF X!Resolve
<1>4. CASE resolved # Null /\ resolved.stamp = file
           /\ call' = [call EXCEPT ![c].pc = "sweep", ![c].version = resolved.version] /\ UNCHANGED <<resolved, probing>>
  <2> DEFINE x == State("sweep", s.turns, s.stamp, file, s.seen, s.session, s.resume, s.reported, s.left, s.told)
  <2>1. resolved.version = file BY <1>4 DEF CInv, Resolved, CallsSound
  <2>2. call'[c] = [[s EXCEPT !.pc = "sweep"] EXCEPT !.version = file] BY <1>1, <1>4, <2>1
  <2>3. call'[c] = x BY <1>2, <2>2 DEF State
  <2>4. OneCall(c, x) BY <1>1, <1>4, <2>3 DEF OneCall
  <2>5. x \in CallState BY <1>1 DEF State, CallState, CInv, CallsSound
  <2>6. CallSound(x, file) /\ x.pc = "sweep" BY <1>1, <2>5 DEF State, CallSound
  <2> HIDE DEF x
  <2>7. CallsSound' BY <1>3, <2>4, <2>6, OneCallSound DEF CInv
  <2>8. Stored' /\ Owned' BY <1>1, <1>3, <2>4, <2>6, NotRunning
  <2>9. Resolved' BY <1>3, <1>4 DEF CInv, Resolved
  <2> QED BY <2>7, <2>8, <2>9 DEF CInv
<1>5. CASE resolved' = Null /\ probing' = c /\ call' = [call EXCEPT ![c].pc = "probe", ![c].stamp = file]
  <2> DEFINE x == State("probe", s.turns, file, s.version, s.seen, s.session, s.resume, s.reported, s.left, s.told)
  <2>2. call'[c] = [[s EXCEPT !.pc = "probe"] EXCEPT !.stamp = file] BY <1>1, <1>5
  <2>3. call'[c] = x BY <1>2, <2>2 DEF State
  <2>4. OneCall(c, x) BY <1>1, <1>5, <2>3 DEF OneCall
  <2>5. x \in CallState BY <1>1 DEF State, CallState, CInv, CallsSound
  <2>6. CallSound(x, file) /\ x.pc = "probe" BY <1>1, <2>5 DEF State, CallSound, CInv, CallsSound
  <2> HIDE DEF x
  <2>7. CallsSound' BY <1>3, <2>4, <2>6, OneCallSound DEF CInv
  <2>8. Stored' /\ Owned' BY <1>1, <1>3, <2>4, <2>6, NotRunning
  <2>9. Resolved' BY <1>5 DEF Resolved
  <2> QED BY <2>7, <2>8, <2>9 DEF CInv
<1> QED BY <1>4, <1>5 DEF X!Resolve

LEMMA ProbeSound ==
  ASSUME CInv, NEW c \in Loops, X!Probe(c)
  PROVE  CInv'
<1> DEFINE s == call[c]
           x == State("sweep", s.turns, s.stamp, file, s.seen, s.session, s.resume, s.reported, s.left, s.told)
<1>1. s \in CallState /\ CallSound(s, file) /\ s.pc = "probe" /\ DOMAIN call = Loops /\ file \in Nat
  BY DEF CInv, CallsSound, CallSound, X!Probe
<1>2. s = State(s.pc, s.turns, s.stamp, s.version, s.seen, s.session, s.resume, s.reported, s.left, s.told) BY <1>1, StateIs
<1>3. UNCHANGED <<dialect, file, kept, roots, sessions>> BY DEF X!Probe
<1>4. call' = [call EXCEPT ![c].pc = "sweep", ![c].version = file] /\ resolved' = [version |-> file, stamp |-> s.stamp]
  BY DEF X!Probe
<1>5. call'[c] = [[s EXCEPT !.pc = "sweep"] EXCEPT !.version = file] BY <1>1, <1>4
<1>6. call'[c] = x BY <1>2, <1>5 DEF State
<1>7. OneCall(c, x) BY <1>1, <1>4, <1>6 DEF OneCall
<1>8. x \in CallState BY <1>1 DEF State, CallState
<1>9. CallSound(x, file) /\ x.pc = "sweep" BY <1>1, <1>8 DEF State, CallSound
<1> HIDE DEF x
<1>10. CallsSound' BY <1>3, <1>7, <1>9, OneCallSound DEF CInv
<1>11. Stored' /\ Owned' BY <1>1, <1>3, <1>7, <1>9, NotRunning
<1>12. s.stamp \in Nat /\ s.stamp <= file BY <1>1 DEF CallSound, CallState
<1>13. Resolved'
  <2>1. resolved'.version = file /\ resolved'.stamp = s.stamp BY <1>4
  <2> QED BY <1>1, <1>3, <1>12, <2>1 DEF Resolved
<1> QED BY <1>10, <1>11, <1>13 DEF CInv

LEMMA SendSound ==
  ASSUME CInv, NEW c \in Loops, X!Send(c)
  PROVE  CInv'
<1> DEFINE x == State("resolve", call[c].turns, 0, 0, {file}, Null, FALSE, 0, FALSE, Null)
<1>1. OneCall(c, x) BY SendIs
<1>2. UNCHANGED <<dialect, file, resolved, kept, roots, sessions>> /\ call[c].pc = "idle" BY DEF X!Send
<1>3. call[c].turns \in Seq(Requests) /\ file \in Nat BY DEF CInv, CallsSound, CallSound, CallState
<1>4. x \in CallState BY <1>3 DEF State, CallState
<1>5. CallSound(x, file) /\ x.pc = "resolve" BY <1>4 DEF State, CallSound
<1> HIDE DEF x
<1>6. CallsSound' BY <1>1, <1>2, <1>5, OneCallSound DEF CInv
<1>7. Stored' /\ Owned' BY <1>1, <1>2, <1>5, NotRunning
<1>8. Resolved' BY <1>2 DEF CInv, Resolved
<1> QED BY <1>6, <1>7, <1>8 DEF CInv

LEMMA UpgradeSound ==
  ASSUME CInv, X!Upgrade
  PROVE  CInv'
<1>1. file' = file + 1 /\ UNCHANGED <<dialect, resolved, kept, roots, sessions>> /\ file \in Nat
  BY DEF X!Upgrade, CInv, CallsSound
<1>2. call' = [c \in Loops |-> [call[c] EXCEPT !.seen = IF @ = {} THEN @ ELSE @ \union {file'}]] BY DEF X!Upgrade
<1>3. ASSUME NEW c \in Loops
      PROVE  /\ CallSound(call'[c], file') /\ call'[c].pc = call[c].pc /\ call'[c].session = call[c].session
             /\ call'[c].resume = call[c].resume /\ call'[c].turns = call[c].turns /\ call'[c].reported = call[c].reported
  <2> DEFINE s == call[c]
             more == IF s.seen = {} THEN s.seen ELSE s.seen \union {file'}
             x == State(s.pc, s.turns, s.stamp, s.version, more, s.session, s.resume, s.reported, s.left, s.told)
  <2>1. s \in CallState /\ CallSound(s, file) BY DEF CInv, CallsSound, CallSound
  <2>2. s = State(s.pc, s.turns, s.stamp, s.version, s.seen, s.session, s.resume, s.reported, s.left, s.told) BY <2>1, StateIs
  <2>3. call'[c] = [s EXCEPT !.seen = more] BY <1>2
  <2>4. more \in SUBSET Nat /\ s.seen \subseteq more /\ (s.seen # {} => file' \in more) BY <1>1, <2>1 DEF CallState
  <2> HIDE DEF more
  <2>5. call'[c] = x BY <2>2, <2>3 DEF State
  <2>6. x \in CallState BY <2>1, <2>4 DEF State, CallState
  <2>7. /\ x.pc = s.pc /\ x.session = s.session /\ x.resume = s.resume /\ x.turns = s.turns /\ x.reported = s.reported
        /\ x.seen = more /\ x.stamp = s.stamp /\ x.version = s.version /\ x.left = s.left /\ x.told = s.told
    BY DEF State
  <2> HIDE DEF x
  <2>8. s.stamp \in Nat BY <2>1 DEF CallState
  <2>9. CallSound(x, file') BY <1>1, <2>1, <2>4, <2>6, <2>7, <2>8 DEF CallSound
  <2> QED BY <2>5, <2>7, <2>9
<1>4. CallsSound' BY <1>1, <1>2, <1>3 DEF CallsSound
<1>5. X!Running' = X!Running BY <1>3 DEF X!Running
<1>6. \A c \in X!Running : c \in Loops BY DEF X!Running
<1>7. Stored' /\ Owned' BY <1>1, <1>3, <1>5, <1>6, Untouched DEF CInv
<1>8. Resolved' BY <1>1 DEF CInv, Resolved
<1> QED BY <1>4, <1>7, <1>8 DEF CInv

\* #sweep and close keep what a running call uses.
LEMMA SweepSound ==
  ASSUME CInv, X!TransportAssumption, NEW c \in Loops, X!Sweep(c)
  PROVE  CInv'
<1> DEFINE s == call[c]
           x == State("ready", s.turns, s.stamp, s.version, s.seen, s.session, s.resume, s.reported, s.left, s.told)
<1>1. s \in CallState /\ CallSound(s, file) /\ s.pc = "sweep" /\ DOMAIN call = Loops BY DEF CInv, CallsSound, CallSound, X!Sweep
<1>2. s = State(s.pc, s.turns, s.stamp, s.version, s.seen, s.session, s.resume, s.reported, s.left, s.told) BY <1>1, StateIs
<1>3. UNCHANGED <<dialect, file, resolved>> /\ call' = [call EXCEPT ![c].pc = "ready"] BY DEF X!Sweep
<1>4. call'[c] = [s EXCEPT !.pc = "ready"] BY <1>1, <1>3
<1>5. call'[c] = x BY <1>2, <1>4 DEF State
<1>6. OneCall(c, x) BY <1>1, <1>3, <1>5 DEF OneCall
<1>7. x \in CallState BY <1>1 DEF State, CallState
<1>8. CallSound(x, file) /\ x.pc = "ready" BY <1>1, <1>7 DEF State, CallSound
<1> HIDE DEF x
<1>9. CallsSound' BY <1>3, <1>6, <1>8, OneCallSound DEF CInv
<1>10. Resolved' BY <1>3 DEF CInv, Resolved
<1>11. CASE UNCHANGED <<kept, roots, sessions, trouble>>
  <2>1. Stored' /\ Owned' BY <1>1, <1>3, <1>6, <1>8, <1>11, NotRunning
  <2> QED BY <1>9, <1>10, <2>1 DEF CInv
<1>12. ASSUME NEW key \in DOMAIN kept, NEW n \in 1..Cardinality(Loops), n <= Len(kept[key]),
              X!RemoveUnkept(X!Put(key, SubSeq(kept[key], n + 1, Len(kept[key]))))
       PROVE  CInv'
  <2> DEFINE rest == X!Put(key, SubSeq(kept[key], n + 1, Len(kept[key])))
  <2>1. Cardinality(Loops) \in Nat BY FS_CardinalityType DEF X!TransportAssumption, X!IsFiniteSet, IsFiniteSet
  <2>2. Len(kept[key]) \in Nat BY DEF CInv, Stored
  <2>3. n \in 0..Len(kept[key]) BY <1>12, <2>1, <2>2
  <2>4. CutFrom(rest, key, n) BY <2>3, CutKept DEF CInv
  <2>5. Within(rest) /\ X!RemoveUnkept(rest) BY <1>12, <2>4 DEF CutFrom
  <2> HIDE DEF rest
  <2>6. X!Running' = X!Running BY <1>1, <1>6, <1>8 DEF OneCall, X!Running
  <2>7. \A d \in X!Running : call'[d] = call[d] BY <1>1, <1>6 DEF OneCall, X!Running
  <2>8. Stored' /\ Owned' BY <1>3, <2>5, <2>6, <2>7, Narrowed DEF CInv
  <2> QED BY <1>9, <1>10, <2>8 DEF CInv
<1> QED BY <1>11, <1>12 DEF X!Sweep, X!Cardinality, Cardinality

LEMMA CloseSound ==
  ASSUME CInv, X!Close
  PROVE  CInv'
<1> DEFINE rest == <<>>
<1>1. UNCHANGED <<dialect, file, resolved, probing, call>> /\ X!RemoveUnkept(rest) BY DEF X!Close
<1>2. Within(rest) BY DEF Within
<1> HIDE DEF rest
<1>3. X!Running' = X!Running BY <1>1 DEF X!Running
<1>4. Stored' /\ Owned' BY <1>1, <1>2, <1>3, Narrowed DEF CInv
<1>5. CallsSound' BY <1>1 DEF CInv, CallsSound
<1>6. Resolved' BY <1>1 DEF CInv, Resolved
<1> QED BY <1>4, <1>5, <1>6 DEF CInv

\* A reply, and a failure.
LEMMA ReplySound ==
  ASSUME CInv, X!TransportAssumption, NEW c \in Loops, X!Reply(c)
  PROVE  CInv'
<1>1. UNCHANGED <<dialect, file, resolved>> /\ c \in X!Running BY DEF X!Reply, X!Running
<1>2. PICK stream \in Streams, own \in {Len(call[c].turns) + 1} :
       /\ X!Read(stream).kind = "reply"
       /\ \E usage \in {IF X!CumulativeUsage THEN X!Before(c).tokens + own ELSE own} :
          \/ \E request \in Requests, notice \in {X!Told(c, stream, own, usage)} :
               /\ X!Returned(c, "idle", Append(call[c].turns, request), notice)
               /\ \/ /\ X!KeepsSessions /\ UNCHANGED roots
                     /\ sessions' = [s \in DOMAIN sessions \union {call[c].session} |->
                                       IF s # call[c].session THEN sessions[s]
                                       ELSE [turns |-> Append(X!Before(c).turns, request), tokens |-> X!Before(c).tokens + own]]
                     /\ \E key \in {X!KeyOf(Append(call[c].turns, request))} :
                          kept' = X!Put(key, Append(X!KeptOf(key), [session |-> call[c].session, usage |-> usage]))
                  \/ ~X!KeepsSessions /\ X!Removed(c) /\ UNCHANGED kept
          \/ X!Removed(c) /\ UNCHANGED kept /\ X!Returned(c, "ended", call[c].turns, X!Told(c, stream, own, usage))
  BY DEF X!Reply
<1> DEFINE usage == IF X!CumulativeUsage THEN X!Before(c).tokens + own ELSE own
           notice == [own |-> own, charged |-> own, clean |-> TRUE, read |-> TRUE]
<1>3. /\ X!Before(c).turns = call[c].turns /\ X!Before(c).tokens \in Nat /\ own \in Nat /\ usage \in Nat
      /\ X!Told(c, stream, own, usage) = notice
  BY <1>1, <1>2, ReplyTold DEF CInv
<1>4. call[c].turns \in Seq(Requests) BY DEF CInv, CallsSound, CallSound, CallState
<1>5. Resolved' BY <1>1 DEF CInv, Resolved
<1> HIDE DEF usage
<1>6. CASE X!Removed(c) /\ UNCHANGED kept /\ X!Returned(c, "ended", call[c].turns, notice)
  <2> DEFINE x == State("ended", call[c].turns, 0, 0, {}, Null, FALSE, 0, FALSE, notice)
  <2>1. CallsSound' /\ OneCall(c, x) BY <1>1, <1>3, <1>4, <1>6, ReturnedSound DEF CInv
  <2>2. x.pc # "run" BY DEF State
  <2>3. Stored' /\ Owned'
    <3> HIDE DEF x
    <3> QED BY <1>1, <1>6, <2>1, <2>2, Released DEF CInv
  <2> QED BY <1>5, <2>1, <2>3 DEF CInv
<1>7. ASSUME NEW request \in Requests, X!Returned(c, "idle", Append(call[c].turns, request), notice),
             \/ /\ UNCHANGED roots
                /\ sessions' = [s \in DOMAIN sessions \union {call[c].session} |->
                                  IF s # call[c].session THEN sessions[s]
                                  ELSE [turns |-> Append(X!Before(c).turns, request), tokens |-> X!Before(c).tokens + own]]
                /\ \E key \in {X!KeyOf(Append(call[c].turns, request))} :
                     kept' = X!Put(key, Append(X!KeptOf(key), [session |-> call[c].session, usage |-> usage]))
             \/ X!Removed(c) /\ UNCHANGED kept
      PROVE  CInv'
  <2> DEFINE turns == Append(call[c].turns, request)
             x == State("idle", turns, 0, 0, {}, Null, FALSE, 0, FALSE, notice)
  <2>1. turns \in Seq(Requests) BY <1>4, AppendProperties
  <2> HIDE DEF turns
  <2>2. CallsSound' /\ OneCall(c, x) BY <1>1, <1>3, <1>7, <2>1, ReturnedSound DEF CInv, turns
  <2>3. x.pc = "idle" BY DEF State
  <2> HIDE DEF x
  <2>4. CASE X!Removed(c) /\ UNCHANGED kept
    <3>1. Stored' /\ Owned' BY <1>1, <2>2, <2>3, <2>4, Released DEF CInv
    <3> QED BY <1>5, <2>2, <3>1 DEF CInv
  <2>5. CASE /\ UNCHANGED roots
             /\ sessions' = [s \in DOMAIN sessions \union {call[c].session} |->
                               IF s # call[c].session THEN sessions[s]
                               ELSE [turns |-> Append(X!Before(c).turns, request), tokens |-> X!Before(c).tokens + own]]
             /\ \E key \in {X!KeyOf(Append(call[c].turns, request))} :
                  kept' = X!Put(key, Append(X!KeptOf(key), [session |-> call[c].session, usage |-> usage]))
    <3>1. kept' = X!Put(turns, Append(X!KeptOf(turns), [session |-> call[c].session, usage |-> usage])) BY <2>5 DEF X!KeyOf, turns
    <3>2. turns = Append(call[c].turns, request) BY DEF turns
    <3>3. usage = IF X!CumulativeUsage THEN X!Before(c).tokens + own ELSE own BY DEF usage
    <3>4. Stored' /\ Owned' BY <1>1, <1>3, <2>2, <2>3, <2>5, <3>1, <3>2, <3>3, KeptReply DEF CInv
    <3> QED BY <1>5, <2>2, <3>4 DEF CInv
  <2> QED BY <1>7, <2>4, <2>5
<1> QED BY <1>2, <1>3, <1>6, <1>7 DEF usage

LEMMA FailSound ==
  ASSUME CInv, NEW c \in Loops, X!Fail(c)
  PROVE  CInv'
<1> DEFINE s == call[c]
<1>1. s \in CallState /\ CallSound(s, file) /\ s.pc = "run" /\ DOMAIN call = Loops /\ c \in X!Running
  BY DEF CInv, CallsSound, CallSound, X!Fail, X!Running
<1>2. UNCHANGED <<dialect, file, resolved, kept>> /\ X!Removed(c) BY DEF X!Fail
<1>3. PICK stream \in Streams :
        call' = [call EXCEPT ![c] = [X!Idle EXCEPT !.pc = IF X!SentWhole(c, X!Read(stream)) THEN "again" ELSE IF X!Read(stream).retryable THEN "idle" ELSE "ended", !.turns = call[c].turns,
                                     !.version = call[c].version, !.seen = call[c].seen, !.left = X!Read(stream).code = "LEFT"]]
  BY DEF X!Fail
<1> DEFINE place == IF X!SentWhole(c, X!Read(stream)) THEN "again" ELSE IF X!Read(stream).retryable THEN "idle" ELSE "ended"
           left == X!Read(stream).code = "LEFT"
           x == State(place, s.turns, 0, s.version, s.seen, Null, FALSE, 0, left, Null)
<1>4. place \in {"again", "idle", "ended"} /\ left \in BOOLEAN /\ (place = "again" => ~left) BY DEF X!SentWhole
<1>5. call'[c] = [X!Idle EXCEPT !.pc = place, !.turns = s.turns, !.version = s.version, !.seen = s.seen, !.left = left]
  BY <1>1, <1>3
<1> HIDE DEF place, left
<1>6. call'[c] = x
  <2>1. call'[c] = [[[[[X!Idle EXCEPT !.pc = place] EXCEPT !.turns = s.turns] EXCEPT !.version = s.version] EXCEPT !.seen = s.seen] EXCEPT !.left = left]
    BY <1>5
  <2> QED BY <2>1, IdleIs DEF State
<1>7. OneCall(c, x) BY <1>1, <1>3, <1>6 DEF OneCall
<1>8. x \in CallState BY <1>1, <1>4 DEF State, CallState
<1>9. CallSound(x, file) /\ x.pc # "run" BY <1>1, <1>4, <1>8 DEF State, CallSound
<1> HIDE DEF x
<1>10. CallsSound' BY <1>2, <1>7, <1>9, OneCallSound DEF CInv
<1>11. Stored' /\ Owned' BY <1>1, <1>2, <1>7, <1>9, Released DEF CInv
<1>12. Resolved' BY <1>2 DEF CInv, Resolved
<1> QED BY <1>10, <1>11, <1>12 DEF CInv

\* Every step of the transport keeps the invariant.
LEMMA StepCInv == X!TransportAssumption /\ CInv /\ [X!Next]_X!vars => CInv'
<1> SUFFICES ASSUME X!TransportAssumption, CInv, [X!Next]_X!vars PROVE CInv' OBVIOUS
<1>1. CASE UNCHANGED X!vars
  <2>1. X!Running' = X!Running BY <1>1 DEF X!vars, X!Running
  <2>2. Stored' /\ Owned' BY <1>1, <2>1, Untouched DEF X!vars, CInv
  <2>3. CallsSound' /\ Resolved' BY <1>1 DEF X!vars, CInv, CallsSound, Resolved
  <2> QED BY <2>2, <2>3 DEF CInv
<1>2. CASE X!Upgrade BY <1>2, UpgradeSound
<1>3. CASE X!Close BY <1>3, CloseSound
<1>4. ASSUME NEW c \in Loops, X!Send(c) \/ X!Resolve(c) \/ X!Probe(c) \/ X!Sweep(c) PROVE CInv'
  BY <1>4, SendSound, ResolveSound, ProbeSound, SweepSound
<1>5. ASSUME NEW c \in Loops, X!Continue(c) PROVE CInv'
  <2>1. Resolved' BY <1>5 DEF CInv, Resolved, X!Continue
  <2> QED BY <1>5, <2>1, Taken DEF CInv
<1>6. ASSUME NEW c \in Loops, X!Whole(c) PROVE CInv'
  <2>1. Resolved' BY <1>6 DEF CInv, Resolved, X!Whole
  <2> QED BY <1>6, <2>1, Opened DEF CInv
<1>7. ASSUME NEW c \in Loops, X!Reply(c) \/ X!Fail(c) PROVE CInv' BY <1>7, ReplySound, FailSound
<1> QED BY <1>1, <1>2, <1>3, <1>4, <1>5, <1>6, <1>7 DEF X!Next

LEMMA CInvMeans == CInv => X!CliTurnsSound
<1> SUFFICES ASSUME CInv PROVE X!CliTurnsSound OBVIOUS
<1>1. \A c \in Loops : call[c].pc = "run" => ~call[c].left /\ call[c].version \in call[c].seen
  BY DEF CInv, CallsSound, CallSound
<1>2. \A c \in Loops : call[c].told # Null => call[c].told.charged = call[c].told.own /\ call[c].told.read /\ call[c].told.clean
  BY DEF CInv, CallsSound, CallSound
<1>3. \A c \in X!Running : call[c].resume => sessions[call[c].session].turns = call[c].turns BY DEF CInv, Stored
<1> QED BY <1>1, <1>2, <1>3 DEF CInv, Owned, X!CliTurnsSound

\* CliTransport.send (cli-transport.ts), #take, #sweep and the readers of
\* dialects.ts: what exists on disk is what a process or a kept conversation uses,
\* each by one of them; a session is continued only with the conversation it
\* holds; a turn is charged its own tokens; and a reply is from a clean stream.
\* For any number of calls, turns, upgrades and failures.
THEOREM TurnsAreSound == X!TransportAssumption => (X!Spec => []X!CliTurnsSound)
<1> SUFFICES ASSUME X!TransportAssumption PROVE X!Spec => []X!CliTurnsSound OBVIOUS
<1> QED BY InitCInv, StepCInv, CInvMeans, PTL DEF X!Spec

----------------------------------------------------------------------------
(* The processes of a CLI.                                                 *)

Life == {"none", "runs", "frozen", "gone"}
ProcessState == [life : Life, parent : Nat, group : Nat, session : Nat, pipe : BOOLEAN, immune : BOOLEAN, created : Nat]
PassKinds == {"stop", "exit", "grace", "close"}

\* The processes: the leader's own record, and the stranger's.
Processes ==
  /\ platform \in Platforms /\ exited \in BOOLEAN /\ stopped \in BOOLEAN /\ failed \in BOOLEAN
  /\ closed \in BOOLEAN /\ heldOpen \in BOOLEAN
  /\ proc \in [Pids -> ProcessState]
  /\ armed \subseteq {"stop", "grace", "held"} /\ passes \in Seq(PassKinds)
  /\ outcome \in {"open", "checking", "terminated", "left"}
  /\ ~proc[O!Leader].immune /\ proc[O!Leader].parent = 0
  /\ proc[O!Leader].life \in {"runs", "frozen"} => proc[O!Leader].group = O!Leader
  /\ exited => ~O!Living(O!Leader)
  /\ exited /\ outcome \in {"open", "checking"} => proc[O!Leader].life = "gone"
  /\ outcome = "open" => proc[O!Leader].life # "none"

\* A process that is not of the tree shares only the leader's number, and no pass touches it.
StrangerSpared ==
  /\ proc[O!Stranger].life \in {"none", "runs"} /\ ~proc[O!Stranger].pipe
  /\ proc[O!Stranger].life = "runs" =>
       /\ proc[O!Stranger].group = O!Stranger /\ proc[O!Stranger].session \in {0, O!Stranger}
       /\ O!Posix => exited /\ proc[O!Stranger].parent \in {0, O!Leader}
       /\ ~O!Posix => proc[O!Stranger].parent = O!Leader /\ proc[O!Stranger].created # 1
  /\ \A p \in Pids \ {O!Stranger} : proc[p].parent # O!Stranger

\* What the passes found and ended.
Passes ==
  /\ pass \in [pc : {"none", "look", "freeze", "kill"}, looks : Nat, found : SUBSET (Pids \ {O!Leader, O!Stranger}),
               fresh : SUBSET (Pids \ {O!Leader, O!Stranger})]
  /\ ended \subseteq Pids \ {O!Leader, O!Stranger}
  /\ pass.pc # "none" => passes # <<>> /\ (O!Posix \/ exited)
  /\ pass.pc = "none" => pass = O!Idle
  /\ \A p \in pass.found \union pass.fresh \union ended : proc[p].life # "none"
  /\ O!Posix => \A p \in pass.found \union ended : proc[p].life = "runs" => proc[p].immune
  /\ O!Posix /\ pass.pc # "none" => proc[O!Leader].life # "runs"
  /\ pass.looks <= Cardinality(pass.found) /\ pass.looks <= Looks
  /\ pass.pc \in {"look", "freeze"} => pass.looks < Looks
  /\ ~O!Posix => pass.looks = 0 /\ (pass.pc = "look" => pass.found = {})
  /\ pass.pc = "freeze" => O!Posix /\ pass.fresh # {} /\ pass.fresh \intersect pass.found = {}

\* The living processes of the tree, and those in the leader's group or session, or its children.
Ours(p) == p \in Pids \ {O!Leader, O!Stranger} /\ O!Living(p)
Akin(p) == IF O!Posix THEN O!Leader \in {proc[p].group, proc[p].session} ELSE proc[p].parent = O!Leader

\* Once the leader's exit was seen and a look found no more, all that is in its group
\* or session is known, and none of it can fork.
AllFound ==
  /\ ~O!Posix /\ ~exited => \A p \in Pids \ {O!Stranger} : O!Living(p) => proc[p].created = 1
  /\ ~O!Posix => \A p \in Pids : Ours(p) /\ proc[p].parent = O!Leader => proc[p].created = 1
  /\ ~failed /\ pass.pc = "kill" => \A p \in Pids : Ours(p) /\ Akin(p) => p \in pass.found
  /\ ~failed /\ outcome = "checking" => \A p \in Pids : Ours(p) /\ Akin(p) => p \in ended

\* The pass that follows the end of the streams is the last one.
LastPass ==
  /\ closed => exited /\ armed = {}
  /\ closed /\ ~heldOpen => O!Holding = {}
  /\ closed /\ outcome = "open" => passes # <<>> /\ passes[Len(passes)] = "close"
  /\ \A i \in 1..Len(passes) : passes[i] = "close" => i = Len(passes) /\ closed
  /\ outcome = "checking" => closed /\ passes = <<>> /\ pass = O!Idle

\* Something is always still to come.
StillToCome ==
  outcome = "open" =>
    /\ ~exited => "stop" \in armed \/ passes # <<>> \/ ~O!Living(O!Leader)
    /\ exited /\ ~closed => armed \intersect {"grace", "held"} # {} \/ heldOpen \/ \E i \in 1..Len(passes) : passes[i] = "grace"

\* What a tree that is said to have ended has left.
Ended ==
  outcome = "terminated" => \A p \in O!Tree : ~proc[p].pipe /\ ~Akin(p)

\* The invariant of a process tree.
PInv == Processes /\ StrangerSpared /\ Passes /\ AllFound /\ LastPass /\ StillToCome /\ Ended

----------------------------------------------------------------------------
\* The leader and the stranger are two processes.
LEMMA TheStranger ==
  ASSUME O!ProcessAssumption
  PROVE  O!Leader \in Pids /\ O!Stranger \in Pids /\ O!Stranger # O!Leader /\ 0 \notin Pids /\ Pids \subseteq Nat
<1>1. PICK n \in Pids : n > 1 /\ \A p \in Pids : p <= n BY DEF O!ProcessAssumption
<1>2. O!Stranger \in Pids /\ \A q \in Pids : q <= O!Stranger BY <1>1 DEF O!Stranger
<1> QED BY <1>1, <1>2 DEF O!ProcessAssumption, O!Leader

\* A process that is adopted or frozen, field by field.
LEMMA RecordFacts ==
  /\ O!Gone \in ProcessState /\ O!Gone.life = "gone" /\ O!Gone.parent = 0 /\ ~O!Gone.pipe /\ ~O!Gone.immune
  /\ \A r \in ProcessState :
       /\ [r EXCEPT !.parent = 0] \in ProcessState /\ [r EXCEPT !.life = "frozen"] \in ProcessState
       /\ [r EXCEPT !.parent = 0].parent = 0 /\ [r EXCEPT !.life = "frozen"].life = "frozen"
       /\ [r EXCEPT !.parent = 0].life = r.life /\ [r EXCEPT !.life = "frozen"].parent = r.parent
       /\ \A x \in {[r EXCEPT !.parent = 0], [r EXCEPT !.life = "frozen"]} :
            /\ x.group = r.group /\ x.session = r.session /\ x.pipe = r.pipe /\ x.immune = r.immune /\ x.created = r.created
<1>1. O!Gone \in ProcessState /\ O!Gone.life = "gone" /\ O!Gone.parent = 0 /\ ~O!Gone.pipe /\ ~O!Gone.immune
  BY DEF O!Gone, O!None, ProcessState, Life
<1>2. ASSUME NEW r \in ProcessState
      PROVE /\ [r EXCEPT !.parent = 0] \in ProcessState /\ [r EXCEPT !.life = "frozen"] \in ProcessState
  BY <1>2 DEF ProcessState, Life
<1>3. ASSUME NEW r \in ProcessState
      PROVE /\ [r EXCEPT !.parent = 0].parent = 0 /\ [r EXCEPT !.life = "frozen"].life = "frozen"
            /\ [r EXCEPT !.parent = 0].life = r.life /\ [r EXCEPT !.life = "frozen"].parent = r.parent
            /\ \A x \in {[r EXCEPT !.parent = 0], [r EXCEPT !.life = "frozen"]} :
                 /\ x.group = r.group /\ x.session = r.session /\ x.pipe = r.pipe /\ x.immune = r.immune /\ x.created = r.created
  BY <1>3 DEF ProcessState
<1> QED BY <1>1, <1>2, <1>3

LEMMA InitPInv == O!ProcessAssumption /\ O!Init => PInv
<1> SUFFICES ASSUME O!ProcessAssumption, O!Init PROVE PInv OBVIOUS
<1>0. O!Leader \in Pids /\ O!Stranger \in Pids /\ O!Stranger # O!Leader /\ 0 \notin Pids /\ Pids \subseteq Nat BY TheStranger
<1>1. O!None \in ProcessState /\ O!None.life = "none" /\ O!None.parent = 0 /\ ~O!None.pipe /\ ~O!None.immune /\ O!None.created = 1
  BY DEF O!None, ProcessState, Life
<1> DEFINE first == [O!None EXCEPT !.life = "runs", !.group = O!Leader, !.session = O!Session(O!Leader), !.pipe = TRUE]
<1>2. first \in ProcessState /\ first.life = "runs" /\ first.parent = 0 /\ first.group = O!Leader /\ ~first.immune /\ first.created = 1
  BY <1>0 DEF O!None, O!Session, ProcessState, Life
<1>3. /\ proc \in [Pids -> ProcessState] /\ \A p \in Pids \ {O!Leader} : proc[p] = O!None
      /\ \/ outcome = "open" /\ proc[O!Leader] = first
         \/ outcome = "terminated" /\ proc[O!Leader] = O!None
  BY <1>0, <1>1, <1>2 DEF O!Init
<1> HIDE DEF first
<1>4. Processes
  <2>1. /\ platform \in Platforms /\ exited \in BOOLEAN /\ stopped \in BOOLEAN /\ failed \in BOOLEAN
        /\ closed \in BOOLEAN /\ heldOpen \in BOOLEAN
        /\ armed \subseteq {"stop", "grace", "held"} /\ passes \in Seq(PassKinds)
        /\ outcome \in {"open", "checking", "terminated", "left"} /\ exited = FALSE
    <3>1. passes = <<>> /\ <<>> \in Seq(PassKinds) BY DEF O!Init
    <3>2. outcome \in {"open", "terminated"} BY DEF O!Init
    <3> QED BY <3>1, <3>2, Zenon DEF O!Init
  <2>2. ~proc[O!Leader].immune /\ proc[O!Leader].parent = 0 BY <1>1, <1>2, <1>3
  <2>3. proc[O!Leader].life \in {"runs", "frozen"} => proc[O!Leader].group = O!Leader BY <1>1, <1>2, <1>3
  <2>4. outcome = "open" => proc[O!Leader].life # "none" BY <1>1, <1>2, <1>3
  <2> QED BY <1>3, <2>1, <2>2, <2>3, <2>4 DEF Processes
<1>5. StrangerSpared BY <1>0, <1>1, <1>2, <1>3 DEF StrangerSpared
<1>6. Passes
  <2>1. Cardinality({}) = 0 BY FS_EmptySet
  <2> QED BY <1>0, <1>1, <2>1 DEF O!Init, Passes, O!Idle, O!ProcessAssumption
<1>7. AllFound BY <1>0, <1>1, <1>2, <1>3 DEF O!Init, AllFound, Ours, O!Living, O!Idle
<1>8. LastPass BY <1>3 DEF O!Init, LastPass
<1>9. StillToCome BY DEF O!Init, StillToCome
<1>10. Ended BY <1>1, <1>3 DEF Ended, O!Tree, O!Living
<1> QED BY <1>4, <1>5, <1>6, <1>7, <1>8, <1>9, <1>10 DEF PInv

----------------------------------------------------------------------------
(* Steps in which no process appears. *)
\* No process of the tree appears, wakes or takes a pipe.
Lesser ==
  /\ proc' \in [Pids -> ProcessState]
  /\ \A p \in Pids :
       /\ proc'[p].life \in {"runs", "frozen"} =>
            /\ proc[p].life \in {"runs", "frozen"}
            /\ proc'[p].group = proc[p].group /\ proc'[p].session = proc[p].session
            /\ proc'[p].immune = proc[p].immune /\ proc'[p].created = proc[p].created
            /\ ~O!Posix => proc'[p].parent = proc[p].parent
       /\ proc'[p].life = "runs" => proc[p].life = "runs"
       /\ proc'[p].life = "none" <=> proc[p].life = "none"
       /\ proc[p].life = "gone" => proc'[p].life = "gone"
       /\ proc'[p].parent \in {proc[p].parent, 0}
       /\ proc'[p].immune => proc[p].immune
       /\ proc'[p].pipe => proc[p].pipe
  /\ proc'[O!Stranger].life = proc[O!Stranger].life

\* Killing and freezing lessen the tree.
LEMMA DeadLessens ==
  ASSUME O!ProcessAssumption, Processes, NEW dead \in SUBSET (Pids \ {O!Stranger}), \A p \in dead : O!Living(p),
         proc' = O!Dead(dead), UNCHANGED platform
  PROVE  Lesser /\ \A p \in dead : proc'[p].life = "gone"
<1>0. O!Stranger \in Pids BY TheStranger
<1>1. O!Gone \in ProcessState /\ O!Gone.life = "gone" /\ O!Gone.parent = 0 /\ ~O!Gone.pipe /\ ~O!Gone.immune BY RecordFacts
<1>2. \A p \in dead : proc'[p] = O!Gone BY DEF O!Dead
<1>3. \A p \in Pids \ dead : proc'[p] = proc[p] \/ (O!Posix /\ proc'[p] = [proc[p] EXCEPT !.parent = 0]) BY DEF O!Dead
<1>4. DOMAIN proc' = Pids /\ proc' = [p \in Pids |-> proc'[p]] BY DEF O!Dead
<1>5. \A p \in Pids : proc[p] \in ProcessState BY DEF Processes
<1>6. \A p \in Pids : proc'[p] \in ProcessState
  <2> TAKE p \in Pids
  <2>1. CASE p \in dead BY <1>1, <1>2, <2>1
  <2>2. CASE p \notin dead
    <3>1. [proc[p] EXCEPT !.parent = 0] \in ProcessState BY <1>5, RecordFacts
    <3> QED BY <1>3, <1>5, <2>2, <3>1
  <2> QED BY <2>1, <2>2
<1>7. \A p \in dead : proc'[p].life = "gone" /\ proc'[p].parent = 0 /\ ~proc'[p].immune /\ ~proc'[p].pipe BY <1>1, <1>2
<1>8. \A p \in Pids \ dead :
        /\ proc'[p].life = proc[p].life /\ proc'[p].group = proc[p].group /\ proc'[p].session = proc[p].session
        /\ proc'[p].immune = proc[p].immune /\ proc'[p].created = proc[p].created /\ proc'[p].pipe = proc[p].pipe
        /\ proc'[p].parent \in {proc[p].parent, 0} /\ (~O!Posix => proc'[p].parent = proc[p].parent)
  <2> TAKE p \in Pids \ dead
  <2>1. CASE proc'[p] = proc[p] BY <2>1
  <2>2. CASE O!Posix /\ proc'[p] = [proc[p] EXCEPT !.parent = 0]
    <3> DEFINE x == [proc[p] EXCEPT !.parent = 0]
    <3>1. x.parent = 0 /\ x.life = proc[p].life /\ x.group = proc[p].group /\ x.session = proc[p].session
          /\ x.pipe = proc[p].pipe /\ x.immune = proc[p].immune /\ x.created = proc[p].created
      BY <1>5, RecordFacts
    <3> QED BY <2>2, <3>1
  <2> QED BY <1>3, <2>1, <2>2
<1> QED BY <1>0, <1>4, <1>6, <1>7, <1>8 DEF Lesser, O!Living

LEMMA FrozenLessens ==
  ASSUME O!ProcessAssumption, Processes, NEW targets \in SUBSET (Pids \ {O!Stranger}), proc' = O!Frozen(targets), UNCHANGED platform
  PROVE  Lesser /\ \A p \in targets : proc'[p].life = "runs" => proc[p].immune
<1>0. O!Stranger \in Pids BY TheStranger
<1>5. \A p \in Pids : proc[p] \in ProcessState BY DEF Processes
<1>3. \A p \in Pids : IF p \in O!Struck(targets) THEN proc'[p] = [proc[p] EXCEPT !.life = "frozen"] ELSE proc'[p] = proc[p]
  BY DEF O!Frozen
<1>4. proc' = [p \in Pids |-> proc'[p]] BY DEF O!Frozen
<1>6. \A p \in Pids : proc'[p] \in ProcessState BY <1>3, <1>5, RecordFacts
<1>7. \A p \in O!Struck(targets) : p \in targets /\ O!Living(p) /\ ~proc[p].immune BY DEF O!Struck
<1>8. \A p \in Pids :
        /\ proc'[p].life = (IF p \in O!Struck(targets) THEN "frozen" ELSE proc[p].life)
        /\ proc'[p].group = proc[p].group /\ proc'[p].session = proc[p].session
        /\ proc'[p].immune = proc[p].immune /\ proc'[p].created = proc[p].created /\ proc'[p].pipe = proc[p].pipe
        /\ proc'[p].parent = proc[p].parent
  <2> TAKE p \in Pids
  <2>1. CASE p \notin O!Struck(targets) BY <1>3, <2>1
  <2>2. CASE p \in O!Struck(targets)
    <3> DEFINE x == [proc[p] EXCEPT !.life = "frozen"]
    <3>1. x.life = "frozen" /\ x.parent = proc[p].parent /\ x.group = proc[p].group /\ x.session = proc[p].session
          /\ x.pipe = proc[p].pipe /\ x.immune = proc[p].immune /\ x.created = proc[p].created
      BY <1>5, RecordFacts
    <3>2. proc'[p] = x BY <1>3, <2>2
    <3> QED BY <2>2, <3>1, <3>2
  <2> QED BY <2>1, <2>2
<1>9. \A p \in targets : proc[p].life = "runs" /\ ~proc[p].immune => p \in O!Struck(targets) BY DEF O!Struck, O!Living
<1>10. Lesser BY <1>0, <1>4, <1>6, <1>7, <1>8 DEF Lesser, O!Living
<1> QED BY <1>8, <1>9, <1>10

\* Nothing is the matter with the processes that are left.
LEMMA LesserKeeps ==
  ASSUME O!ProcessAssumption, PInv, Lesser, UNCHANGED <<platform, exited>>
  PROVE  /\ StrangerSpared'
         /\ ~proc'[O!Leader].immune /\ proc'[O!Leader].parent = 0
         /\ proc'[O!Leader].life \in {"runs", "frozen"} => proc'[O!Leader].group = O!Leader
         /\ exited => ~O!Living(O!Leader)'
         /\ \A p \in Pids : (Ours(p) /\ Akin(p))' => Ours(p) /\ Akin(p)
         /\ (~O!Posix /\ ~exited => \A p \in Pids \ {O!Stranger} : O!Living(p) => proc[p].created = 1)'
         /\ (~O!Posix => \A p \in Pids : Ours(p) /\ proc[p].parent = O!Leader => proc[p].created = 1)'
         /\ O!Holding' \subseteq O!Holding
<1>0. O!Leader \in Pids /\ O!Stranger \in Pids /\ O!Stranger # O!Leader /\ 0 \notin Pids BY TheStranger
<1>1. StrangerSpared' BY <1>0 DEF PInv, StrangerSpared, Lesser, O!Posix
<1>2. /\ ~proc'[O!Leader].immune /\ proc'[O!Leader].parent = 0
      /\ proc'[O!Leader].life \in {"runs", "frozen"} => proc'[O!Leader].group = O!Leader
      /\ exited => ~O!Living(O!Leader)'
  BY <1>0 DEF PInv, Processes, Lesser, O!Living
<1>3. \A p \in Pids : (Ours(p) /\ Akin(p))' => Ours(p) /\ Akin(p) BY DEF Lesser, Ours, Akin, O!Living, O!Posix
<1>4. /\ (~O!Posix /\ ~exited => \A p \in Pids \ {O!Stranger} : O!Living(p) => proc[p].created = 1)'
      /\ (~O!Posix => \A p \in Pids : Ours(p) /\ proc[p].parent = O!Leader => proc[p].created = 1)'
  BY DEF PInv, AllFound, Lesser, Ours, O!Living, O!Posix
<1>5. O!Holding' \subseteq O!Holding BY DEF Lesser, O!Holding, O!Living
<1> QED BY <1>1, <1>2, <1>3, <1>4, <1>5

----------------------------------------------------------------------------
(* The processes' own steps. *)
LEMMA ExitStep == ASSUME O!ProcessAssumption, PInv, outcome \in {"open", "checking"}, NEW p \in Pids, O!Exit(p) PROVE PInv'
<1>0. O!Leader \in Pids /\ O!Stranger \in Pids /\ O!Stranger # O!Leader BY TheStranger
<1>1. UNCHANGED O!System /\ proc' = O!Dead({p}) /\ proc[p].life = "runs" /\ p # O!Stranger BY DEF O!Exit
<1>2. UNCHANGED <<platform, exited, stopped, armed, passes, pass, ended, failed, closed, heldOpen, outcome>> BY <1>1 DEF O!System
<1>3. Lesser /\ proc'[p].life = "gone" BY <1>1, <1>2, DeadLessens DEF PInv, O!Living
<1>4. Processes' BY <1>0, <1>2, <1>3, LesserKeeps DEF PInv, Processes, Lesser
<1>5. Passes'
  <2>1. \A q \in Pids : proc'[q].life = "runs" => proc[q].life = "runs" /\ proc'[q].immune = proc[q].immune BY <1>3 DEF Lesser
  <2>2. \A q \in Pids : proc'[q].life = "none" => proc[q].life = "none" BY <1>3 DEF Lesser
  <2> QED BY <1>0, <1>2, <2>1, <2>2 DEF PInv, Passes, O!Posix
<1>6. AllFound' BY <1>2, <1>3, LesserKeeps DEF PInv, AllFound
<1>7. LastPass' BY <1>2, <1>3, LesserKeeps DEF PInv, LastPass
<1>8. StillToCome' BY <1>0, <1>2, <1>3 DEF PInv, StillToCome, Lesser, O!Living
<1>9. Ended' BY <1>2 DEF Ended
<1> QED BY <1>2, <1>3, <1>4, <1>5, <1>6, <1>7, <1>8, <1>9, LesserKeeps DEF PInv

LEMMA ForkStep == ASSUME O!ProcessAssumption, PInv, outcome \in {"open", "checking"}, NEW p \in Pids, O!Fork(p) PROVE PInv'
<1>0. O!Leader \in Pids /\ O!Stranger \in Pids /\ O!Stranger # O!Leader /\ 0 \notin Pids BY TheStranger
<1>1. UNCHANGED <<platform, exited, stopped, armed, passes, pass, ended, failed, closed, heldOpen, outcome>>
  BY DEF O!Fork, O!System
<1>2. PICK q \in Pids \ {O!Stranger}, pipe \in BOOLEAN, immune \in BOOLEAN :
        /\ proc[q].life = "none" /\ (pipe => proc[p].pipe)
        /\ proc' = [proc EXCEPT ![q] = [proc[p] EXCEPT !.parent = p, !.pipe = pipe, !.immune = immune,
                                                      !.created = IF exited /\ ~O!Posix THEN 2 ELSE 1]]
  BY DEF O!Fork
<1>3. proc[p].life = "runs" /\ p # O!Stranger /\ ~proc[p].immune /\ p # q BY <1>2 DEF O!Fork
<1>4. /\ proc'[q] \in ProcessState /\ proc'[q].life = "runs" /\ proc'[q].group = proc[p].group /\ proc'[q].session = proc[p].session
      /\ proc'[q].parent = p /\ (proc'[q].pipe => proc[p].pipe) /\ proc'[q].created = (IF exited /\ ~O!Posix THEN 2 ELSE 1)
  <2>1. proc[p] \in ProcessState BY DEF PInv, Processes
  <2>2. PICK n \in Nat : n = (IF exited /\ ~O!Posix THEN 2 ELSE 1) OBVIOUS
  <2>3. proc'[q] = [proc[p] EXCEPT !.parent = p, !.pipe = pipe, !.immune = immune, !.created = n]
    BY <1>2, <2>2 DEF PInv, Processes
  <2>4. proc[p] = [life |-> proc[p].life, parent |-> proc[p].parent, group |-> proc[p].group, session |-> proc[p].session,
                   pipe |-> proc[p].pipe, immune |-> proc[p].immune, created |-> proc[p].created]
        /\ proc[p].life \in Life /\ proc[p].group \in Nat /\ proc[p].session \in Nat
    BY <2>1 DEF ProcessState
  <2>5. proc'[q] = [life |-> proc[p].life, parent |-> p, group |-> proc[p].group, session |-> proc[p].session,
                    pipe |-> pipe, immune |-> immune, created |-> n]
    BY <2>3, <2>4
  <2>6. p \in Nat BY DEF O!ProcessAssumption
  <2> QED BY <1>2, <1>3, <2>2, <2>4, <2>5, <2>6 DEF ProcessState
<1>5. proc' \in [Pids -> ProcessState] /\ \A x \in Pids \ {q} : proc'[x] = proc[x] BY <1>2, <1>4 DEF PInv, Processes
<1>6. q # O!Leader BY <1>0, <1>1, <1>2 DEF PInv, Processes, LastPass
<1>7. Processes' BY <1>0, <1>1, <1>5, <1>6 DEF PInv, Processes, O!Living
<1>8. StrangerSpared' BY <1>0, <1>1, <1>2, <1>3, <1>4, <1>5 DEF PInv, StrangerSpared, O!Posix
<1>9. q \notin pass.found \union pass.fresh \union ended BY <1>2 DEF PInv, Passes
<1>10. Passes' BY <1>0, <1>1, <1>5, <1>6, <1>9 DEF PInv, Passes, O!Posix
<1>11. AllFound'
  <2>1. (~O!Posix /\ ~exited => \A x \in Pids \ {O!Stranger} : O!Living(x) => proc[x].created = 1)'
    BY <1>1, <1>4, <1>5 DEF PInv, AllFound, O!Living, O!Posix
  <2>2. exited => p # O!Leader BY <1>3 DEF PInv, Processes, O!Living
  <2>3. (~O!Posix => \A x \in Pids : Ours(x) /\ proc[x].parent = O!Leader => proc[x].created = 1)'
    BY <1>1, <1>4, <1>5, <2>2 DEF PInv, AllFound, Ours, O!Living, O!Posix
  <2>4. ASSUME NEW S, \A x \in Pids : Ours(x) /\ Akin(x) => x \in S,
               O!Posix => \A x \in S : x \in Pids /\ proc[x].life = "runs" => proc[x].immune, p # O!Leader
        PROVE  \A x \in Pids : (Ours(x) /\ Akin(x))' => x \in S
    <3> TAKE x \in Pids
    <3> HAVE (Ours(x) /\ Akin(x))'
    <3>1. CASE x # q BY <1>1, <1>5, <2>4, <3>1 DEF Ours, Akin, O!Living, O!Posix
    <3>2. CASE x = q
      <4>1. O!Posix BY <1>1, <1>4, <2>4, <3>2 DEF Akin, O!Posix
      <4>2. Ours(p) /\ Akin(p) BY <1>1, <1>3, <1>4, <2>4, <3>2, <4>1 DEF Ours, Akin, O!Living, O!Posix
      <4> QED BY <1>3, <2>4, <4>1, <4>2
    <3> QED BY <3>1, <3>2
  <2>5. ASSUME ~failed, pass.pc = "kill" PROVE \A x \in Pids : (Ours(x) /\ Akin(x))' => x \in pass.found
    <3>1. p # O!Leader BY <1>3, <2>2, <2>5 DEF PInv, Passes
    <3> QED BY <2>4, <2>5, <3>1 DEF PInv, AllFound, Passes
  <2>6. ASSUME ~failed, outcome = "checking" PROVE \A x \in Pids : (Ours(x) /\ Akin(x))' => x \in ended
    <3>1. p # O!Leader BY <2>2, <2>6 DEF PInv, LastPass
    <3> QED BY <2>4, <2>6, <3>1 DEF PInv, AllFound, Passes
  <2> QED BY <1>1, <2>1, <2>3, <2>5, <2>6 DEF AllFound
<1>12. LastPass'
  <2>1. O!Holding = {} => O!Holding' = {} BY <1>3, <1>4, <1>5 DEF O!Holding, O!Living
  <2> QED BY <1>1, <2>1 DEF PInv, LastPass
<1>13. StillToCome' BY <1>0, <1>1, <1>5, <1>6 DEF PInv, StillToCome, O!Living
<1>14. Ended' BY <1>1 DEF Ended
<1> QED BY <1>7, <1>8, <1>10, <1>11, <1>12, <1>13, <1>14 DEF PInv

LEMMA DetachStep == ASSUME O!ProcessAssumption, PInv, outcome \in {"open", "checking"}, NEW p \in Pids, O!Detach(p) PROVE PInv'
<1>0. O!Leader \in Pids /\ O!Stranger \in Pids /\ O!Stranger # O!Leader /\ 0 \notin Pids /\ p \in Nat BY TheStranger
<1>1. UNCHANGED <<platform, exited, stopped, armed, passes, pass, ended, failed, closed, heldOpen, outcome>>
  BY DEF O!Detach, O!System
<1>2. PICK session \in {0, p, proc[p].session} : proc' = [proc EXCEPT ![p].group = p, ![p].session = session]
  BY DEF O!Detach, O!Session
<1>3. O!Posix /\ proc[p].life = "runs" /\ p # O!Leader /\ p # O!Stranger BY DEF O!Detach
<1>4. /\ proc'[p] \in ProcessState /\ proc'[p].life = "runs" /\ proc'[p].group = p /\ proc'[p].session \in {0, p, proc[p].session}
      /\ proc'[p].parent = proc[p].parent /\ proc'[p].pipe = proc[p].pipe /\ proc'[p].immune = proc[p].immune
  <2>1. proc[p] \in ProcessState /\ session \in Nat BY <1>0 DEF PInv, Processes, ProcessState
  <2>2. proc'[p] = [[proc[p] EXCEPT !.group = p] EXCEPT !.session = session] BY <1>2 DEF PInv, Processes
  <2>3. proc[p] = [life |-> proc[p].life, parent |-> proc[p].parent, group |-> proc[p].group, session |-> proc[p].session,
                   pipe |-> proc[p].pipe, immune |-> proc[p].immune, created |-> proc[p].created]
        /\ proc[p].parent \in Nat /\ proc[p].created \in Nat /\ proc[p].pipe \in BOOLEAN /\ proc[p].immune \in BOOLEAN
        /\ proc[p].life \in Life
    BY <2>1 DEF ProcessState
  <2>4. proc'[p] = [life |-> proc[p].life, parent |-> proc[p].parent, group |-> p, session |-> session,
                    pipe |-> proc[p].pipe, immune |-> proc[p].immune, created |-> proc[p].created]
    BY <2>2, <2>3
  <2> QED BY <1>0, <1>3, <2>1, <2>3, <2>4 DEF ProcessState
<1>5. proc' \in [Pids -> ProcessState] /\ \A x \in Pids \ {p} : proc'[x] = proc[x] BY <1>2, <1>4 DEF PInv, Processes
<1>6. Processes' BY <1>0, <1>1, <1>3, <1>5 DEF PInv, Processes, O!Living
<1>7. StrangerSpared' BY <1>0, <1>1, <1>3, <1>4, <1>5 DEF PInv, StrangerSpared, O!Posix
<1>8. Passes' BY <1>0, <1>1, <1>3, <1>4, <1>5 DEF PInv, Passes, O!Posix
<1>9. \A x \in Pids : (Ours(x) /\ Akin(x))' => Ours(x) /\ Akin(x) BY <1>0, <1>1, <1>3, <1>4, <1>5 DEF Ours, Akin, O!Living, O!Posix
<1>10. AllFound' BY <1>1, <1>3, <1>9 DEF PInv, AllFound, O!Posix
<1>11. LastPass'
  <2>1. O!Holding' \subseteq O!Holding BY <1>3, <1>4, <1>5 DEF O!Holding, O!Living
  <2> QED BY <1>1, <2>1 DEF PInv, LastPass
<1>12. StillToCome' BY <1>0, <1>1, <1>3, <1>5 DEF PInv, StillToCome, O!Living
<1>13. Ended' BY <1>1 DEF Ended
<1> QED BY <1>6, <1>7, <1>8, <1>10, <1>11, <1>12, <1>13 DEF PInv

LEMMA ReuseStep == ASSUME O!ProcessAssumption, PInv, outcome \in {"open", "checking"}, O!Reuse PROVE PInv'
<1>0. O!Leader \in Pids /\ O!Stranger \in Pids /\ O!Stranger # O!Leader /\ 0 \notin Pids /\ O!Leader \in Nat /\ O!Stranger \in Nat BY TheStranger
<1>1. UNCHANGED <<platform, exited, stopped, armed, passes, pass, ended, failed, closed, heldOpen, outcome>>
  BY DEF O!Reuse, O!System
<1>2. PICK created \in {0, 2} :
        /\ IF created = 0 THEN ~O!Posix ELSE exited
        /\ proc' = [proc EXCEPT ![O!Stranger] = [O!None EXCEPT !.life = "runs", !.parent = O!Leader, !.group = O!Stranger,
                                                          !.session = O!Session(O!Stranger), !.created = created]]
  BY DEF O!Reuse
<1>3. /\ proc'[O!Stranger] \in ProcessState /\ proc'[O!Stranger].life = "runs" /\ proc'[O!Stranger].group = O!Stranger
      /\ proc'[O!Stranger].session \in {0, O!Stranger} /\ proc'[O!Stranger].parent = O!Leader /\ ~proc'[O!Stranger].pipe
      /\ proc'[O!Stranger].created = created
  <2>1. proc'[O!Stranger] = [O!None EXCEPT !.life = "runs", !.parent = O!Leader, !.group = O!Stranger,
                                     !.session = O!Session(O!Stranger), !.created = created]
    BY <1>0, <1>2 DEF PInv, Processes
  <2>2. proc'[O!Stranger] = [life |-> "runs", parent |-> O!Leader, group |-> O!Stranger, session |-> O!Session(O!Stranger), pipe |-> FALSE,
                           immune |-> FALSE, created |-> created]
    BY <2>1 DEF O!None
  <2>3. O!Session(O!Stranger) \in {0, O!Stranger} BY DEF O!Session
  <2> QED BY <1>0, <2>2, <2>3 DEF ProcessState, Life
<1>4. proc' \in [Pids -> ProcessState] /\ \A x \in Pids \ {O!Stranger} : proc'[x] = proc[x] BY <1>2, <1>3 DEF PInv, Processes
<1>5. proc[O!Stranger].life = "none" BY DEF O!Reuse
<1>6. Processes' BY <1>0, <1>1, <1>4 DEF PInv, Processes, O!Living
<1>7. StrangerSpared' BY <1>0, <1>1, <1>2, <1>3, <1>4 DEF PInv, StrangerSpared, O!Posix
<1>8. Passes' BY <1>0, <1>1, <1>4 DEF PInv, Passes, O!Posix
<1>9. AllFound' BY <1>0, <1>1, <1>4 DEF PInv, AllFound, Ours, Akin, O!Living, O!Posix
<1>10. LastPass'
  <2>1. O!Holding' \subseteq O!Holding BY <1>3, <1>4 DEF O!Holding, O!Living
  <2> QED BY <1>1, <2>1 DEF PInv, LastPass
<1>11. StillToCome' BY <1>0, <1>1, <1>4 DEF PInv, StillToCome, O!Living
<1>12. Ended' BY <1>1 DEF Ended
<1> QED BY <1>6, <1>7, <1>8, <1>9, <1>10, <1>11, <1>12 DEF PInv

----------------------------------------------------------------------------
(* The host's events. *)
\* A pass that is asked for is the last of the queue.
LEMMA QueuedPass ==
  ASSUME PInv, NEW kind \in PassKinds, passes' = Append(passes, kind)
  PROVE  /\ passes' \in Seq(PassKinds) /\ Len(passes') = Len(passes) + 1 /\ passes' # <<>> /\ passes'[Len(passes')] = kind
         /\ \A i \in 1..Len(passes) : passes'[i] = passes[i] /\ i \in 1..Len(passes')
BY AppendProperties DEF PInv, Processes

\* No process changes.
LEMMA StillProcesses ==
  ASSUME PInv, UNCHANGED <<platform, proc, exited, pass, ended, failed, heldOpen, outcome>>
  PROVE  /\ StrangerSpared' /\ AllFound' /\ Ended' /\ O!Holding' = O!Holding
         /\ (passes' # <<>> \/ pass.pc = "none") => Passes'
BY DEF PInv, StrangerSpared, Passes, AllFound, Ended, O!Holding, O!Living, Ours, Akin, O!Posix, O!Tree

LEMMA EventSteps ==
  ASSUME O!ProcessAssumption, PInv, outcome \in {"open", "checking"}, O!Abort \/ O!Data \/ O!OnExit \/ O!Grace \/ O!Held \/ O!OnClose
  PROVE  PInv'
<1>0. Len(passes) \in Nat /\ passes \in Seq(PassKinds) /\ (pass.pc # "none" => passes # <<>>) BY DEF PInv, Processes, Passes
<1>1. CASE O!Abort
  <2>1. /\ armed' = armed \ {"stop"} /\ stopped' = TRUE /\ passes' = Append(passes, "stop") /\ "stop" \in armed
        /\ UNCHANGED <<platform, proc, exited, pass, ended, failed, closed, heldOpen, outcome>>
    BY <1>1 DEF O!Abort, O!Stop
  <2>2. /\ passes' \in Seq(PassKinds) /\ Len(passes') = Len(passes) + 1 /\ passes' # <<>> /\ passes'[Len(passes')] = "stop"
        /\ \A i \in 1..Len(passes) : passes'[i] = passes[i] /\ i \in 1..Len(passes')
    BY <2>1, QueuedPass DEF PassKinds
  <2>3. Processes' BY <2>1, <2>2 DEF PInv, Processes, O!Living
  <2>4. ~closed BY <2>1 DEF PInv, LastPass
  <2>5. LastPass' BY <1>0, <2>1, <2>2, <2>4, StillProcesses DEF PInv, LastPass
  <2>6. StillToCome' BY <1>0, <2>1, <2>2, <2>4 DEF PInv, StillToCome, O!Living
  <2> QED BY <2>1, <2>2, <2>3, <2>5, <2>6, StillProcesses DEF PInv
<1>2. CASE O!Data
  <2>1. /\ stopped' = TRUE /\ passes' = Append(passes, "stop") /\ ~closed
        /\ UNCHANGED <<platform, proc, exited, armed, pass, ended, failed, closed, heldOpen, outcome>>
    BY <1>2 DEF O!Data, O!Stop
  <2>2. /\ passes' \in Seq(PassKinds) /\ Len(passes') = Len(passes) + 1 /\ passes' # <<>> /\ passes'[Len(passes')] = "stop"
        /\ \A i \in 1..Len(passes) : passes'[i] = passes[i] /\ i \in 1..Len(passes')
    BY <2>1, QueuedPass DEF PassKinds
  <2>3. Processes' BY <2>1, <2>2 DEF PInv, Processes, O!Living
  <2>5. LastPass' BY <1>0, <2>1, <2>2, StillProcesses DEF PInv, LastPass
  <2>6. StillToCome' BY <1>0, <2>1, <2>2 DEF PInv, StillToCome, O!Living
  <2> QED BY <2>1, <2>2, <2>3, <2>5, <2>6, StillProcesses DEF PInv
<1>3. CASE O!OnExit
  <2>1. /\ ~exited /\ ~O!Living(O!Leader) /\ exited' = TRUE /\ armed' = armed \union {"grace"}
        /\ passes' = (IF O!Posix THEN Append(passes, "exit") ELSE passes)
        /\ UNCHANGED <<platform, proc, stopped, pass, ended, failed, closed, heldOpen, outcome>>
    BY <1>3 DEF O!OnExit
  <2>2. /\ passes' \in Seq(PassKinds) /\ Len(passes') \in Nat /\ Len(passes) <= Len(passes') /\ (passes # <<>> => passes' # <<>>)
        /\ \A i \in 1..Len(passes') : passes'[i] = "close" => i \in 1..Len(passes) /\ passes'[i] = passes[i]
    <3>1. CASE O!Posix
      <4>1. /\ passes' \in Seq(PassKinds) /\ Len(passes') = Len(passes) + 1 /\ passes' # <<>> /\ passes'[Len(passes')] = "exit"
            /\ \A i \in 1..Len(passes) : passes'[i] = passes[i] /\ i \in 1..Len(passes')
        BY <2>1, <3>1, QueuedPass DEF PassKinds
      <4> QED BY <1>0, <4>1
    <3> QED BY <1>0, <2>1, <3>1
  <2>3. ~closed /\ outcome = "open" BY <2>1 DEF PInv, LastPass
  <2>4. Processes'
    <3>1. proc[O!Leader].life \in Life BY TheStranger DEF PInv, Processes, ProcessState
    <3>2. proc[O!Leader].life = "gone" BY <2>1, <2>3, <3>1 DEF PInv, Processes, O!Living, Life
    <3> QED BY <2>1, <2>2, <3>2 DEF PInv, Processes, O!Living
  <2>5. StrangerSpared' BY <2>1 DEF PInv, StrangerSpared, O!Posix
  <2>6. Passes' BY <2>1, <2>2 DEF PInv, Passes, O!Posix
  <2>7. AllFound' BY <2>1 DEF PInv, AllFound, Ours, Akin, O!Living, O!Posix
  <2>8. \A i \in 1..Len(passes') : passes'[i] # "close"  BY <2>2, <2>3 DEF PInv, LastPass
  <2>9. LastPass' BY <2>1, <2>3, <2>8 DEF PInv, LastPass
  <2>10. StillToCome' BY <2>1 DEF PInv, StillToCome
  <2>11. Ended' BY <2>1, <2>3 DEF Ended
  <2> QED BY <2>4, <2>5, <2>6, <2>7, <2>9, <2>10, <2>11 DEF PInv
<1>4. CASE O!Grace
  <2>1. /\ "grace" \in armed /\ armed' = armed \ {"grace"} /\ passes' = Append(passes, "grace")
        /\ UNCHANGED <<platform, proc, exited, stopped, pass, ended, failed, closed, heldOpen, outcome>>
    BY <1>4 DEF O!Grace
  <2>2. /\ passes' \in Seq(PassKinds) /\ Len(passes') = Len(passes) + 1 /\ passes' # <<>> /\ passes'[Len(passes')] = "grace"
        /\ \A i \in 1..Len(passes) : passes'[i] = passes[i] /\ i \in 1..Len(passes')
    BY <2>1, QueuedPass DEF PassKinds
  <2>3. Processes' BY <2>1, <2>2 DEF PInv, Processes, O!Living
  <2>4. ~closed BY <2>1 DEF PInv, LastPass
  <2>5. LastPass' BY <1>0, <2>1, <2>2, <2>4, StillProcesses DEF PInv, LastPass
  <2>6. StillToCome'
    <3>1. Len(passes') \in 1..Len(passes') BY <1>0, <2>2
    <3> QED BY <2>1, <2>2, <3>1 DEF PInv, StillToCome
  <2> QED BY <2>1, <2>2, <2>3, <2>5, <2>6, StillProcesses DEF PInv
<1>5. CASE O!Held
  <2>1. /\ "held" \in armed /\ armed' = armed \ {"held"} /\ heldOpen' = TRUE
        /\ UNCHANGED <<platform, proc, exited, stopped, passes, pass, ended, failed, closed, outcome>>
    BY <1>5 DEF O!Held
  <2>2. Processes' BY <2>1 DEF PInv, Processes, O!Living
  <2>3. ~closed BY <2>1 DEF PInv, LastPass
  <2>4. StrangerSpared' /\ Passes' /\ AllFound' /\ Ended'
    BY <2>1 DEF PInv, StrangerSpared, Passes, AllFound, Ended, O!Living, Ours, Akin, O!Posix, O!Tree
  <2>5. LastPass' /\ StillToCome' BY <2>1, <2>3 DEF PInv, LastPass, StillToCome, O!Living
  <2> QED BY <2>2, <2>4, <2>5 DEF PInv
<1>6. CASE O!OnClose
  <2>1. /\ exited /\ ~closed /\ (O!Holding = {} \/ heldOpen) /\ closed' = TRUE /\ armed' = {} /\ passes' = Append(passes, "close")
        /\ UNCHANGED <<platform, proc, exited, stopped, pass, ended, failed, heldOpen, outcome>>
    BY <1>6 DEF O!OnClose
  <2>2. /\ passes' \in Seq(PassKinds) /\ Len(passes') = Len(passes) + 1 /\ passes' # <<>> /\ passes'[Len(passes')] = "close"
        /\ \A i \in 1..Len(passes) : passes'[i] = passes[i] /\ i \in 1..Len(passes')
    BY <2>1, QueuedPass DEF PassKinds
  <2>3. Processes' BY <2>1, <2>2 DEF PInv, Processes, O!Living
  <2>4. outcome = "open" BY <2>1 DEF PInv, LastPass
  <2>5. \A i \in 1..Len(passes') : passes'[i] = "close" => i = Len(passes')
    <3>1. \A i \in 1..Len(passes) : passes[i] # "close" BY <2>1 DEF PInv, LastPass
    <3> QED BY <1>0, <2>2, <3>1
  <2>6. LastPass' BY <2>1, <2>2, <2>4, <2>5, StillProcesses DEF PInv, LastPass
  <2>7. StillToCome' BY <2>1 DEF StillToCome
  <2> QED BY <2>1, <2>2, <2>3, <2>6, <2>7, StillProcesses DEF PInv
<1> QED BY <1>1, <1>2, <1>3, <1>4, <1>5, <1>6

----------------------------------------------------------------------------
(* The passes. *)
Descendants == IF O!Posix THEN O!PosixDescendants(~exited) ELSE O!WindowsDescendants

\* A look finds living processes of the tree, and all that are in its group or session.
LEMMA DescendantsAre ==
  ASSUME O!ProcessAssumption, PInv
  PROVE  /\ \A p \in Descendants : Ours(p)
         /\ \A p \in Pids : Ours(p) /\ Akin(p) => p \in Descendants
<1>0. O!Leader \in Pids /\ O!Stranger \in Pids /\ O!Stranger # O!Leader /\ 0 \notin Pids BY TheStranger
<1> DEFINE S == {p \in Pids : O!Living(p) /\ p # O!Stranger /\ (O!Posix \/ p # O!Leader)}
           posixFirst == {p \in Pids : O!Living(p) /\ (O!Leader \in {proc[p].group, proc[p].session} \/ (~exited /\ proc[p].parent = O!Leader))}
           windowsFirst == {p \in Pids : O!Living(p) /\ proc[p].parent = O!Leader /\ proc[p].created = 1}
           windowsKin == {k \in O!Kin : proc[k[2]].created >= proc[k[1]].created}
           first == IF O!Posix THEN posixFirst ELSE windowsFirst
           kin == IF O!Posix THEN O!Kin ELSE windowsKin
<1>1. Descendants = O!Reached(first, kin) BY DEF Descendants, O!PosixDescendants, O!WindowsDescendants
<1>2. O!Living(O!Stranger) =>
        /\ proc[O!Stranger].group # O!Leader /\ proc[O!Stranger].session # O!Leader
        /\ O!Posix => exited /\ ~O!Living(O!Leader) /\ proc[O!Stranger].parent \in {0, O!Leader}
        /\ ~O!Posix => proc[O!Stranger].parent = O!Leader /\ proc[O!Stranger].created # 1
  BY <1>0 DEF PInv, StrangerSpared, Processes, O!Living
<1>3. first \subseteq Pids /\ first \subseteq S
  BY <1>0, <1>2 DEF PInv, Processes
<1>4. ASSUME NEW k \in kin, k[1] \in S PROVE k[2] \in S
  <2>1. k \in O!Kin BY <1>4
  <2>2. k[2] \in Pids /\ k[1] \in Pids /\ O!Living(k[2]) /\ proc[k[2]].parent = k[1] BY <2>1 DEF O!Kin
  <2>3. k[2] # O!Leader BY <1>0, <2>2 DEF PInv, Processes
  <2>4. k[2] # O!Stranger BY <1>0, <1>2, <1>4, <2>2
  <2> QED BY <2>2, <2>3, <2>4
<1>5. S \in SUBSET Pids OBVIOUS
<1> HIDE DEF S, kin
<1>6. \A p \in Descendants : p \in S /\ p # O!Leader BY <1>1, <1>3, <1>4, <1>5 DEF O!Reached
<1>7. \A p \in first : p # O!Leader => p \in Descendants BY <1>1, <1>3 DEF O!Reached
<1>8. \A p \in Pids : Ours(p) /\ Akin(p) => p \in first BY DEF PInv, AllFound, Ours, Akin
<1>9. \A p \in Descendants : Ours(p) BY <1>6 DEF Ours, S
<1>10. \A p \in Pids : Ours(p) /\ Akin(p) => p \in Descendants BY <1>7, <1>8 DEF Ours
<1> QED BY <1>9, <1>10

\* A pass that is over leaves the queue; after the last one only the check is left.
LEMMA PassOver ==
  ASSUME O!ProcessAssumption, PInv, outcome \in {"open", "checking"}, passes # <<>>, NEW more, O!Done(more), Lesser,
         UNCHANGED O!Events, exited \/ ~O!Living(O!Leader)'
  PROVE  /\ passes' \in Seq(PassKinds) /\ armed' \subseteq {"stop", "grace", "held"} /\ outcome = "open" /\ outcome' \in {"open", "checking"}
         /\ pass' = O!Idle /\ ended' = ended \union more
         /\ LastPass' /\ StillToCome'
<1>0. Len(passes) \in Nat \ {0} /\ passes \in Seq(PassKinds) BY DEF PInv, Processes
<1>1. /\ Head(passes) = passes[1] /\ Tail(passes) \in Seq(PassKinds) /\ Len(Tail(passes)) = Len(passes) - 1
      /\ \A i \in 1..Len(Tail(passes)) : Tail(passes)[i] = passes[i + 1]
  BY <1>0, HeadTailProperties
<1>2. /\ pass' = O!Idle /\ passes' = Tail(passes) /\ ended' = ended \union more
      /\ armed' = (IF Head(passes) = "grace" /\ ~closed THEN armed \union {"held"} ELSE armed)
      /\ outcome' = (IF Head(passes) = "close" THEN "checking" ELSE outcome)
      /\ UNCHANGED <<platform, exited, stopped, closed, heldOpen>>
  BY DEF O!Done, O!Events
<1>3. outcome = "open" BY <1>0 DEF PInv, LastPass
<1>4. O!Holding' \subseteq O!Holding BY <1>2, LesserKeeps
<1>9. \A i \in 1..Len(passes) : passes[i] = "close" => i = Len(passes) /\ closed BY DEF PInv, LastPass
<1>5. Head(passes) = "close" => Len(passes) = 1 /\ closed
  <2>1. 1 \in 1..Len(passes) BY <1>0
  <2> QED BY <1>1, <1>9, <2>1
<1>6. LastPass'
  <2>1. closed' => exited' /\ armed' = {} BY <1>2 DEF PInv, LastPass
  <2>2. closed' /\ ~heldOpen' => O!Holding' = {} BY <1>2, <1>4 DEF PInv, LastPass
  <2>3. closed' /\ outcome' = "open" => passes' # <<>> /\ passes'[Len(passes')] = "close"
    <3> HAVE closed' /\ outcome' = "open"
    <3>1. closed /\ Head(passes) # "close" BY <1>2
    <3>2. passes[Len(passes)] = "close" BY <1>3, <3>1 DEF PInv, LastPass
    <3>3. Len(passes) > 1 BY <1>0, <1>1, <3>1, <3>2
    <3>4. Len(passes) - 1 \in 1..Len(Tail(passes)) BY <1>0, <1>1, <3>3
    <3> QED BY <1>0, <1>1, <1>2, <3>2, <3>4
  <2>4. \A i \in 1..Len(passes') : passes'[i] = "close" => i = Len(passes') /\ closed'
    <3> SUFFICES ASSUME NEW i \in 1..Len(passes'), passes'[i] = "close" PROVE i = Len(passes') /\ closed' OBVIOUS
    <3>1. i + 1 \in 1..Len(passes) /\ passes[i + 1] = "close" BY <1>0, <1>1, <1>2
    <3>2. i + 1 = Len(passes) /\ closed BY <1>9, <3>1
    <3>3. i \in 1..Len(Tail(passes)) /\ Len(Tail(passes)) = Len(passes) - 1 BY <1>1, <1>2
    <3>4. i = Len(Tail(passes)) BY <1>0, <3>2, <3>3
    <3> QED BY <1>2, <3>2, <3>4
  <2>5. outcome' = "checking" => closed' /\ passes' = <<>> /\ pass' = O!Idle
    <3>1. Head(passes) = "close" => Tail(passes) = <<>> BY <1>1, <1>5
    <3> QED BY <1>2, <1>3, <1>5, <3>1
  <2> QED BY <2>1, <2>2, <2>3, <2>4, <2>5 DEF LastPass
<1>7. StillToCome'
  <2>1. ~exited => ~O!Living(O!Leader)' OBVIOUS
  <2>2. ASSUME exited, ~closed PROVE armed' \intersect {"grace", "held"} # {} \/ heldOpen \/ \E i \in 1..Len(passes') : passes'[i] = "grace"
    <3>1. CASE armed \intersect {"grace", "held"} # {} \/ heldOpen BY <1>2, <3>1
    <3>2. CASE \E i \in 1..Len(passes) : passes[i] = "grace"
      <4>1. PICK i \in 1..Len(passes) : passes[i] = "grace" BY <3>2
      <4>2. CASE i = 1
        <5>1. armed' = armed \union {"held"} BY <1>1, <1>2, <2>2, <4>1, <4>2
        <5> QED BY <5>1
      <4>3. CASE i # 1
        <5>1. i - 1 \in 1..Len(passes') /\ passes'[i - 1] = "grace" BY <1>0, <1>1, <1>2, <4>1, <4>3
        <5> QED BY <5>1
      <4> QED BY <4>2, <4>3
    <3> QED BY <1>3, <2>2, <3>1, <3>2 DEF PInv, StillToCome
  <2> QED BY <1>2, <2>1, <2>2 DEF StillToCome
<1>8. armed' \subseteq {"stop", "grace", "held"} BY <1>2 DEF PInv, Processes
<1> QED BY <1>1, <1>2, <1>3, <1>6, <1>7, <1>8

LEMMA BeginStep == ASSUME O!ProcessAssumption, PInv, outcome \in {"open", "checking"}, O!Begin PROVE PInv'
<1>0. O!Leader \in Pids /\ O!Stranger \in Pids /\ O!Stranger # O!Leader /\ 0 \notin Pids BY TheStranger
<1>1. pass.pc = "none" /\ pass = O!Idle /\ passes # <<>> /\ UNCHANGED O!Events BY DEF O!Begin, PInv, Passes
<1>2. UNCHANGED <<platform, exited, stopped, closed, heldOpen>> /\ O!Stranger \notin O!InGroup /\ O!InGroup \subseteq Pids
  BY <1>0, <1>1 DEF O!Events, O!InGroup, PInv, StrangerSpared, O!Living
<1>3. outcome = "open" BY <1>1 DEF PInv, LastPass
<1>4. CASE /\ O!Posix \/ exited
           /\ proc' = (IF O!Posix THEN O!Frozen(O!InGroup) ELSE proc)
           /\ pass' = [O!Idle EXCEPT !.pc = "look"] /\ UNCHANGED <<failed, O!Queue>>
  <2>1. UNCHANGED <<armed, passes, ended, outcome, failed>> BY <1>4 DEF O!Queue
  <2>2. Lesser /\ (O!Posix => \A p \in O!InGroup : proc'[p].life = "runs" => proc[p].immune)
    <3>1. CASE O!Posix BY <1>2, <1>4, <3>1, FrozenLessens DEF PInv
    <3>2. CASE ~O!Posix BY <1>0, <1>4, <3>2 DEF Lesser, PInv, Processes
    <3> QED BY <3>1, <3>2
  <2>3. pass' = [pc |-> "look", looks |-> 0, found |-> {}, fresh |-> {}] BY <1>4 DEF O!Idle
  <2>4. Processes' BY <1>0, <1>2, <2>1, <2>2, LesserKeeps DEF PInv, Processes, Lesser
  <2>5. O!Posix => proc'[O!Leader].life # "runs"
    <3>1. O!Posix /\ proc[O!Leader].life = "runs" => O!Leader \in O!InGroup BY <1>0 DEF O!InGroup, O!Living, PInv, Processes
    <3> QED BY <1>0, <2>2, <3>1 DEF PInv, Processes, Lesser
  <2>6. Passes'
    <3>1. Cardinality({}) = 0 BY FS_EmptySet
    <3>2. \A p \in Pids : (proc'[p].life = "runs" => proc[p].life = "runs" /\ proc'[p].immune = proc[p].immune) /\ (proc'[p].life = "none" => proc[p].life = "none")
      BY <2>2 DEF Lesser
    <3>3. pass' \in [pc : {"none", "look", "freeze", "kill"}, looks : Nat, found : SUBSET (Pids \ {O!Leader, O!Stranger}),
                     fresh : SUBSET (Pids \ {O!Leader, O!Stranger})]
          /\ pass'.pc = "look" /\ pass'.looks = 0 /\ pass'.found = {} /\ pass'.fresh = {}
      BY <2>3
    <3> QED BY <1>0, <1>1, <1>2, <1>4, <2>1, <2>5, <3>1, <3>2, <3>3 DEF PInv, Passes, O!Posix, O!ProcessAssumption
  <2>7. AllFound'
    <3>1. pass'.pc = "look" /\ outcome' = "open" BY <1>3, <2>1, <2>3
    <3> QED BY <1>2, <2>2, <3>1, LesserKeeps DEF AllFound
  <2>8. LastPass' BY <1>2, <1>3, <2>1, <2>2, LesserKeeps DEF PInv, LastPass
  <2>9. StillToCome' BY <1>0, <1>2, <2>1, <2>2 DEF PInv, StillToCome, Lesser, O!Living
  <2>10. Ended' BY <1>3, <2>1 DEF Ended
  <2> QED BY <1>2, <2>2, <2>4, <2>6, <2>7, <2>8, <2>9, <2>10, LesserKeeps DEF PInv
<1>5. CASE /\ ~O!Posix /\ ~exited /\ O!Done({})
           /\ \/ proc' = O!Dead(O!Struck({O!Leader} \union O!WindowsDescendants)) /\ UNCHANGED failed
              \/ failed' = TRUE /\ proc' = O!Dead(O!Struck({O!Leader}))
  <2>1. O!WindowsDescendants \subseteq Pids \ {O!Leader, O!Stranger}
    BY <1>5, DescendantsAre DEF Descendants, Ours
  <2>2. PICK dead : dead \in {O!Struck({O!Leader} \union O!WindowsDescendants), O!Struck({O!Leader})} /\ proc' = O!Dead(dead) BY <1>5
  <2>3. dead \in SUBSET (Pids \ {O!Stranger}) /\ (\A p \in dead : O!Living(p)) /\ (O!Living(O!Leader) => O!Leader \in dead)
    BY <1>0, <2>1, <2>2 DEF O!Struck, PInv, Processes
  <2>4. Lesser /\ \A p \in dead : proc'[p].life = "gone" BY <1>2, <2>2, <2>3, DeadLessens DEF PInv
  <2>5. ~O!Living(O!Leader)' BY <1>0, <2>3, <2>4 DEF Lesser, O!Living
  <2>6. /\ passes' \in Seq(PassKinds) /\ armed' \subseteq {"stop", "grace", "held"} /\ outcome' \in {"open", "checking"}
        /\ pass' = O!Idle /\ ended' = ended \union {} /\ LastPass' /\ StillToCome'
    BY <1>1, <1>5, <2>4, <2>5, PassOver
  <2>7. failed' \in BOOLEAN BY <1>5 DEF PInv, Processes
  <2>8. Processes' BY <1>0, <1>2, <1>3, <1>5, <2>4, <2>6, <2>7, LesserKeeps DEF PInv, Processes, Lesser
  <2>9. outcome' = "open" BY <1>2, <1>5, <2>6 DEF LastPass
  <2>10. Passes'
    <3>1. Cardinality({}) = 0 BY FS_EmptySet
    <3>2. \A p \in Pids : proc'[p].life = "none" => proc[p].life = "none" BY <2>4 DEF Lesser
    <3> QED BY <1>0, <1>2, <1>5, <2>6, <3>1, <3>2 DEF PInv, Passes, O!Posix, O!Idle, O!ProcessAssumption
  <2>11. AllFound' BY <1>2, <2>4, <2>6, <2>9, LesserKeeps DEF AllFound, O!Idle
  <2>12. Ended' BY <2>9 DEF Ended
  <2> QED BY <1>2, <2>4, <2>6, <2>8, <2>10, <2>11, <2>12, LesserKeeps DEF PInv
<1> QED BY <1>4, <1>5 DEF O!Begin

LEMMA LookStep == ASSUME O!ProcessAssumption, PInv, outcome \in {"open", "checking"}, O!Look PROVE PInv'
<1>0. O!Leader \in Pids /\ O!Stranger \in Pids /\ O!Stranger # O!Leader BY TheStranger
<1>1. pass.pc = "look" /\ UNCHANGED <<proc, platform, exited, stopped, closed, heldOpen, armed, passes, ended, outcome>>
  BY DEF O!Look, O!Events, O!Queue
<1>2. outcome = "open" /\ passes # <<>> /\ (O!Posix \/ exited) BY <1>1 DEF PInv, LastPass, O!Idle, Passes
<1>3. failed' \in BOOLEAN BY DEF O!Look, PInv, Processes
<1>4. Processes' BY <1>1, <1>3 DEF PInv, Processes, O!Living
<1>5. StrangerSpared' /\ StillToCome' /\ LastPass' /\ Ended'
  BY <1>1, <1>2 DEF PInv, StrangerSpared, StillToCome, LastPass, Ended, O!Living, O!Posix, O!Holding
<1> DEFINE fresh == Descendants \ pass.found
<1>6. /\ fresh \subseteq Pids \ {O!Leader, O!Stranger} /\ \A p \in fresh : Ours(p)
      /\ \A p \in Pids : Ours(p) /\ Akin(p) => p \in pass.found \union fresh
  BY DescendantsAre DEF Ours
<1>7. \/ /\ pass' = (IF fresh = {} THEN [pass EXCEPT !.pc = "kill"]
                    ELSE IF O!Posix THEN [pass EXCEPT !.pc = "freeze", !.fresh = fresh]
                    ELSE [pass EXCEPT !.pc = "kill", !.found = fresh])
         /\ UNCHANGED failed
      \/ failed' = TRUE /\ pass' = [pass EXCEPT !.pc = "kill"]
  BY DEF O!Look, Descendants
<1> HIDE DEF fresh
<1>8. pass \in [pc : {"none", "look", "freeze", "kill"}, looks : Nat, found : SUBSET (Pids \ {O!Leader, O!Stranger}),
               fresh : SUBSET (Pids \ {O!Leader, O!Stranger})]
  BY DEF PInv, Passes
<1>9. IsFiniteSet(Pids) BY DEF O!ProcessAssumption, O!IsFiniteSet, IsFiniteSet
<1>10. Passes'
  <2>1. \A p \in fresh : proc[p].life # "none" BY <1>6 DEF Ours, O!Living
  <2>2. CASE pass' = [pass EXCEPT !.pc = "kill"]
    <3>1. /\ pass'.pc = "kill" /\ pass'.looks = pass.looks /\ pass'.found = pass.found /\ pass'.fresh = pass.fresh
          /\ pass' \in [pc : {"none", "look", "freeze", "kill"}, looks : Nat, found : SUBSET (Pids \ {O!Leader, O!Stranger}),
                         fresh : SUBSET (Pids \ {O!Leader, O!Stranger})]
      BY <1>8, <2>2
    <3> QED BY <1>1, <1>2, <3>1 DEF PInv, Passes, O!Posix
  <2>3. CASE O!Posix /\ fresh # {} /\ pass' = [pass EXCEPT !.pc = "freeze", !.fresh = fresh]
    <3>1. /\ pass'.pc = "freeze" /\ pass'.looks = pass.looks /\ pass'.found = pass.found /\ pass'.fresh = fresh
          /\ pass' \in [pc : {"none", "look", "freeze", "kill"}, looks : Nat, found : SUBSET (Pids \ {O!Leader, O!Stranger}),
                         fresh : SUBSET (Pids \ {O!Leader, O!Stranger})]
      BY <1>6, <1>8, <2>3
    <3>2. fresh \intersect pass.found = {} BY DEF fresh
    <3> QED BY <1>1, <1>2, <2>1, <2>3, <3>1, <3>2 DEF PInv, Passes, O!Posix
  <2>4. CASE ~O!Posix /\ pass' = [pass EXCEPT !.pc = "kill", !.found = fresh]
    <3>1. /\ pass'.pc = "kill" /\ pass'.looks = pass.looks /\ pass'.found = fresh /\ pass'.fresh = pass.fresh
          /\ pass' \in [pc : {"none", "look", "freeze", "kill"}, looks : Nat, found : SUBSET (Pids \ {O!Leader, O!Stranger}),
                         fresh : SUBSET (Pids \ {O!Leader, O!Stranger})]
      BY <1>6, <1>8, <2>4
    <3>2. pass.looks <= Cardinality(fresh)
      <4>1. ~O!Posix => pass.looks = 0 /\ pass.found = {} BY <1>1 DEF PInv, Passes
      <4>2. Cardinality(fresh) \in Nat BY <1>6, <1>9, FS_Subset, FS_CardinalityType
      <4> QED BY <2>4, <4>1, <4>2
    <3> QED BY <1>1, <1>2, <2>1, <2>4, <3>1, <3>2 DEF PInv, Passes, O!Posix
  <2> QED BY <1>7, <2>2, <2>3, <2>4
<1>11. AllFound'
  <2>1. ~failed' /\ pass'.pc = "kill" => pass'.found = pass.found \union fresh
    <3>1. ~O!Posix => pass.found = {} BY <1>1 DEF PInv, Passes
    <3> QED BY <1>7, <1>8, <3>1
  <2> QED BY <1>1, <1>2, <1>6, <2>1 DEF PInv, AllFound, Ours, Akin, O!Living, O!Posix
<1> QED BY <1>4, <1>5, <1>10, <1>11 DEF PInv

LEMMA FreezeStep == ASSUME O!ProcessAssumption, PInv, outcome \in {"open", "checking"}, O!Freeze PROVE PInv'
<1>0. O!Leader \in Pids /\ O!Stranger \in Pids /\ O!Stranger # O!Leader /\ IsFiniteSet(Pids)
  BY TheStranger DEF O!ProcessAssumption, O!IsFiniteSet, IsFiniteSet
<1>1. /\ pass.pc = "freeze" /\ proc' = O!Frozen(pass.fresh)
      /\ UNCHANGED <<failed, platform, exited, stopped, closed, heldOpen, armed, passes, ended, outcome>>
  BY DEF O!Freeze, O!Events, O!Queue
<1> DEFINE more == pass.found \union pass.fresh
<1>2. /\ pass'.pc = (IF pass.looks + 1 = Looks THEN "kill" ELSE "look") /\ pass'.looks = pass.looks + 1
      /\ pass'.found = more /\ pass'.fresh = {}
  BY DEF O!Freeze
<1>3. outcome = "open" /\ passes # <<>> BY <1>1 DEF PInv, LastPass, O!Idle, Passes
<1>4. /\ pass.found \subseteq Pids \ {O!Leader, O!Stranger} /\ pass.fresh \subseteq Pids \ {O!Leader, O!Stranger} /\ pass.looks \in Nat
      /\ pass.looks <= Cardinality(pass.found) /\ pass.looks < Looks /\ pass.fresh # {} /\ pass.fresh \intersect pass.found = {}
      /\ O!Posix /\ Looks \in Nat
  BY <1>1 DEF PInv, Passes, O!ProcessAssumption
<1>5. Lesser /\ \A p \in pass.fresh : proc'[p].life = "runs" => proc[p].immune
  BY <1>0, <1>1, <1>4, FrozenLessens DEF PInv
<1>6. Processes' BY <1>0, <1>1, <1>5, LesserKeeps DEF PInv, Processes, Lesser
<1>7. /\ IsFiniteSet(more) /\ Cardinality(more) \in Nat /\ pass.looks + 1 <= Cardinality(more)
      /\ (pass.looks + 1 = Looks => more = Pids \ {O!Leader, O!Stranger})
  <2>1. IsFiniteSet(pass.found) /\ IsFiniteSet(pass.fresh) /\ IsFiniteSet(more) BY <1>0, <1>4, FS_Subset
  <2>2. PICK x \in pass.fresh : TRUE BY <1>4
  <2>3. x \notin pass.found /\ pass.found \union {x} \subseteq more BY <1>4, <2>2
  <2>4. Cardinality(pass.found \union {x}) = Cardinality(pass.found) + 1 BY <2>1, <2>3, FS_AddElement
  <2>5. Cardinality(pass.found \union {x}) <= Cardinality(more) BY <2>1, <2>3, FS_Subset
  <2>6. Cardinality(more) \in Nat /\ Cardinality(pass.found) \in Nat BY <2>1, FS_CardinalityType
  <2>7. pass.looks + 1 <= Cardinality(more) BY <1>4, <2>4, <2>5, <2>6
  <2>8. ASSUME pass.looks + 1 = Looks PROVE more = Pids \ {O!Leader, O!Stranger}
    <3> DEFINE one == Pids \ {O!Leader} two == one \ {O!Stranger}
    <3>1. IsFiniteSet(one) /\ Cardinality(one) = Cardinality(Pids) - 1 BY <1>0, FS_RemoveElement
    <3>2. O!Stranger \in one BY <1>0
    <3>3. IsFiniteSet(two) /\ Cardinality(two) = Cardinality(one) - 1 BY <3>1, <3>2, FS_RemoveElement
    <3>4. Cardinality(Pids) \in Nat /\ Cardinality(Pids) <= Looks + 2
      BY <1>0, FS_CardinalityType DEF O!ProcessAssumption, O!Cardinality, Cardinality
    <3>5. more \subseteq two BY <1>4
    <3> HIDE DEF one, two, more
    <3>6. Cardinality(two) <= Cardinality(more) BY <1>4, <2>6, <2>7, <2>8, <3>1, <3>3, <3>4
    <3>7. Cardinality(more) = Cardinality(two) BY <2>1, <2>6, <3>3, <3>5, <3>6, FS_Subset, FS_CardinalityType
    <3>8. more = two BY <3>3, <3>5, <3>7, FS_Subset
    <3> QED BY <3>8 DEF two, one
  <2> QED BY <2>1, <2>6, <2>7, <2>8
<1> HIDE DEF more
<1>8. Passes'
  <2>1. \A p \in Pids : (proc'[p].life = "runs" => proc[p].life = "runs" /\ proc'[p].immune = proc[p].immune) /\ (proc'[p].life = "none" => proc[p].life = "none")
    BY <1>5 DEF Lesser
  <2>2. more \subseteq Pids \ {O!Leader, O!Stranger} BY <1>4 DEF more
  <2>3. pass' \in [pc : {"none", "look", "freeze", "kill"}, looks : Nat, found : SUBSET (Pids \ {O!Leader, O!Stranger}),
                   fresh : SUBSET (Pids \ {O!Leader, O!Stranger})]
    <3>1. pass' = [pc |-> IF pass.looks + 1 = Looks THEN "kill" ELSE "look", looks |-> pass.looks + 1, found |-> more, fresh |-> {}]
      BY DEF O!Freeze, more
    <3> QED BY <1>4, <2>2, <3>1
  <2>4. \A p \in more \union ended : proc'[p].life # "none"
    BY <1>4, <2>1, <2>2 DEF PInv, Passes, more
  <2>5. \A p \in more \union ended : proc'[p].life = "runs" => proc'[p].immune
    BY <1>4, <1>5, <2>1, <2>2 DEF PInv, Passes, more
  <2>6. proc'[O!Leader].life # "runs" BY <1>0, <1>1, <1>4, <2>1 DEF PInv, Passes
  <2> QED BY <1>1, <1>2, <1>3, <1>4, <1>7, <2>3, <2>4, <2>5, <2>6 DEF PInv, Passes, O!Posix
<1>9. AllFound'
  <2>1. pass'.pc = "kill" => \A p \in Pids : Ours(p)' => p \in pass'.found BY <1>2, <1>7 DEF Ours
  <2> QED BY <1>1, <1>3, <1>5, <2>1, LesserKeeps DEF AllFound
<1>10. LastPass' BY <1>1, <1>3, <1>5, LesserKeeps DEF PInv, LastPass
<1>11. StillToCome' BY <1>0, <1>1, <1>5 DEF PInv, StillToCome, Lesser, O!Living
<1>12. Ended' BY <1>1, <1>3 DEF Ended
<1> QED BY <1>1, <1>5, <1>6, <1>8, <1>9, <1>10, <1>11, <1>12, LesserKeeps DEF PInv

LEMMA KillStep == ASSUME O!ProcessAssumption, PInv, outcome \in {"open", "checking"}, O!Kill PROVE PInv'
<1>0. O!Leader \in Pids /\ O!Stranger \in Pids /\ O!Stranger # O!Leader BY TheStranger
<1> DEFINE group == IF O!Posix THEN O!InGroup ELSE {}
           dead == O!Struck(pass.found \union group)
<1>1. pass.pc = "kill" /\ O!Done(pass.found) /\ proc' = O!Dead(dead) /\ UNCHANGED failed /\ UNCHANGED O!Events
  BY DEF O!Kill
<1>2. passes # <<>> /\ (O!Posix \/ exited) /\ pass.found \subseteq Pids \ {O!Leader, O!Stranger} BY <1>1 DEF PInv, Passes
<1>3. UNCHANGED <<platform, exited, stopped, closed, heldOpen>> BY <1>1 DEF O!Events
<1>4. dead \in SUBSET (Pids \ {O!Stranger}) /\ (\A p \in dead : O!Living(p)) /\ (O!Posix /\ O!Living(O!Leader) => O!Leader \in dead)
  BY <1>0, <1>2 DEF O!Struck, O!InGroup, PInv, StrangerSpared, Processes, O!Living
<1> HIDE DEF dead
<1>5. Lesser /\ \A p \in dead : proc'[p].life = "gone" BY <1>1, <1>3, <1>4, DeadLessens DEF PInv
<1>6. exited \/ ~O!Living(O!Leader)' BY <1>0, <1>2, <1>4, <1>5 DEF Lesser, O!Living
<1>7. /\ passes' \in Seq(PassKinds) /\ armed' \subseteq {"stop", "grace", "held"} /\ outcome = "open" /\ outcome' \in {"open", "checking"}
      /\ pass' = O!Idle /\ ended' = ended \union pass.found /\ LastPass' /\ StillToCome'
  BY <1>1, <1>2, <1>5, <1>6, PassOver
<1>8. Processes' BY <1>0, <1>1, <1>3, <1>5, <1>7, LesserKeeps DEF PInv, Processes, Lesser
<1>9. Passes'
  <2>1. Cardinality({}) = 0 BY FS_EmptySet
  <2>2. \A p \in Pids : (proc'[p].life = "runs" => proc[p].life = "runs" /\ proc'[p].immune = proc[p].immune) /\ (proc'[p].life = "none" => proc[p].life = "none")
    BY <1>5 DEF Lesser
  <2>3. /\ pass'.pc = "none" /\ pass'.looks = 0 /\ pass'.found = {} /\ pass'.fresh = {} /\ 0 < Looks
        /\ pass' \in [pc : {"none", "look", "freeze", "kill"}, looks : Nat, found : SUBSET (Pids \ {O!Leader, O!Stranger}),
                       fresh : SUBSET (Pids \ {O!Leader, O!Stranger})]
    BY <1>7 DEF O!Idle, O!ProcessAssumption
  <2>4. ended' \subseteq Pids \ {O!Leader, O!Stranger} BY <1>2, <1>7 DEF PInv, Passes
  <2>5. \A p \in ended' : proc'[p].life # "none" BY <1>2, <1>7, <2>2, <2>4 DEF PInv, Passes
  <2>6. O!Posix => \A p \in ended' : proc'[p].life = "runs" => proc'[p].immune
    BY <1>2, <1>7, <2>2, <2>4 DEF PInv, Passes
  <2> QED BY <1>3, <1>7, <2>1, <2>3, <2>4, <2>5, <2>6 DEF Passes, O!Posix, O!ProcessAssumption
<1>10. AllFound'
  <2>1. ~failed => \A p \in Pids : (Ours(p) /\ Akin(p))' => p \in ended' BY <1>1, <1>3, <1>5, <1>7, LesserKeeps DEF PInv, AllFound
  <2> QED BY <1>1, <1>3, <1>5, <1>7, <2>1, LesserKeeps DEF AllFound, O!Idle
<1>11. Ended' BY <1>7 DEF Ended
<1> QED BY <1>3, <1>5, <1>7, <1>8, <1>9, <1>10, <1>11, LesserKeeps DEF PInv

LEMMA ResolveStep == ASSUME O!ProcessAssumption, PInv, O!Resolve PROVE PInv'
<1>0. O!Leader \in Pids /\ O!Stranger \in Pids /\ O!Stranger # O!Leader BY TheStranger
<1>1. outcome = "checking" /\ UNCHANGED <<platform, exited, stopped, armed, passes, pass, ended, failed, closed, heldOpen>>
  BY DEF O!Resolve
<1>2. closed /\ exited /\ proc[O!Leader].life = "gone" BY <1>1 DEF PInv, LastPass, Processes
<1>3. CASE UNCHANGED proc /\ outcome' = "terminated" /\ ~failed /\ ~heldOpen /\ O!Remaining = {}
  <2>1. O!Holding = {} BY <1>2, <1>3 DEF PInv, LastPass
  <2>2. Ended'
    <3> SUFFICES ASSUME NEW p \in Pids \ {O!Stranger}, O!Living(p) PROVE ~proc[p].pipe /\ ~Akin(p)
      BY <1>1, <1>3 DEF Ended, O!Tree, Akin, O!Living, O!Posix
    <3>1. ~proc[p].pipe BY <2>1 DEF O!Holding, PInv, Processes, ProcessState
    <3>2. p # O!Leader BY <1>2 DEF O!Living
    <3>3. Akin(p) => p \in ended BY <1>1, <1>3, <3>2 DEF PInv, AllFound, Ours
    <3> QED BY <1>3, <3>1, <3>3 DEF O!Remaining
  <2>3. Processes' /\ StrangerSpared' /\ Passes' /\ AllFound' /\ LastPass' /\ StillToCome'
    BY <1>1, <1>3 DEF PInv, Processes, StrangerSpared, Passes, AllFound, LastPass, StillToCome, O!Living, Ours, Akin, O!Posix, O!Holding, O!Idle
  <2> QED BY <2>2, <2>3 DEF PInv
<1>4. CASE UNCHANGED proc /\ outcome' = "left"
  BY <1>1, <1>4 DEF PInv, Processes, StrangerSpared, Passes, AllFound, LastPass, StillToCome, O!Living, Ours, Akin, O!Posix, O!Holding, O!Idle, Ended
<1>5. CASE O!Posix /\ proc' = O!Dead(O!Struck(O!InGroup)) /\ UNCHANGED outcome
  <2>1. O!Struck(O!InGroup) \in SUBSET (Pids \ {O!Stranger}) /\ \A p \in O!Struck(O!InGroup) : O!Living(p)
    BY <1>0 DEF O!Struck, O!InGroup, PInv, StrangerSpared, O!Living
  <2>2. Lesser BY <1>1, <1>5, <2>1, DeadLessens DEF PInv
  <2>3. Processes' BY <1>0, <1>1, <1>5, <2>2, LesserKeeps DEF PInv, Processes, Lesser
  <2>4. \A p \in Pids : (proc'[p].life = "runs" => proc[p].life = "runs" /\ proc'[p].immune = proc[p].immune) /\ (proc'[p].life = "none" => proc[p].life = "none")
    BY <2>2 DEF Lesser
  <2>5. Passes' BY <1>0, <1>1, <2>4 DEF PInv, Passes, O!Posix
  <2>6. AllFound' BY <1>1, <1>5, <2>2, LesserKeeps DEF PInv, AllFound
  <2>7. LastPass' BY <1>1, <1>5, <2>2, LesserKeeps DEF PInv, LastPass
  <2>8. StillToCome' /\ Ended' BY <1>1, <1>5 DEF StillToCome, Ended
  <2> QED BY <1>1, <2>2, <2>3, <2>5, <2>6, <2>7, <2>8, LesserKeeps DEF PInv
<1> QED BY <1>3, <1>4, <1>5 DEF O!Resolve

\* Every step of the host and of the processes keeps the invariant.
LEMMA StepPInv == O!ProcessAssumption /\ PInv /\ [O!Next]_O!vars => PInv'
<1> SUFFICES ASSUME O!ProcessAssumption, PInv, [O!Next]_O!vars PROVE PInv' OBVIOUS
<1>1. CASE UNCHANGED O!vars
  BY <1>1 DEF O!vars, PInv, Processes, StrangerSpared, Passes, AllFound, LastPass, StillToCome, O!Living, Ours, Akin, O!Posix, O!Holding, O!Idle, Ended, O!Tree
<1>2. CASE O!Next
  BY <1>2, EventSteps, BeginStep, LookStep, FreezeStep, KillStep, ResolveStep, ReuseStep, ForkStep, DetachStep, ExitStep
  DEF O!Next, O!Host
<1> QED BY <1>1, <1>2

LEMMA PInvMeans == PInv => O!NativeTreeEnded
BY DEF PInv, Ended, StrangerSpared, StillToCome, LastPass, O!NativeTreeEnded, Akin, O!Pending

\* runNativeProcess and endTree (process.ts): a tree reported as terminated has
\* left no process of its group or session and none that holds its pipes, no
\* process that is not of the tree is signalled, and something is still to come
\* until the outcome is told. For any process tree small enough for the looks.
THEOREM TreesAreEnded == O!ProcessAssumption => (O!Spec => []O!NativeTreeEnded)
<1> SUFFICES ASSUME O!ProcessAssumption PROVE O!Spec => []O!NativeTreeEnded OBVIOUS
<1> QED BY InitPInv, StepPInv, PInvMeans, PTL DEF O!Spec
=============================================================================
