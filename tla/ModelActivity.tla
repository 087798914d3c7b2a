--------------------------- MODULE ModelActivity ---------------------------
(***************************************************************************)
(* One durable model activity (ModelActivities.invoke): its callers share  *)
(* one execution; the answer is paid for, saved, traced and only then      *)
(* mapped to the activity, and a call after a crash or a failed write      *)
(* takes the answer from wherever it got to.  Reads between two writes are *)
(* one step: the in-flight entry keeps other writers of these records away.*)
(***************************************************************************)
EXTENDS Integers, FiniteSets

CONSTANTS
  Request,      \* what a stage may ask under this activity's id
  Caller,       \* concurrent callers of invoke
  Limit,        \* the token limits the run is started and resumed with
  MaxSends,     \* bound: provider calls the token budget admits
  MaxAttempts,  \* bound: executions that reach the trace log
  MaxFaults,    \* bound: failing writes and damaged files
  MaxCrashes,   \* bound: ends of the process
  Named,        \* answers with text under a secret's name, such as a tool argument "token"
  Null          \* an absent record, an absent reference

\* Answer n is the answer to the nth send; answer 0 is the source run's.
Answer == 0..MaxSends

\* An answer as it passed its schema, or with its secret-named text masked.
Payload == [answer: Answer, masked: BOOLEAN]

Unmasked(n) == [answer |-> n, masked |-> FALSE]

\* What publish stores of a payload: text under a secret's name is masked whole.
Redacted(p) == [p EXCEPT !.masked = p.answer \in Named]

\* The hash of a request.  Earlier builds hashed the run's token limit with
\* it; form 0 is the hash without it.
Digest == [request: Request, form: {0} \union Limit]

Mapping == [digest: Digest, value: Payload, from: {"provider", "source"}]
Trace == [digest: Digest, validated: BOOLEAN, ref: Answer \union {Null},
          execution: 1..MaxAttempts]
Source == [request: Request, fits: BOOLEAN]

Call ==
  [at: {"start", "reject", "input", "send", "sent", "put", "log", "trace",
        "map", "return"},
   request: Request, replayOnly: BOOLEAN, value: Payload \union {Null},
   from: {"provider", "source"}, validated: BOOLEAN, ref: Answer \union {Null}]

\* An absent value is none of those that may be present.
ActivityAssumption ==
  /\ Limit \subseteq Nat \ {0} /\ Limit # {}
  /\ MaxSends \in Nat \ {0} /\ MaxAttempts \in Nat \ {0}
  /\ MaxFaults \in Nat /\ MaxCrashes \in Nat
  /\ Named \subseteq Nat
  /\ Null \notin Answer /\ Null \notin Payload /\ Null \notin Digest /\ Null \notin Mapping
  /\ Null \notin Trace /\ Null \notin Source /\ Null \notin Call
  /\ Null # "reused" /\ Null # "regenerated"

VARIABLES
  mapping,       \* model-activity-<key>
  identity,      \* model-activity-<key>-input
  trace,         \* model-activity-<key>-trace
  log,           \* lines of this activity in the trace log, numbered from 1
  outputs,       \* the saved answers that are intact
  replayRecord,  \* replay-activity-<key>: what became of the source's answer
  source,        \* a replay run's source, or Null
  limit,         \* maximumTokens of this process
  call,          \* the execution in flight, or Null
  waiting,       \* the callers of invoke awaiting it
  sends,         \* calls the provider was sent
  asked,         \* history: requests this build sent to the provider
  refused,       \* history: requests refused as MODEL_ACTIVITY_INPUT_CHANGED by a record
  returned,      \* history: payloads a caller was given
  traced,        \* history: answers a stored trace named as validated
  faults, crashes

disk == <<mapping, identity, trace, log, outputs, replayRecord>>
history == <<asked, refused, returned, traced>>
vars == <<mapping, identity, trace, log, outputs, replayRecord, source, limit, call,
          waiting, sends, asked, refused, returned, traced, faults, crashes>>

Fingerprint(r) == [request |-> r, form |-> 0]
Legacy(r) == [request |-> r, form |-> limit]
Accepts(digest, r) == digest \in {Fingerprint(r), Legacy(r)}

\* A run that starts, or one that an earlier build left after its answer was
\* sent for, traced or mapped.
Init ==
  /\ limit \in Limit
  /\ replayRecord = Null
  /\ call = Null /\ waiting = {}
  /\ asked = {} /\ refused = {} /\ returned = {}
  /\ faults = 0 /\ crashes = 0
  /\ \/ /\ source \in Source \union {Null}
        /\ mapping = Null /\ identity = Null /\ trace = Null
        /\ log = 0 /\ outputs = {} /\ sends = 0 /\ traced = {}
     \/ \E r \in Request, stage \in {"sent", "traced", "mapped"} :
          /\ source = Null
          /\ identity = Legacy(r) /\ sends = 1
          /\ log = IF stage = "sent" THEN 0 ELSE 1
          /\ outputs = IF stage = "sent" THEN {} ELSE {1}
          /\ traced = outputs
          /\ trace = IF stage = "sent" THEN Null
                     ELSE [digest |-> Legacy(r), validated |-> TRUE, ref |-> 1,
                           execution |-> 1]
          /\ mapping = IF stage = "mapped"
                       THEN [digest |-> Legacy(r), value |-> Redacted(Unmasked(1)),
                             from |-> "provider"]
                       ELSE Null

----------------------------------------------------------------------------
\* Mutant: only the mapping counts.
RecoverableNever(r) == FALSE

\* #validatedOutput: the trace is of this request, validated its answer and
\* names a copy that is intact.
Recoverable(r) ==
  /\ trace # Null
  /\ trace.validated /\ Accepts(trace.digest, r)
  /\ trace.ref \in outputs

\* The activity's input was recorded for another request.
Changed(r) == identity # Null /\ ~Accepts(identity, r)

Goto(at) == call' = [call EXCEPT !.at = at]

\* The promise resolves: the in-flight entry goes and every caller is told.
Return(value) ==
  /\ call' = Null /\ waiting' = {}
  /\ returned' = returned \union {value}

\* The promise rejects.
Reject ==
  /\ call' = Null /\ waiting' = {} /\ UNCHANGED returned

----------------------------------------------------------------------------
\* invoke.  A caller joins the execution in flight when it asks for the same,
\* replayOnly or not, and is turned away when it asks for something else.
Join(c, r) ==
  /\ call # Null /\ c \notin waiting
  /\ Fingerprint(r) = Fingerprint(call.request)
  /\ waiting' = waiting \union {c}
  /\ UNCHANGED <<disk, source, limit, call, sends, history, faults, crashes>>

Start(c, r, replayOnly) ==
  /\ call = Null
  /\ log < MaxAttempts \/ mapping # Null
  /\ call' = [at |-> "start", request |-> r, replayOnly |-> replayOnly, value |-> Null,
              from |-> "provider", validated |-> FALSE, ref |-> Null]
  /\ waiting' = {c}
  /\ UNCHANGED <<disk, source, limit, sends, history, faults, crashes>>

At(at) == call # Null /\ call.at = at

ReturnExisting ==
  /\ At("start") /\ mapping # Null
  /\ Accepts(mapping.digest, call.request)
  /\ Return(mapping.value)
  /\ UNCHANGED <<disk, source, limit, sends, asked, refused, traced, faults, crashes>>

RefuseExisting ==
  /\ At("start") /\ mapping # Null
  /\ ~Accepts(mapping.digest, call.request)
  /\ refused' = refused \union {call.request}
  /\ Reject
  /\ UNCHANGED <<disk, source, limit, sends, asked, traced, faults, crashes>>

Recover ==
  /\ At("start") /\ mapping = Null
  /\ Recoverable(call.request)
  /\ call' = [call EXCEPT !.at = "map", !.value = Unmasked(trace.ref)]
  /\ UNCHANGED <<disk, source, limit, waiting, sends, history, faults, crashes>>

\* Nothing of this activity's own answers the call.
Unanswered == mapping = Null /\ ~Recoverable(call.request)

NotCompleted ==
  /\ At("start") /\ Unanswered
  /\ call.replayOnly
  /\ Reject
  /\ UNCHANGED <<disk, source, limit, sends, asked, refused, traced, faults, crashes>>

\* A replay run consults its source only for what it has not started itself.
Consults == source # Null /\ identity = Null

\* The lookup's outcome is recorded in this run before it is used.
LookUp ==
  /\ At("start") /\ Unanswered /\ ~call.replayOnly
  /\ Consults
  /\ LET hit == source.request = call.request
     IN /\ replayRecord' = IF hit THEN "reused" ELSE "regenerated"
        /\ call' = IF ~hit THEN [call EXCEPT !.at = "input"]
                   ELSE IF source.fits
                   THEN [call EXCEPT !.at = "map", !.value = Redacted(Unmasked(0)), !.from = "source"]
                   ELSE [call EXCEPT !.at = "reject"]
  /\ UNCHANGED <<mapping, identity, trace, log, outputs, source, limit, waiting, sends,
                 history, faults, crashes>>

RejectSource ==
  /\ At("reject") /\ Goto("input")
  /\ replayRecord' = "regenerated"
  /\ UNCHANGED <<mapping, identity, trace, log, outputs, source, limit, waiting, sends,
                 history, faults, crashes>>

SkipSource ==
  /\ At("start") /\ Unanswered /\ ~call.replayOnly
  /\ ~Consults
  /\ Goto("input")
  /\ UNCHANGED <<disk, source, limit, waiting, sends, history, faults, crashes>>

----------------------------------------------------------------------------
\* The request is bound to the activity before anything is spent on it.
RefuseInput ==
  /\ At("input") /\ Changed(call.request)
  /\ refused' = refused \union {call.request}
  /\ Reject
  /\ UNCHANGED <<disk, source, limit, sends, asked, traced, faults, crashes>>

PublishInput ==
  /\ At("input") /\ ~Changed(call.request)
  /\ identity' = Fingerprint(call.request)
  /\ Goto("send")
  /\ UNCHANGED <<mapping, trace, log, outputs, replayRecord, source, limit, waiting,
                 sends, history, faults, crashes>>

\* The pool or the batch lane hands the request to the provider.
Send ==
  /\ At("send") /\ sends < MaxSends
  /\ sends' = sends + 1
  /\ asked' = asked \union {call.request}
  /\ Goto("sent")
  /\ UNCHANGED <<disk, source, limit, waiting, refused, returned, traced, faults, crashes>>

\* It was not sent: the budget is exhausted, the run was cancelled, the
\* scheduler or the connection refused it.
NotSent ==
  /\ At("send")
  /\ Goto("log")
  /\ UNCHANGED <<disk, source, limit, waiting, sends, history, faults, crashes>>

\* The provider's answer passes its schema.
Answered ==
  /\ At("sent")
  /\ call' = [call EXCEPT !.at = "put", !.value = Unmasked(sends), !.validated = TRUE]
  /\ UNCHANGED <<disk, source, limit, waiting, sends, history, faults, crashes>>

\* A refusal, an answer that fails its schema or was cut at the ceiling, an
\* error, a timeout or a cancellation.
Unusable ==
  /\ At("sent")
  /\ Goto("log")
  /\ UNCHANGED <<disk, source, limit, waiting, sends, history, faults, crashes>>

PutOutput ==
  /\ At("put")
  /\ call' = [call EXCEPT !.at = "log", !.ref = call.value.answer]
  /\ outputs' = outputs \union {call.value.answer}
  /\ UNCHANGED <<mapping, identity, trace, log, replayRecord, source, limit, waiting,
                 sends, history, faults, crashes>>

\* The write fails after the answer was validated: the trace will say so and
\* name no copy.
PutFails ==
  /\ At("put") /\ faults < MaxFaults /\ faults' = faults + 1
  /\ Goto("log")
  /\ UNCHANGED <<disk, source, limit, waiting, sends, history, crashes>>

\* The finally block: the log line, numbered after the last, then the trace.
RecordTrace ==
  /\ At("log")
  /\ log' = log + 1
  /\ Goto("trace")
  /\ UNCHANGED <<mapping, identity, trace, outputs, replayRecord, source, limit, waiting,
                 sends, history, faults, crashes>>

\* The append fails, and may have written its line all the same.
RecordFails ==
  /\ At("log") /\ faults < MaxFaults /\ faults' = faults + 1
  /\ log' \in {log, log + 1}
  /\ Reject
  /\ UNCHANGED <<mapping, identity, trace, outputs, replayRecord, source, limit,
                 sends, asked, refused, traced, crashes>>

\* A failure is thrown again once it is traced.
PublishTrace ==
  /\ At("trace")
  /\ trace' = [digest |-> Fingerprint(call.request), validated |-> call.validated,
               ref |-> call.ref, execution |-> log]
  /\ traced' = IF call.validated /\ call.ref # Null THEN traced \union {call.ref}
               ELSE traced
  /\ \/ /\ call.ref # Null /\ Goto("map") /\ UNCHANGED <<waiting, returned>>
     \/ /\ call.ref = Null /\ Reject
  /\ UNCHANGED <<mapping, identity, log, outputs, replayRecord, source, limit, sends,
                 asked, refused, faults, crashes>>

\* A publish fails: the index still names what it named before.
WriteFails ==
  /\ faults < MaxFaults /\ faults' = faults + 1
  /\ \/ At("start") /\ Unanswered /\ ~call.replayOnly /\ Consults
     \/ At("reject")
     \/ At("input") /\ ~Changed(call.request)
     \/ At("trace")
     \/ At("map")
  /\ Reject
  /\ UNCHANGED <<disk, source, limit, sends, asked, refused, traced, crashes>>

PublishMapping ==
  /\ At("map")
  /\ mapping' = [digest |-> Fingerprint(call.request), value |-> Redacted(call.value),
                 from |-> call.from]
  /\ Goto("return")
  /\ UNCHANGED <<identity, trace, log, outputs, replayRecord, source, limit, waiting,
                 sends, history, faults, crashes>>

Settle ==
  /\ At("return")
  /\ Return(call.value)
  /\ UNCHANGED <<disk, source, limit, sends, asked, refused, traced, faults, crashes>>

----------------------------------------------------------------------------
\* The process ends and the run is resumed, perhaps under a raised limit.
Crash ==
  /\ crashes < MaxCrashes /\ crashes' = crashes + 1
  /\ call' = Null /\ waiting' = {}
  /\ limit' \in {l \in Limit : l >= limit}
  /\ UNCHANGED <<disk, source, sends, history, faults>>

\* A saved answer no longer hashes to its name.
Damage ==
  /\ faults < MaxFaults /\ faults' = faults + 1
  /\ \E n \in outputs : outputs' = outputs \ {n}
  /\ UNCHANGED <<mapping, identity, trace, log, replayRecord, source, limit, call,
                 waiting, sends, history, crashes>>

Invoke ==
  \E c \in Caller, r \in Request :
    Join(c, r) \/ \E replayOnly \in BOOLEAN : Start(c, r, replayOnly)

Execute ==
  \/ ReturnExisting \/ RefuseExisting \/ Recover \/ NotCompleted
  \/ LookUp \/ RejectSource \/ SkipSource
  \/ RefuseInput \/ PublishInput \/ Send \/ NotSent \/ Answered \/ Unusable
  \/ PutOutput \/ PutFails \/ RecordTrace \/ RecordFails
  \/ PublishTrace \/ WriteFails \/ PublishMapping \/ Settle

Next == Invoke \/ Execute \/ Crash \/ Damage

Spec == Init /\ [][Next]_vars

----------------------------------------------------------------------------
\* Every record and the call in flight keep their shape; in particular a
\* mapping always holds an answer.
TypeOK ==
  /\ mapping \in Mapping \union {Null}
  /\ identity \in Digest \union {Null}
  /\ trace \in Trace \union {Null}
  /\ log \in 0..MaxAttempts
  /\ outputs \subseteq Answer
  /\ replayRecord \in {"reused", "regenerated", Null}
  /\ source \in Source \union {Null}
  /\ limit \in Limit
  /\ call \in Call \union {Null}
  /\ waiting \subseteq Caller
  /\ sends \in 0..MaxSends
  /\ asked \subseteq Request /\ refused \subseteq Request
  /\ returned \subseteq Payload /\ traced \subseteq Answer
  /\ faults \in 0..MaxFaults /\ crashes \in 0..MaxCrashes

\* docs/durability.md's rule, for one activity: once a validated answer is
\* saved and traced, the provider is sent the request again only if the saved
\* copy has been damaged since, whatever was not written and whenever the
\* process ended (execute's recovery from the trace).
PaidAnswerKept ==
  /\ \A n \in traced : n < sends => n \notin outputs
  /\ mapping # Null /\ mapping.from = "provider" =>
       /\ trace # Null /\ trace.validated
       /\ trace.ref = mapping.value.answer /\ trace.execution = log

\* Every request this build ever sends under one activity, across failures and
\* restarts, is the same one ("Record identity before spend"), and raising the
\* token limit never turns it into a changed one, for the fingerprint leaves
\* the limit out.
OneRequestAsked ==
  /\ Cardinality(asked) <= 1
  /\ asked \intersect refused = {}

\* Whatever answer a stage was given is the one every later call of the activity
\* gets, also after a restart, at most masked since; of a replayed activity, its
\* replay record tells where that answer came from, and one from the source
\* cost this run no call. Whoever waits, waits for an execution that is under way:
\* callers share its promise, and hear of its end also when it fails.
ReplayAccounted ==
  /\ waiting # {} => call # Null
  /\ \A p \in returned : mapping # Null /\ Redacted(p) = mapping.value
  /\ mapping # Null /\ replayRecord # Null =>
       /\ (replayRecord = "reused") <=> (mapping.from = "source")
       /\ mapping.from = "source" => sends = 0

\* One activity, one request, one answer: sent once however often the process
\* ends, and the same for whoever asks (ModelActivities.execute).
AnswersKept == PaidAnswerKept /\ OneRequestAsked /\ ReplayAccounted

=============================================================================
