---------------------------- MODULE TokenBudget ----------------------------
(***************************************************************************)
(* DurableTokenBudget: what a run may still spend.  An attempt is admitted *)
(* against the charges of every earlier one and reserved on disk before it *)
(* is sent; its usage, once known, or the proof that it consumed nothing,  *)
(* replaces the estimate.  Operations run one at a time, so each is one    *)
(* step here; its save may fail, before or after the file was replaced.    *)
(***************************************************************************)
EXTENDS Integers, Sequences

CONSTANTS
  Activity,
  Estimate,         \* the token estimates callers reserve with
  MaxUsage,         \* bound: tokens reported for one attempt
  Limit,            \* the limits the run is started and resumed with
  MaxReservations,  \* bound: reservations
  MaxFaults,        \* bound: failing saves
  MaxCrashes,       \* bound: crashes
  Null              \* no usage recorded; nothing loaded

Id == 1..MaxReservations

\* The tokens a report names, and whether it names both input and output.
Usage == [tokens: 0..MaxUsage, complete: BOOLEAN]

\* A reservation's id is its place in the sequence.
Reservation ==
  [activity: Activity, estimated: Estimate, usage: Usage \union {Null}, released: BOOLEAN]

ASSUME BudgetAssumption ==
  /\ Estimate \subseteq Nat \ {0} /\ MaxUsage \in Nat
  /\ Limit \subseteq Nat \ {0} /\ Limit # {}
  /\ MaxReservations \in Nat /\ MaxFaults \in Nat /\ MaxCrashes \in Nat
  /\ Null \notin Reservation /\ Null \notin Seq(Reservation)

VARIABLES
  stored,          \* the committed reservations
  state,           \* the budget's copy of them, or Null before the first load
  maximumTokens,   \* the limit this process was given
  told,            \* history: the reservation as its caller last heard of it
  faults, crashes  \* bounds

budget == <<stored, state, maximumTokens>>
vars == <<stored, state, maximumTokens, told, faults, crashes>>

Init ==
  /\ stored = <<>> /\ state = Null
  /\ maximumTokens \in Limit
  /\ told = [i \in Id |-> Null]
  /\ faults = 0 /\ crashes = 0

----------------------------------------------------------------------------
MaxOf(m, n) == IF m >= n THEN m ELSE n

\* Unknown usage stays charged at its estimate.
Charge(r) ==
  CASE r.released -> 0
    [] ~r.released /\ r.usage = Null -> r.estimated
    [] OTHER -> IF r.usage.complete THEN r.usage.tokens
                ELSE MaxOf(r.estimated, r.usage.tokens)

Total(f) ==
  LET sum[n \in 0..Len(f)] == IF n = 0 THEN 0 ELSE sum[n - 1] + f[n]
  IN  sum[Len(f)]

Charged(rs) == Total([i \in 1..Len(rs) |-> Charge(rs[i])])

Load == IF state = Null THEN stored ELSE state

Admits(n) == n <= maximumTokens - Charged(Load)

\* Mutant: the copy in memory is the one that counts, saved or not.
CommitInMemory(rs, outcome) ==
  /\ state' = rs
  /\ stored' = IF outcome = "failed" THEN stored ELSE rs
  /\ UNCHANGED maximumTokens

\* The file is replaced before the copy in memory; a save that fails leaves
\* the copy as it was.
Commit(rs, outcome) ==
  /\ stored' = IF outcome = "failed" THEN stored ELSE rs
  /\ state' = IF outcome = "saved" THEN rs ELSE Load
  /\ UNCHANGED maximumTokens

\* Nothing to commit: the operation has only loaded the state.
Unchanged ==
  /\ state' = Load
  /\ UNCHANGED <<stored, maximumTokens>>

Admit(a, n, outcome) ==
  /\ Admits(n)
  /\ Commit(Append(Load, [activity |-> a, estimated |-> n, usage |-> Null,
                          released |-> FALSE]), outcome)

Known(a, i) == i \in DOMAIN Load /\ Load[i].activity = a
Unsettled(i) == ~Load[i].released /\ Load[i].usage = Null

RecordUsage(i, u, outcome) ==
  Commit([Load EXCEPT ![i].usage = u], outcome)

ReleaseIt(i, outcome) ==
  Commit([Load EXCEPT ![i].released = TRUE], outcome)

----------------------------------------------------------------------------
\* One step per call.  A caller hears of what it did only when the save
\* resolved; told is what it then knows.
Outcome ==
  {"saved"} \union IF faults < MaxFaults THEN {"failed", "late"} ELSE {}

Count(outcome) ==
  /\ faults' = IF outcome = "saved" THEN faults ELSE faults + 1
  /\ UNCHANGED crashes

Tell(i, r, outcome) ==
  told' = IF outcome = "saved" THEN [told EXCEPT ![i] = r] ELSE told

Reserve(a, n) ==
  /\ Len(Load) < MaxReservations
  /\ \/ \E o \in Outcome :
          /\ Admit(a, n, o)
          /\ Tell(Len(Load) + 1, [activity |-> a, estimated |-> n,
                                  usage |-> Null, released |-> FALSE], o)
          /\ Count(o)
     \/ /\ ~Admits(n)
        /\ Unchanged
        /\ UNCHANGED <<told, faults, crashes>>

\* Callers know the ids they were given.  The same report again is accepted
\* without a write, any other is an error.
RecordActual(a, i, u) ==
  /\ told[i] # Null
  /\ \/ \E o \in Outcome :
          /\ Known(a, i) /\ Unsettled(i)
          /\ RecordUsage(i, u, o)
          /\ Tell(i, [told[i] EXCEPT !.usage = u], o)
          /\ Count(o)
     \/ /\ Known(a, i) /\ ~Load[i].released /\ Load[i].usage = u
        /\ Unchanged
        /\ told' = [told EXCEPT ![i].usage = u]
        /\ UNCHANGED <<faults, crashes>>
     \/ /\ ~Known(a, i) \/ Load[i].released \/ Load[i].usage \notin {Null, u}
        /\ Unchanged
        /\ UNCHANGED <<told, faults, crashes>>

Release(a, i) ==
  /\ told[i] # Null
  /\ \/ \E o \in Outcome :
          /\ Known(a, i) /\ Unsettled(i)
          /\ ReleaseIt(i, o)
          /\ Tell(i, [told[i] EXCEPT !.released = TRUE], o)
          /\ Count(o)
     \/ /\ Known(a, i) /\ Load[i].released
        /\ Unchanged
        /\ told' = [told EXCEPT ![i].released = TRUE]
        /\ UNCHANGED <<faults, crashes>>
     \/ /\ ~Known(a, i) \/ Load[i].usage # Null
        /\ Unchanged
        /\ UNCHANGED <<told, faults, crashes>>

\* The process ends; a resume may raise the limit, never lower it.
Restart(limit) ==
  /\ crashes < MaxCrashes
  /\ crashes' = crashes + 1
  /\ limit >= maximumTokens
  /\ state' = Null
  /\ maximumTokens' = limit
  /\ UNCHANGED <<stored, told, faults>>

Next ==
  \/ \E a \in Activity, n \in Estimate : Reserve(a, n)
  \/ \E a \in Activity, i \in Id, u \in Usage : RecordActual(a, i, u)
  \/ \E a \in Activity, i \in Id : Release(a, i)
  \/ \E limit \in Limit : Restart(limit)

Spec == Init /\ [][Next]_vars

----------------------------------------------------------------------------
\* A released attempt has no usage, on disk, in memory and as it was told.
TypeOK ==
  /\ stored \in Seq(Reservation) /\ state \in Seq(Reservation) \union {Null}
  /\ maximumTokens \in Limit
  /\ told \in [Id -> Reservation \union {Null}]
  /\ \A i \in DOMAIN stored : ~(stored[i].released /\ stored[i].usage # Null)
  /\ \A i \in Id : told[i] # Null => ~(told[i].released /\ told[i].usage # Null)
  /\ faults \in 0..MaxFaults /\ crashes \in 0..MaxCrashes

\* What attempts reported beyond what they were admitted with.
Overshoot(rs) ==
  Total([i \in 1..Len(rs) |-> MaxOf(0, Charge(rs[i]) - rs[i].estimated)])

\* The run never admits more than its limit: only usage above an attempt's
\* own estimate can take the charges past it, whatever saves fail, whichever
\* calls interleave and however often the run is resumed.
SpendWithinLimit == Charged(stored) <= maximumTokens + Overshoot(stored)

\* What a caller was told is on disk: its reservation, and the usage or the
\* release it settled with, which no other call and no crash takes back.
ToldIsStored ==
  \A i \in Id : told[i] # Null =>
    /\ i \in DOMAIN stored
    /\ stored[i].activity = told[i].activity
    /\ stored[i].estimated = told[i].estimated
    /\ told[i].usage # Null => stored[i].usage = told[i].usage
    /\ told[i].released => stored[i].released

\* The budget on disk is one the run can trust: no more is admitted than its limit,
\* and nothing a caller was told is lost.
BudgetKept == SpendWithinLimit /\ ToldIsStored
=============================================================================
