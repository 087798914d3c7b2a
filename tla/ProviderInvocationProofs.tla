----------------------- MODULE ProviderInvocationProofs -----------------------
(***************************************************************************)
(* The budget a run keeps on disk never admits more than its limit and     *)
(* never loses what a caller was told, for any number of reservations,     *)
(* failing saves and restarts.  The invocations use the budget as          *)
(* TokenBudget allows, so its invariant holds of them as well: whatever a  *)
(* provider consumes is charged and no call has two sends under way, for   *)
(* any number of calls, slots, retries, resends and restarts.              *)
(***************************************************************************)
EXTENDS ProviderInvocation, FiniteSetTheorems, WellFoundedInduction, TLAPS

----------------------------------------------------------------------------
(* The budget.                                                             *)

\* A nonempty set of naturals has a least element.
LEMMA LeastNatural ==
  ASSUME NEW S \in SUBSET Nat, S # {}
  PROVE  \E x \in S : \A y \in S : x <= y
<1>1. PICK x \in S : \A y \in S : <<y, x>> \notin OpToRel(<, Nat)
  BY WFMin, NatLessThanWellFounded, Zenon
<1>2. \A y \in S : y \in Nat /\ x \in Nat OBVIOUS
<1>3. \A y \in S : ~(y < x)
  BY <1>1, <1>2, Zenon DEF OpToRel
<1> QED BY <1>2, <1>3

----------------------------------------------------------------------------
(* Totals.                                                                 *)

\* The running totals of a sequence of integers.
Running(f, g) ==
  g[0] = 0 /\ \A n \in 1..Len(f) : g[n] = g[n - 1] + f[n]

LEMMA RunningExists ==
  ASSUME NEW f \in Seq(Int)
  PROVE  \E g \in [0..Len(f) -> Int] : Running(f, g)
<1> DEFINE Upto(k) == \E g \in [0..k -> Int] : g[0] = 0 /\ \A n \in 1..k : g[n] = g[n - 1] + f[n]
           Missing == {k \in 0..Len(f) : ~Upto(k)}
<1>1. Len(f) \in Nat /\ \A n \in 1..Len(f) : f[n] \in Int OBVIOUS
<1> SUFFICES ASSUME Missing # {} PROVE FALSE
  <2>1. Len(f) \in 0..Len(f) BY <1>1
  <2>2. Upto(Len(f)) BY <2>1
  <2> QED BY <2>2 DEF Running
<1>2. PICK k \in Missing : \A l \in Missing : k <= l
  <2>1. Missing \in SUBSET Nat BY <1>1
  <2> QED BY <2>1, LeastNatural
<1>3. k # 0
  <2> DEFINE z == [i \in 0..0 |-> 0]
  <2>1. z \in [0..0 -> Int] /\ z[0] = 0 /\ \A n \in 1..0 : z[n] = z[n - 1] + f[n] OBVIOUS
  <2>2. Upto(0)
    <3> HIDE DEF z
    <3> QED BY <2>1
  <2> QED BY <1>2, <2>2
<1>4. k - 1 \in 0..Len(f) /\ Upto(k - 1)
  <2>1. k \in 0..Len(f) OBVIOUS
  <2>2. k - 1 \in 0..Len(f) BY <1>1, <1>3, <2>1
  <2>3. k - 1 \notin Missing
    <3> HIDE DEF Missing
    <3> QED BY <1>1, <1>2, <2>1, <2>2
  <2> QED BY <2>2, <2>3
<1>5. PICK g \in [0..(k - 1) -> Int] : g[0] = 0 /\ \A n \in 1..(k - 1) : g[n] = g[n - 1] + f[n]
  BY <1>4
<1>6. Upto(k)
  <2> DEFINE h == [i \in 0..k |-> IF i = k THEN g[k - 1] + f[k] ELSE g[i]]
  <2>0. k \in 1..Len(f) BY <1>1, <1>2, <1>3
  <2>1. g[k - 1] \in Int /\ f[k] \in Int BY <1>1, <1>5, <2>0
  <2>2. h \in [0..k -> Int] BY <1>1, <1>5, <2>0, <2>1
  <2>3. h[0] = 0 BY <1>5, <2>0
  <2>4. \A n \in 1..k : h[n] = h[n - 1] + f[n] BY <1>5, <2>0
  <2> HIDE DEF h
  <2> QED BY <2>2, <2>3, <2>4
<1> QED BY <1>2, <1>6

LEMMA RunningUnique ==
  ASSUME NEW f \in Seq(Int), NEW g, NEW h, Running(f, g), Running(f, h)
  PROVE  g[Len(f)] = h[Len(f)]
<1> DEFINE Apart == {k \in 0..Len(f) : g[k] # h[k]}
<1>0. Len(f) \in Nat /\ Len(f) \in 0..Len(f) OBVIOUS
<1> SUFFICES ASSUME Apart # {} PROVE FALSE BY <1>0
<1>1. PICK k \in Apart : \A l \in Apart : k <= l
  <2>1. Apart \in SUBSET Nat OBVIOUS
  <2> QED BY <2>1, LeastNatural
<1>2. k # 0 BY <1>1 DEF Running
<1>3. k \in 1..Len(f) /\ k - 1 \in 0..Len(f) BY <1>0, <1>1, <1>2
<1>4. k - 1 \notin Apart
  <2> HIDE DEF Apart
  <2> QED BY <1>1, <1>3
<1>5. g[k - 1] = h[k - 1] BY <1>3, <1>4
<1>6. g[k] = h[k] BY <1>3, <1>5 DEF Running
<1> QED BY <1>1, <1>6

LEMMA TotalIsRunning ==
  ASSUME NEW f \in Seq(Int), NEW g \in [0..Len(f) -> Int], Running(f, g)
  PROVE  Total(f) = g[Len(f)] /\ Total(f) \in Int
<1> DEFINE N == Len(f)
           Sums(s) == s = [n \in 0..N |-> IF n = 0 THEN 0 ELSE s[n - 1] + f[n]]
           S == CHOOSE s : Sums(s)
<1>0. N \in Nat /\ N \in 0..N OBVIOUS
<1>1. Sums(g) BY <1>0 DEF Running
<1>2. Sums(S) BY <1>1
<1>3. Total(f) = S[N] BY DEF Total
<1>4. Running(f, S)
  <2> HIDE DEF S
  <2> QED BY <1>0, <1>2 DEF Running
<1>5. S[N] = g[N]
  <2> HIDE DEF S
  <2> QED BY <1>4, RunningUnique
<1> QED BY <1>0, <1>3, <1>5

LEMMA TotalEmpty ==
  ASSUME NEW f \in Seq(Int), Len(f) = 0
  PROVE  Total(f) = 0
<1>1. PICK g \in [0..Len(f) -> Int] : Running(f, g) BY RunningExists
<1> QED BY <1>1, TotalIsRunning DEF Running

\* A new element adds to the total.
LEMMA TotalAppend ==
  ASSUME NEW f \in Seq(Int), NEW x \in Int
  PROVE  Total(Append(f, x)) = Total(f) + x /\ Total(f) \in Int
<1> DEFINE N == Len(f)  a == Append(f, x)
<1>0. N \in Nat /\ a \in Seq(Int) /\ Len(a) = N + 1 /\ a[N + 1] = x
      /\ \A n \in 1..N : a[n] = f[n]
  OBVIOUS
<1>1. PICK g \in [0..N -> Int] : Running(f, g) BY RunningExists
<1> DEFINE h == [n \in 0..(N + 1) |-> IF n = N + 1 THEN g[N] + x ELSE g[n]]
<1>2. h \in [0..(N + 1) -> Int] /\ h[N + 1] = g[N] + x BY <1>0, <1>1
<1>3. Running(a, h) BY <1>0, <1>1 DEF Running
<1>4. Total(a) = h[N + 1]
  <2> HIDE DEF h, a
  <2> QED BY <1>0, <1>2, <1>3, TotalIsRunning
<1>5. Total(f) = g[N] /\ Total(f) \in Int BY <1>1, TotalIsRunning
<1> QED BY <1>2, <1>4, <1>5

\* A changed element changes the total by the difference.
LEMMA TotalExcept ==
  ASSUME NEW f \in Seq(Int), NEW i \in 1..Len(f), NEW x \in Int
  PROVE  Total([f EXCEPT ![i] = x]) = Total(f) - f[i] + x /\ Total(f) \in Int
<1> DEFINE N == Len(f)  e == [f EXCEPT ![i] = x]
<1>0. N \in Nat /\ e \in Seq(Int) /\ Len(e) = N /\ e[i] = x /\ f[i] \in Int
      /\ \A n \in 1..N : n # i => e[n] = f[n]
  OBVIOUS
<1>1. PICK g \in [0..N -> Int] : Running(f, g) BY RunningExists
<1> DEFINE h == [n \in 0..N |-> IF n >= i THEN g[n] - f[i] + x ELSE g[n]]
<1>2. h \in [0..N -> Int] /\ h[N] = g[N] - f[i] + x BY <1>0, <1>1
<1>3. Running(e, h)
  <2>1. h[0] = 0 BY <1>0, <1>1 DEF Running
  <2>2. ASSUME NEW n \in 1..N PROVE h[n] = h[n - 1] + e[n]
    <3>1. n \in 0..N /\ n - 1 \in 0..N BY <1>0
    <3>2. g[n] = g[n - 1] + f[n] BY <1>1 DEF Running
    <3>3. g[n] \in Int /\ g[n - 1] \in Int BY <1>1, <3>1
    <3>4. f[n] \in Int BY <1>0
    <3>5. CASE n = i BY <1>0, <3>2, <3>3, <3>4, <3>5
    <3>6. CASE n # i BY <1>0, <3>2, <3>3, <3>4, <3>6
    <3> QED BY <3>5, <3>6
  <2> QED BY <1>0, <2>1, <2>2 DEF Running
<1>4. Total(e) = h[N]
  <2> HIDE DEF h, e
  <2> QED BY <1>0, <1>2, <1>3, TotalIsRunning
<1>5. Total(f) = g[N] /\ Total(f) \in Int BY <1>1, TotalIsRunning
<1> QED BY <1>2, <1>4, <1>5

\* Naturals add up to a natural.
LEMMA TotalNonnegative ==
  ASSUME NEW f \in Seq(Nat)
  PROVE  Total(f) \in Int /\ Total(f) >= 0
<1> DEFINE N == Len(f)
<1>0. N \in Nat /\ N \in 0..N /\ f \in Seq(Int) /\ \A n \in 1..N : f[n] \in Nat OBVIOUS
<1>1. PICK g \in [0..N -> Int] : Running(f, g) BY <1>0, RunningExists
<1>2. Total(f) = g[N] /\ Total(f) \in Int BY <1>0, <1>1, TotalIsRunning
<1> DEFINE Below == {k \in 0..N : g[k] < 0}
<1> SUFFICES ASSUME Below # {} PROVE FALSE
  <2>1. g[N] >= 0 BY <1>0, <1>1
  <2> QED BY <1>2, <2>1
<1>3. PICK k \in Below : \A l \in Below : k <= l
  <2>1. Below \in SUBSET Nat BY <1>0
  <2> QED BY <2>1, LeastNatural
<1>4. k \in 0..N /\ g[k] < 0 BY <1>3
<1>5. k # 0 BY <1>1, <1>4 DEF Running
<1>6. k \in 1..N /\ k - 1 \in 0..N BY <1>0, <1>4, <1>5
<1>7. k - 1 \notin Below
  <2> HIDE DEF Below
  <2> QED BY <1>3, <1>6
<1>8. g[k - 1] >= 0 BY <1>1, <1>6, <1>7
<1>9. g[k] = g[k - 1] + f[k] /\ f[k] \in Nat BY <1>0, <1>1, <1>6 DEF Running
<1> QED BY <1>1, <1>4, <1>6, <1>8, <1>9

----------------------------------------------------------------------------
(* Charges.                                                                *)

Charges(rs) == [i \in 1..Len(rs) |-> Charge(rs[i])]
Excess(r) == MaxOf(0, Charge(r) - r.estimated)
Excesses(rs) == [i \in 1..Len(rs) |-> Excess(rs[i])]

\* Only usage above an attempt's estimate takes the charges past a limit.
Within(rs, limit) == Charged(rs) <= limit + Overshoot(rs)

LEMMA Sums ==
  ASSUME NEW rs
  PROVE  Charged(rs) = Total(Charges(rs)) /\ Overshoot(rs) = Total(Excesses(rs))
BY DEF Charged, Overshoot, Charges, Excesses, Excess

LEMMA ChargeTyped ==
  ASSUME NEW r \in Reservation
  PROVE  Charge(r) \in Nat /\ Excess(r) \in Nat /\ r.estimated \in Nat
         /\ Charge(r) <= r.estimated + Excess(r)
<1>1. r.estimated \in Nat BY BudgetAssumption DEF Reservation
<1>2. r.usage # Null => r.usage.tokens \in Nat /\ r.usage.complete \in BOOLEAN
  BY BudgetAssumption DEF Reservation, Usage
<1>3. Charge(r) \in Nat
  <2>1. CASE r.released BY <2>1 DEF Charge
  <2>2. CASE ~r.released /\ r.usage = Null BY <1>1, <2>2 DEF Charge
  <2>3. CASE ~r.released /\ r.usage # Null BY <1>1, <1>2, <2>3 DEF Charge, MaxOf
  <2> QED BY <2>1, <2>2, <2>3
<1> HIDE DEF Charge
<1> QED BY <1>1, <1>3 DEF Excess, MaxOf

LEMMA ChargesTyped ==
  ASSUME NEW rs \in Seq(Reservation)
  PROVE  Charges(rs) \in Seq(Nat) /\ Excesses(rs) \in Seq(Nat)
         /\ Len(Charges(rs)) = Len(rs) /\ Len(Excesses(rs)) = Len(rs)
         /\ Charges(rs) \in Seq(Int) /\ Excesses(rs) \in Seq(Int)
<1>1. \A i \in 1..Len(rs) : Charge(rs[i]) \in Nat /\ Excess(rs[i]) \in Nat
  BY ChargeTyped
<1> HIDE DEF Charge, Excess
<1> QED BY <1>1 DEF Charges, Excesses

\* An attempt that the rest leaves room for keeps the budget within its limit.
LEMMA WithinAppend ==
  ASSUME NEW rs \in Seq(Reservation), NEW r \in Reservation, NEW limit \in Nat,
         ~r.released, r.usage = Null, r.estimated <= limit - Charged(rs)
  PROVE  Within(Append(rs, r), limit)
<1> DEFINE a == Append(rs, r)
<1>1. Charge(r) = r.estimated BY DEF Charge
<1>2. Charge(r) \in Nat BY ChargeTyped
<1>3. a \in Seq(Reservation) OBVIOUS
<1>4. Charges(a) = Append(Charges(rs), Charge(r))
  <2> HIDE DEF Charge
  <2> QED BY DEF Charges
<1>5. Charged(a) = Charged(rs) + r.estimated /\ Charged(rs) \in Int
  <2>1. Total(Append(Charges(rs), Charge(r))) = Total(Charges(rs)) + Charge(r)
        /\ Total(Charges(rs)) \in Int
    <3>1. Charges(rs) \in Seq(Int) BY ChargesTyped
    <3>2. Charge(r) \in Int BY <1>2
    <3> QED BY <3>1, <3>2, TotalAppend
  <2> QED BY <1>1, <1>4, <2>1, Sums
<1>6. Overshoot(a) \in Int /\ Overshoot(a) >= 0
  BY <1>3, ChargesTyped, TotalNonnegative, Sums
<1>7. r.estimated \in Nat BY ChargeTyped
<1> QED BY <1>5, <1>6, <1>7 DEF Within

\* Settling an attempt charged at its estimate keeps it there.
LEMMA WithinSettled ==
  ASSUME NEW rs \in Seq(Reservation), NEW i \in 1..Len(rs), NEW r \in Reservation,
         NEW limit \in Nat, r.estimated = rs[i].estimated,
         ~rs[i].released, rs[i].usage = Null, Within(rs, limit)
  PROVE  Within([rs EXCEPT ![i] = r], limit)
<1> DEFINE e == [rs EXCEPT ![i] = r]
<1>1. Charge(rs[i]) = rs[i].estimated BY DEF Charge
<1>2. rs[i] \in Reservation OBVIOUS
<1>3. rs[i].estimated \in Nat BY <1>2, ChargeTyped
<1>4. Excess(rs[i]) = 0 BY <1>1, <1>3 DEF Excess, MaxOf
<1>5. Charge(r) \in Nat /\ Excess(r) \in Nat /\ Charge(r) <= r.estimated + Excess(r)
  BY ChargeTyped
<1> HIDE DEF Charge, Excess
<1>6. Charges(e) = [Charges(rs) EXCEPT ![i] = Charge(r)]
      /\ Excesses(e) = [Excesses(rs) EXCEPT ![i] = Excess(r)]
      /\ Charges(rs)[i] = Charge(rs[i]) /\ Excesses(rs)[i] = Excess(rs[i])
  <2>1. Len(e) = Len(rs) /\ \A n \in 1..Len(rs) : e[n] = IF n = i THEN r ELSE rs[n] OBVIOUS
  <2> HIDE DEF e
  <2>2. Charges(e) = [Charges(rs) EXCEPT ![i] = Charge(r)] BY <2>1 DEF Charges
  <2>3. Excesses(e) = [Excesses(rs) EXCEPT ![i] = Excess(r)] BY <2>1 DEF Excesses
  <2>4. Charges(rs)[i] = Charge(rs[i]) /\ Excesses(rs)[i] = Excess(rs[i])
    BY DEF Charges, Excesses
  <2> QED BY <2>2, <2>3, <2>4
<1>7. Charged(e) = Charged(rs) - rs[i].estimated + Charge(r) /\ Charged(rs) \in Int
  <2>1. Charges(rs) \in Seq(Int) /\ i \in 1..Len(Charges(rs)) /\ Charge(r) \in Int
    BY <1>5, ChargesTyped
  <2>2. Total(Charges(e)) = Total(Charges(rs)) - rs[i].estimated + Charge(r)
        /\ Total(Charges(rs)) \in Int
    BY <1>1, <1>6, <2>1, TotalExcept
  <2> QED BY <2>2, Sums
<1>8. Overshoot(e) = Overshoot(rs) + Excess(r) /\ Overshoot(rs) \in Int
  <2>1. Excesses(rs) \in Seq(Int) /\ i \in 1..Len(Excesses(rs)) /\ Excess(r) \in Int
    BY <1>5, ChargesTyped
  <2>2. Total(Excesses(e)) = Total(Excesses(rs)) - 0 + Excess(r)
        /\ Total(Excesses(rs)) \in Int
    BY <1>4, <1>6, <2>1, TotalExcept
  <2> QED BY <1>5, <2>2, Sums
<1> QED BY <1>3, <1>5, <1>7, <1>8 DEF Within

----------------------------------------------------------------------------
(* The inductive invariant.  A save that fails late leaves the file one    *)
(* operation ahead of the copy in memory, and the next save starts from    *)
(* the copy: both must be sound, and the file must hold all the copy does. *)

\* Whatever t says, r says: they differ at most in what t leaves open.
Matches(t, r) ==
  /\ t.activity = r.activity /\ t.estimated = r.estimated
  /\ t.usage # Null => r.usage = t.usage
  /\ t.released => r.released

Clean(r) == ~(r.released /\ r.usage # Null)

Tells(rs) == \A i \in Id : told[i] # Null => i \in 1..Len(rs) /\ Matches(told[i], rs[i])

Behind(ls, rs) ==
  Len(ls) <= Len(rs) /\ \A i \in 1..Len(ls) : Matches(ls[i], rs[i])

Sound(rs) ==
  /\ rs \in Seq(Reservation) /\ \A i \in 1..Len(rs) : Clean(rs[i])
  /\ Within(rs, maximumTokens)

Typed ==
  /\ maximumTokens \in Limit
  /\ told \in [Id -> Reservation \union {Null}]
  /\ \A i \in Id : told[i] # Null => Clean(told[i])
  /\ faults \in 0..MaxFaults /\ crashes \in 0..MaxCrashes
  /\ state \in Seq(Reservation) \union {Null}

BInv ==
  /\ Typed
  /\ Sound(stored) /\ Sound(Load)
  /\ Tells(stored) /\ Tells(Load)
  /\ Behind(Load, stored)

LEMMA BInvMeans == BInv => TypeOK /\ BudgetKept
BY DEF BInv, Typed, Sound, Tells, Matches, Clean, Within, TypeOK, BudgetKept, SpendWithinLimit, ToldIsStored

LEMMA BInvInit == Init => BInv
<1> SUFFICES ASSUME Init PROVE BInv OBVIOUS
<1>1. stored = <<>> /\ Load = <<>> BY DEF Init, Load
<1>2. Typed BY BudgetAssumption DEF Init, Typed
<1>3. Sound(<<>>)
  <2>1. <<>> \in Seq(Reservation) /\ Len(<<>>) = 0 OBVIOUS
  <2>2. Charged(<<>>) = 0 /\ Overshoot(<<>>) = 0
    BY <2>1, ChargesTyped, TotalEmpty, Sums
  <2>3. maximumTokens \in Nat BY <1>2, BudgetAssumption DEF Typed
  <2>4. Within(<<>>, maximumTokens) BY <2>2, <2>3 DEF Within
  <2> QED BY <2>1, <2>4 DEF Sound
<1>4. Tells(<<>>) BY DEF Init, Tells
<1>5. Behind(<<>>, <<>>) BY DEF Behind
<1> QED BY <1>1, <1>2, <1>3, <1>4, <1>5 DEF BInv

LEMMA MatchesItself == \A r : Matches(r, r)
BY DEF Matches

\* Committing reservations that are sound and lose nothing.
LEMMA CommitKeeps ==
  ASSUME BInv, NEW rs, Sound(rs), Tells(rs), Behind(Load, rs),
         NEW o \in Outcome, Commit(rs, o), Count(o),
         NEW i \in Id, NEW r \in Reservation, Tell(i, r, o), Clean(r),
         i \in 1..Len(rs), Matches(r, rs[i])
  PROVE  BInv'
<1>1. o \in {"saved", "failed", "late"} BY DEF Outcome
<1>2. UNCHANGED <<maximumTokens, crashes>> BY DEF Commit, Count
<1>3. Load \in Seq(Reservation) /\ Load # Null /\ rs \in Seq(Reservation) /\ rs # Null
  BY BudgetAssumption DEF BInv, Sound
<1>4. faults' \in 0..MaxFaults
  BY <1>1, BudgetAssumption DEF Count, Outcome, BInv, Typed
<1>6. CASE o = "saved"
  <2>1. stored' = rs /\ state' = rs /\ Load' = rs BY <1>3, <1>6 DEF Commit, Load
  <2>2. told' = [told EXCEPT ![i] = r] BY <1>6 DEF Tell
  <2>3. Typed' BY <1>2, <1>3, <1>4, <2>1, <2>2 DEF BInv, Typed
  <2>4. Tells(stored)' /\ Tells(Load)'
    BY <2>1, <2>2 DEF Tells, BInv, Typed
  <2>5. Behind(rs, rs) BY <1>3, MatchesItself DEF Behind
  <2> QED BY <1>2, <2>1, <2>3, <2>4, <2>5 DEF BInv, Sound, Behind
<1>7. CASE o # "saved"
  <2>1. state' = Load /\ Load' = Load BY <1>3, <1>7 DEF Commit, Load
  <2>2. stored' = stored \/ stored' = rs BY DEF Commit
  <2>3. told' = told BY <1>7 DEF Tell
  <2>4. Typed' BY <1>2, <1>3, <1>4, <2>1, <2>3 DEF BInv, Typed
  <2>5. Tells(stored)' /\ Tells(Load)' BY <2>1, <2>2, <2>3 DEF Tells, BInv
  <2>6. Behind(Load, stored)' BY <2>1, <2>2 DEF Behind, BInv
  <2>7. Sound(stored)' /\ Sound(Load)' BY <1>2, <2>1, <2>2 DEF Sound, BInv
  <2> QED BY <2>4, <2>5, <2>6, <2>7 DEF BInv
<1> QED BY <1>6, <1>7

\* An operation that only loads, and whose caller hears what is in the copy.
LEMMA LoadKeeps ==
  ASSUME BInv, Unchanged, UNCHANGED <<faults, crashes>>,
         \/ UNCHANGED told
         \/ \E i \in Id : /\ told[i] # Null
                          /\ told'[i] \in Reservation /\ Clean(told'[i])
                          /\ Matches(told'[i], Load[i])
                          /\ told' = [told EXCEPT ![i] = told'[i]]
  PROVE  BInv'
<1>1. Load \in Seq(Reservation) /\ Load # Null BY BudgetAssumption DEF BInv, Sound
<1>2. state' = Load /\ Load' = Load /\ UNCHANGED <<stored, maximumTokens>>
  BY <1>1 DEF Unchanged, Load
<1>3. Typed'
  <2>1. CASE UNCHANGED told BY <1>1, <1>2, <2>1 DEF BInv, Typed
  <2>2. CASE ~UNCHANGED told
    <3>1. PICK i \in Id : /\ told'[i] \in Reservation /\ Clean(told'[i])
                          /\ told' = [told EXCEPT ![i] = told'[i]]
      BY <2>2
    <3>2. told' \in [Id -> Reservation \union {Null}] /\ \A j \in Id : j # i => told'[j] = told[j]
      BY <3>1 DEF BInv, Typed
    <3>3. \A j \in Id : told'[j] # Null => Clean(told'[j]) BY <3>1, <3>2 DEF BInv, Typed
    <3> HIDE DEF Clean
    <3> QED BY <1>1, <1>2, <3>2, <3>3 DEF BInv, Typed
  <2> QED BY <2>1, <2>2
<1>4. Tells(Load)' /\ Tells(stored)'
  <2>1. CASE UNCHANGED told BY <1>2, <2>1 DEF BInv, Tells
  <2>2. CASE ~UNCHANGED told
    <3>1. PICK i \in Id : told[i] # Null /\ Matches(told'[i], Load[i]) /\ told' = [told EXCEPT ![i] = told'[i]]
      BY <2>2
    <3>2. i \in 1..Len(Load) /\ i \in 1..Len(stored) /\ Matches(Load[i], stored[i])
      BY <3>1 DEF BInv, Tells, Behind
    <3>3. Matches(told'[i], stored[i]) BY <3>1, <3>2 DEF Matches
    <3>4. \A j \in Id : j # i => told'[j] = told[j] BY <3>1 DEF BInv, Typed
    <3> QED BY <1>2, <3>1, <3>2, <3>3, <3>4 DEF BInv, Tells
  <2> QED BY <2>1, <2>2
<1>5. Sound(stored)' /\ Sound(Load)' /\ Behind(Load, stored)'
  BY <1>2 DEF BInv, Sound, Behind
<1> QED BY <1>3, <1>4, <1>5 DEF BInv

----------------------------------------------------------------------------
(* The operations.                                                         *)

LEMMA ReserveKeeps ==
  ASSUME BInv, NEW a \in Activity, NEW n \in Estimate, Reserve(a, n)
  PROVE  BInv'
<1> DEFINE r == [activity |-> a, estimated |-> n, usage |-> Null, released |-> FALSE]
           k == Len(Load) + 1
           rs == Append(Load, r)
<1>1. CASE ~Admits(n) /\ Unchanged /\ UNCHANGED <<told, faults, crashes>>
  BY <1>1, LoadKeeps
<1>2. ASSUME NEW o \in Outcome, Admit(a, n, o), Tell(k, r, o), Count(o) PROVE BInv'
  <2>1. Load \in Seq(Reservation) /\ Len(Load) \in Nat BY DEF BInv, Sound
  <2>2. r \in Reservation /\ Clean(r) BY DEF Reservation, Clean
  <2>3. k \in Id BY <2>1, BudgetAssumption DEF Reserve, Id
  <2>4. rs \in Seq(Reservation) /\ Len(rs) = k /\ rs[k] = r
        /\ \A i \in 1..Len(Load) : rs[i] = Load[i]
    BY <2>1, <2>2
  <2>5. Sound(rs)
    <3>1. \A i \in 1..Len(rs) : Clean(rs[i]) BY <2>1, <2>2, <2>4 DEF BInv, Sound
    <3>2. maximumTokens \in Nat BY BudgetAssumption DEF BInv, Typed
    <3>3. r.estimated <= maximumTokens - Charged(Load) BY <1>2 DEF Admit, Admits
    <3>4. Within(rs, maximumTokens) BY <2>1, <2>2, <3>2, <3>3, WithinAppend
    <3> QED BY <2>4, <3>1, <3>4 DEF Sound
  <2>6. Tells(rs) BY <2>1, <2>4 DEF BInv, Tells
  <2>7. Behind(Load, rs) BY <2>1, <2>4, MatchesItself DEF Behind
  <2>8. Commit(rs, o) BY <1>2 DEF Admit
  <2>9. k \in 1..Len(rs) /\ Matches(r, rs[k]) BY <2>1, <2>4, MatchesItself
  <2> HIDE DEF r, k, rs
  <2> QED BY <1>2, <2>2, <2>3, <2>5, <2>6, <2>7, <2>8, <2>9, CommitKeeps
<1> QED BY <1>1, <1>2 DEF Reserve

\* Settling one reservation, by its usage or its release.
LEMMA SettleKeeps ==
  ASSUME BInv, NEW i \in Id, told[i] # Null, i \in 1..Len(Load),
         ~Load[i].released, Load[i].usage = Null,
         NEW r \in Reservation, Clean(r), Matches(Load[i], r),
         NEW t \in Reservation, Clean(t), Matches(t, r),
         NEW o \in Outcome, Commit([Load EXCEPT ![i] = r], o), Count(o), Tell(i, t, o)
  PROVE  BInv'
<1> DEFINE rs == [Load EXCEPT ![i] = r]
<1>1. Load \in Seq(Reservation) /\ Len(Load) \in Nat BY DEF BInv, Sound
<1>2. rs \in Seq(Reservation) /\ Len(rs) = Len(Load) /\ rs[i] = r
      /\ \A j \in 1..Len(Load) : j # i => rs[j] = Load[j]
  BY <1>1
<1>3. Sound(rs)
  <2>1. \A j \in 1..Len(rs) : Clean(rs[j]) BY <1>2 DEF BInv, Sound
  <2>2. maximumTokens \in Nat BY BudgetAssumption DEF BInv, Typed
  <2>3. r.estimated = Load[i].estimated BY DEF Matches
  <2>4. Within(Load, maximumTokens) BY DEF BInv, Sound
  <2>5. Within(rs, maximumTokens) BY <1>1, <2>2, <2>3, <2>4, WithinSettled
  <2> QED BY <1>2, <2>1, <2>5 DEF Sound
<1>4. Tells(rs)
  <2> SUFFICES ASSUME NEW j \in Id, told[j] # Null
               PROVE  j \in 1..Len(rs) /\ Matches(told[j], rs[j])
    BY DEF Tells
  <2>1. j \in 1..Len(Load) /\ Matches(told[j], Load[j]) BY DEF BInv, Tells
  <2>2. CASE j = i BY <1>2, <2>1, <2>2 DEF Matches
  <2>3. CASE j # i BY <1>2, <2>1, <2>3
  <2> QED BY <2>2, <2>3
<1>5. Behind(Load, rs)
  <2>1. \A j \in 1..Len(Load) : Matches(Load[j], rs[j]) BY <1>2, MatchesItself
  <2> QED BY <1>1, <1>2, <2>1 DEF Behind
<1>6. i \in 1..Len(rs) /\ Matches(t, rs[i]) BY <1>2
<1> HIDE DEF rs
<1>7. Commit(rs, o) BY DEF rs
<1> QED BY <1>3, <1>4, <1>5, <1>6, <1>7, CommitKeeps

\* What a caller was told of a reservation that is open in the copy is open too.
LEMMA ToldOpen ==
  ASSUME BInv, NEW i \in Id, told[i] # Null
  PROVE  /\ i \in 1..Len(Load) /\ Load[i] \in Reservation /\ told[i] \in Reservation
         /\ Matches(told[i], Load[i])
<1>1. i \in 1..Len(Load) /\ Matches(told[i], Load[i]) BY DEF BInv, Tells
<1>2. Load[i] \in Reservation BY <1>1 DEF BInv, Sound
<1>3. told[i] \in Reservation BY DEF BInv, Typed
<1> QED BY <1>1, <1>2, <1>3

LEMMA RecordActualKeeps ==
  ASSUME BInv, NEW a \in Activity, NEW i \in Id, NEW u \in Usage, RecordActual(a, i, u)
  PROVE  BInv'
<1>0. told[i] # Null BY DEF RecordActual
<1>1. /\ i \in 1..Len(Load) /\ Load[i] \in Reservation /\ told[i] \in Reservation
      /\ Matches(told[i], Load[i])
  BY <1>0, ToldOpen
<1> DEFINE t == [told[i] EXCEPT !.usage = u]
<1>2. t \in Reservation BY <1>1 DEF Reservation
<1>3. CASE \E o \in Outcome : /\ Known(a, i) /\ Unsettled(i) /\ RecordUsage(i, u, o)
                              /\ Tell(i, t, o) /\ Count(o)
  <2>1. PICK o \in Outcome : /\ Known(a, i) /\ Unsettled(i) /\ RecordUsage(i, u, o)
                             /\ Tell(i, t, o) /\ Count(o)
    BY <1>3
  <2> DEFINE r == [Load[i] EXCEPT !.usage = u]
  <2>2. ~Load[i].released /\ Load[i].usage = Null BY <2>1 DEF Unsettled
  <2>3. r \in Reservation /\ Clean(r) /\ Matches(Load[i], r)
    BY <1>1, <2>2 DEF Reservation, Clean, Matches
  <2>4. Clean(t) /\ Matches(t, r) BY <1>1, <2>2 DEF Reservation, Clean, Matches
  <2>5. Commit([Load EXCEPT ![i] = r], o) BY <2>1 DEF RecordUsage
  <2> HIDE DEF r, t
  <2> QED BY <1>0, <1>1, <1>2, <2>1, <2>2, <2>3, <2>4, <2>5, SettleKeeps
<1>4. CASE /\ Known(a, i) /\ ~Load[i].released /\ Load[i].usage = u
           /\ Unchanged /\ told' = [told EXCEPT ![i].usage = u]
           /\ UNCHANGED <<faults, crashes>>
  <2>1. Clean(t) /\ Matches(t, Load[i]) BY <1>1, <1>4 DEF Reservation, Clean, Matches
  <2>2. told' = [told EXCEPT ![i] = t] /\ told'[i] = t BY <1>4 DEF BInv, Typed
  <2> HIDE DEF t
  <2> QED BY <1>0, <1>2, <1>4, <2>1, <2>2, LoadKeeps
<1>5. CASE Unchanged /\ UNCHANGED <<told, faults, crashes>> BY <1>5, LoadKeeps
<1> QED BY <1>3, <1>4, <1>5 DEF RecordActual

LEMMA ReleaseKeeps ==
  ASSUME BInv, NEW a \in Activity, NEW i \in Id, Release(a, i)
  PROVE  BInv'
<1>0. told[i] # Null BY DEF Release
<1>1. /\ i \in 1..Len(Load) /\ Load[i] \in Reservation /\ told[i] \in Reservation
      /\ Matches(told[i], Load[i])
  BY <1>0, ToldOpen
<1> DEFINE t == [told[i] EXCEPT !.released = TRUE]
<1>2. t \in Reservation BY <1>1 DEF Reservation
<1>3. CASE \E o \in Outcome : /\ Known(a, i) /\ Unsettled(i) /\ ReleaseIt(i, o)
                              /\ Tell(i, t, o) /\ Count(o)
  <2>1. PICK o \in Outcome : /\ Known(a, i) /\ Unsettled(i) /\ ReleaseIt(i, o)
                             /\ Tell(i, t, o) /\ Count(o)
    BY <1>3
  <2> DEFINE r == [Load[i] EXCEPT !.released = TRUE]
  <2>2. ~Load[i].released /\ Load[i].usage = Null BY <2>1 DEF Unsettled
  <2>3. r \in Reservation /\ Clean(r) /\ Matches(Load[i], r)
    BY <1>1, <2>2 DEF Reservation, Clean, Matches
  <2>4. Clean(t) /\ Matches(t, r) BY <1>1, <2>2 DEF Reservation, Clean, Matches
  <2>5. Commit([Load EXCEPT ![i] = r], o) BY <2>1 DEF ReleaseIt
  <2> HIDE DEF r, t
  <2> QED BY <1>0, <1>1, <1>2, <2>1, <2>2, <2>3, <2>4, <2>5, SettleKeeps
<1>4. CASE /\ Known(a, i) /\ Load[i].released
           /\ Unchanged /\ told' = [told EXCEPT ![i].released = TRUE]
           /\ UNCHANGED <<faults, crashes>>
  <2>0. Clean(Load[i]) BY <1>1 DEF BInv, Sound
  <2>1. Clean(t) /\ Matches(t, Load[i]) BY <1>1, <1>4, <2>0 DEF Reservation, Clean, Matches
  <2>2. told' = [told EXCEPT ![i] = t] /\ told'[i] = t BY <1>4 DEF BInv, Typed
  <2> HIDE DEF t
  <2> QED BY <1>0, <1>2, <1>4, <2>1, <2>2, LoadKeeps
<1>5. CASE Unchanged /\ UNCHANGED <<told, faults, crashes>> BY <1>5, LoadKeeps
<1> QED BY <1>3, <1>4, <1>5 DEF Release

LEMMA RestartKeeps ==
  ASSUME BInv, NEW limit \in Limit, Restart(limit)
  PROVE  BInv'
<1>1. Load' = stored /\ UNCHANGED <<stored, told, faults>> /\ maximumTokens' = limit
  BY DEF Restart, Load
<1>2. Typed' BY BudgetAssumption DEF Restart, BInv, Typed
<1>3. Sound(stored)'
  <2>1. Charged(stored) \in Int /\ Overshoot(stored) \in Int
    BY Sums, ChargesTyped, TotalNonnegative DEF BInv, Sound
  <2>2. maximumTokens \in Nat /\ limit \in Nat /\ limit >= maximumTokens
    BY BudgetAssumption DEF BInv, Typed, Restart
  <2>3. Within(stored, limit) BY <2>1, <2>2 DEF Within, BInv, Sound
  <2> QED BY <1>1, <2>3 DEF Sound, BInv, Within, Charged, Overshoot
<1>4. Tells(stored)' BY <1>1 DEF BInv, Tells
<1>5. Behind(stored, stored)' BY <1>1, MatchesItself DEF BInv, Sound, Behind
<1> QED BY <1>1, <1>2, <1>3, <1>4, <1>5 DEF BInv, Sound, Tells, Behind

LEMMA BInvStep == BInv /\ [Next]_vars => BInv'
<1> SUFFICES ASSUME BInv, [Next]_vars PROVE BInv' OBVIOUS
<1>1. ASSUME NEW a \in Activity, NEW n \in Estimate, Reserve(a, n) PROVE BInv'
  BY <1>1, ReserveKeeps
<1>2. ASSUME NEW a \in Activity, NEW i \in Id, NEW u \in Usage, RecordActual(a, i, u) PROVE BInv'
  BY <1>2, RecordActualKeeps
<1>3. ASSUME NEW a \in Activity, NEW i \in Id, Release(a, i) PROVE BInv'
  BY <1>3, ReleaseKeeps
<1>4. ASSUME NEW limit \in Limit, Restart(limit) PROVE BInv' BY <1>4, RestartKeeps
<1>5. CASE UNCHANGED vars
  <2>1. Typed' BY <1>5 DEF vars, BInv, Typed
  <2>2. Load' = Load BY <1>5 DEF vars, Load
  <2> QED BY <1>5, <2>1, <2>2 DEF vars, BInv, Sound, Tells, Behind
<1> QED BY <1>1, <1>2, <1>3, <1>4, <1>5 DEF Next

LEMMA BudgetInvariant == Spec => []BInv
BY BInvInit, BInvStep, PTL DEF Spec

\* No run admits more than its limit, and nothing a caller was told of its
\* attempts is lost, for every sequence of reservations, reports, releases,
\* failing saves and restarts (token-budget.ts).
THEOREM BudgetIsKept == Spec => [](TypeOK /\ BudgetKept)
BY BudgetInvariant, BInvMeans, PTL

----------------------------------------------------------------------------
(* The calls.                                                              *)

\* A call between its reservation and the end of the attempt.
Open == {"acquire", "sending", "stopping", "recording", "caught"}

\* The errors that leave a send running, and end the call for that reason.
Leaves == {"still_running", "cancelled"}

\* Nothing this call has sent is still running.
Quiet(a) ==
  \/ pc[a] \in {"top", "reserve", "acquire", "backoff", "recording"}
  \/ pc[a] = "caught" /\ err[a] \notin Leaves

\* The attempt under way has consumed nothing, and will not.
Unsent(a) == pc[a] = "acquire" \/ (pc[a] = "caught" /\ ConsumedNothing(err[a]))

CallState == Ended \union Open \union {"top", "reserve", "backoff"}
Error == SendError \union Leaves \union {"none", "timeout", "left_running", "not_dispatched", "unknown"}

CallsTyped ==
  /\ pc \in [Activity -> CallState] /\ err \in [Activity -> Error]
  /\ current \in [Activity -> 0..MaxReservations] /\ mine \in [Activity -> SUBSET Id]

Belongs(i, a) == i \in Id /\ told[i] # Null /\ told[i].activity = a

\* What holds of one call, whatever the others do.
CallInv(a) ==
  /\ pc[a] \in Open =>
       /\ Belongs(current[a], a)
       /\ ~Load[current[a]].released /\ Load[current[a]].usage = Null
  /\ pc[a] = "acquire" =>
       ~stored[current[a]].released /\ stored[current[a]].usage = Null
  /\ pc[a] \in {"sending", "stopping"} =>
       current[a] \in running /\ mine[a] \intersect running \subseteq {current[a]}
  /\ pc[a] \in Open /\ Quiet(a) => current[a] \notin running
  /\ Unsent(a) => paid[current[a]] = 0
  /\ \A x \in mine[a] : Belongs(x, a)
  /\ \A x, y \in mine[a] \intersect running : x = y
  /\ Quiet(a) => mine[a] \intersect running = {}

\* A reservation whose attempt was sent is charged for all it may have consumed.
Kept(r, i) ==
  /\ ~r.released
  /\ r.usage = Null \/ (i \notin running /\ (r.usage.complete => r.usage.tokens = paid[i]))

SentInv ==
  /\ running \subseteq Id /\ paid \in [Id -> 0..EstimatedTokens]
  /\ \A i \in Id : told[i] # Null => told[i].estimated = EstimatedTokens
  /\ \A i \in Id : i \in running \/ paid[i] > 0 =>
       told[i] # Null /\ Kept(stored[i], i) /\ Kept(Load[i], i)

PInv ==
  /\ BInv /\ CallsTyped /\ SentInv
  /\ \A a \in Activity : CallInv(a)

-----------------------------------------------------------------------------
LEMMA PInvInit == InvocationInit => PInv
<1> SUFFICES ASSUME InvocationInit PROVE PInv OBVIOUS
<1> USE DEF InvocationInit
<1>1. BInv BY BInvInit
<1>2. CallsTyped
  <2>1. pc \in [Activity -> CallState] /\ err \in [Activity -> Error]
    BY DEF CallState, Ended, Error
  <2>2. 0 \in 0..MaxReservations BY BudgetAssumption
  <2>3. current \in [Activity -> 0..MaxReservations] /\ mine \in [Activity -> SUBSET Id]
    BY <2>2
  <2> QED BY <2>1, <2>3 DEF CallsTyped
<1>3. SentInv
  <2>1. EstimatedTokens \in Nat BY BudgetAssumption, InvocationAssumption
  <2>2. paid \in [Id -> 0..EstimatedTokens] /\ \A i \in Id : ~(paid[i] > 0) BY <2>1
  <2> QED BY <2>2 DEF SentInv, Init
<1>4. ASSUME NEW a \in Activity PROVE CallInv(a)
  BY DEF CallInv, Open, Unsent, Quiet
<1> QED BY <1>1, <1>2, <1>3, <1>4 DEF PInv

\* The part of the budget that belongs to a call is there, in the copy and on disk.
LEMMA BelongsIsLoaded ==
  ASSUME BInv, NEW a \in Activity, NEW i, Belongs(i, a)
  PROVE  /\ i \in 1..Len(Load) /\ i \in 1..Len(stored)
         /\ Load[i] \in Reservation /\ stored[i] \in Reservation
         /\ Load[i].activity = a /\ Known(a, i) /\ told[i] \in Reservation
<1>1. i \in Id /\ told[i] # Null /\ told[i].activity = a BY DEF Belongs
<1>2. i \in 1..Len(Load) /\ i \in 1..Len(stored) /\ Matches(told[i], Load[i])
  BY <1>1 DEF BInv, Tells
<1>3. Load \in Seq(Reservation) /\ stored \in Seq(Reservation) BY DEF BInv, Sound
<1>4. told[i] \in Reservation BY <1>1 DEF BInv, Typed
<1> QED BY <1>1, <1>2, <1>3, <1>4 DEF Matches, Known

\* What a step of one call leaves another call.
Untouched(b) ==
  /\ pc'[b] = pc[b] /\ err'[b] = err[b] /\ current'[b] = current[b] /\ mine'[b] = mine[b]
  /\ \A i \in Id : Belongs(i, b) =>
       /\ Belongs(i, b)'
       /\ Load'[i].released = Load[i].released /\ Load'[i].usage = Load[i].usage
       /\ stored'[i] = stored[i] \/ stored'[i] = Load[i]
       /\ (i \in running' <=> i \in running) /\ paid'[i] = paid[i]

LEMMA OtherCallKept ==
  ASSUME NEW b \in Activity, CallInv(b), Untouched(b)
  PROVE  CallInv(b)'
<1>1. pc[b] \in Open => Belongs(current[b], b) /\ current[b] \in Id BY DEF CallInv, Belongs
<1>2. \A x \in mine[b] : Belongs(x, b) /\ x \in Id BY DEF CallInv, Belongs
<1>3. Quiet(b)' = Quiet(b) /\ Unsent(b)' = Unsent(b)
  BY DEF Quiet, Unsent, Untouched, ConsumedNothing
<1>4. Unsent(b) => pc[b] \in Open BY DEF Unsent, Open
<1>5. mine'[b] \intersect running' = mine[b] \intersect running
  BY <1>2 DEF Untouched
<1>6. /\ pc'[b] = pc[b] /\ current'[b] = current[b] /\ mine'[b] = mine[b]
      /\ \A i \in Id : Belongs(i, b) =>
           /\ Belongs(i, b)'
           /\ Load'[i].released = Load[i].released /\ Load'[i].usage = Load[i].usage
           /\ stored'[i] = stored[i] \/ stored'[i] = Load[i]
           /\ (i \in running' <=> i \in running) /\ paid'[i] = paid[i]
  BY DEF Untouched
<1>7. pc'[b] \in Open =>
        /\ Belongs(current[b], b)'
        /\ ~Load'[current'[b]].released /\ Load'[current'[b]].usage = Null
        /\ (current'[b] \in running' <=> current[b] \in running)
        /\ paid'[current'[b]] = paid[current[b]]
        /\ pc'[b] = "acquire" =>
             ~stored'[current'[b]].released /\ stored'[current'[b]].usage = Null
  BY <1>1, <1>6 DEF CallInv, Belongs
<1>8. \A x \in mine'[b] : Belongs(x, b)' BY <1>2, <1>6 DEF Belongs
<1>9. pc'[b] \in {"acquire", "sending", "stopping"} => pc'[b] \in Open /\ pc[b] \in Open BY <1>6 DEF Open
<1> QED BY <1>3, <1>4, <1>5, <1>6, <1>7, <1>8, <1>9 DEF CallInv

LEMMA StepOfOneCall ==
  ASSUME PInv, NEW a \in Activity, BInv', CallsTyped', SentInv', CallInv(a)',
         \A b \in Activity : b # a => Untouched(b)
  PROVE  PInv'
<1>1. ASSUME NEW b \in Activity PROVE CallInv(b)'
  <2>1. CASE b = a BY <2>1
  <2>2. CASE b # a
    <3>1. CallInv(b) /\ Untouched(b) BY <2>2 DEF PInv
    <3> QED BY <3>1, OtherCallKept
  <2> QED BY <2>1, <2>2
<1> QED BY <1>1 DEF PInv

LEMMA BudgetStill ==
  ASSUME BInv, UNCHANGED vars
  PROVE  BInv' /\ Load' = Load /\ stored' = stored /\ told' = told
<1>1. BInv' BY BInvStep
<1> QED BY <1>1 DEF vars, Load

Elsewhere(a) ==
  \A b \in Activity : b # a =>
    pc'[b] = pc[b] /\ err'[b] = err[b] /\ current'[b] = current[b] /\ mine'[b] = mine[b]

\* A step that changes only where its call stands.
LEMMA LocalStep ==
  ASSUME PInv, NEW a \in Activity, UNCHANGED <<vars, running, paid>>,
         Elsewhere(a), CallsTyped', CallInv(a)'
  PROVE  PInv'
<1>1. BInv' /\ Load' = Load /\ stored' = stored /\ told' = told BY BudgetStill DEF PInv
<1>2. SentInv' BY <1>1 DEF PInv, SentInv, Kept
<1>3. ASSUME NEW b \in Activity, b # a PROVE Untouched(b)
  BY <1>1, <1>3 DEF Untouched, Elsewhere, Belongs
<1> QED BY <1>1, <1>2, <1>3, StepOfOneCall

LEMMA LocalActions ==
  ASSUME PInv, NEW a \in Activity,
         \/ Invoke(a) \/ Awake(a) \/ AcquireCancelled(a) \/ SendCancelled(a)
         \/ Timeout(a) \/ StillRunning(a) \/ Backoff(a) \/ Abort(a)
  PROVE  PInv'
<1>0. CallsTyped /\ CallInv(a) /\ BInv BY DEF PInv
<1> USE DEF Goto, Throw, provider, host, CallsTyped, CallState, Open, Ended, Error, Leaves
<1>1. CASE Invoke(a)
  <2>1. /\ UNCHANGED <<vars, running, paid, err, current>>
        /\ pc' = [pc EXCEPT ![a] = "top"] /\ mine' = [mine EXCEPT ![a] = {}]
    BY <1>1 DEF Invoke
  <2>2. CallsTyped' BY <1>0, <2>1
  <2>3. CallInv(a)' BY <1>0, <2>1 DEF CallInv, Unsent
  <2>4. Elsewhere(a) BY <1>0, <2>1 DEF Elsewhere
  <2> QED BY <2>1, <2>2, <2>3, <2>4, LocalStep
<1>2. CASE Awake(a)
  <2>1. /\ UNCHANGED <<vars, running, paid, err, current, mine>> /\ pc[a] = "top"
        /\ \E s \in {"failed", "reserve"} : pc' = [pc EXCEPT ![a] = s]
    BY <1>2 DEF Awake
  <2>2. CallsTyped' BY <1>0, <2>1
  <2>3. CallInv(a)' BY <1>0, <2>1, BudgetStill DEF CallInv, Unsent, Quiet, Belongs
  <2>4. Elsewhere(a) BY <1>0, <2>1 DEF Elsewhere
  <2> QED BY <2>1, <2>2, <2>3, <2>4, LocalStep
<1>3. CASE Backoff(a)
  <2>1. /\ UNCHANGED <<vars, running, paid, err, current, mine>> /\ pc[a] = "backoff"
        /\ \E s \in {"failed", "top"} : pc' = [pc EXCEPT ![a] = s]
    BY <1>3 DEF Backoff
  <2>2. CallsTyped' BY <1>0, <2>1
  <2>3. CallInv(a)' BY <1>0, <2>1, BudgetStill DEF CallInv, Unsent, Quiet, Belongs
  <2>4. Elsewhere(a) BY <1>0, <2>1 DEF Elsewhere
  <2> QED BY <2>1, <2>2, <2>3, <2>4, LocalStep
<1>4. CASE AcquireCancelled(a)
  <2>1. /\ UNCHANGED <<vars, running, paid, current, mine>> /\ pc[a] = "acquire"
        /\ pc' = [pc EXCEPT ![a] = "caught"] /\ err' = [err EXCEPT ![a] = "not_dispatched"]
    BY <1>4 DEF AcquireCancelled
  <2>2. CallsTyped' BY <1>0, <2>1
  <2>3. CallInv(a)' BY <1>0, <2>1, BudgetStill DEF CallInv, Unsent, Quiet, Belongs
  <2>4. Elsewhere(a) BY <1>0, <2>1 DEF Elsewhere
  <2> QED BY <2>1, <2>2, <2>3, <2>4, LocalStep
<1>5. CASE SendCancelled(a) \/ StillRunning(a)
  <2>1. /\ UNCHANGED <<vars, running, paid, current, mine>> /\ pc[a] \in {"sending", "stopping"}
        /\ pc' = [pc EXCEPT ![a] = "caught"]
        /\ \E e \in Leaves : err' = [err EXCEPT ![a] = e]
    BY <1>5 DEF SendCancelled, StillRunning
  <2>2. CallsTyped' BY <1>0, <2>1
  <2>3. CallInv(a)' BY <1>0, <2>1, BudgetStill DEF CallInv, Unsent, Quiet, Belongs, ConsumedNothing
  <2>4. Elsewhere(a) BY <1>0, <2>1 DEF Elsewhere
  <2> QED BY <2>1, <2>2, <2>3, <2>4, LocalStep
<1>6. CASE Timeout(a)
  <2>1. /\ UNCHANGED <<vars, running, paid, err, current, mine>> /\ pc[a] = "sending"
        /\ pc' = [pc EXCEPT ![a] = "stopping"]
    BY <1>6 DEF Timeout
  <2>2. CallsTyped' BY <1>0, <2>1
  <2>3. CallInv(a)' BY <1>0, <2>1, BudgetStill DEF CallInv, Unsent, Quiet, Belongs
  <2>4. Elsewhere(a) BY <1>0, <2>1 DEF Elsewhere
  <2> QED BY <2>1, <2>2, <2>3, <2>4, LocalStep
<1>7. CASE Abort(a)
  <2>1. UNCHANGED <<vars, running, paid, pc, err, current, mine>> BY <1>7 DEF Abort
  <2>2. CallsTyped' BY <1>0, <2>1
  <2>3. CallInv(a)' BY <1>0, <2>1, BudgetStill DEF CallInv, Unsent, Quiet, Belongs
  <2>4. Elsewhere(a) BY <2>1 DEF Elsewhere
  <2> QED BY <2>1, <2>2, <2>3, <2>4, LocalStep
<1> QED BY <1>1, <1>2, <1>3, <1>4, <1>5, <1>6, <1>7

-----------------------------------------------------------------------------
(* Sends begin and end.                                                    *)

LEMMA DispatchKeeps ==
  ASSUME PInv, NEW a \in Activity, Dispatch(a)
  PROVE  PInv'
<1> DEFINE i == current[a]
<1>0. CallsTyped /\ CallInv(a) /\ BInv /\ SentInv BY DEF PInv
<1>1. /\ UNCHANGED <<vars, current, err, paid>> /\ pc[a] = "acquire"
      /\ pc' = [pc EXCEPT ![a] = "sending"] /\ mine' = [mine EXCEPT ![a] = @ \union {i}]
      /\ running' = running \union {i}
  BY DEF Dispatch, Goto
<1>2. BInv' /\ Load' = Load /\ stored' = stored /\ told' = told BY <1>0, <1>1, BudgetStill
<1>3. /\ Belongs(i, a) /\ ~Load[i].released /\ Load[i].usage = Null
      /\ paid[i] = 0 /\ i \notin running /\ mine[a] \intersect running = {}
  BY <1>0, <1>1 DEF CallInv, Open, Quiet, Unsent
<1>4. i \in Id /\ told[i] # Null BY <1>3 DEF Belongs
<1>5. CallsTyped' BY <1>0, <1>1, <1>4 DEF CallsTyped, CallState, Open
<1>6. SentInv'
  <2>1. ~stored[i].released /\ stored[i].usage = Null
    BY <1>0, <1>1 DEF CallInv
  <2> QED BY <1>0, <1>1, <1>2, <1>3, <1>4, <2>1 DEF SentInv, Kept
<1>7. CallInv(a)'
  BY <1>0, <1>1, <1>2, <1>3 DEF CallInv, Belongs, Quiet, Unsent, Open, CallsTyped
<1>8. ASSUME NEW b \in Activity, b # a PROVE Untouched(b)
  BY <1>0, <1>1, <1>2, <1>3, <1>8 DEF Untouched, Belongs, CallsTyped
<1> QED BY <1>2, <1>5, <1>6, <1>7, <1>8, StepOfOneCall

\* The send of the attempt under way stops, having consumed something or nothing.
LEMMA SendEnds ==
  ASSUME PInv, NEW a \in Activity, pc[a] \in {"sending", "stopping"},
         UNCHANGED <<vars, current, mine>>,
         NEW n \in 0..EstimatedTokens, paid' = [paid EXCEPT ![current[a]] = n],
         running' = running \ {current[a]},
         \/ pc' = [pc EXCEPT ![a] = "recording"] /\ UNCHANGED err
         \/ /\ pc' = [pc EXCEPT ![a] = "caught"]
            /\ \E e \in Error \ Leaves : /\ err' = [err EXCEPT ![a] = e]
                                         /\ ConsumedNothing(e) => n = 0
  PROVE  PInv'
<1> DEFINE i == current[a]
<1>0. CallsTyped /\ CallInv(a) /\ BInv /\ SentInv BY DEF PInv
<1>2. BInv' /\ Load' = Load /\ stored' = stored /\ told' = told BY <1>0, BudgetStill
<1>3. /\ Belongs(i, a) /\ ~Load[i].released /\ Load[i].usage = Null
      /\ i \in running /\ mine[a] \intersect running \subseteq {i}
  BY <1>0 DEF CallInv, Open
<1>4. i \in Id BY <1>3 DEF Belongs
<1>5. CallsTyped' BY <1>0 DEF CallsTyped, CallState, Open
<1>6. SentInv'
  <2>1. running' \subseteq Id /\ paid' \in [Id -> 0..EstimatedTokens] /\ paid'[i] = n
        /\ \A j \in Id : j # i => paid'[j] = paid[j] /\ (j \in running' <=> j \in running)
    BY <1>0, <1>4 DEF SentInv
  <2>2. told[i] # Null /\ Kept(stored[i], i) /\ Kept(Load[i], i) BY <1>0, <1>3, <1>4 DEF SentInv
  <2>3. ~stored[i].released /\ stored[i].usage = Null BY <1>3, <2>2 DEF Kept
  <2> QED BY <1>0, <1>2, <1>3, <2>1, <2>2, <2>3 DEF SentInv, Kept
<1>7. CallInv(a)'
  <2>1. paid'[i] = n /\ mine'[a] \intersect running' = {} /\ i \notin running'
    BY <1>0, <1>3, <1>4 DEF SentInv
  <2>2. Belongs(i, a)' /\ ~Load'[i].released /\ Load'[i].usage = Null
    BY <1>2, <1>3 DEF Belongs
  <2>3. \A x \in mine'[a] : Belongs(x, a)' BY <1>0, <1>2 DEF CallInv, Belongs
  <2>4. Unsent(a)' => n = 0 BY <1>0 DEF Unsent, CallsTyped, ConsumedNothing
  <2>5. pc'[a] \notin {"acquire", "sending", "stopping"} /\ current'[a] = i BY <1>0 DEF CallsTyped
  <2> QED BY <2>1, <2>2, <2>3, <2>4, <2>5 DEF CallInv, Belongs
<1>8. ASSUME NEW b \in Activity, b # a PROVE Untouched(b)
  <2>1. pc'[b] = pc[b] /\ err'[b] = err[b] /\ current'[b] = current[b] /\ mine'[b] = mine[b]
    BY <1>0, <1>8 DEF CallsTyped
  <2>2. ASSUME NEW j \in Id, Belongs(j, b) PROVE j # i BY <1>3, <1>8, <2>2 DEF Belongs
  <2>3. \A j \in Id : j # i => (j \in running' <=> j \in running) /\ paid'[j] = paid[j]
    BY <1>0, <1>4 DEF SentInv
  <2> QED BY <1>2, <2>1, <2>2, <2>3 DEF Untouched, Belongs
<1> QED BY <1>2, <1>5, <1>6, <1>7, <1>8, StepOfOneCall

LEMMA EndingActions ==
  ASSUME PInv, NEW a \in Activity, Answer(a) \/ SendFails(a) \/ Stopped(a)
  PROVE  PInv'
<1> USE DEF Goto, Throw, Consumes
<1>0. \A n \in Consumption : n \in 0..EstimatedTokens BY InvocationAssumption
<1>1. 0 \in 0..EstimatedTokens BY InvocationAssumption, BudgetAssumption
<1>2. CASE Answer(a)
  <2>1. PICK n \in Consumption : paid' = [paid EXCEPT ![current[a]] = n] BY <1>2 DEF Answer
  <2> QED BY <1>0, <1>2, <2>1, SendEnds DEF Answer
<1>3. CASE SendFails(a)
  <2>1. PICK e \in SendError, n \in 0..EstimatedTokens :
          /\ err' = [err EXCEPT ![a] = e] /\ pc' = [pc EXCEPT ![a] = "caught"]
          /\ ConsumedNothing(e) => n = 0
          /\ paid' = [paid EXCEPT ![current[a]] = n]
    BY <1>0, <1>1, <1>3 DEF SendFails
  <2>2. e \in Error \ Leaves BY DEF Error, SendError, Leaves
  <2> QED BY <1>3, <2>1, <2>2, SendEnds DEF SendFails
<1>4. CASE Stopped(a)
  <2>1. PICK e \in {"timeout", "left_running"}, n \in Consumption :
          /\ err' = [err EXCEPT ![a] = e] /\ pc' = [pc EXCEPT ![a] = "caught"]
          /\ paid' = [paid EXCEPT ![current[a]] = n]
    BY <1>4 DEF Stopped
  <2>2. e \in Error \ Leaves /\ ~ConsumedNothing(e) BY DEF Error, SendError, Leaves, ConsumedNothing
  <2> QED BY <1>0, <1>4, <2>1, <2>2, SendEnds DEF Stopped
<1> QED BY <1>2, <1>3, <1>4

\* A send nobody waits for is no call's attempt under way.
LEMMA StragglerKeeps ==
  ASSUME PInv, NEW i \in Id, StragglerStops(i)
  PROVE  PInv'
<1>0. CallsTyped /\ BInv /\ SentInv BY DEF PInv
<1>1. PICK n \in Consumption : paid' = [paid EXCEPT ![i] = n] BY DEF StragglerStops, Consumes
<1>2. n \in 0..EstimatedTokens BY <1>1, InvocationAssumption
<1>3. /\ UNCHANGED <<vars, pc, err, current, mine>> /\ i \in running /\ running' = running \ {i}
      /\ \A a \in Activity : pc[a] \in {"sending", "stopping"} => current[a] # i
  BY DEF StragglerStops, calls
<1>4. BInv' /\ Load' = Load /\ stored' = stored /\ told' = told BY <1>0, <1>3, BudgetStill
<1>5. /\ running' \subseteq Id /\ paid' \in [Id -> 0..EstimatedTokens]
      /\ \A j \in Id : j # i => paid'[j] = paid[j] /\ (j \in running' <=> j \in running)
  BY <1>0, <1>1, <1>2, <1>3 DEF SentInv
<1>6. SentInv'
  <2>1. told[i] # Null /\ Kept(stored[i], i) /\ Kept(Load[i], i) BY <1>0, <1>3 DEF SentInv
  <2>2. Kept(stored[i], i)' /\ Kept(Load[i], i)' BY <1>3, <1>4, <2>1 DEF Kept
  <2> QED BY <1>0, <1>4, <1>5, <2>1, <2>2 DEF SentInv, Kept
<1>7. ASSUME NEW a \in Activity PROVE CallInv(a)'
  <2>0. CallInv(a) BY DEF PInv
  <2>1. Unsent(a) => pc[a] \in Open /\ Quiet(a) /\ Belongs(current[a], a)
    BY <2>0 DEF CallInv, Unsent, Quiet, Open, Leaves, ConsumedNothing
  <2>2. Unsent(a) => current[a] # i /\ current[a] \in Id
    BY <1>3, <2>0, <2>1 DEF CallInv, Belongs
  <2>3. Unsent(a)' = Unsent(a) /\ Quiet(a)' = Quiet(a) BY <1>3 DEF Unsent, Quiet, ConsumedNothing
  <2>4. Unsent(a)' => paid'[current'[a]] = 0 BY <1>3, <1>5, <2>0, <2>2, <2>3 DEF CallInv
  <2>5. pc[a] \in {"sending", "stopping"} => current[a] \in running' BY <1>3, <2>0 DEF CallInv
  <2> QED BY <1>3, <1>4, <2>0, <2>3, <2>4, <2>5 DEF CallInv, Belongs
<1> QED BY <1>0, <1>3, <1>4, <1>6, <1>7 DEF PInv, CallsTyped

LEMMA NothingMoves ==
  ASSUME PInv, UNCHANGED <<vars, pc, err, current, mine, running, paid>>
  PROVE  PInv'
<1>1. BInv' /\ Load' = Load /\ stored' = stored /\ told' = told BY BudgetStill DEF PInv
<1>2. SentInv' BY <1>1 DEF PInv, SentInv, Kept
<1>3. ASSUME NEW a \in Activity PROVE CallInv(a)'
  BY <1>1 DEF PInv, CallInv, Belongs, Quiet, Unsent
<1>4. CallsTyped' BY DEF PInv, CallsTyped
<1> QED BY <1>1, <1>2, <1>3, <1>4 DEF PInv

-----------------------------------------------------------------------------
(* The budget is used.                                                     *)

LEMMA CommitEffect ==
  ASSUME BInv, NEW rs \in Seq(Reservation), NEW o, Commit(rs, o)
  PROVE  \/ o = "saved" /\ stored' = rs /\ Load' = rs
         \/ o # "saved" /\ Load' = Load /\ (stored' = stored \/ stored' = rs)
<1>1. rs # Null /\ Load # Null BY BudgetAssumption DEF BInv, Sound
<1> QED BY <1>1 DEF Commit, Load

LEMMA ReserveAttemptKeeps ==
  ASSUME PInv, NEW a \in Activity, ReserveAttempt(a)
  PROVE  Reserve(a, EstimatedTokens) /\ PInv'
<1> DEFINE r == [activity |-> a, estimated |-> EstimatedTokens, usage |-> Null, released |-> FALSE]
           k == Len(Load) + 1
           rs == Append(Load, r)
<1>0. CallsTyped /\ CallInv(a) /\ BInv /\ SentInv /\ EstimatedTokens \in Estimate
  BY InvocationAssumption DEF PInv
<1>1. Reserve(a, EstimatedTokens) BY DEF ReserveAttempt, Reserve
<1>2. BInv' BY <1>0, <1>1, ReserveKeeps
<1>3. pc[a] = "reserve" /\ UNCHANGED <<err, mine, running, paid>> BY DEF ReserveAttempt, provider
<1>4. CASE Unchanged /\ Goto(a, "paused_budget") /\ UNCHANGED <<told, faults, crashes, current>>
  <2>1. Load' = Load /\ stored' = stored
    BY <1>0, <1>4, BudgetAssumption DEF Unchanged, Load, BInv, Sound
  <2>2. CallsTyped' BY <1>0, <1>3, <1>4 DEF CallsTyped, Goto, CallState, Ended
  <2>3. SentInv' BY <1>0, <1>3, <1>4, <2>1 DEF SentInv, Kept
  <2>4. CallInv(a)'
    BY <1>0, <1>3, <1>4, <2>1 DEF CallInv, CallsTyped, Goto, Belongs, Quiet, Unsent, Open
  <2>5. ASSUME NEW b \in Activity, b # a PROVE Untouched(b)
    BY <1>0, <1>3, <1>4, <2>1, <2>5 DEF Untouched, CallsTyped, Goto, Belongs
  <2> QED BY <1>1, <1>2, <2>2, <2>3, <2>4, <2>5, StepOfOneCall
<1>5. ASSUME NEW o \in Outcome, Admit(a, EstimatedTokens, o), Tell(k, r, o),
             Goto(a, IF o = "saved" THEN "acquire" ELSE "failed"),
             current' = [current EXCEPT ![a] = IF o = "saved" THEN k ELSE @]
      PROVE  PInv'
  <2>1. Load \in Seq(Reservation) /\ Len(Load) \in Nat /\ k \in Id
    BY <1>0, BudgetAssumption DEF BInv, Sound, ReserveAttempt, Id
  <2>2. r \in Reservation /\ r # Null
    <3>1. r \in Reservation BY <1>0 DEF Reservation
    <3> QED BY <3>1, BudgetAssumption
  <2>3. rs \in Seq(Reservation) /\ rs[k] = r /\ \A i \in 1..Len(Load) : rs[i] = Load[i]
    BY <2>1, <2>2
  <2>4. Commit(rs, o) BY <1>5 DEF Admit
  <2>5. \/ o = "saved" /\ stored' = rs /\ Load' = rs
        \/ o # "saved" /\ Load' = Load /\ (stored' = stored \/ stored' = rs)
    <3> HIDE DEF rs
    <3> QED BY <1>0, <2>3, <2>4, CommitEffect
  <2>6. \A i \in Id : told[i] # Null => i \in 1..Len(Load) /\ i # k
    BY <1>0, <2>1 DEF BInv, Tells
  <2>7. told[k] = Null BY <2>1, <2>6
  <2>8. told' = IF o = "saved" THEN [told EXCEPT ![k] = r] ELSE told BY <1>5 DEF Tell
  <2>9. \A i \in Id : told[i] # Null =>
          /\ told'[i] = told[i] /\ Load'[i] = Load[i]
          /\ stored'[i] = stored[i] \/ stored'[i] = Load[i]
    <3> HIDE DEF rs, r, k
    <3> QED BY <2>1, <2>3, <2>5, <2>6, <2>8 DEF BInv, Typed
  <2>10. k \notin running /\ paid[k] = 0
    BY <1>0, <2>1, <2>7, InvocationAssumption, BudgetAssumption DEF SentInv
  <2>11. o = "saved" => told'[k] = r BY <1>0, <2>1, <2>8 DEF BInv, Typed
  <2>12. \A i \in Id : told'[i] # Null => (i = k /\ o = "saved") \/ told[i] # Null
    BY <1>0, <2>8 DEF BInv, Typed
  <2>13. k \in 0..MaxReservations BY <2>1, BudgetAssumption DEF Id
  <2>14. r.activity = a /\ r.estimated = EstimatedTokens /\ r.usage = Null /\ r.released = FALSE
    OBVIOUS
  <2> HIDE DEF rs, r, k
  <2>15. CallsTyped'
    BY <1>0, <1>3, <1>5, <2>13 DEF CallsTyped, Goto, CallState, Ended, Open
  <2>16. SentInv'
    <3>1. running' \subseteq Id /\ paid' \in [Id -> 0..EstimatedTokens] BY <1>0, <1>3 DEF SentInv
    <3>2. \A i \in Id : told'[i] # Null => told'[i].estimated = EstimatedTokens
      BY <1>0, <2>9, <2>11, <2>12, <2>14 DEF SentInv
    <3>3. ASSUME NEW i \in Id, i \in running' \/ paid'[i] > 0
          PROVE  told'[i] # Null /\ Kept(stored[i], i)' /\ Kept(Load[i], i)'
      <4>1. told[i] # Null /\ Kept(stored[i], i) /\ Kept(Load[i], i)
        BY <1>0, <1>3, <3>3 DEF SentInv
      <4>2. told'[i] = told[i] /\ Load'[i] = Load[i]
            /\ (stored'[i] = stored[i] \/ stored'[i] = Load[i])
        BY <2>9, <4>1
      <4> QED BY <1>3, <4>1, <4>2 DEF Kept
    <3> QED BY <3>1, <3>2, <3>3 DEF SentInv
  <2>17. \A x : Belongs(x, a) => Belongs(x, a)' BY <2>9 DEF Belongs
  <2>18. CallInv(a)'
    <3>1. Quiet(a) BY <1>3 DEF Quiet
    <3>2. mine'[a] \intersect running' = {} /\ \A x \in mine'[a] : Belongs(x, a)'
      BY <1>0, <1>3, <2>17, <3>1 DEF CallInv
    <3>3. CASE o = "saved"
      <4>1. pc'[a] = "acquire" /\ current'[a] = k BY <1>0, <1>5, <3>3 DEF CallsTyped, Goto
      <4>2. k \in Id /\ told'[k] # Null /\ told'[k].activity = a
        BY <2>1, <2>2, <2>11, <2>14, <3>3
      <4>3. Load'[k] = r /\ stored'[k] = r BY <2>3, <2>5, <3>3
      <4> QED BY <1>3, <2>10, <2>14, <3>2, <4>1, <4>2, <4>3 DEF CallInv, Belongs
    <3>4. CASE o # "saved"
      <4>1. pc'[a] = "failed" BY <1>0, <1>5, <3>4 DEF CallsTyped, Goto
      <4> QED BY <3>2, <4>1 DEF CallInv, Open, Unsent, Belongs
    <3> QED BY <3>3, <3>4
  <2>19. ASSUME NEW b \in Activity, b # a PROVE Untouched(b)
    <3>1. pc'[b] = pc[b] /\ err'[b] = err[b] /\ current'[b] = current[b] /\ mine'[b] = mine[b]
      BY <1>0, <1>3, <1>5, <2>19 DEF CallsTyped, Goto
    <3> QED BY <1>3, <2>9, <3>1 DEF Untouched, Belongs
  <2> QED BY <1>2, <2>15, <2>16, <2>18, <2>19, StepOfOneCall
<1> QED BY <1>1, <1>4, <1>5 DEF ReserveAttempt

\* The attempt under way is settled: only its own reservation changes.
LEMMA SettleEffect ==
  ASSUME PInv, NEW a \in Activity, pc[a] \in Open, NEW i, i = current[a],
         NEW r \in Reservation, NEW o, Commit([Load EXCEPT ![i] = r], o),
         NEW t, t.activity = told[i].activity, t.estimated = told[i].estimated, t # Null,
         Tell(i, t, o), UNCHANGED <<running, paid>>
  PROVE  /\ Load'[i] = Load[i] \/ (o = "saved" /\ Load'[i] = r)
         /\ stored'[i] = stored[i] \/ stored'[i] = r
         /\ \A j \in Id : told[j] # Null =>
              /\ told'[j] # Null /\ told'[j].activity = told[j].activity
              /\ told'[j].estimated = told[j].estimated
              /\ j # i => Load'[j] = Load[j]
              /\ j # i => stored'[j] = stored[j] \/ stored'[j] = Load[j]
         /\ \A j \in Id : told'[j] # Null => told[j] # Null
         /\ \A x : Belongs(x, a) => Belongs(x, a)'
         /\ \A b \in Activity, x \in Id : b # a /\ Belongs(x, b) => x # i /\ Belongs(x, b)'
<1> DEFINE rs == [Load EXCEPT ![i] = r]
<1>0. BInv /\ Belongs(i, a) BY DEF PInv, CallInv
<1>1. i \in Id /\ told[i] # Null /\ told[i].activity = a BY <1>0 DEF Belongs
<1>2. i \in 1..Len(Load) /\ Load \in Seq(Reservation)
  BY <1>0, BelongsIsLoaded DEF BInv, Sound
<1>3. rs \in Seq(Reservation) /\ rs[i] = r /\ \A j \in 1..Len(Load) : j # i => rs[j] = Load[j]
  BY <1>2
<1>4. \/ o = "saved" /\ stored' = rs /\ Load' = rs
      \/ o # "saved" /\ Load' = Load /\ (stored' = stored \/ stored' = rs)
  <2> HIDE DEF rs
  <2>1. Commit(rs, o) BY DEF rs
  <2> QED BY <1>0, <1>3, <2>1, CommitEffect
<1>5. \A j \in Id : told[j] # Null => j \in 1..Len(Load) BY <1>0 DEF BInv, Tells
<1> HIDE DEF rs
<1>6. told \in [Id -> Reservation \union {Null}] BY <1>0 DEF BInv, Typed
<1>7. \A j \in Id : /\ told[j] # Null => told'[j] # Null /\ told'[j].activity = told[j].activity
                                         /\ told'[j].estimated = told[j].estimated
                    /\ told'[j] # Null => told[j] # Null
  BY <1>1, <1>6 DEF Tell
<1>8. \A x : Belongs(x, a) => Belongs(x, a)' BY <1>7 DEF Belongs
<1>9. \A b \in Activity, x \in Id : b # a /\ Belongs(x, b) => x # i /\ Belongs(x, b)'
  BY <1>1, <1>7 DEF Belongs
<1> QED BY <1>3, <1>4, <1>5, <1>7, <1>8, <1>9

LEMMA RecordKeeps ==
  ASSUME PInv, NEW a \in Activity, Record(a)
  PROVE  (\E u \in Usage : RecordActual(a, current[a], u)) /\ current[a] \in Id /\ PInv'
<1> DEFINE i == current[a]
<1>0. CallsTyped /\ CallInv(a) /\ BInv /\ SentInv BY DEF PInv
<1>1. pc[a] = "recording" /\ UNCHANGED <<current, mine, running, paid>> BY DEF Record, provider
<1>2. PICK o \in Outcome, u \in Usage :
        /\ u.complete => u.tokens = paid[i]
        /\ RecordUsage(i, u, o)
        /\ Tell(i, [told[i] EXCEPT !.usage = u], o)
        /\ Count(o)
        /\ \/ o = "saved" /\ Goto(a, "done") /\ UNCHANGED err
           \/ o # "saved" /\ Throw(a, "unknown")
  BY DEF Record
<1>3. /\ Belongs(i, a) /\ ~Load[i].released /\ Load[i].usage = Null /\ i \notin running
      /\ mine[a] \intersect running = {}
  BY <1>0, <1>1 DEF CallInv, Open, Quiet
<1>4. /\ i \in Id /\ told[i] # Null /\ i \in 1..Len(Load) /\ Load[i] \in Reservation
      /\ Known(a, i) /\ told[i] \in Reservation
  BY <1>0, <1>3, BelongsIsLoaded DEF Belongs
<1>5. RecordActual(a, i, u) BY <1>2, <1>3, <1>4 DEF RecordActual, Unsettled
<1>6. BInv' BY <1>0, <1>4, <1>5, RecordActualKeeps
<1> DEFINE r == [Load[i] EXCEPT !.usage = u]
           t == [told[i] EXCEPT !.usage = u]
<1>7. /\ r \in Reservation /\ r.usage = u /\ ~r.released
      /\ t \in Reservation /\ t.activity = told[i].activity /\ t.estimated = told[i].estimated
  BY <1>3, <1>4 DEF Reservation
<1>8. Commit([Load EXCEPT ![i] = r], o) BY <1>2 DEF RecordUsage
<1>9. Tell(i, t, o) /\ t # Null BY <1>2, <1>7, BudgetAssumption
<1>10. pc[a] \in Open BY <1>1 DEF Open
<1> HIDE DEF r, t
<1>11. /\ Load'[i] = Load[i] \/ (o = "saved" /\ Load'[i] = r)
       /\ stored'[i] = stored[i] \/ stored'[i] = r
       /\ \A j \in Id : told[j] # Null =>
            /\ told'[j] # Null /\ told'[j].activity = told[j].activity
            /\ told'[j].estimated = told[j].estimated
            /\ j # i => Load'[j] = Load[j]
            /\ j # i => stored'[j] = stored[j] \/ stored'[j] = Load[j]
       /\ \A j \in Id : told'[j] # Null => told[j] # Null
       /\ \A x : Belongs(x, a) => Belongs(x, a)'
       /\ \A b \in Activity, x \in Id : b # a /\ Belongs(x, b) => x # i /\ Belongs(x, b)'
  BY <1>1, <1>7, <1>8, <1>9, <1>10, SettleEffect
<1>12. CallsTyped' BY <1>0, <1>1, <1>2 DEF CallsTyped, Goto, Throw, CallState, Ended, Open, Error
<1>13. SentInv'
  <2>1. running' \subseteq Id /\ paid' \in [Id -> 0..EstimatedTokens] BY <1>0, <1>1 DEF SentInv
  <2>2. \A j \in Id : told'[j] # Null => told'[j].estimated = EstimatedTokens
    BY <1>0, <1>11 DEF SentInv
  <2>3. ASSUME NEW j \in Id, j \in running' \/ paid'[j] > 0
        PROVE  told'[j] # Null /\ Kept(stored[j], j)' /\ Kept(Load[j], j)'
    <3>1. told[j] # Null /\ Kept(stored[j], j) /\ Kept(Load[j], j)
      BY <1>0, <1>1, <2>3 DEF SentInv
    <3>2. CASE j = i BY <1>1, <1>2, <1>3, <1>7, <1>11, <3>1, <3>2 DEF Kept
    <3>3. CASE j # i BY <1>1, <1>11, <3>1, <3>3 DEF Kept
    <3> QED BY <3>2, <3>3
  <2> QED BY <2>1, <2>2, <2>3 DEF SentInv
<1>14. CallInv(a)'
  <2>1. mine'[a] \intersect running' = {} /\ \A x \in mine'[a] : Belongs(x, a)'
    BY <1>0, <1>1, <1>3, <1>11 DEF CallInv
  <2>2. CASE o = "saved"
    <3>1. pc'[a] = "done" BY <1>0, <1>2, <2>2 DEF CallsTyped, Goto
    <3> QED BY <2>1, <3>1 DEF CallInv, Open, Unsent, Belongs
  <2>3. CASE o # "saved"
    <3>1. pc'[a] = "caught" /\ err'[a] = "unknown" BY <1>0, <1>2, <2>3 DEF CallsTyped, Goto, Throw
    <3>2. Load'[i] = Load[i] BY <1>11, <2>3
    <3>3. i \in Id /\ told'[i] # Null /\ told'[i].activity = a
      BY <1>3, <1>4, <1>11 DEF Belongs
    <3>4. ~Unsent(a)' BY <3>1 DEF Unsent, ConsumedNothing
    <3> QED BY <1>1, <1>3, <2>1, <3>1, <3>2, <3>3, <3>4 DEF CallInv, Belongs
  <2> QED BY <2>2, <2>3
<1>15. ASSUME NEW b \in Activity, b # a PROVE Untouched(b)
  <2>1. pc'[b] = pc[b] /\ err'[b] = err[b] /\ current'[b] = current[b] /\ mine'[b] = mine[b]
    BY <1>0, <1>1, <1>2, <1>15 DEF CallsTyped, Goto, Throw
  <2>2. ASSUME NEW x \in Id, Belongs(x, b)
        PROVE  /\ Belongs(x, b)' /\ Load'[x] = Load[x]
               /\ stored'[x] = stored[x] \/ stored'[x] = Load[x]
    BY <1>11, <1>15, <2>2 DEF Belongs
  <2> QED BY <1>1, <2>1, <2>2 DEF Untouched
<1> QED BY <1>4, <1>5, <1>6, <1>12, <1>13, <1>14, <1>15, StepOfOneCall

LEMMA CatchKeeps ==
  ASSUME PInv, NEW a \in Activity, Catch(a)
  PROVE  /\ UNCHANGED vars \/ (current[a] \in Id /\ Release(a, current[a]))
         /\ PInv'
<1> DEFINE i == current[a]
<1>0. CallsTyped /\ CallInv(a) /\ BInv /\ SentInv BY DEF PInv
<1>1. /\ pc[a] = "caught" /\ pc[a] \in Open /\ UNCHANGED <<mine, running, paid>>
      /\ current' = [current EXCEPT ![a] = 0] /\ err' = [err EXCEPT ![a] = "none"]
  BY DEF Catch, provider, Open
<1>2. PICK s : /\ pc' = [pc EXCEPT ![a] = s]
               /\ (s \in {"top", "backoff"} /\ err[a] \notin Leaves) \/ s \in Ended
  <2>1. Resends(a) => err[a] \notin Leaves
    BY DEF Resends, Interrupted, SleepExplains, Leaves
  <2>2. Retries(a) => err[a] \notin Leaves
    BY DEF Retries, Interrupted, SleepExplains, Retryable, Leaves
  <2>3. Failure(a) \in Ended
    <3>1. Failure(a) \in {"paused_quota", "host_suspended", "time_limit", "failed"}
      BY DEF Failure
    <3> QED BY <3>1 DEF Ended
  <2> DEFINE s == CASE Resends(a) -> "top" [] Retries(a) -> "backoff" [] OTHER -> Failure(a)
  <2>4. (s \in {"top", "backoff"} /\ err[a] \notin Leaves) \/ s \in Ended
    <3>1. CASE Resends(a)
      <4>1. ~Retries(a) BY <3>1 DEF Retries
      <4>2. s = "top" BY <3>1, <4>1
      <4> QED BY <2>1, <3>1, <4>2
    <3>2. CASE ~Resends(a) /\ Retries(a)
      <4>1. s = "backoff" BY <3>2
      <4> QED BY <2>2, <3>2, <4>1
    <3>3. CASE ~Resends(a) /\ ~Retries(a)
      <4>1. s = Failure(a) BY <3>3
      <4> QED BY <2>3, <4>1
    <3> QED BY <3>1, <3>2, <3>3
  <2>5. pc' = [pc EXCEPT ![a] = s] BY DEF Catch, Goto
  <2> QED BY <2>4, <2>5
<1>3. /\ Belongs(i, a) /\ ~Load[i].released /\ Load[i].usage = Null
  BY <1>0, <1>1 DEF CallInv
<1>4. CallsTyped'
  <2>1. 0 \in 0..MaxReservations BY BudgetAssumption
  <2> QED BY <1>0, <1>1, <1>2, <2>1 DEF CallsTyped, CallState, Error
\* The call is between attempts, or over.
<1>5. (\A x : Belongs(x, a) => Belongs(x, a)') => CallInv(a)'
  <2>1. pc'[a] = s /\ s \notin Open BY <1>0, <1>1, <1>2 DEF CallsTyped, Open, Ended
  <2>2. Quiet(a)' => Quiet(a) BY <1>1, <1>2, <2>1 DEF Quiet, Ended
  <2>3. ~Unsent(a)' /\ pc'[a] \notin {"acquire", "sending", "stopping"} BY <2>1 DEF Unsent, Open
  <2> QED BY <1>0, <1>1, <2>1, <2>2, <2>3 DEF CallInv
<1>6. Elsewhere(a) BY <1>0, <1>1, <1>2 DEF Elsewhere, CallsTyped
<1>7. CASE ~Free(a)
  <2>1. UNCHANGED vars BY <1>7 DEF Catch
  <2>2. \A x : Belongs(x, a) => Belongs(x, a)' BY <1>0, <2>1, BudgetStill DEF Belongs
  <2> QED BY <1>1, <1>4, <1>5, <1>6, <2>1, <2>2, LocalStep
<1>8. CASE Free(a)
  <2>1. PICK o \in Outcome : /\ ReleaseIt(i, o) /\ Count(o)
                             /\ Tell(i, [told[i] EXCEPT !.released = TRUE], o)
    BY <1>8 DEF Catch
  <2>2. paid[i] = 0 /\ i \notin running
    BY <1>0, <1>1, <1>8 DEF CallInv, Free, Unsent, Quiet, ConsumedNothing, Leaves
  <2>3. /\ i \in Id /\ told[i] # Null /\ i \in 1..Len(Load) /\ Load[i] \in Reservation
        /\ Known(a, i) /\ told[i] \in Reservation
    BY <1>0, <1>3, BelongsIsLoaded DEF Belongs
  <2>4. Release(a, i) BY <1>3, <2>1, <2>3 DEF Release, Unsettled
  <2>5. BInv' BY <1>0, <2>3, <2>4, ReleaseKeeps
  <2> DEFINE r == [Load[i] EXCEPT !.released = TRUE]
             t == [told[i] EXCEPT !.released = TRUE]
  <2>6. /\ r \in Reservation /\ t \in Reservation
        /\ t.activity = told[i].activity /\ t.estimated = told[i].estimated
    BY <2>3 DEF Reservation
  <2>7. Commit([Load EXCEPT ![i] = r], o) BY <2>1 DEF ReleaseIt
  <2>8. Tell(i, t, o) /\ t # Null BY <2>1, <2>6, BudgetAssumption
  <2> HIDE DEF r, t
  <2>9. /\ \A j \in Id : told[j] # Null =>
             /\ told'[j] # Null /\ told'[j].activity = told[j].activity
             /\ told'[j].estimated = told[j].estimated
             /\ j # i => Load'[j] = Load[j]
             /\ j # i => stored'[j] = stored[j] \/ stored'[j] = Load[j]
        /\ \A j \in Id : told'[j] # Null => told[j] # Null
        /\ \A x : Belongs(x, a) => Belongs(x, a)'
        /\ \A b \in Activity, x \in Id : b # a /\ Belongs(x, b) => x # i /\ Belongs(x, b)'
    BY <1>1, <2>6, <2>7, <2>8, SettleEffect
  <2>10. SentInv'
    <3>1. running' \subseteq Id /\ paid' \in [Id -> 0..EstimatedTokens] BY <1>0, <1>1 DEF SentInv
    <3>2. \A j \in Id : told'[j] # Null => told'[j].estimated = EstimatedTokens
      BY <1>0, <2>9 DEF SentInv
    <3>3. ASSUME NEW j \in Id, j \in running' \/ paid'[j] > 0
          PROVE  told'[j] # Null /\ Kept(stored[j], j)' /\ Kept(Load[j], j)'
      <4>1. told[j] # Null /\ Kept(stored[j], j) /\ Kept(Load[j], j)
        BY <1>0, <1>1, <3>3 DEF SentInv
      <4>2. j # i BY <1>1, <2>2, <3>3
      <4> QED BY <1>1, <2>9, <4>1, <4>2 DEF Kept
    <3> QED BY <3>1, <3>2, <3>3 DEF SentInv
  <2>11. ASSUME NEW b \in Activity, b # a PROVE Untouched(b)
    <3>1. ASSUME NEW x \in Id, Belongs(x, b)
          PROVE  /\ Belongs(x, b)' /\ Load'[x] = Load[x]
                 /\ stored'[x] = stored[x] \/ stored'[x] = Load[x]
      BY <2>9, <2>11, <3>1 DEF Belongs
    <3> QED BY <1>1, <1>6, <2>11, <3>1 DEF Untouched, Elsewhere
  <2>12. CallInv(a)' BY <1>5, <2>9
  <2> QED BY <1>4, <2>3, <2>4, <2>5, <2>10, <2>11, <2>12, StepOfOneCall
<1> QED BY <1>7, <1>8

LEMMA StopKeeps ==
  ASSUME PInv, NEW limit \in Limit, Stop(limit)
  PROVE  PInv'
<1>0. BInv /\ SentInv BY DEF PInv
<1>1. BInv' BY <1>0, RestartKeeps DEF Stop
<1>2. Load' = stored /\ UNCHANGED <<stored, told, running, paid>>
  BY DEF Stop, Restart, Load, provider
<1>3. CallsTyped'
  <2>1. 0 \in 0..MaxReservations BY BudgetAssumption
  <2> QED BY <2>1 DEF Stop, CallsTyped, CallState, Ended, Error
<1>4. SentInv' BY <1>0, <1>2 DEF SentInv, Kept
<1>5. ASSUME NEW a \in Activity PROVE CallInv(a)'
  <2>1. pc'[a] \in {"done", "idle"} /\ mine'[a] = {} BY DEF Stop
  <2> QED BY <2>1 DEF CallInv, Open, Unsent
<1> QED BY <1>1, <1>3, <1>4, <1>5 DEF PInv

-----------------------------------------------------------------------------
\* Every step keeps the invariant and is a step of the budget, or none.
LEMMA PInvStep ==
  PInv /\ [InvocationNext]_allVars => PInv' /\ [Next]_vars
<1> SUFFICES ASSUME PInv, [InvocationNext]_allVars PROVE PInv' /\ [Next]_vars OBVIOUS
<1>1. ASSUME NEW a \in Activity,
             \/ Invoke(a) \/ Awake(a) \/ AcquireCancelled(a) \/ SendCancelled(a)
             \/ Timeout(a) \/ StillRunning(a) \/ Backoff(a) \/ Abort(a)
      PROVE  PInv' /\ [Next]_vars
  <2>1. UNCHANGED vars
    BY <1>1 DEF Invoke, Awake, AcquireCancelled, SendCancelled, Timeout, StillRunning, Backoff, Abort
  <2> QED BY <1>1, <2>1, LocalActions
<1>2. ASSUME NEW a \in Activity, Dispatch(a) PROVE PInv' /\ [Next]_vars
  BY <1>2, DispatchKeeps DEF Dispatch
<1>3. ASSUME NEW a \in Activity, Answer(a) \/ SendFails(a) \/ Stopped(a)
      PROVE  PInv' /\ [Next]_vars
  BY <1>3, EndingActions DEF Answer, SendFails, Stopped
<1>4. ASSUME NEW a \in Activity, ReserveAttempt(a) PROVE PInv' /\ [Next]_vars
  BY <1>4, ReserveAttemptKeeps, InvocationAssumption DEF Next
<1>5. ASSUME NEW a \in Activity, Record(a) PROVE PInv' /\ [Next]_vars
  BY <1>5, RecordKeeps DEF Next
<1>6. ASSUME NEW a \in Activity, Catch(a) PROVE PInv' /\ [Next]_vars
  BY <1>6, CatchKeeps DEF Next
<1>7. ASSUME NEW i \in Id, StragglerStops(i) PROVE PInv' /\ [Next]_vars
  BY <1>7, StragglerKeeps DEF StragglerStops
<1>8. CASE Suspend \/ SettlesAwake \/ UNCHANGED allVars
  <2>1. UNCHANGED <<vars, pc, err, current, mine, running, paid>>
    BY <1>8 DEF Suspend, SettlesAwake, allVars, calls, provider
  <2> QED BY <2>1, NothingMoves
<1>9. ASSUME NEW limit \in Limit, Stop(limit) PROVE PInv' /\ [Next]_vars
  BY <1>9, StopKeeps DEF Stop, Next
<1> QED BY <1>1, <1>2, <1>3, <1>4, <1>5, <1>6, <1>7, <1>8, <1>9 DEF InvocationNext, Step

LEMMA InvocationInvariant == InvocationSpec => []PInv
BY PInvInit, PInvStep, PTL DEF InvocationSpec

\* Invocations use the budget only as its specification allows: they reserve,
\* report and release what is theirs, once, so what is proved of the budget
\* holds with retries, stragglers and cancellations around it.
THEOREM InvocationsUseTheBudget == InvocationSpec => Spec
<1>1. InvocationInit => Init BY DEF InvocationInit
<1> QED BY <1>1, PInvStep, InvocationInvariant, PTL DEF InvocationSpec, Spec

LEMMA AtMostOneCounts ==
  ASSUME NEW S, \A x, y \in S : x = y
  PROVE  Cardinality(S) <= 1
<1>1. CASE S = {} BY <1>1, FS_EmptySet
<1>2. CASE S # {}
  <2>1. PICK x \in S : TRUE BY <1>2
  <2>2. S = {x} BY <2>1
  <2> QED BY <2>2, FS_Singleton
<1> QED BY <1>1, <1>2

\* What a provider consumed is charged, though the attempt timed out, was cancelled,
\* lost its save or outlived its call, and no call has two sends at a time
\* (runtime.ts: the catch block, timedOutSend).
THEOREM SendsAreAccounted == InvocationSpec => []SendsAccounted
<1>1. PInv => PaidIsCharged
  <2> SUFFICES ASSUME PInv, NEW i \in Id, paid[i] > 0
               PROVE  i \in DOMAIN stored /\ Charge(stored[i]) >= paid[i]
    BY DEF PaidIsCharged
  <2>1. told[i] # Null /\ Kept(stored[i], i) /\ told[i].estimated = EstimatedTokens
    BY DEF PInv, SentInv
  <2>2. i \in 1..Len(stored) /\ Matches(told[i], stored[i]) BY <2>1 DEF PInv, BInv, Tells
  <2>3. stored \in Seq(Reservation) BY DEF PInv, BInv, Sound
  <2>4. stored[i] \in Reservation /\ stored[i].estimated = EstimatedTokens
    BY <2>1, <2>2, <2>3 DEF Matches
  <2>5. paid[i] \in 0..EstimatedTokens /\ EstimatedTokens \in Nat
    BY InvocationAssumption, BudgetAssumption DEF PInv, SentInv
  <2>6. stored[i].usage # Null => stored[i].usage.tokens \in Nat /\ stored[i].usage.complete \in BOOLEAN
    BY <2>4, BudgetAssumption DEF Reservation, Usage
  <2>7. Charge(stored[i]) >= paid[i]
    <3>1. CASE stored[i].usage = Null BY <2>1, <2>4, <2>5, <3>1 DEF Charge, Kept
    <3>2. CASE stored[i].usage # Null
      BY <2>1, <2>4, <2>5, <2>6, <3>2 DEF Charge, Kept, MaxOf
    <3> QED BY <3>1, <3>2
  <2> QED BY <2>2, <2>3, <2>7
<1>2. PInv => OneSendAtATime
  <2> SUFFICES ASSUME PInv, NEW a \in Activity
               PROVE  Cardinality(mine[a] \intersect running) <= 1
    BY DEF OneSendAtATime
  <2>1. \A x, y \in mine[a] \intersect running : x = y BY DEF PInv, CallInv
  <2> QED BY <2>1, AtMostOneCounts
<1> QED BY <1>1, <1>2, InvocationInvariant, PTL DEF SendsAccounted
=============================================================================
