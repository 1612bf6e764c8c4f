-------------------------- MODULE RateLimiterProofs --------------------------
(***************************************************************************)
(* What the rate limiter promises of the minute budget, of the burst after *)
(* a slowdown and of a wave of failures, for any calls, weights, budgets   *)
(* and paces.  The sum of the admissions is a fold, whose value the first  *)
(* part derives by an induction written with sets.                         *)
(***************************************************************************)
EXTENDS RateLimiter, FiniteSetTheorems, WellFoundedInduction, TLAPS

\* A set of numbers that is not empty has a least one.
LEMMA LeastExists ==
  ASSUME NEW T \in SUBSET Nat, T # {}
  PROVE  \E x \in T : \A y \in T : x <= y
<1> DEFINE R == {p \in Nat \X Nat : p[1] < p[2]}
<1>1. IsWellFoundedOn(R, Nat)
  BY NatLessThanWellFounded DEF OpToRel
<1>2. PICK x \in T : \A y \in T : <<y, x>> \notin R
  <2> HIDE DEF R
  <2> QED BY <1>1, WFMin
<1>3. ASSUME NEW y \in T PROVE x <= y
  <2>1. ~(y < x)
    BY <1>2
  <2> QED BY <2>1
<1> QED BY <1>3

\* Induction over the numbers up to n, for a set.
LEMMA UpTo ==
  ASSUME NEW n \in Nat, NEW T, 0 \in T, \A k \in 1..n : k - 1 \in T => k \in T
  PROVE  0..n \subseteq T
<1> DEFINE Bad == (0..n) \ T
<1> SUFFICES ASSUME Bad # {} PROVE FALSE
  OBVIOUS
<1>0. Bad \in SUBSET Nat
  OBVIOUS
<1>1. PICK x \in Bad : \A y \in Bad : x <= y
  <2> HIDE DEF Bad
  <2> QED BY <1>0, LeastExists
<1>2. x \in 1..n /\ x - 1 \in 0..n /\ x - 1 < x
  BY <1>1
<1>3. x - 1 \in T
  BY <1>1, <1>2
<1> QED BY <1>1, <1>2, <1>3

-----------------------------------------------------------------------------
(* The sum of the admissions.                                              *)

Admission == [age : Nat, weight : Nat]

\* What the fold of Used recurs over: sets of positions, the last one first.
Folded(s, D) ==
  CHOOSE f : f = [d \in SUBSET D |->
                    IF d = {} THEN 0 ELSE f[d \ {Max(d)}] + s[Max(d)].weight]

\* The sum of the first k admissions.
Total(s, k) == Folded(s, DOMAIN s)[1..k]

LEMMA MaxIs ==
  ASSUME NEW S \in SUBSET Nat, NEW k \in S, \A y \in S : y <= k
  PROVE  Max(S) = k
<1>1. \A x \in S : x >= k => x = k
  OBVIOUS
<1> QED BY <1>1 DEF Max

\* The fold is defined: there is a function with its equation.
LEMMA FoldExists ==
  ASSUME NEW s, NEW n \in Nat
  PROVE  \E f : f = [d \in SUBSET (1..n) |->
                       IF d = {} THEN 0 ELSE f[d \ {Max(d)}] + s[Max(d)].weight]
<1> DEFINE Good == {k \in 0..n :
                      \E f : f = [d \in SUBSET (1..k) |->
                        IF d = {} THEN 0 ELSE f[d \ {Max(d)}] + s[Max(d)].weight]}
<1> HIDE DEF Good
<1>1. 0 \in Good
  <2> SUFFICES ASSUME NEW z \in 0..n, z = 0 PROVE z \in Good
    OBVIOUS
  <2> DEFINE f == [d \in SUBSET (1..z) |-> 0]
  <2>1. \A d \in SUBSET (1..z) : d = {}
    OBVIOUS
  <2>2. f = [d \in SUBSET (1..z) |->
               IF d = {} THEN 0 ELSE f[d \ {Max(d)}] + s[Max(d)].weight]
    BY <2>1
  <2>3. \E h : h = [d \in SUBSET (1..z) |->
                     IF d = {} THEN 0 ELSE h[d \ {Max(d)}] + s[Max(d)].weight]
    <3> HIDE DEF f
    <3> QED BY <2>2
  <2> QED BY <2>3 DEF Good
<1>2. ASSUME NEW k \in 1..n, k - 1 \in Good PROVE k \in Good
  <2>1. PICK f : f = [d \in SUBSET (1..(k - 1)) |->
                        IF d = {} THEN 0 ELSE f[d \ {Max(d)}] + s[Max(d)].weight]
    BY <1>2 DEF Good
  <2> DEFINE g == [d \in SUBSET (1..k) |->
                     IF k \in d THEN f[d \ {k}] + s[k].weight ELSE f[d]]
  <2>2. ASSUME NEW d \in SUBSET (1..k)
        PROVE  g[d] = IF d = {} THEN 0 ELSE g[d \ {Max(d)}] + s[Max(d)].weight
    <3>1. CASE k \in d
      <4>1. Max(d) = k
        BY <3>1, MaxIs
      <4>2. d \ {k} \in SUBSET (1..k) /\ k \notin d \ {k}
        OBVIOUS
      <4>3. g[d \ {k}] = f[d \ {k}]
        BY <4>2
      <4> QED BY <3>1, <4>1, <4>3
    <3>2. CASE k \notin d
      <4>0. ASSUME NEW y \in d PROVE y \in 1..(k - 1)
        <5>1. y \in 1..k /\ y # k
          BY <3>2
        <5> QED BY <5>1
      <4>1. d \in SUBSET (1..(k - 1)) /\ d \ {Max(d)} \in SUBSET (1..k)
        BY <4>0
      <4>2. g[d] = f[d] /\ g[d \ {Max(d)}] = f[d \ {Max(d)}]
        BY <3>2, <4>1
      <4>3. f[d] = IF d = {} THEN 0 ELSE f[d \ {Max(d)}] + s[Max(d)].weight
        BY <2>1, <4>1
      <4> QED BY <4>2, <4>3
    <3> QED BY <3>1, <3>2
  <2>3. g = [d \in SUBSET (1..k) |->
               IF d = {} THEN 0 ELSE g[d \ {Max(d)}] + s[Max(d)].weight]
    BY <2>2
  <2>4. \E h : h = [d \in SUBSET (1..k) |->
                     IF d = {} THEN 0 ELSE h[d \ {Max(d)}] + s[Max(d)].weight]
    <3> HIDE DEF g
    <3> QED BY <2>3
  <2>5. k \in 0..n
    OBVIOUS
  <2> HIDE DEF g
  <2> QED BY <2>4, <2>5, Zenon DEF Good
<1>3. 0..n \subseteq Good
  BY <1>1, <1>2, UpTo
<1>4. n \in Good
  BY <1>3
<1> QED BY <1>4 DEF Good

LEMMA FoldEquation ==
  ASSUME NEW s \in Seq(Admission), NEW d \in SUBSET (1..Len(s))
  PROVE  Folded(s, DOMAIN s)[d] =
           IF d = {} THEN 0
           ELSE Folded(s, DOMAIN s)[d \ {Max(d)}] + s[Max(d)].weight
<1>1. DOMAIN s = 1..Len(s) /\ Len(s) \in Nat
  OBVIOUS
<1> DEFINE F == Folded(s, 1..Len(s))
<1>2. F = [e \in SUBSET (1..Len(s)) |->
             IF e = {} THEN 0 ELSE F[e \ {Max(e)}] + s[Max(e)].weight]
  BY <1>1, FoldExists DEF Folded
<1> HIDE DEF F
<1>3. F[d] = IF d = {} THEN 0 ELSE F[d \ {Max(d)}] + s[Max(d)].weight
  BY <1>2
<1> QED BY <1>1, <1>3 DEF F

\* The sum, one admission at a time.
LEMMA TotalStep ==
  ASSUME NEW s \in Seq(Admission)
  PROVE  /\ Total(s, 0) = 0
         /\ \A k \in 1..Len(s) : Total(s, k) = Total(s, k - 1) + s[k].weight
<1>1. Total(s, 0) = 0
  <2>1. 1..0 = {}
    OBVIOUS
  <2> QED BY <2>1, FoldEquation DEF Total
<1>2. ASSUME NEW k \in 1..Len(s)
      PROVE  Total(s, k) = Total(s, k - 1) + s[k].weight
  <2>1. 1..k \in SUBSET (1..Len(s)) /\ 1..k # {} /\ (1..k) \ {k} = 1..(k - 1)
    <3>1. k \in Nat /\ k >= 1 /\ k <= Len(s) /\ Len(s) \in Nat
      OBVIOUS
    <3>2. 1..k \subseteq 1..Len(s) /\ k \in 1..k
      BY <3>1
    <3>3. \A j : j \in (1..k) \ {k} <=> j \in 1..(k - 1)
      BY <3>1
    <3> QED BY <3>2, <3>3
  <2>2. Max(1..k) = k
    BY MaxIs
  <2>3. Total(s, k) = Total(s, k - 1) + s[Max(1..k)].weight
    BY <2>1, <2>2, FoldEquation DEF Total
  <2> QED BY <2>2, <2>3
<1> QED BY <1>1, <1>2

LEMMA UsedIsTotal ==
  ASSUME NEW s \in Seq(Admission)
  PROVE  Used(s) = Total(s, Len(s))
<1>1. Used(s) = Folded(s, DOMAIN s)[DOMAIN s]
  BY DEF Used, FoldLeft, MapThenFoldSet, Folded
<1> QED BY <1>1 DEF Total

LEMMA Elements ==
  ASSUME NEW s \in Seq(Admission), NEW k \in 1..Len(s)
  PROVE  s[k] \in Admission /\ s[k].weight \in Nat /\ s[k].age \in Nat
<1>1. s[k] \in Admission
  OBVIOUS
<1> QED BY <1>1 DEF Admission

LEMMA TotalIsNat ==
  ASSUME NEW s \in Seq(Admission)
  PROVE  \A k \in 0..Len(s) : Total(s, k) \in Nat
<1> DEFINE T == {k \in 0..Len(s) : Total(s, k) \in Nat}
<1>1. 0 \in T
  BY TotalStep
<1>2. ASSUME NEW k \in 1..Len(s), k - 1 \in T PROVE k \in T
  <2>1. s[k].weight \in Nat
    BY Elements
  <2> QED BY <1>2, <2>1, TotalStep
<1>3. Len(s) \in Nat
  OBVIOUS
<1> HIDE DEF T
<1>4. 0..Len(s) \subseteq T
  BY <1>1, <1>2, <1>3, UpTo
<1> QED BY <1>4 DEF T

\* What follows the first admissions adds up to the rest.
LEMMA TotalOfRest ==
  ASSUME NEW s \in Seq(Admission), NEW t \in Seq(Admission), NEW n \in Nat,
         n + Len(t) <= Len(s),
         \A i \in 1..Len(t) : t[i].weight = s[n + i].weight
  PROVE  \A k \in 0..Len(t) : Total(s, n + k) = Total(s, n) + Total(t, k)
<1> DEFINE T == {k \in 0..Len(t) : Total(s, n + k) = Total(s, n) + Total(t, k)}
<1>1. n \in 0..Len(s) /\ Total(s, n) \in Nat
  BY TotalIsNat
<1>2. 0 \in T
  BY <1>1, TotalStep
<1>3. ASSUME NEW k \in 1..Len(t), k - 1 \in T PROVE k \in T
  <2>1. n + k \in 1..Len(s) /\ (n + k) - 1 = n + (k - 1) /\ k - 1 \in 0..Len(t)
    BY <1>1
  <2>2. Total(s, n + k) = Total(s, n + (k - 1)) + s[n + k].weight
    BY <2>1, TotalStep
  <2>3. Total(t, k) = Total(t, k - 1) + t[k].weight
    BY TotalStep
  <2>4. t[k].weight \in Nat /\ Total(t, k - 1) \in Nat /\ t[k].weight = s[n + k].weight
    BY <2>1, TotalIsNat, Elements
  <2>5. Total(s, n + (k - 1)) = Total(s, n) + Total(t, k - 1)
    BY <1>3
  <2> QED BY <1>1, <2>2, <2>3, <2>4, <2>5
<1>4. Len(t) \in Nat
  OBVIOUS
<1> HIDE DEF T
<1>5. 0..Len(t) \subseteq T
  BY <1>2, <1>3, <1>4, UpTo
<1> QED BY <1>5 DEF T

\* What the sum does when an admission is added, when the first ones leave and
\* when all grow older.
LEMMA UsedOfAppend ==
  ASSUME NEW s \in Seq(Admission), NEW e \in Admission
  PROVE  Used(Append(s, e)) = Used(s) + e.weight
<1> DEFINE t == Append(s, e)
<1>1. t \in Seq(Admission) /\ Len(t) = Len(s) + 1 /\ t[Len(s) + 1] = e
      /\ \A i \in 1..Len(s) : t[i] = s[i]
  OBVIOUS
<1> HIDE DEF t
<1>2. \A k \in 0..Len(s) : Total(t, 0 + k) = Total(t, 0) + Total(s, k)
  <2>1. 0 + Len(s) <= Len(t) /\ \A i \in 1..Len(s) : s[i].weight = t[0 + i].weight
    BY <1>1
  <2> QED BY <1>1, <2>1, TotalOfRest
<1>3. Total(t, Len(s)) = Total(s, Len(s))
  BY <1>1, <1>2, TotalStep, TotalIsNat
<1>4. Total(t, Len(t)) = Total(t, Len(s)) + e.weight
  BY <1>1, TotalStep
<1>5. Used(t) = Total(t, Len(t)) /\ Used(s) = Total(s, Len(s))
  BY <1>1, UsedIsTotal
<1> QED BY <1>3, <1>4, <1>5 DEF t

LEMMA UsedOfRest ==
  ASSUME NEW s \in Seq(Admission), NEW n \in 1..(Len(s) + 1)
  PROVE  /\ SubSeq(s, n, Len(s)) \in Seq(Admission)
         /\ Used(SubSeq(s, n, Len(s))) <= Used(s)
<1> DEFINE t == SubSeq(s, n, Len(s))
<1>1. t \in Seq(Admission) /\ Len(t) = Len(s) - (n - 1)
      /\ \A i \in 1..Len(t) : t[i] = s[(n - 1) + i]
  OBVIOUS
<1> HIDE DEF t
<1>2. \A k \in 0..Len(t) : Total(s, (n - 1) + k) = Total(s, n - 1) + Total(t, k)
  <2>1. n - 1 \in Nat /\ (n - 1) + Len(t) <= Len(s)
        /\ \A i \in 1..Len(t) : t[i].weight = s[(n - 1) + i].weight
    BY <1>1
  <2> QED BY <1>1, <2>1, TotalOfRest
<1>3. Total(s, Len(s)) = Total(s, n - 1) + Total(t, Len(t))
  BY <1>1, <1>2
<1>4. Total(s, n - 1) \in Nat /\ Total(t, Len(t)) \in Nat
  BY <1>1, TotalIsNat
<1>5. Used(t) = Total(t, Len(t)) /\ Used(s) = Total(s, Len(s))
  BY <1>1, UsedIsTotal
<1> QED BY <1>1, <1>3, <1>4, <1>5 DEF t

LEMMA UsedOfAged ==
  ASSUME NEW s \in Seq(Admission), NEW t \in Seq(Admission), Len(s) = Len(t),
         \A i \in 1..Len(s) : s[i].weight = t[i].weight
  PROVE  Used(s) = Used(t)
<1>1. \A k \in 0..Len(t) : Total(s, 0 + k) = Total(s, 0) + Total(t, k)
  <2>1. 0 + Len(t) <= Len(s) /\ \A i \in 1..Len(t) : t[i].weight = s[0 + i].weight
    OBVIOUS
  <2> QED BY <2>1, TotalOfRest
<1>2. Total(s, Len(s)) = Total(t, Len(t))
  <2>1. Len(t) \in 0..Len(t) /\ 0 + Len(t) = Len(s)
    OBVIOUS
  <2>2. Total(s, Len(s)) = Total(s, 0) + Total(t, Len(t))
    BY <1>1, <2>1
  <2>3. Total(s, 0) = 0 /\ Total(t, Len(t)) \in Nat
    BY <2>1, TotalStep, TotalIsNat
  <2> QED BY <2>2, <2>3
<1> QED BY <1>2, UsedIsTotal

LEMMA UsedIsNat ==
  ASSUME NEW s \in Seq(Admission)
  PROVE  Used(s) \in Nat /\ Used(<<>>) = 0
<1>1. <<>> \in Seq(Admission) /\ Len(<<>>) = 0
  OBVIOUS
<1>2. Len(s) \in 0..Len(s)
  OBVIOUS
<1> QED BY <1>2, <1>1, UsedIsTotal, TotalIsNat, TotalStep

-----------------------------------------------------------------------------
(* Numbers: the units of a token are divisible by every interval.          *)

\* What a tick is worth at the fastest pace.
Rate == Unit \div Fastest

LEMMA Parameters ==
  /\ Limit \in Nat \ {0} /\ Unit \in Nat \ {0} /\ Budget \in Nat \ {0}
  /\ Window \in Nat \ {0} /\ Fastest \in Nat \ {0} /\ Recovery \in Nat \ {0}
  /\ Slowest \in Nat /\ Burst \in Nat /\ MaxDelay \in Nat
  /\ Fastest <= Slowest /\ Unit <= Burst /\ Unit <= Budget
BY PaceAssumption, DelayAssumption

LEMMA Divides ==
  ASSUME NEW u \in Nat, NEW i \in Nat \ {0}, u % i = 0
  PROVE  u \div i \in Nat /\ u = i * (u \div i)
OBVIOUS

LEMMA Cancels ==
  ASSUME NEW x \in Nat, NEW i \in Nat \ {0}, NEW q \in Nat
  PROVE  (x * (i * q)) \div i = x * q
<1>1. x * (i * q) = i * (x * q)
  OBVIOUS
<1>2. x * q \in Nat
  OBVIOUS
<1>3. \A y \in Nat : (i * y) \div i = y
  OBVIOUS
<1> QED BY <1>1, <1>2, <1>3

LEMMA SmallerShare ==
  ASSUME NEW i \in Nat, NEW f \in Nat \ {0}, NEW q \in Nat, NEW r \in Nat,
         i * q = f * r, f <= i
  PROVE  q <= r
<1> SUFFICES ASSUME q >= r + 1 PROVE FALSE
  OBVIOUS
<1>1. i * q >= f * q
  OBVIOUS
<1>2. f * q >= f * (r + 1)
  OBVIOUS
<1>3. f * (r + 1) = f * r + f
  OBVIOUS
<1> QED BY <1>1, <1>2, <1>3

LEMMA Monotonic ==
  ASSUME NEW x \in Nat, NEW y \in Nat, NEW z \in Nat, x <= y
  PROVE  x * z \in Nat /\ y * z \in Nat /\ x * z <= y * z
OBVIOUS

LEMMA OneMore ==
  ASSUME NEW x \in Nat, NEW z \in Nat
  PROVE  (x + 1) * z = x * z + z
OBVIOUS

\* At any pace a time earns no more than at the fastest.
LEMMA Gains ==
  /\ Rate \in Nat
  /\ \A x \in Nat : (x * Unit) \div Fastest = x * Rate
  /\ \A x \in Nat, i \in Fastest..Slowest :
       (x * Unit) \div i \in Nat /\ (x * Unit) \div i <= x * Rate
<1> USE Parameters
<1>1. Unit % Fastest = 0 /\ \A i \in Fastest..Slowest : Unit % i = 0
  BY PaceAssumption
<1>2. Rate \in Nat /\ Unit = Fastest * Rate
  BY <1>1, Divides DEF Rate
<1>3. ASSUME NEW x \in Nat PROVE (x * Unit) \div Fastest = x * Rate
  BY <1>2, Cancels
<1>4. ASSUME NEW x \in Nat, NEW i \in Fastest..Slowest
      PROVE  (x * Unit) \div i \in Nat /\ (x * Unit) \div i <= x * Rate
  <2> DEFINE q == Unit \div i
  <2>1. i \in Nat \ {0} /\ Unit % i = 0
    BY <1>1
  <2>2. q \in Nat /\ Unit = i * q
    BY <2>1, Divides
  <2>3. q <= Rate
    BY <1>2, <2>1, <2>2, SmallerShare
  <2>4. (x * Unit) \div i = x * q
    BY <2>1, <2>2, Cancels
  <2> HIDE DEF q
  <2>5. x * q \in Nat /\ x * q <= x * Rate
    BY <1>2, <2>2, <2>3
  <2> QED BY <2>4, <2>5
<1> QED BY <1>2, <1>3, <1>4

\* A missing part of a token takes at least a tick.
LEMMA AtLeastOne ==
  ASSUME NEW x \in Nat, NEW i \in Nat, x >= 1, i >= 1
  PROVE  (x * i + Unit - 1) \div Unit >= 1
<1>1. x * i \in Nat /\ x * i >= 1
  OBVIOUS
<1>2. Unit \in Nat \ {0}
  BY Parameters
<1>3. \A y \in Nat : y >= 1 => (y + Unit - 1) \div Unit >= 1
  BY <1>2
<1> QED BY <1>1, <1>3

LEMMA HorizonIsNat == Horizon \in Nat
<1> USE Parameters
<1> DEFINE S == {Budget - v : v \in Range(weight)}
<1>1. Range(weight) \subseteq 1..Budget /\ Range(weight) # {}
  BY CallAssumption DEF Range
<1>2. S \in SUBSET Nat /\ S # {}
  BY <1>1
<1>3. PICK x \in S : \A y \in S : x <= y
  <2> HIDE DEF S
  <2> QED BY <1>2, LeastExists
<1>4. PICK w \in Range(weight) : x = Budget - w
  BY <1>3
<1>5. \A v \in Range(weight) : v <= w
  BY <1>1, <1>3, <1>4
<1>6. Heaviest \in 1..Budget
  BY <1>1, <1>4, <1>5 DEF Heaviest
<1>7. (Burst + Heaviest) \div Unit \in Nat /\ (Burst + Heaviest) \div Unit >= 1
  <2>1. \A y \in Nat : y >= Unit => y \div Unit \in Nat /\ y \div Unit >= 1
    OBVIOUS
  <2> QED BY <1>6, <2>1
<1>8. \A y \in Nat : y >= 1 => Slowest * (y - 1) \in Nat
  OBVIOUS
<1> QED BY <1>7, <1>8 DEF Horizon

-----------------------------------------------------------------------------
(* The inductive invariant.                                                *)

\* The types the arguments need.
Types ==
  /\ interval \in Fastest..Slowest /\ tokens \in Int /\ updated \in Nat
  /\ streak \in 0..(Recovery - 1) /\ cooldown \in Int
  /\ stage \in [Call -> Stages] /\ pace \in [Call -> Fastest..Slowest]
  /\ wave \in [Call -> Waves] /\ spent \in Nat /\ clear \in 0..Horizon

\* The admissions are in their window, the oldest first, and within the budget.
Recent == [age : 0..(Window - 1), weight : 1..Budget]

Budgeted ==
  /\ recent \in Seq(Recent)
  /\ \A i, j \in 1..Len(recent) : i <= j => recent[i].age >= recent[j].age
  /\ Used(recent) <= Budget

\* A call of the present wave was admitted at today's pace or a faster one, one
\* of a past wave at a faster one, unless there is no slower one.
Waved ==
  \A c \in Call : stage[c] = "sent" =>
    /\ wave[c] = "present" => pace[c] <= interval
    /\ wave[c] = "past" => pace[c] < interval \/ interval = Slowest

\* The ticks the next refill credits.
Credited == IF cooldown > 0 THEN 0 ELSE Smaller(updated, -cooldown)

\* What was spent since a slowdown, what is left and what the next refill may
\* add were earned since, but for the one token a slowdown leaves.
Earned ==
  clear < Horizon => tokens + spent + Credited * Rate <= Unit + clear * Rate

-----------------------------------------------------------------------------
(* What the helpers of the bucket do.                                      *)

LEMMA RefillFacts ==
  ASSUME Types
  PROVE  /\ Credited \in Nat /\ Refilled \in Int /\ RefilledAt \in Nat
         /\ Refilled <= tokens + Credited * Rate
         /\ RefilledAt = 0 \/ cooldown >= 0 \/ updated = 0
<1>1. Credited \in Nat
  BY DEF Types, Credited, Smaller
<1>2. (Credited * Unit) \div interval \in Nat
      /\ (Credited * Unit) \div interval <= Credited * Rate
  BY <1>1, Gains DEF Types
<1>3. Refilled = Smaller(Burst, tokens + (Credited * Unit) \div interval)
  BY DEF Refilled, Credited
<1>4. Credited * Rate \in Nat
  BY <1>1, Gains, Monotonic
<1>5. Refilled \in Int /\ Refilled <= tokens + Credited * Rate
  BY <1>2, <1>3, <1>4, Parameters DEF Smaller, Types
<1>6. RefilledAt \in Nat /\ (RefilledAt = 0 \/ cooldown >= 0 \/ updated = 0)
  BY DEF RefilledAt, Types
<1> QED BY <1>1, <1>5, <1>6

\* A refill leaves nothing to credit, and takes no more than there was.
LEMMA RefillStep ==
  ASSUME Types, updated' = RefilledAt, cooldown' = cooldown
  PROVE  Credited' = 0
BY RefillFacts DEF Types, Credited, RefilledAt, Smaller

\* The group of variables that an answer feeds, after a pause and after a
\* report of pressure.
LEMMA PauseFacts ==
  ASSUME Types, NEW ms \in Nat, Pause(ms)
  PROVE  /\ interval' = interval /\ updated' = updated /\ wave' = wave
         /\ tokens' \in Int /\ cooldown' \in Int /\ streak' \in 0..(Recovery - 1)
         /\ spent' \in Nat /\ clear' \in 0..Horizon
         /\ \/ clear' = Horizon
            \/ /\ tokens' = tokens /\ spent' = spent /\ clear' = clear
               /\ cooldown' = cooldown \/ cooldown' > 0
BY Parameters, HorizonIsNat DEF Pause, Types, Smaller, Larger

LEMMA PressureFacts ==
  ASSUME Types, NEW c \in Call, NEW ms \in Nat, Pressure(c, ms)
  PROVE  /\ interval' \in Fastest..Slowest /\ updated' \in Nat
         /\ tokens' \in Int /\ cooldown' \in Int /\ streak' \in 0..(Recovery - 1)
         /\ wave' \in [Call -> Waves] /\ spent' \in Nat /\ clear' \in 0..Horizon
         /\ \/ /\ interval' = interval /\ tokens' = tokens /\ updated' = updated
               /\ wave' = wave /\ spent' = spent /\ clear' = clear
               /\ cooldown' = cooldown \/ cooldown' > 0
            \/ /\ interval <= pace[c] /\ interval' = Smaller(2 * interval, Slowest)
               /\ wave' = [d \in Call |-> IF wave[d] = "across" THEN "across" ELSE "past"]
               /\ tokens' = Unit /\ spent' = 0 /\ clear' = 0 /\ Credited' = 0
<1> USE Parameters, HorizonIsNat
<1>1. CASE pace[c] < interval \/ (ms > 0 /\ cooldown > 0)
  <2>1. ~(pace[c] >= interval) <=> pace[c] < interval
    BY DEF Types
  <2> QED BY <1>1, <2>1 DEF Pressure, Slow, Types, Smaller, Larger, seen
<1>2. CASE pace[c] >= interval /\ ~(ms > 0 /\ cooldown > 0)
  <2>1. Slow(ms)
    BY <1>2 DEF Pressure
  <2>2. /\ interval' = Smaller(2 * interval, Slowest)
        /\ tokens' = Unit /\ updated' = RefilledAt /\ streak' = 0
        /\ cooldown' = IF ms > 0 THEN Smaller(ms, Window) ELSE cooldown
        /\ wave' = [d \in Call |-> IF wave[d] = "across" THEN "across" ELSE "past"]
        /\ spent' = 0 /\ clear' = 0
    BY <1>2, <2>1 DEF Slow
  <2>3. interval' \in Fastest..Slowest
    BY <2>2 DEF Types, Smaller
  <2>4. wave' \in [Call -> Waves]
    BY <2>2 DEF Waves
  <2>5. cooldown' \in Int /\ updated' \in Nat
    BY <2>2, RefillFacts DEF Types, Smaller
  <2>6. Credited' = 0
    <3>1. CASE ms > 0
      BY <2>2, <3>1 DEF Credited, Smaller
    <3>2. CASE ms = 0
      BY <2>2, <3>2, RefillStep
    <3> QED BY <3>1, <3>2
  <2> QED BY <1>2, <2>2, <2>3, <2>4, <2>5, <2>6
<1> QED BY <1>1, <1>2 DEF Types

LEMMA QuotaFacts ==
  ASSUME Types, NEW c \in Call, NEW p \in BOOLEAN, NEW ra \in RetryAfter \cup {NoHeader},
         QuotaError(c, p, ra)
  PROVE  \/ UNCHANGED <<interval, tokens, updated, streak, cooldown, seen>>
         \/ \E ms \in Nat : Pause(ms) \/ Pressure(c, ms)
<1> USE Parameters
<1>1. Capped(ra) \in Nat /\ (IF ra = NoHeader THEN Window ELSE Capped(ra)) \in Nat
  BY DelayAssumption DEF Capped, Smaller
<1> QED BY <1>1 DEF QuotaError

-----------------------------------------------------------------------------
(* The steps.                                                              *)

\* The steps that leave the bucket and the waves as they are.
Elsewhere ==
  /\ UNCHANGED <<interval, tokens, updated, cooldown, recent, spent, clear, wave, pace>>
  /\ streak' \in 0..(Recovery - 1)
  /\ stage' \in [Call -> Stages]
  /\ \A c \in Call : stage'[c] = "sent" => stage[c] = "sent"

LEMMA ElsewhereFacts ==
  ASSUME Types
  PROVE  /\ StartNext \/ Abort => Elsewhere
         /\ \A c \in Call :
              StartSolo(c) \/ LeaveQueue(c) \/ Retry(c) \/ AbortBackoff(c) \/ Refuse(c)
                => Elsewhere
         /\ \A c \in Call, ra \in RetryAfter \cup {NoHeader} : Outage(c, ra) => Elsewhere
<1> USE Parameters DEF Elsewhere, Types, bucket, pool, seen, Stages
<1>1. ASSUME StartNext PROVE Elsewhere
  BY <1>1 DEF StartNext, Rejected, Enqueue
<1>2. ASSUME Abort PROVE Elsewhere
  BY <1>2 DEF Abort
<1>3. ASSUME NEW c \in Call, StartSolo(c) PROVE Elsewhere
  BY <1>3 DEF StartSolo, Enqueue
<1>4. ASSUME NEW c \in Call, LeaveQueue(c) PROVE Elsewhere
  BY <1>4 DEF LeaveQueue, Rejected
<1>5. ASSUME NEW c \in Call, Retry(c) PROVE Elsewhere
  BY <1>5 DEF Retry, Enqueue
<1>6. ASSUME NEW c \in Call, AbortBackoff(c) PROVE Elsewhere
  BY <1>6 DEF AbortBackoff, Rejected
<1>7. ASSUME NEW c \in Call, Refuse(c) PROVE Elsewhere
  BY <1>7 DEF Refuse, Disturb, Rejected
<1>8. ASSUME NEW c \in Call, NEW ra \in RetryAfter \cup {NoHeader}, Outage(c, ra)
      PROVE  Elsewhere
  BY <1>8 DEF Outage, Disturb, BackOff, Rejected
<1> QED BY <1>1, <1>2, <1>3, <1>4, <1>5, <1>6, <1>7, <1>8

\* The stages after an answer.
LEMMA AnswerFacts ==
  ASSUME Types, NEW c \in Call, NEW p \in BOOLEAN, NEW ra \in RetryAfter \cup {NoHeader},
         QuotaError(c, p, ra)
  PROVE  /\ stage[c] = "sent" /\ stage'[c] # "sent"
         /\ stage' \in [Call -> Stages] /\ pace' = pace /\ recent' = recent
         /\ \A d \in Call : stage'[d] = "sent" => stage[d] = "sent"
BY DEF QuotaError, Fault, BackOff, Rejected, Types, Stages

\* A step is one of those below, or elsewhere.
LEMMA Kinds ==
  ASSUME Types, Next
  PROVE  \/ Elsewhere
         \/ Tick
         \/ \E c \in Call : Admit(c) \/ Sleep(c) \/ Succeed(c)
         \/ \E c \in Call, ra \in RetryAfter \cup {NoHeader}, p \in BOOLEAN :
              QuotaError(c, p, ra)
BY ElsewhereFacts DEF Next, Step, Answer

\* The pace after an answer: the same, or a faster one.
LEMMA SucceedFacts ==
  ASSUME Types, NEW c \in Call, Succeed(c)
  PROVE  /\ interval' \in Fastest..Slowest /\ interval' <= interval
         /\ streak' \in 0..(Recovery - 1) /\ wave' \in [Call -> Waves]
         /\ wave' = [d \in Call |-> "across"] \/ (interval' = interval /\ wave' = wave)
         /\ \/ tokens' = tokens /\ updated' = updated
            \/ tokens' = Refilled /\ updated' = RefilledAt
         /\ stage' \in [Call -> Stages]
         /\ \A d \in Call : stage'[d] = "sent" => stage[d] = "sent"
         /\ UNCHANGED <<cooldown, pace, recent, spent, clear>>
<1> USE Parameters
<1> DEFINE total == streak + weight[c]
           steps == total \div Recovery
<1>1. total \in Nat
  BY CallAssumption DEF Types
<1>2. steps \in Nat /\ total % Recovery \in 0..(Recovery - 1)
  <2>1. \A y \in Nat : y \div Recovery \in Nat /\ y % Recovery \in 0..(Recovery - 1)
    OBVIOUS
  <2> HIDE DEF total
  <2> QED BY <1>1, <2>1
<1>3. /\ UNCHANGED <<cooldown, pace, recent, spent, clear>>
      /\ stage' = [stage EXCEPT ![c] = "done"]
  BY DEF Succeed
<1>4. /\ stage' \in [Call -> Stages]
      /\ \A d \in Call : stage'[d] = "sent" => stage[d] = "sent"
  BY <1>3 DEF Types, Stages
<1>5. \/ UNCHANGED <<interval, tokens, updated, streak, wave>>
      \/ streak' = total % Recovery /\ UNCHANGED <<interval, tokens, updated, wave>>
      \/ /\ streak' = total % Recovery
         /\ interval' = Larger(Fastest, interval - steps)
         /\ tokens' = Refilled /\ updated' = RefilledAt
         /\ wave' = IF interval' = interval THEN wave ELSE [d \in Call |-> "across"]
  BY DEF Succeed
<1> HIDE DEF total, steps
<1>6. Larger(Fastest, interval - steps) \in Fastest..Slowest
      /\ Larger(Fastest, interval - steps) <= interval
  BY <1>2 DEF Types, Larger
<1>7. [d \in Call |-> "across"] \in [Call -> Waves]
  BY DEF Waves
<1> QED BY <1>2, <1>3, <1>4, <1>5, <1>6, <1>7 DEF Types

LEMMA AdmitFacts ==
  ASSUME Types, NEW c \in Call, Admit(c)
  PROVE  /\ stage[c] # "sent" /\ stage' = [stage EXCEPT ![c] = "sent"]
         /\ tokens' = Refilled - weight[c] /\ updated' = RefilledAt
         /\ pace' = [pace EXCEPT ![c] = interval]
         /\ wave' = [wave EXCEPT ![c] = "present"]
         /\ spent' = IF clear < Horizon THEN spent + weight[c] ELSE 0
         /\ recent' = Append(recent, [age |-> 0, weight |-> weight[c]])
         /\ UNCHANGED <<interval, streak, cooldown, clear>>
         /\ Wait(c) <= 0 /\ weight[c] \in 1..Budget
BY CallAssumption DEF Admit

LEMMA TickFacts ==
  ASSUME Types, Tick
  PROVE  /\ updated' \in Nat /\ cooldown' \in Int /\ spent' \in Nat /\ clear' \in 0..Horizon
         /\ UNCHANGED <<interval, tokens, streak, stage, pace, wave>>
         /\ clear' < Horizon => /\ clear < Horizon /\ spent' = spent
                                /\ \/ clear' = clear /\ Credited' = 0
                                   \/ clear' = clear + 1 /\ Credited' <= Credited + 1
<1> USE HorizonIsNat
<1>1. /\ updated' = Smaller(updated + 1, Horizon)
      /\ cooldown' = Larger(cooldown - 1, -updated')
      /\ clear' = IF cooldown > 0 THEN clear ELSE Smaller(clear + 1, Horizon)
      /\ spent' = IF clear' = Horizon THEN 0 ELSE spent
      /\ UNCHANGED <<interval, tokens, streak, stage, pace, wave>>
  BY DEF Tick
<1>2. updated' \in Nat /\ cooldown' \in Int /\ spent' \in Nat /\ clear' \in 0..Horizon
  BY <1>1 DEF Types, Smaller, Larger
<1>3. ASSUME clear' < Horizon, cooldown > 0
      PROVE  clear < Horizon /\ spent' = spent /\ clear' = clear /\ Credited' = 0
  BY <1>1, <1>2, <1>3 DEF Types, Smaller, Larger, Credited
<1>4. ASSUME clear' < Horizon, ~(cooldown > 0)
      PROVE  clear < Horizon /\ spent' = spent /\ clear' = clear + 1 /\ Credited' <= Credited + 1
  BY <1>1, <1>2, <1>4 DEF Types, Smaller, Larger, Credited
<1> QED BY <1>1, <1>2, <1>3, <1>4

LEMMA StepTypes == Types /\ [Next]_vars => Types'
<1> SUFFICES ASSUME Types, [Next]_vars PROVE Types'
  OBVIOUS
<1> USE Parameters, HorizonIsNat
<1>1. CASE UNCHANGED vars
  BY <1>1 DEF vars, Types
<1>2. CASE Elsewhere
  BY <1>2 DEF Elsewhere, Types
<1>3. CASE Tick
  BY <1>3, TickFacts DEF Types
<1>4. ASSUME NEW c \in Call, Admit(c) PROVE Types'
  <2>1. spent' \in Nat /\ tokens' \in Int /\ updated' \in Nat
    <3>1. weight[c] \in 1..Budget /\ Refilled \in Int /\ RefilledAt \in Nat
      BY <1>4, AdmitFacts, RefillFacts
    <3>2. spent' = (IF clear < Horizon THEN spent + weight[c] ELSE 0)
          /\ tokens' = Refilled - weight[c] /\ updated' = RefilledAt
      BY <1>4, AdmitFacts
    <3> QED BY <3>1, <3>2 DEF Types
  <2>2. stage' \in [Call -> Stages] /\ pace' \in [Call -> Fastest..Slowest]
        /\ wave' \in [Call -> Waves]
    BY <1>4, AdmitFacts DEF Types, Stages, Waves
  <2> QED BY <1>4, <2>1, <2>2, AdmitFacts DEF Types
<1>5. ASSUME NEW c \in Call, Sleep(c) PROVE Types'
  BY <1>5, RefillFacts DEF Sleep, Types, pool, seen, Stages
<1>6. ASSUME NEW c \in Call, Succeed(c) PROVE Types'
  BY <1>6, SucceedFacts, RefillFacts DEF Types
<1>7. ASSUME NEW c \in Call, NEW ra \in RetryAfter \cup {NoHeader}, NEW p \in BOOLEAN,
             QuotaError(c, p, ra)
      PROVE  Types'
  <2>1. stage' \in [Call -> Stages] /\ pace' = pace
    BY <1>7, AnswerFacts
  <2>2. CASE UNCHANGED <<interval, tokens, updated, streak, cooldown, seen>>
    BY <2>1, <2>2 DEF Types, seen
  <2>3. ASSUME NEW ms \in Nat, Pause(ms) PROVE Types'
    BY <2>1, <2>3, PauseFacts DEF Types
  <2>4. ASSUME NEW ms \in Nat, Pressure(c, ms) PROVE Types'
    BY <2>1, <2>4, PressureFacts DEF Types
  <2> QED BY <1>7, <2>2, <2>3, <2>4, QuotaFacts
<1> QED BY <1>1, <1>2, <1>3, <1>4, <1>5, <1>6, <1>7, Kinds

LEMMA StepWaved == Types /\ Waved /\ [Next]_vars => Waved'
<1> SUFFICES ASSUME Types, Waved, [Next]_vars,
                    NEW d \in Call, stage'[d] = "sent"
             PROVE  /\ wave'[d] = "present" => pace'[d] <= interval'
                    /\ wave'[d] = "past" => pace'[d] < interval' \/ interval' = Slowest
  BY DEF Waved
<1> DEFINE Goal == /\ wave'[d] = "present" => pace'[d] <= interval'
                   /\ wave'[d] = "past" => pace'[d] < interval' \/ interval' = Slowest
<1>0. /\ stage[d] = "sent" /\ wave[d] = "present" => pace[d] <= interval
      /\ stage[d] = "sent" /\ wave[d] = "past" => pace[d] < interval \/ interval = Slowest
  BY DEF Waved
<1>1. ASSUME stage[d] = "sent", UNCHANGED <<interval, wave, pace>> PROVE Goal
  BY <1>0, <1>1
<1>2. CASE UNCHANGED vars \/ Elsewhere
  BY <1>1, <1>2 DEF vars, Elsewhere
<1>3. CASE Tick
  BY <1>1, <1>3, TickFacts
<1>4. ASSUME NEW c \in Call, Admit(c) PROVE Goal
  <2>1. CASE d = c
    <3>1. wave'[d] = "present" /\ pace'[d] = interval /\ interval' = interval
      BY <1>4, <2>1, AdmitFacts DEF Types
    <3> QED BY <3>1 DEF Types
  <2>2. CASE d # c
    <3>1. /\ stage' = [stage EXCEPT ![c] = "sent"] /\ wave' = [wave EXCEPT ![c] = "present"]
          /\ pace' = [pace EXCEPT ![c] = interval] /\ interval' = interval
      BY <1>4, AdmitFacts
    <3>2. wave'[d] = wave[d] /\ pace'[d] = pace[d] /\ interval' = interval /\ stage[d] = "sent"
      BY <2>2, <3>1 DEF Types
    <3> QED BY <1>0, <3>2
  <2> QED BY <2>1, <2>2
<1>5. ASSUME NEW c \in Call, Sleep(c) PROVE Goal
  <2>1. stage' = [stage EXCEPT ![c] = "asleep"] /\ UNCHANGED <<interval, wave, pace>>
    BY <1>5 DEF Sleep, seen
  <2>2. stage[d] = "sent"
    BY <2>1 DEF Types
  <2> QED BY <1>1, <2>1, <2>2
<1>6. ASSUME NEW c \in Call, Succeed(c) PROVE Goal
  BY <1>1, <1>6, SucceedFacts
<1>7. ASSUME NEW c \in Call, NEW ra \in RetryAfter \cup {NoHeader}, NEW p \in BOOLEAN,
             QuotaError(c, p, ra)
      PROVE  Goal
  <2>1. stage[d] = "sent" /\ pace' = pace
    BY <1>7, AnswerFacts
  <2>2. CASE UNCHANGED <<interval, tokens, updated, streak, cooldown, seen>>
    BY <1>1, <2>1, <2>2 DEF seen
  <2>3. ASSUME NEW ms \in Nat, Pause(ms) PROVE Goal
    BY <1>1, <2>1, <2>3, PauseFacts
  <2>4. ASSUME NEW ms \in Nat, Pressure(c, ms) PROVE Goal
    <3>1. CASE interval' = interval /\ wave' = wave
      BY <1>1, <2>1, <3>1
    <3>2. CASE /\ interval' = Smaller(2 * interval, Slowest)
               /\ wave' = [e \in Call |-> IF wave[e] = "across" THEN "across" ELSE "past"]
      <4>1. wave'[d] # "present" /\ (wave'[d] = "past" => wave[d] # "across")
        BY <3>2
      <4>2. wave[d] # "across" => pace[d] <= interval \/ interval = Slowest
        BY <1>0, <2>1 DEF Types, Waves
      <4>3. pace[d] <= interval => pace[d] < interval' \/ interval' = Slowest
        BY <3>2, Parameters DEF Types, Smaller
      <4>4. interval = Slowest => interval' = Slowest
        BY <3>2, Parameters DEF Types, Smaller
      <4> QED BY <2>1, <4>1, <4>2, <4>3, <4>4
    <3> QED BY <2>4, <3>1, <3>2, PressureFacts
  <2> QED BY <1>7, <2>2, <2>3, <2>4, QuotaFacts
<1> QED BY <1>2, <1>3, <1>4, <1>5, <1>6, <1>7, Kinds

LEMMA StepEarned == Types /\ Earned /\ [Next]_vars => Earned'
<1> SUFFICES ASSUME Types, Earned, [Next]_vars, clear' < Horizon
             PROVE  tokens' + spent' + Credited' * Rate <= Unit + clear' * Rate
  BY DEF Earned
<1> DEFINE now  == Credited * Rate
           then == Credited' * Rate
           due  == clear * Rate
           soon == clear' * Rate
           Goal == tokens' + spent' + then <= Unit + soon
<1> SUFFICES Goal
  OBVIOUS
<1> USE HorizonIsNat, Parameters
<1>0. Types' /\ Credited' \in Nat /\ Credited \in Nat /\ Rate \in Nat
      /\ clear \in Nat /\ clear' \in Nat
  <2>1. Types' /\ Rate \in Nat /\ Credited \in Nat
    BY StepTypes, Gains, RefillFacts
  <2>2. updated' \in Nat /\ cooldown' \in Int /\ clear' \in Nat /\ clear \in Nat
    BY <2>1 DEF Types
  <2>3. Credited' \in Nat
    <3>1. Credited' = IF cooldown' > 0 THEN 0
                      ELSE IF updated' < -cooldown' THEN updated' ELSE -cooldown'
      BY DEF Credited, Smaller
    <3>2. \A u \in Nat, k \in Int :
            (IF k > 0 THEN 0 ELSE IF u < -k THEN u ELSE -k) \in Nat
      OBVIOUS
    <3>3. (IF cooldown' > 0 THEN 0
           ELSE IF updated' < -cooldown' THEN updated' ELSE -cooldown') \in Nat
      BY <2>2, <3>2
    <3> QED BY <3>1, <3>3
  <2> QED BY <2>1, <2>2, <2>3
<1>p. now \in Nat /\ then \in Nat /\ due \in Nat /\ soon \in Nat
  <2>1. \A x \in Nat : x * Rate \in Nat
    BY <1>0
  <2> QED BY <1>0, <2>1
<1>a. clear < Horizon => tokens + spent + now <= Unit + due
  BY DEF Earned
<1>b. Refilled \in Int /\ Refilled <= tokens + now
  BY RefillFacts
<1>c. /\ Credited' = 0 => then = 0
      /\ Credited' = Credited => then = now
      /\ clear' = clear => soon = due
  <2>1. \A x \in Nat : x = 0 => x * Rate = 0
    BY <1>0
  <2>2. Credited' = 0 => then = 0
    BY <1>0, <2>1
  <2>3. \A x, y \in Nat : x = y => x * Rate = y * Rate
    OBVIOUS
  <2>4. Credited' = Credited => then = now
    BY <1>0, <2>3
  <2>5. clear' = clear => soon = due
    BY <1>0, <2>3
  <2> QED BY <2>2, <2>4, <2>5
<1>d. /\ clear' = clear + 1 => soon = due + Rate
      /\ Credited' <= Credited + 1 => then <= now + Rate
  <2>1. \A x \in Nat : (x + 1) * Rate = x * Rate + Rate
    BY <1>0, OneMore
  <2>2. \A x, y \in Nat : x <= y => x * Rate <= y * Rate
    BY <1>0, Monotonic
  <2>3. clear' = clear + 1 => soon = due + Rate
    BY <1>0, <2>1
  <2>4. Credited + 1 \in Nat
    BY <1>0
  <2>5. Credited' <= Credited + 1 => then <= (Credited + 1) * Rate
    BY <1>0, <2>2, <2>4
  <2>6. (Credited + 1) * Rate = now + Rate
    BY <1>0, <2>1
  <2> QED BY <2>3, <2>5, <2>6
<1> HIDE DEF now, then, due, soon
<1>1. ASSUME UNCHANGED <<tokens, spent, clear>>, Credited' = Credited \/ Credited' = 0
      PROVE  Goal
  BY <1>1, <1>p, <1>a, <1>c DEF Types
<1>2. ASSUME tokens' = Refilled, UNCHANGED <<spent, clear>>, Credited' = 0
      PROVE  Goal
  BY <1>2, <1>p, <1>a, <1>b, <1>c DEF Types
<1>3. CASE UNCHANGED vars \/ Elsewhere
  <2>1. UNCHANGED <<tokens, spent, clear, cooldown, updated>>
    BY <1>3 DEF vars, Elsewhere
  <2> QED BY <1>1, <2>1 DEF Credited
<1>4. CASE Tick
  <2>1. /\ clear < Horizon /\ spent' = spent /\ tokens' = tokens
        /\ \/ clear' = clear /\ Credited' = 0
           \/ clear' = clear + 1 /\ Credited' <= Credited + 1
    BY <1>4, TickFacts
  <2>2. CASE clear' = clear /\ Credited' = 0
    BY <1>1, <2>1, <2>2
  <2>3. CASE clear' = clear + 1 /\ Credited' <= Credited + 1
    BY <1>0, <1>p, <1>a, <1>d, <2>1, <2>3 DEF Types
  <2> QED BY <2>1, <2>2, <2>3
<1>5. ASSUME NEW c \in Call, Admit(c) PROVE Goal
  <2>1. /\ tokens' = Refilled - weight[c] /\ spent' = spent + weight[c]
        /\ clear' = clear /\ weight[c] \in 1..Budget /\ clear < Horizon
    BY <1>5, AdmitFacts
  <2>2. Credited' = 0
    BY <1>5, AdmitFacts, RefillStep
  <2> QED BY <1>p, <1>a, <1>b, <1>c, <2>1, <2>2 DEF Types
<1>6. ASSUME NEW c \in Call, Sleep(c) PROVE Goal
  <2>1. tokens' = Refilled /\ updated' = RefilledAt /\ UNCHANGED <<cooldown, spent, clear>>
    BY <1>6 DEF Sleep, seen
  <2> QED BY <1>2, <2>1, RefillStep
<1>7. ASSUME NEW c \in Call, Succeed(c) PROVE Goal
  <2>1. UNCHANGED <<cooldown, spent, clear>>
    BY <1>7, SucceedFacts
  <2>2. CASE tokens' = tokens /\ updated' = updated
    BY <1>1, <2>1, <2>2 DEF Credited
  <2>3. CASE tokens' = Refilled /\ updated' = RefilledAt
    BY <1>2, <2>1, <2>3, RefillStep
  <2> QED BY <1>7, <2>2, <2>3, SucceedFacts
<1>8. ASSUME NEW c \in Call, NEW ra \in RetryAfter \cup {NoHeader}, NEW p \in BOOLEAN,
             QuotaError(c, p, ra)
      PROVE  Goal
  <2>1. CASE UNCHANGED <<interval, tokens, updated, streak, cooldown, seen>>
    BY <1>1, <2>1 DEF seen, Credited
  <2>2. ASSUME cooldown' = cooldown \/ cooldown' > 0, updated' = updated
        PROVE  Credited' = Credited \/ Credited' = 0
    BY <2>2 DEF Credited
  <2>3. ASSUME NEW ms \in Nat, Pause(ms) PROVE Goal
    BY <1>1, <2>2, <2>3, PauseFacts
  <2>4. ASSUME NEW ms \in Nat, Pressure(c, ms) PROVE Goal
    <3>1. CASE /\ tokens' = tokens /\ updated' = updated /\ spent' = spent /\ clear' = clear
               /\ cooldown' = cooldown \/ cooldown' > 0
      BY <1>1, <2>2, <3>1
    <3>2. CASE tokens' = Unit /\ spent' = 0 /\ clear' = 0 /\ Credited' = 0
      BY <1>p, <1>c, <3>2
    <3> QED BY <2>4, <3>1, <3>2, PressureFacts
  <2> QED BY <1>8, <2>1, <2>3, <2>4, QuotaFacts
<1> QED BY <1>3, <1>4, <1>5, <1>6, <1>7, <1>8, Kinds

\* The wait for the minute budget ends only when the call fits into it.
LEMMA BudgetWaitFacts ==
  ASSUME NEW s \in Seq(Recent), NEW w \in 1..Budget
  PROVE  BudgetWait(s, w) \in Nat /\ (BudgetWait(s, w) = 0 => Used(s) + w <= Budget)
<1> USE Parameters
<1> SUFFICES ASSUME ~(Used(s) + w <= Budget) PROVE BudgetWait(s, w) \in Nat \ {0}
  BY DEF BudgetWait
<1> DEFINE fits == {k \in 1..Len(s) : Used(SubSeq(s, k + 1, Len(s))) + w <= Budget}
           k == CHOOSE k \in fits : \A j \in fits : k <= j
<1>1. s \in Seq(Admission) /\ Len(s) \in Nat
  <2>1. Recent \subseteq Admission
    BY DEF Recent, Admission
  <2>2. \A i \in 1..Len(s) : s[i] \in Recent
    OBVIOUS
  <2> QED BY <2>1, <2>2
<1>2. Len(s) # 0
  <2>1. CASE Len(s) = 0
    <3>1. s = <<>>
      BY <2>1
    <3>2. Used(s) = 0
      BY <3>1, <1>1, UsedIsNat
    <3> QED BY <3>2
  <2> QED BY <2>1
<1>3. Len(s) \in fits
  <2>1. SubSeq(s, Len(s) + 1, Len(s)) = <<>>
    BY <1>1
  <2>2. Used(<<>>) = 0
    BY <1>1, UsedIsNat
  <2>3. Used(SubSeq(s, Len(s) + 1, Len(s))) = 0
    BY <2>1, <2>2
  <2> QED BY <1>1, <1>2, <2>3
<1>4. fits \in SUBSET Nat /\ fits \in SUBSET (1..Len(s))
  OBVIOUS
<1>5. BudgetWait(s, w) = Window - s[k].age
  BY DEF BudgetWait
<1> HIDE DEF fits
<1>6. \E x \in fits : \A y \in fits : x <= y
  BY <1>3, <1>4, LeastExists
<1>7. k \in fits
  BY <1>6
<1> HIDE DEF k
<1>8. s[k] \in Recent
  BY <1>4, <1>7
<1>9. s[k].age \in 0..(Window - 1)
  BY <1>8 DEF Recent
<1> QED BY <1>5, <1>9

\* So does the wait for a token.
LEMMA PaceWaitFacts ==
  ASSUME Types, NEW w \in 1..Budget
  PROVE  PaceWait(w) \in Int /\ (PaceWait(w) <= 0 => Refilled >= Smaller(w, Unit))
<1> USE Parameters
<1> DEFINE short == Smaller(w, Unit) - Refilled
<1>1. short \in Int /\ interval \in Nat /\ interval >= 1
  BY RefillFacts DEF Types, Smaller
<1>2. CASE short <= 0
  <2>1. PaceWait(w) = 0
    BY <1>2 DEF PaceWait
  <2> QED BY <1>1, <1>2, <2>1, RefillFacts DEF Smaller
<1>3. CASE ~(short <= 0)
  <2>1. PaceWait(w) = (short * interval + Unit - 1) \div Unit
    BY <1>3 DEF PaceWait
  <2> HIDE DEF short
  <2>2. short \in Nat /\ short >= 1
    BY <1>1, <1>3
  <2>3. (short * interval + Unit - 1) \div Unit >= 1
    BY <1>1, <2>2, AtLeastOne
  <2>4. (short * interval + Unit - 1) \div Unit \in Int
    <3>1. short * interval \in Nat
      BY <1>1, <2>2
    <3> QED BY <3>1
  <2> QED BY <2>1, <2>3, <2>4
<1> QED BY <1>2, <1>3

LEMMA AdmissionFits ==
  ASSUME Types, recent \in Seq(Recent), NEW c \in Call, Admit(c)
  PROVE  Used(recent) + weight[c] <= Budget /\ Refilled >= Smaller(weight[c], Unit)
<1>1. weight[c] \in 1..Budget /\ Wait(c) <= 0
  BY AdmitFacts
<1>2. BudgetWait(recent, weight[c]) \in Nat /\ PaceWait(weight[c]) \in Int /\ cooldown \in Int
  BY <1>1, BudgetWaitFacts, PaceWaitFacts DEF Types
<1>3. BudgetWait(recent, weight[c]) <= 0 /\ PaceWait(weight[c]) <= 0
  BY <1>1, <1>2 DEF Wait, Larger
<1> QED BY <1>1, <1>2, <1>3, BudgetWaitFacts, PaceWaitFacts

\* The window keeps admissions in it, in their order, and none of those before.
LEMMA WindowFacts ==
  ASSUME NEW s \in Seq(Admission),
         \A i \in 1..Len(s) : s[i].weight \in 1..Budget,
         \A i, j \in 1..Len(s) : i <= j => s[i].age >= s[j].age
  PROVE  /\ InWindow(s) \in Seq(Recent)
         /\ \A i, j \in 1..Len(InWindow(s)) :
              i <= j => InWindow(s)[i].age >= InWindow(s)[j].age
         /\ Used(InWindow(s)) <= Used(s)
<1> DEFINE kept == {k \in 1..Len(s) : /\ s[k].age < Window
                                      /\ \A j \in 1..(k - 1) : s[j].age >= Window}
           n == CHOOSE k \in kept : TRUE
           t == SubSeq(s, n, Len(s))
<1> USE Parameters
<1>0. Len(s) \in Nat
  OBVIOUS
<1>1. CASE kept = {}
  <2>1. InWindow(s) = <<>>
    BY <1>1 DEF InWindow
  <2>2. <<>> \in Seq(Recent) /\ Len(<<>>) = 0
    OBVIOUS
  <2>3. Used(<<>>) = 0 /\ Used(s) \in Nat
    BY UsedIsNat
  <2> QED BY <2>1, <2>2, <2>3
<1>2. CASE kept # {}
  <2>1. InWindow(s) = t
    BY <1>2 DEF InWindow
  <2>2. n \in kept
    BY <1>2
  <2>3. n \in 1..Len(s) /\ s[n].age < Window
    BY <2>2
  <2> HIDE DEF n, kept
  <2>4. /\ Len(t) = Len(s) - (n - 1)
        /\ \A i \in 1..Len(t) : t[i] = s[(n - 1) + i]
    BY <1>0, <2>3
  <2>5. t \in Seq(Admission) /\ Used(t) <= Used(s)
    BY <1>0, <2>3, UsedOfRest
  <2> HIDE DEF t
  <2>6. ASSUME NEW i \in 1..Len(t) PROVE t[i] \in Recent
    <3>1. (n - 1) + i \in 1..Len(s) /\ n <= (n - 1) + i
      BY <1>0, <2>3, <2>4
    <3>2. s[(n - 1) + i].age <= s[n].age
      BY <2>3, <3>1
    <3>3. s[(n - 1) + i].age \in Nat /\ s[n].age \in Nat /\ s[(n - 1) + i] \in Admission
      BY <2>3, <3>1, Elements
    <3>4. s[(n - 1) + i].age \in 0..(Window - 1) /\ s[(n - 1) + i].weight \in 1..Budget
      BY <2>3, <3>1, <3>2, <3>3
    <3>5. s[(n - 1) + i] \in Recent
      BY <3>3, <3>4 DEF Admission, Recent
    <3> QED BY <2>4, <3>5
  <2>7. t \in Seq(Recent)
    <3>1. Len(t) \in Nat /\ t = [i \in 1..Len(t) |-> t[i]]
      BY <2>5
    <3>2. t \in [1..Len(t) -> Recent]
      BY <2>6, <3>1
    <3> QED BY <3>1, <3>2
  <2>8. ASSUME NEW i \in 1..Len(t), NEW j \in 1..Len(t), i <= j
        PROVE  t[i].age >= t[j].age
    <3>1. (n - 1) + i \in 1..Len(s) /\ (n - 1) + j \in 1..Len(s)
          /\ (n - 1) + i <= (n - 1) + j
      BY <1>0, <2>3, <2>4, <2>8
    <3> QED BY <2>4, <3>1
  <2> QED BY <2>1, <2>5, <2>7, <2>8
<1> QED BY <1>1, <1>2

LEMMA StepBudgeted == Types /\ Budgeted /\ [Next]_vars => Budgeted'
<1> SUFFICES ASSUME Types, Budgeted, [Next]_vars PROVE Budgeted'
  OBVIOUS
<1> USE Parameters
<1>0. /\ recent \in Seq(Recent) /\ recent \in Seq(Admission) /\ Len(recent) \in Nat
      /\ \A i \in 1..Len(recent) : recent[i] \in Recent
      /\ \A i \in 1..Len(recent) :
           /\ recent[i].age \in 0..(Window - 1) /\ recent[i].weight \in 1..Budget
           /\ recent[i] = [age |-> recent[i].age, weight |-> recent[i].weight]
  <2>1. Recent \subseteq Admission
    BY DEF Recent, Admission
  <2>2. recent \in Seq(Recent) /\ \A i \in 1..Len(recent) : recent[i] \in Recent
    BY DEF Budgeted
  <2>3. \A e \in Recent : /\ e.age \in 0..(Window - 1) /\ e.weight \in 1..Budget
                          /\ e = [age |-> e.age, weight |-> e.weight]
    BY DEF Recent
  <2>4. recent \in Seq(Admission) /\ Len(recent) \in Nat
    BY <2>1, <2>2
  <2>5. ASSUME NEW i \in 1..Len(recent)
        PROVE  /\ recent[i].age \in 0..(Window - 1) /\ recent[i].weight \in 1..Budget
               /\ recent[i] = [age |-> recent[i].age, weight |-> recent[i].weight]
    BY <2>2, <2>3
  <2> QED BY <2>2, <2>4, <2>5
<1>1. CASE recent' = recent
  BY <1>1 DEF Budgeted
<1>2. ASSUME NEW c \in Call, Admit(c) PROVE Budgeted'
  <2> DEFINE e == [age |-> 0, weight |-> weight[c]]
  <2>1. recent' = Append(recent, e) /\ weight[c] \in 1..Budget
    BY <1>2, AdmitFacts
  <2>2. e \in Recent /\ e \in Admission /\ e.age = 0 /\ e.weight = weight[c]
    BY <2>1 DEF Recent, Admission
  <2>4. Used(recent) + weight[c] <= Budget
    BY <1>0, <1>2, AdmissionFits
  <2>5. Used(recent') <= Budget
    BY <1>0, <2>1, <2>2, <2>4, UsedOfAppend
  <2> HIDE DEF e
  <2>6. recent' \in Seq(Recent) /\ Len(recent') = Len(recent) + 1
        /\ recent'[Len(recent) + 1] = e /\ \A i \in 1..Len(recent) : recent'[i] = recent[i]
    BY <1>0, <2>1, <2>2
  <2>7. ASSUME NEW i \in 1..Len(recent'), NEW j \in 1..Len(recent'), i <= j
        PROVE  recent'[i].age >= recent'[j].age
    <3>1. CASE j \in 1..Len(recent)
      <4>1. i \in 1..Len(recent)
        BY <1>0, <2>6, <2>7, <3>1
      <4>2. recent[i].age >= recent[j].age
        BY <2>7, <3>1, <4>1 DEF Budgeted
      <4> QED BY <2>6, <3>1, <4>1, <4>2
    <3>2. CASE j = Len(recent) + 1
      <4>1. recent'[j].age = 0
        BY <2>2, <2>6, <3>2
      <4>2. recent'[i].age \in Nat
        <5>1. CASE i \in 1..Len(recent)
          <6>1. recent[i].age \in 0..(Window - 1) /\ recent'[i] = recent[i]
            BY <1>0, <2>6, <5>1
          <6> QED BY <6>1
        <5>2. CASE i = Len(recent) + 1
          BY <2>2, <2>6, <5>2
        <5> QED BY <1>0, <2>6, <5>1, <5>2
      <4> QED BY <4>1, <4>2
    <3> QED BY <1>0, <2>6, <3>1, <3>2
  <2> QED BY <2>5, <2>6, <2>7 DEF Budgeted
<1>3. CASE Tick
  <2> DEFINE aged == [i \in DOMAIN recent |-> [recent[i] EXCEPT !.age = @ + 1]]
  <2>1. recent' = InWindow(aged)
    BY <1>3 DEF Tick
  <2>2. aged = [i \in 1..Len(recent) |->
                  [age |-> recent[i].age + 1, weight |-> recent[i].weight]]
    <3>1. DOMAIN recent = 1..Len(recent)
      BY <1>0
    <3>2. \A i \in 1..Len(recent) :
            [recent[i] EXCEPT !.age = @ + 1]
              = [age |-> recent[i].age + 1, weight |-> recent[i].weight]
      <4>1. \A e \in Recent : [e EXCEPT !.age = @ + 1] = [age |-> e.age + 1, weight |-> e.weight]
        BY DEF Recent
      <4> QED BY <1>0, <4>1
    <3> QED BY <3>1, <3>2
  <2> HIDE DEF aged
  <2>3. \A i \in 1..Len(recent) :
          [age |-> recent[i].age + 1, weight |-> recent[i].weight] \in Admission
    <3>1. ASSUME NEW i \in 1..Len(recent)
          PROVE  recent[i].age + 1 \in Nat /\ recent[i].weight \in Nat
      <4>1. recent[i].age \in 0..(Window - 1) /\ recent[i].weight \in 1..Budget
        BY <1>0
      <4> QED BY <4>1
    <3> QED BY <3>1 DEF Admission
  <2>4. aged \in Seq(Admission) /\ Len(aged) = Len(recent)
    <3>1. aged \in [1..Len(recent) -> Admission]
      BY <2>2, <2>3
    <3>2. \A n \in Nat : \A f \in [1..n -> Admission] : f \in Seq(Admission) /\ Len(f) = n
      OBVIOUS
    <3> QED BY <1>0, <3>1, <3>2
  <2>5. \A i \in 1..Len(aged) :
          aged[i].age = recent[i].age + 1 /\ aged[i].weight = recent[i].weight
    BY <2>2, <2>4
  <2>6. Used(aged) = Used(recent)
    BY <1>0, <2>4, <2>5, UsedOfAged
  <2>7. \A i \in 1..Len(aged) : aged[i].weight \in 1..Budget
    BY <1>0, <2>4, <2>5
  <2>8. \A i, j \in 1..Len(aged) : i <= j => aged[i].age >= aged[j].age
    <3>1. \A i, j \in 1..Len(recent) : i <= j => recent[i].age >= recent[j].age
      BY DEF Budgeted
    <3>2. ASSUME NEW i \in 1..Len(recent), NEW j \in 1..Len(recent), i <= j
          PROVE  recent[i].age + 1 >= recent[j].age + 1
      <4>1. recent[i].age \in Int /\ recent[j].age \in Int /\ recent[i].age >= recent[j].age
        <5>1. recent[i].age \in 0..(Window - 1) /\ recent[j].age \in 0..(Window - 1)
          BY <1>0
        <5>2. recent[i].age >= recent[j].age
          BY <3>1, <3>2
        <5> QED BY <5>1, <5>2
      <4> QED BY <4>1
    <3> QED BY <2>4, <2>5, <3>2
  <2>9. Used(recent) <= Budget /\ Used(recent) \in Nat
    BY <1>0, UsedIsNat DEF Budgeted
  <2>10. /\ InWindow(aged) \in Seq(Recent)
         /\ \A i, j \in 1..Len(InWindow(aged)) :
              i <= j => InWindow(aged)[i].age >= InWindow(aged)[j].age
         /\ Used(InWindow(aged)) <= Used(aged)
    BY <2>4, <2>7, <2>8, WindowFacts
  <2>11. Used(InWindow(aged)) \in Nat
    <3>1. Recent \subseteq Admission
      BY DEF Recent, Admission
    <3>2. InWindow(aged) \in Seq(Admission)
      BY <2>10, <3>1
    <3> QED BY <3>2, UsedIsNat
  <2> QED BY <2>1, <2>6, <2>9, <2>10, <2>11 DEF Budgeted
<1>4. CASE UNCHANGED vars \/ Elsewhere
  BY <1>1, <1>4 DEF vars, Elsewhere
<1>5. ASSUME NEW c \in Call, Sleep(c) \/ Succeed(c) PROVE Budgeted'
  BY <1>1, <1>5, SucceedFacts DEF Sleep
<1>6. ASSUME NEW c \in Call, NEW ra \in RetryAfter \cup {NoHeader}, NEW p \in BOOLEAN,
             QuotaError(c, p, ra)
      PROVE  Budgeted'
  BY <1>1, <1>6, AnswerFacts
<1> QED BY <1>2, <1>3, <1>4, <1>5, <1>6, Kinds

-----------------------------------------------------------------------------
(* The bounds of the bucket and of the calls.                              *)

\* However heavy its calls, the bucket owes no more than the budget.
Bounded ==
  /\ tokens \in (Unit - Budget)..Burst /\ updated \in 0..Horizon
  /\ cooldown \in (-Horizon)..Window

\* What each call counts and waits for.
Counted ==
  /\ timer \in [Call -> Nat] /\ attempt \in [Call -> Nat]
  /\ aborted \in BOOLEAN /\ faults \in 0..MaxFaults

\* A power of two counts the subsets of an interval.
LEMMA PowerIsNat ==
  ASSUME NEW n \in Nat
  PROVE  2 ^ n \in Nat
<1>1. IsFiniteSet(1..n) /\ Cardinality(1..n) = n
  BY FS_Interval
<1>2. IsFiniteSet(SUBSET (1..n)) /\ Cardinality(SUBSET (1..n)) = 2 ^ n
  BY <1>1, FS_SUBSET
<1> QED BY <1>2, FS_CardinalityType

LEMMA RefilledBounds ==
  ASSUME Types, Bounded
  PROVE  Refilled \in (Unit - Budget)..Burst /\ RefilledAt \in 0..Horizon
<1> USE Parameters, HorizonIsNat
<1>1. (Credited * Unit) \div interval \in Nat
  BY RefillFacts, Gains DEF Types
<1>2. Refilled = Smaller(Burst, tokens + (Credited * Unit) \div interval)
  BY DEF Refilled, Credited
<1>3. Refilled \in (Unit - Budget)..Burst
  BY <1>1, <1>2 DEF Bounded, Smaller
<1>4. RefilledAt \in 0..Horizon
  BY DEF Bounded, RefilledAt
<1> QED BY <1>3, <1>4

\* The wait that a call sleeps is a number of ticks.
LEMMA WaitIsInt ==
  ASSUME Types, recent \in Seq(Recent), NEW c \in Call
  PROVE  Wait(c) \in Int
<1>1. weight[c] \in 1..Budget
  BY CallAssumption
<1>2. BudgetWait(recent, weight[c]) \in Nat /\ PaceWait(weight[c]) \in Int /\ cooldown \in Int
  BY <1>1, BudgetWaitFacts, PaceWaitFacts DEF Types
<1> QED BY <1>2 DEF Wait, Larger

LEMMA StepBounded == Types /\ Bounded /\ Budgeted /\ [Next]_vars => Bounded'
<1> SUFFICES ASSUME Types, Bounded, Budgeted, [Next]_vars PROVE Bounded'
  OBVIOUS
<1> USE Parameters, HorizonIsNat
<1>1. CASE UNCHANGED vars \/ Elsewhere
  BY <1>1 DEF vars, Elsewhere, Bounded
<1>2. CASE Tick
  <2>1. /\ updated' = Smaller(updated + 1, Horizon) /\ tokens' = tokens
        /\ cooldown' = Larger(cooldown - 1, -updated')
    BY <1>2 DEF Tick
  <2>2. updated' \in 0..Horizon
    BY <2>1 DEF Bounded, Smaller
  <2> QED BY <2>1, <2>2 DEF Bounded, Larger
<1>3. ASSUME NEW c \in Call, Admit(c) PROVE Bounded'
  <2>1. /\ tokens' = Refilled - weight[c] /\ updated' = RefilledAt
        /\ cooldown' = cooldown /\ weight[c] \in 1..Budget
    BY <1>3, AdmitFacts
  <2>2. Refilled >= Smaller(weight[c], Unit)
    BY <1>3, AdmissionFits DEF Budgeted
  <2> QED BY <2>1, <2>2, RefilledBounds DEF Bounded, Smaller
<1>4. ASSUME NEW c \in Call, Sleep(c) PROVE Bounded'
  <2>1. tokens' = Refilled /\ updated' = RefilledAt /\ cooldown' = cooldown
    BY <1>4 DEF Sleep
  <2> QED BY <2>1, RefilledBounds DEF Bounded
<1>5. ASSUME NEW c \in Call, Succeed(c) PROVE Bounded'
  BY <1>5, SucceedFacts, RefilledBounds DEF Bounded
<1>6. ASSUME NEW c \in Call, NEW ra \in RetryAfter \cup {NoHeader}, NEW p \in BOOLEAN,
             QuotaError(c, p, ra)
      PROVE  Bounded'
  <2>1. CASE UNCHANGED <<interval, tokens, updated, streak, cooldown, seen>>
    BY <2>1 DEF Bounded
  <2>2. ASSUME NEW ms \in Nat, Pause(ms) PROVE Bounded'
    BY <2>2 DEF Pause, Bounded, Smaller, Larger
  <2>3. ASSUME NEW ms \in Nat, Pressure(c, ms) PROVE Bounded'
    <3>1. CASE Slow(ms)
      <4>1. CASE ms > 0 /\ cooldown > 0
        BY <3>1, <4>1 DEF Slow, Bounded
      <4>2. CASE ~(ms > 0 /\ cooldown > 0)
        <5>1. /\ tokens' = Unit /\ updated' = RefilledAt
              /\ cooldown' = IF ms > 0 THEN Smaller(ms, Window) ELSE cooldown
          BY <3>1, <4>2 DEF Slow
        <5> QED BY <5>1, RefilledBounds DEF Bounded, Smaller
      <4> QED BY <4>1, <4>2
    <3>2. CASE ~(pace[c] >= interval)
      <4>1. /\ cooldown' = IF ms > Larger(0, cooldown) THEN Smaller(ms, Window) ELSE cooldown
            /\ tokens' = tokens /\ updated' = updated
        BY <2>3, <3>2 DEF Pressure
      <4> QED BY <4>1 DEF Bounded, Smaller, Larger
    <3> QED BY <2>3, <3>1, <3>2 DEF Pressure
  <2> QED BY <1>6, <2>1, <2>2, <2>3, QuotaFacts
<1> QED BY <1>1, <1>2, <1>3, <1>4, <1>5, <1>6, Kinds

\* What a failure leaves in the counts of its call.
LEMMA BackOffCounts ==
  ASSUME Counted, NEW c \in Call, NEW ra \in RetryAfter \cup {NoHeader}, BackOff(c, ra)
  PROVE  timer' \in [Call -> Nat] /\ attempt' \in [Call -> Nat]
<1>1. attempt' = [attempt EXCEPT ![c] = attempt[c] + 1] /\ attempt[c] \in Nat
  BY DEF BackOff, Counted
<1>2. attempt' \in [Call -> Nat]
  BY <1>1 DEF Counted
<1> DEFINE ms == IF ra = NoHeader THEN Smaller(BaseDelay * 2 ^ attempt[c], MaxDelay)
                 ELSE Capped(ra)
<1>3. ms \in Nat
  <2>1. 2 ^ attempt[c] \in Nat
    BY <1>1, PowerIsNat
  <2>2. BaseDelay \in Nat /\ MaxDelay \in Nat
    BY DelayAssumption
  <2>3. \A x, y \in Nat : x * y \in Nat
    OBVIOUS
  <2>4. BaseDelay * 2 ^ attempt[c] \in Nat
    BY <2>1, <2>2, <2>3
  <2>5. Capped(ra) \in Nat
    BY DelayAssumption DEF Capped, Smaller
  <2> QED BY <2>2, <2>4, <2>5 DEF Smaller
<1>4. timer' = [timer EXCEPT ![c] = 0] \/ timer' = [timer EXCEPT ![c] = ms]
  BY DEF BackOff, Rejected
<1> HIDE DEF ms
<1>5. timer' \in [Call -> Nat]
  BY <1>3, <1>4 DEF Counted
<1> QED BY <1>2, <1>5

LEMMA StepCounted == Types /\ Budgeted /\ Counted /\ [Next]_vars => Counted'
<1> SUFFICES ASSUME Types, Budgeted, Counted, [Next]_vars PROVE Counted'
  OBVIOUS
<1> USE DEF Counted
<1>1. CASE UNCHANGED vars
  BY <1>1 DEF vars
<1>2. CASE StartNext
  BY <1>2 DEF StartNext, Rejected
<1>3. CASE Abort
  BY <1>3 DEF Abort
<1>4. CASE Tick
  <2>1. timer' = [c \in Call |-> Larger(timer[c] - 1, 0)]
    BY <1>4 DEF Tick
  <2>2. \A c \in Call : Larger(timer[c] - 1, 0) \in Nat
    BY DEF Larger
  <2> QED BY <1>4, <2>1, <2>2 DEF Tick
<1>5. ASSUME NEW c \in Call, StartSolo(c) \/ Retry(c) PROVE Counted'
  BY <1>5 DEF StartSolo, Retry
<1>6. ASSUME NEW c \in Call, Admit(c) PROVE Counted'
  BY <1>6 DEF Admit
<1>7. ASSUME NEW c \in Call, Sleep(c) PROVE Counted'
  <2>1. Wait(c) \in Int /\ Wait(c) > 0
    BY <1>7, WaitIsInt DEF Sleep, Budgeted
  <2>2. timer' = [timer EXCEPT ![c] = Wait(c)] /\ UNCHANGED <<attempt, aborted, faults>>
    BY <1>7 DEF Sleep
  <2> QED BY <2>1, <2>2
<1>8. ASSUME NEW c \in Call, LeaveQueue(c) \/ AbortBackoff(c) PROVE Counted'
  BY <1>8 DEF LeaveQueue, AbortBackoff, Rejected
<1>9. ASSUME NEW c \in Call, Succeed(c) PROVE Counted'
  BY <1>9 DEF Succeed
<1>10. ASSUME NEW c \in Call, Refuse(c) PROVE Counted'
  BY <1>10, DelayAssumption DEF Refuse, Rejected, Fault
<1>11. ASSUME NEW c \in Call, NEW ra \in RetryAfter \cup {NoHeader},
              Outage(c, ra) \/ \E p \in BOOLEAN : QuotaError(c, p, ra)
       PROVE  Counted'
  <2>1. BackOff(c, ra) /\ Fault(c) /\ aborted' = aborted
    BY <1>11 DEF Outage, QuotaError
  <2>2. faults' \in 0..MaxFaults
    BY <2>1, DelayAssumption DEF Fault
  <2> QED BY <2>1, <2>2, BackOffCounts
<1> QED BY <1>1, <1>2, <1>3, <1>4, <1>5, <1>6, <1>7, <1>8, <1>9, <1>10, <1>11
        DEF Next, Step, Answer

-----------------------------------------------------------------------------
(* The queue and the pool.                                                 *)

Waits(c) == stage[c] \in {"queued", "asleep"}

\* Each waiting call has its one place in the queue.
Filed == queue \in Seq(Call) /\ IsInjective(queue) /\ QueueOK

Moved(c, to) == stage' = [stage EXCEPT ![c] = to]

\* A call that does not wait yet joins the queue at its end.
LEMMA JoinKeepsQueue ==
  ASSUME Types, Filed, NEW c \in Call, ~Waits(c), Enqueue(c)
  PROVE  Filed'
<1>1. queue' = Append(queue, c) /\ stage' = [stage EXCEPT ![c] = "queued"]
  BY DEF Enqueue
<1>2. c \notin Range(queue)
  BY DEF Filed, QueueOK, Waits
<1>3. /\ queue' \in Seq(Call) /\ Len(queue) \in Nat /\ Len(queue') = Len(queue) + 1
      /\ queue'[Len(queue) + 1] = c /\ \A i \in 1..Len(queue) : queue'[i] = queue[i]
  BY <1>1 DEF Filed
<1>4. DOMAIN queue = 1..Len(queue) /\ DOMAIN queue' = 1..(Len(queue) + 1)
  BY <1>3 DEF Filed
<1>5. IsInjective(queue')
  BY <1>2, <1>3, <1>4 DEF Filed, IsInjective, Range
<1>6. Range(queue') = Range(queue) \cup {c}
  BY <1>3, <1>4 DEF Range
<1>7. ASSUME NEW d \in Call PROVE d \in Range(queue') <=> stage'[d] \in {"queued", "asleep"}
  BY <1>1, <1>6 DEF Types, Filed, QueueOK
<1>8. ASSUME NEW d \in Call, stage'[d] = "asleep" PROVE d = Head(queue')
  <2>1. stage[d] = "asleep"
    BY <1>1, <1>8 DEF Types
  <2>2. d = Head(queue) /\ d \in Range(queue)
    BY <2>1 DEF Filed, QueueOK
  <2>3. Len(queue) >= 1
    BY <2>2, <1>3, <1>4 DEF Range
  <2> QED BY <2>2, <2>3, <1>3 DEF Filed
<1>9. QueueOK'
  BY <1>7, <1>8 DEF QueueOK
<1> QED BY <1>3, <1>5, <1>9 DEF Filed

\* The first call of the queue leaves it.
LEMMA LeaveKeepsQueue ==
  ASSUME Types, Filed, NEW c \in Call, queue # <<>>, c = Head(queue), queue' = Tail(queue),
         NEW to \in Stages \ {"queued", "asleep"}, Moved(c, to)
  PROVE  Filed'
<1>0. stage' = [stage EXCEPT ![c] = to] /\ to \notin {"queued", "asleep"}
  BY DEF Moved
<1>1. /\ queue' \in Seq(Call) /\ Len(queue) \in Nat /\ Len(queue) >= 1
      /\ Len(queue') = Len(queue) - 1 /\ queue[1] = c
      /\ \A i \in 1..Len(queue') : queue'[i] = queue[i + 1]
  BY DEF Filed
<1>2. DOMAIN queue = 1..Len(queue) /\ DOMAIN queue' = 1..(Len(queue) - 1)
  BY <1>1 DEF Filed
<1>3. IsInjective(queue')
  <2> SUFFICES ASSUME NEW i \in 1..Len(queue'), NEW j \in 1..Len(queue'), queue'[i] = queue'[j]
               PROVE  i = j
    BY <1>1, <1>2 DEF IsInjective
  <2>1. i + 1 \in DOMAIN queue /\ j + 1 \in DOMAIN queue /\ queue[i + 1] = queue[j + 1]
    BY <1>1, <1>2
  <2>2. i + 1 = j + 1
    BY <2>1 DEF Filed, IsInjective
  <2> QED BY <2>2
<1>4. ASSUME NEW d \in Call PROVE d \in Range(queue') <=> d \in Range(queue) /\ d # c
  <2>1. ASSUME d \in Range(queue') PROVE d \in Range(queue) /\ d # c
    <3>1. PICK i \in 1..Len(queue') : d = queue'[i]
      BY <2>1, <1>1, <1>2 DEF Range
    <3>2. i + 1 \in DOMAIN queue /\ d = queue[i + 1] /\ 1 \in DOMAIN queue /\ i + 1 # 1
      BY <3>1, <1>1, <1>2
    <3> QED BY <3>2, <1>1 DEF Filed, IsInjective, Range
  <2>2. ASSUME d \in Range(queue), d # c PROVE d \in Range(queue')
    <3>1. PICK i \in 1..Len(queue) : d = queue[i]
      BY <2>2, <1>2 DEF Range
    <3>2. i - 1 \in 1..Len(queue') /\ (i - 1) + 1 = i
      BY <3>1, <2>2, <1>1
    <3>3. d = queue'[i - 1] /\ i - 1 \in DOMAIN queue'
      BY <3>1, <3>2, <1>1, <1>2
    <3> QED BY <3>3 DEF Range
  <2> QED BY <2>1, <2>2
<1>5. ASSUME NEW d \in Call PROVE d \in Range(queue') <=> stage'[d] \in {"queued", "asleep"}
  BY <1>0, <1>4 DEF Types, Filed, QueueOK
<1>6. ASSUME NEW d \in Call, stage'[d] = "asleep" PROVE FALSE
  <2>1. d # c /\ stage[d] = "asleep"
    BY <1>0, <1>6 DEF Types
  <2> QED BY <2>1 DEF Filed, QueueOK
<1> QED BY <1>1, <1>3, <1>5, <1>6 DEF Filed, QueueOK

\* The first call of the queue sleeps.
LEMMA NapKeepsQueue ==
  ASSUME Types, Filed, NEW c \in Call, queue # <<>>, c = Head(queue), queue' = queue,
         Moved(c, "asleep")
  PROVE  Filed'
<1>1. c \in Range(queue)
  <2>1. 1 \in DOMAIN queue /\ queue[1] = c
    BY DEF Filed
  <2> QED BY <2>1 DEF Range
<1> QED BY <1>1 DEF Moved, Types, Filed, QueueOK

\* A call that waits for nothing moves on.
LEMMA RestKeepsQueue ==
  ASSUME Types, Filed, NEW c \in Call, ~Waits(c), queue' = queue,
         NEW to \in Stages \ {"queued", "asleep"}, Moved(c, to)
  PROVE  Filed'
BY DEF Waits, Moved, Types, Filed, QueueOK

LEMMA HeadWaits ==
  ASSUME Filed, queue # <<>>
  PROVE  Head(queue) \in Call /\ Waits(Head(queue))
<1>1. 1 \in DOMAIN queue /\ queue[1] = Head(queue) /\ Head(queue) \in Call
  BY DEF Filed
<1>2. Head(queue) \in Range(queue)
  BY <1>1 DEF Range
<1> QED BY <1>1, <1>2 DEF Filed, QueueOK, Waits

-----------------------------------------------------------------------------
\* How far the pool is, and its limit.
Pooled == next \in 1..(Len(Batch) + 1) /\ dead \in 0..Limit /\ PoolOK

LEMMA BatchFacts ==
  /\ Len(Batch) \in Nat /\ DOMAIN Batch = 1..Len(Batch)
  /\ Range(Batch) \subseteq Call /\ IsFiniteSet(Range(Batch))
  /\ \A k \in 1..Len(Batch) : Batch[k] \in Range(Batch) /\ Batch[k] \in Call
  /\ \A j, k \in 1..Len(Batch) : Batch[j] = Batch[k] => j = k
<1>1. Len(Batch) \in Nat /\ DOMAIN Batch = 1..Len(Batch)
  BY CallAssumption
<1>2. Range(Batch) \subseteq Call
  BY DEF Call
<1>3. IsFiniteSet(Range(Batch))
  BY <1>2, CallAssumption, FS_Subset
<1>4. \A k \in 1..Len(Batch) : Batch[k] \in Range(Batch)
  BY <1>1 DEF Range
<1>5. \A j, k \in 1..Len(Batch) : Batch[j] = Batch[k] => j = k
  BY <1>1, CallAssumption DEF IsInjective
<1> QED BY <1>1, <1>2, <1>3, <1>4, <1>5

LEMMA PoolIsFinite ==
  /\ IsFiniteSet(InPool) /\ Cardinality(InPool) \in Nat
  /\ IsFiniteSet(InPool') /\ Cardinality(InPool') \in Nat
<1>1. InPool \in SUBSET Range(Batch) /\ InPool' \in SUBSET Range(Batch)
  BY DEF InPool
<1>2. IsFiniteSet(InPool) /\ IsFiniteSet(InPool')
  BY <1>1, BatchFacts, FS_Subset
<1> QED BY <1>2, FS_CardinalityType

\* The pool after one more call is under way, after one has ended, and after a
\* step that changes neither.
LEMMA PoolGrows ==
  ASSUME NEW c, InPool' = InPool \cup {c}
  PROVE  Cardinality(InPool') <= Cardinality(InPool) + 1
BY PoolIsFinite, FS_AddElement

LEMMA PoolShrinks ==
  ASSUME NEW c \in InPool, InPool' = InPool \ {c}
  PROVE  Cardinality(InPool') = Cardinality(InPool) - 1
BY PoolIsFinite, FS_RemoveElement

\* A call that has started moves on, and its worker ends if it is rejected.
LEMMA MoveKeepsPool ==
  ASSUME Types, Pooled, next' = next, NEW c \in Call, stage[c] \notin {"done", "failed"},
         stage[c] # "new" \/ c \in Solo,
         NEW to \in Stages \ {"new"}, Moved(c, to),
         dead' = IF to = "failed" /\ c \in Range(Batch) THEN dead + 1 ELSE dead
  PROVE  Pooled'
<1> USE Parameters
<1>0. stage' = [stage EXCEPT ![c] = to] /\ to # "new"
  BY DEF Moved
<1>1. ASSUME NEW k \in next'..Len(Batch) PROVE stage'[Batch[k]] = "new"
  <2>1. k \in 1..Len(Batch) /\ k \in next..Len(Batch)
    BY <1>1, BatchFacts DEF Pooled
  <2>2. stage[Batch[k]] = "new" /\ Batch[k] \in Range(Batch) /\ Batch[k] \in Call
    BY <2>1, BatchFacts DEF Pooled, PoolOK
  <2>3. Batch[k] # c
    BY <2>2, CallAssumption
  <2> QED BY <1>0, <2>2, <2>3 DEF Types
<1>2. CASE c \notin Range(Batch)
  <2>1. InPool' = InPool /\ dead' = dead
    BY <1>0, <1>2, BatchFacts DEF InPool, Types
  <2> QED BY <1>1, <2>1 DEF Pooled, PoolOK
<1>3. CASE c \in Range(Batch)
  <2>0. c \in InPool
    BY <1>3, CallAssumption DEF InPool
  <2>1. CASE to \in {"done", "failed"}
    <3>1. InPool' = InPool \ {c}
      BY <1>0, <2>1, BatchFacts DEF InPool, Types
    <3>2. Cardinality(InPool') = Cardinality(InPool) - 1
      BY <2>0, <3>1, PoolShrinks
    <3>3. dead' \in {dead, dead + 1}
      OBVIOUS
    <3> QED BY <1>1, <3>2, <3>3, PoolIsFinite DEF Pooled, PoolOK
  <2>2. CASE to \notin {"done", "failed"}
    <3>1. InPool' = InPool
      BY <1>0, <2>0, <2>2, BatchFacts DEF InPool, Types
    <3> QED BY <1>1, <2>2, <3>1 DEF Pooled, PoolOK
  <2> QED BY <2>1, <2>2
<1> QED BY <1>2, <1>3

\* A free worker takes the next item, or its worker ends at once.
LEMMA StartKeepsPool ==
  ASSUME Types, Pooled, StartNext
  PROVE  Pooled' /\ Batch[next] \in Call /\ stage[Batch[next]] = "new"
<1> USE Parameters
<1> DEFINE c == Batch[next]
<1>1. next \in 1..Len(Batch) /\ Cardinality(InPool) + dead < Limit /\ next' = next + 1
  BY BatchFacts DEF StartNext, CanStart, Pooled
<1>2. c \in Call /\ c \in Range(Batch) /\ stage[c] = "new"
  BY <1>1, BatchFacts DEF Pooled, PoolOK
<1>3. /\ stage' = [stage EXCEPT ![c] = IF aborted THEN "failed" ELSE "queued"]
      /\ dead' = IF aborted THEN dead + 1 ELSE dead
  BY <1>2 DEF StartNext, Rejected, Enqueue
<1>4. ASSUME NEW k \in next'..Len(Batch) PROVE stage'[Batch[k]] = "new"
  <2>1. k \in next..Len(Batch) /\ k \in 1..Len(Batch) /\ k # next
    BY <1>1, <1>4, BatchFacts
  <2>2. stage[Batch[k]] = "new" /\ Batch[k] # c /\ Batch[k] \in Call
    BY <1>1, <2>1, BatchFacts DEF Pooled, PoolOK
  <2> HIDE DEF c
  <2> QED BY <1>3, <2>2 DEF Types
<1> HIDE DEF c
<1>5. next' \in 1..(Len(Batch) + 1)
  BY <1>1, BatchFacts
<1>6. CASE aborted
  <2>1. InPool' = InPool
    BY <1>2, <1>3, <1>6, BatchFacts DEF InPool, Types
  <2> QED BY <1>1, <1>2, <1>3, <1>4, <1>5, <1>6, <2>1, PoolIsFinite DEF Pooled, PoolOK, c
<1>7. CASE ~aborted
  <2>1. InPool' = InPool \cup {c}
    BY <1>2, <1>3, <1>7, BatchFacts DEF InPool, Types
  <2>2. Cardinality(InPool') <= Cardinality(InPool) + 1
    BY <2>1, PoolGrows
  <2> QED BY <1>1, <1>2, <1>3, <1>4, <1>5, <1>7, <2>2, PoolIsFinite DEF Pooled, PoolOK, c
<1> QED BY <1>6, <1>7

\* Both, step by step.
LEMMA StepQueuePool ==
  Types /\ Filed /\ Pooled /\ [Next]_vars => Filed' /\ Pooled'
<1> SUFFICES ASSUME Types, Filed, Pooled, [Next]_vars PROVE Filed' /\ Pooled'
  OBVIOUS
<1> USE DEF pool
<1>0. ASSUME NEW c, Rejected(c)
      PROVE  Moved(c, "failed") /\ dead' = IF c \in Range(Batch) THEN dead + 1 ELSE dead
  BY <1>0 DEF Rejected, Moved
<1>1. CASE UNCHANGED vars \/ Abort \/ Tick
  <2>1. UNCHANGED <<queue, stage, next, dead>>
    BY <1>1 DEF vars, Abort, Tick
  <2>2. QueueOK' /\ InPool' = InPool
    BY <2>1 DEF QueueOK, InPool, Filed
  <2> QED BY <2>1, <2>2 DEF Filed, Pooled, PoolOK
<1>2. CASE StartNext
  <2> DEFINE c == Batch[next]
  <2>1. Pooled' /\ c \in Call /\ stage[c] = "new"
    BY <1>2, StartKeepsPool
  <2>2. CASE aborted
    <3>1. Moved(c, "failed") /\ queue' = queue
      BY <1>2, <2>2, <1>0 DEF StartNext
    <3> QED BY <2>1, <3>1, RestKeepsQueue DEF Waits, Stages
  <2>3. CASE ~aborted
    <3>1. Enqueue(c)
      BY <1>2, <2>3 DEF StartNext
    <3> QED BY <2>1, <3>1, JoinKeepsQueue DEF Waits
  <2> QED BY <2>2, <2>3
<1>3. ASSUME NEW c \in Call, StartSolo(c) \/ Retry(c) PROVE Filed' /\ Pooled'
  <2>1. /\ Enqueue(c) /\ next' = next /\ dead' = dead
        /\ stage[c] \in {"new", "backoff"} /\ (stage[c] # "new" \/ c \in Solo)
    BY <1>3 DEF StartSolo, Retry
  <2>2. Moved(c, "queued")
    BY <2>1 DEF Enqueue, Moved
  <2> QED BY <2>1, <2>2, JoinKeepsQueue, MoveKeepsPool DEF Waits, Stages
<1>4. ASSUME NEW c \in Call, queue # <<>>, c = Head(queue), queue' = Tail(queue),
             NEW to \in {"sent", "failed"}, Moved(c, to), next' = next,
             dead' = IF to = "failed" /\ c \in Range(Batch) THEN dead + 1 ELSE dead
      PROVE  Filed' /\ Pooled'
  <2>1. Waits(c)
    BY <1>4, HeadWaits
  <2>2. to \in Stages \ {"queued", "asleep"} /\ to \in Stages \ {"new"}
    BY DEF Stages
  <2>3. Filed'
    BY <1>4, <2>2, LeaveKeepsQueue
  <2> QED BY <1>4, <2>1, <2>2, <2>3, MoveKeepsPool DEF Waits
<1>5. ASSUME NEW c \in Call, Admit(c) PROVE Filed' /\ Pooled'
  <2>1. /\ queue # <<>> /\ c = Head(queue) /\ queue' = Tail(queue)
        /\ Moved(c, "sent") /\ next' = next /\ dead' = dead
    BY <1>5 DEF Admit, Moved
  <2> QED BY <2>1, <1>4
<1>6. ASSUME NEW c \in Call, LeaveQueue(c) PROVE Filed' /\ Pooled'
  <2>1. /\ queue # <<>> /\ c = Head(queue) /\ queue' = Tail(queue) /\ next' = next
        /\ Rejected(c)
    BY <1>6 DEF LeaveQueue
  <2> QED BY <2>1, <1>0, <1>4
<1>7. ASSUME NEW c \in Call, Sleep(c) PROVE Filed' /\ Pooled'
  <2>1. /\ queue # <<>> /\ c = Head(queue) /\ queue' = queue
        /\ Moved(c, "asleep") /\ next' = next /\ dead' = dead
    BY <1>7 DEF Sleep, Moved
  <2>2. Waits(c)
    BY <2>1, HeadWaits
  <2> QED BY <2>1, <2>2, NapKeepsQueue, MoveKeepsPool DEF Waits, Stages
<1>8. ASSUME NEW c \in Call, stage[c] \in {"sent", "backoff"}, queue' = queue, next' = next,
             NEW to \in {"done", "failed", "backoff"}, Moved(c, to),
             dead' = IF to = "failed" /\ c \in Range(Batch) THEN dead + 1 ELSE dead
      PROVE  Filed' /\ Pooled'
  <2>1. to \in Stages \ {"queued", "asleep"} /\ to \in Stages \ {"new"}
    BY DEF Stages
  <2>2. Filed'
    BY <1>8, <2>1, RestKeepsQueue DEF Waits
  <2> QED BY <1>8, <2>1, <2>2, MoveKeepsPool
<1>9. ASSUME NEW c \in Call, AbortBackoff(c) \/ Refuse(c) PROVE Filed' /\ Pooled'
  <2>1. /\ stage[c] \in {"sent", "backoff"} /\ queue' = queue /\ next' = next
        /\ Rejected(c)
    BY <1>9 DEF AbortBackoff, Refuse, Fault
  <2> QED BY <2>1, <1>0, <1>8
<1>10. ASSUME NEW c \in Call, Succeed(c) PROVE Filed' /\ Pooled'
  <2>1. stage[c] = "sent" /\ queue' = queue /\ next' = next /\ dead' = dead /\ Moved(c, "done")
    BY <1>10 DEF Succeed, Moved
  <2> QED BY <2>1, <1>8
<1>11. ASSUME NEW c \in Call, NEW ra \in RetryAfter \cup {NoHeader},
              Outage(c, ra) \/ \E p \in BOOLEAN : QuotaError(c, p, ra)
       PROVE  Filed' /\ Pooled'
  <2>1. stage[c] = "sent" /\ queue' = queue /\ next' = next /\ BackOff(c, ra)
    BY <1>11 DEF Outage, QuotaError, Fault
  <2>2. Rejected(c) \/ (Moved(c, "backoff") /\ dead' = dead)
    BY <2>1 DEF BackOff, Moved
  <2> QED BY <2>1, <2>2, <1>0, <1>8
<1> QED BY <1>1, <1>2, <1>3, <1>5, <1>6, <1>7, <1>9, <1>10, <1>11 DEF Next, Step, Answer

-----------------------------------------------------------------------------
(* The results.                                                            *)

\* The inductive invariant: what holds of the bucket, of the waves and of what
\* was spent, and where the calls are.
LimiterInv ==
  /\ Types /\ Bounded /\ Budgeted /\ Waved /\ Earned
  /\ Counted /\ Filed /\ Pooled

LEMMA InitLimiter == Init => LimiterInv
<1> SUFFICES ASSUME Init PROVE LimiterInv
  OBVIOUS
<1> USE Parameters, HorizonIsNat DEF Init
<1>1. Types
  BY DEF Types, Stages, Waves
<1>2. Budgeted
  <2>1. <<>> \in Seq(Admission) /\ recent = <<>> /\ Len(<<>>) = 0 /\ <<>> \in Seq(Recent)
    OBVIOUS
  <2>2. Used(recent) = 0
    BY <2>1, UsedIsNat
  <2>3. \A i, j \in 1..Len(recent) : FALSE
    BY <2>1
  <2> QED BY <2>1, <2>2, <2>3 DEF Budgeted
<1>3. Waved
  BY DEF Waved
<1>4. Earned
  BY DEF Earned
<1>5. Bounded
  <2>1. /\ Burst \in (Unit - Budget)..Burst /\ 0 \in 0..Horizon
        /\ 0 \in (-Horizon)..Window
    OBVIOUS
  <2> QED BY <2>1 DEF Bounded
<1>6. Counted
  <2>1. 0 \in 0..MaxFaults
    BY DelayAssumption
  <2> QED BY <2>1 DEF Counted
<1>7. Range(<<>>) = {} /\ IsInjective(<<>>) /\ <<>> \in Seq(Call)
  BY DEF Range, IsInjective
<1>8. Filed
  BY <1>7 DEF Filed, QueueOK
<1>9. Pooled
  <2>1. InPool = {}
    BY BatchFacts DEF InPool
  <2> QED BY <2>1, BatchFacts, FS_EmptySet DEF Pooled, PoolOK
<1> QED BY <1>1, <1>2, <1>3, <1>4, <1>5, <1>6, <1>8, <1>9 DEF LimiterInv

\* The inductive invariant of the limiter.
THEOREM LimiterInvariant == Spec => []LimiterInv
<1>1. LimiterInv /\ [Next]_vars => LimiterInv'
  BY StepTypes, StepBounded, StepBudgeted, StepWaved, StepEarned, StepCounted, StepQueuePool
  DEF LimiterInv
<1> QED BY <1>1, InitLimiter, PTL DEF Spec

\* Whatever is answered, refused or aborted in whatever order, the pool keeps its
\* limit, each waiting call its one place in the queue and only the first of
\* them sleeps; the bucket owes at most what the heaviest call may overdraw
\* (mapWithConcurrency, acquire, withApiRetry).
THEOREM LimiterSafe == Spec => []LimiterOK
<1>1. LimiterInv => LimiterOK
  <2> SUFFICES ASSUME LimiterInv PROVE TypeOK
    BY DEF LimiterInv, LimiterOK, Filed, Pooled
  <2>1. recent \in Seq([age : 0..(Window - 1), weight : 1..Budget])
    BY DEF LimiterInv, Budgeted, Recent
  <2> QED BY <2>1 DEF LimiterInv, Types, Bounded, Counted, Filed, Pooled, TypeOK
<1> QED BY <1>1, LimiterInvariant, PTL

\* Google sees no more than the minute budget in any rolling minute, whatever
\* is retried, refused or aborted (acquire).
THEOREM WithinBudget == Spec => []BudgetKept
<1>1. LimiterInv => BudgetKept
  BY DEF LimiterInv, Budgeted, BudgetKept
<1> QED BY <1>1, LimiterInvariant, PTL

\* After a slowdown a call is admitted only within the one token left and what
\* was earned since outside of cooldowns (refill, reportQuotaPressure).
THEOREM BurstIsGone == Spec => NoBurstAfterSlowdown
<1>1. LimiterInv /\ [Next]_vars =>
        [\A c \in Call :
           clear < Horizon /\ stage[c] # "sent" /\ stage'[c] = "sent" =>
             spent + Smaller(weight[c], Unit) <= Unit + (clear * Unit) \div Fastest]_vars
  <2> SUFFICES ASSUME LimiterInv, Next, NEW d \in Call, clear < Horizon,
                      stage[d] # "sent", stage'[d] = "sent"
               PROVE  spent + Smaller(weight[d], Unit) <= Unit + (clear * Unit) \div Fastest
    OBVIOUS
  <2>0. Types /\ Earned /\ recent \in Seq(Recent)
    BY DEF LimiterInv, Budgeted
  <2>1. ~Elsewhere
    BY DEF Elsewhere
  <2>2. ~Tick
    BY <2>0, TickFacts
  <2>3. \A c \in Call : ~Sleep(c) /\ ~Succeed(c)
    <3>1. \A c \in Call : Sleep(c) => stage'[d] \in {stage[d], "asleep"}
      BY <2>0 DEF Sleep, Types
    <3>2. \A c \in Call : ~Succeed(c)
      BY <2>0, SucceedFacts
    <3> QED BY <3>1, <3>2
  <2>4. \A c \in Call, ra \in RetryAfter \cup {NoHeader}, p \in BOOLEAN : ~QuotaError(c, p, ra)
    BY <2>0, AnswerFacts
  <2>5. PICK c \in Call : Admit(c)
    BY <2>0, <2>1, <2>2, <2>3, <2>4, Kinds
  <2>6. c = d
    <3>1. stage' = [stage EXCEPT ![c] = "sent"]
      BY <2>0, <2>5, AdmitFacts
    <3>2. stage \in [Call -> Stages]
      BY <2>0 DEF Types
    <3> QED BY <3>1, <3>2
  <2>7. Refilled >= Smaller(weight[d], Unit)
    BY <2>0, <2>5, <2>6, AdmissionFits
  <2>8. tokens + spent + Credited * Rate <= Unit + clear * Rate
    BY <2>0 DEF Earned
  <2>9. clear \in Nat /\ spent \in Nat /\ tokens \in Int
    BY <2>0, HorizonIsNat DEF Types
  <2>10. (clear * Unit) \div Fastest = clear * Rate /\ Rate \in Nat
    BY <2>9, Gains
  <2>11. Credited \in Nat /\ Refilled \in Int /\ Refilled <= tokens + Credited * Rate
    BY <2>0, RefillFacts
  <2>12. clear * Rate \in Nat /\ Credited * Rate \in Nat
    BY <2>9, <2>10, <2>11
  <2>13. Smaller(weight[d], Unit) \in Int /\ Unit \in Nat
    BY CallAssumption, Parameters DEF Smaller
  <2>14. spent + Smaller(weight[d], Unit) <= Unit + clear * Rate
    BY <2>7, <2>8, <2>9, <2>11, <2>12, <2>13
  <2> QED BY <2>10, <2>14
<1> QED BY <1>1, LimiterInvariant, PTL DEF Spec, NoBurstAfterSlowdown

\* A call admitted before the last slowdown does not slow the others down
\* again, unless the pace had recovered meanwhile (reportQuotaPressureForAttempt).
THEOREM WaveSlowsOnce == Spec => OneSlowdownPerWave
<1>1. LimiterInv /\ [Next]_vars =>
        [interval' > interval =>
           \E c \in Call : wave[c] # "past" /\ stage[c] = "sent" /\ stage'[c] # "sent"]_vars
  <2> SUFFICES ASSUME LimiterInv, Next, interval' > interval
               PROVE  \E c \in Call : /\ wave[c] # "past" /\ stage[c] = "sent"
                                      /\ stage'[c] # "sent"
    OBVIOUS
  <2>0. Types /\ Waved /\ interval \in Int
    BY DEF LimiterInv, Types
  <2>1. interval' # interval /\ ~(interval' <= interval)
    <3>1. interval' \in Int
      BY <2>0, StepTypes DEF Types
    <3> QED BY <2>0, <3>1
  <2>2. ~Elsewhere /\ ~Tick
    BY <2>0, <2>1, TickFacts DEF Elsewhere
  <2>3. \A c \in Call : ~Admit(c) /\ ~Sleep(c) /\ ~Succeed(c)
    BY <2>0, <2>1, AdmitFacts, SucceedFacts DEF Sleep
  <2>4. PICK c \in Call, ra \in RetryAfter \cup {NoHeader}, p \in BOOLEAN :
          QuotaError(c, p, ra)
    BY <2>0, <2>2, <2>3, Kinds
  <2>5. PICK ms \in Nat : Pressure(c, ms)
    BY <2>0, <2>1, <2>4, QuotaFacts, PauseFacts
  <2>6. interval <= pace[c] /\ interval' \in Fastest..Slowest
    BY <2>0, <2>1, <2>5, PressureFacts
  <2>7. stage[c] = "sent" /\ stage'[c] # "sent"
    BY <2>0, <2>4, AnswerFacts
  <2>8. wave[c] # "past"
    <3>1. SUFFICES ASSUME wave[c] = "past" PROVE FALSE
      OBVIOUS
    <3>2. pace[c] < interval \/ interval = Slowest
      BY <2>0, <2>7, <3>1 DEF Waved
    <3>3. pace[c] \in Int /\ Slowest \in Int
      BY <2>0, Parameters DEF Types
    <3> QED BY <2>0, <2>1, <2>6, <3>2, <3>3
  <2> QED BY <2>7, <2>8
<1> QED BY <1>1, LimiterInvariant, PTL DEF Spec, OneSlowdownPerWave

=============================================================================
