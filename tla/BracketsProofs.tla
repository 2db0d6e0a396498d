----------------------------- MODULE BracketsProofs ----------------------------
(***************************************************************************)
(* Theorems about Brackets, for any plans, any concurrency and any values.   *)
(*   IInv says where the run is in its plan: which trials of the pool have    *)
(* numbers and which are reserved (Taken), that the numbers so far are those *)
(* of the rounds that are over and of this one (Passed), that the bests of   *)
(* the rounds so far stand for all that was completed in them (Standing),    *)
(* and that no configuration is ahead of the sampler's stream (Drawn).       *)
(***************************************************************************)
EXTENDS Brackets, FiniteSetTheorems, WellFoundedInduction, NaturalsInduction, TLAPS

-------------------------------------------------------------------------------
(* A plan: brackets of rounds, none of them empty.                          *)
RoundPlan == [nConfigs : Nat, resource : Nat]

Planned(brackets) ==
  /\ brackets \in Seq(Seq(RoundPlan)) /\ Len(brackets) > 0
  /\ \A b \in 1..Len(brackets) : Len(brackets[b]) > 0

States == {"waiting", "reserving", "running", "completed", "missed", "skipped"}
TrialRecord ==
  [config : Nat, state : States, number : Nat \cup {None}, value : Nat \cup {None}]
TrialsOf(s) ==
  /\ s \in Seq(TrialRecord)
  /\ \A i \in 1..Len(s) : s[i].state = "completed" => s[i].value \in Nat

Types ==
  /\ Planned(plan)
  /\ bracket \in Nat \ {0} /\ round \in Nat
  /\ phase \in {"bracket", "round", "ended", "failed"}
  /\ TrialsOf(pool) /\ TrialsOf(previous)
  /\ trialNumber \in Nat /\ drawn \in Nat /\ late \in Nat
  /\ stopped \in BOOLEAN
  /\ seen \subseteq Nat /\ bests \in Seq(Nat \cup {None})

(* Where the run is in its plan.                                            *)
Placed ==
  /\ phase = "bracket" => bracket <= Len(plan)
  /\ phase = "round" =>
       bracket <= Len(plan) /\ round \in 1..Len(Rounds) /\ Len(pool) = Rounds[round].nConfigs
  /\ phase = "ended" => bracket = Len(plan) + 1
  /\ phase # "round" => pool = <<>>

(* How many trials the rounds had that are over.                            *)
Passed ==
  BracketTrials(plan)[bracket - 1] + IF phase = "round" THEN RoundTrials(Rounds)[round - 1] ELSE 0

(* The pool is taken in order: up to w its trials have numbers, from a + 1   *)
(* to b they are being reserved, and what comes between is passed over.      *)
Taken(a, b, w) ==
  /\ a <= b /\ b <= w
  /\ \A i \in 1..Len(pool) :
       /\ pool[i].state = "waiting" <=> w < i
       /\ pool[i].state = "reserving" <=> a < i /\ i <= b
       /\ a < i /\ i <= b => pool[i].number = Cardinality(history) + (i - a - 1)
  /\ phase # "failed" => trialNumber = Passed + w
  /\ phase # "failed" /\ ~stopped => b = w /\ Cardinality(history) + (b - a) = trialNumber
  /\ Cardinality(history) + (b - a) <= trialNumber
  /\ IF stopped THEN late + (b - a) <= Concurrency ELSE late = 0

Numbered ==
  /\ Cardinality(history) \in Nat /\ history = 0..(Cardinality(history) - 1)
  /\ trialNumber <= TotalTrials(plan)
  /\ \E a, b, w \in 0..Len(pool) : Taken(a, b, w)

Manned == Cardinality(Active) <= Concurrency

Found(s) == Range(s) \ {None}
Now == {pool[i].value : i \in Completed}

(* The bests of the rounds so far stand for what was seen in them.          *)
Standing ==
  /\ phase = "round" =>
       /\ Found(bests) \subseteq seen /\ Now \subseteq seen
       /\ \A x \in seen : x \in Now \/ \E y \in Found(bests) : y <= x
  /\ phase \in {"bracket", "ended"} /\ bracket > 1 => announced = Best(seen)

(* Configurations are named by their place in the stream drawn so far.      *)
Drawn == \A i \in 1..Len(pool) : pool[i].config <= drawn

IInv ==
  /\ Types /\ Placed /\ Numbered /\ Manned /\ Standing /\ Drawn
  /\ PromotesBest

-------------------------------------------------------------------------------
(* Numbers                                                                  *)

LEMMA LeastNat ==
  ASSUME NEW S \in SUBSET Nat, S # {}
  PROVE  \E n \in S : \A m \in S : n <= m
<1>. DEFINE R == OpToRel(<, Nat)
<1>1. \E n \in S : \A m \in S : ~(<<m, n>> \in R)
  BY NatLessThanWellFounded, WFMin
<1>2. PICK n \in S : \A m \in S : ~(<<m, n>> \in R)
  BY <1>1
<1>3. ASSUME NEW m \in S PROVE n <= m
  <2>1. m \in Nat /\ n \in Nat
    BY <1>3
  <2>2. m < n => <<m, n>> \in R
    BY <2>1 DEF OpToRel
  <2>3. ~(m < n)
    BY <1>2, <2>2
  <2>. QED BY <2>1, <2>3
<1>. QED BY <1>3

LEMMA MinIsLeast ==
  ASSUME NEW S \in SUBSET Nat, S # {}
  PROVE  Min(S) \in S /\ \A m \in S : Min(S) <= m
BY LeastNat DEF Min

LEMMA MaxIsGreatest ==
  ASSUME NEW S \in SUBSET Nat, S # {}, NEW b \in Nat, \A m \in S : m <= b
  PROVE  Max(S) \in S /\ \A m \in S : m <= Max(S)
<1>. DEFINE D == {b - m : m \in S}
<1>1. D \subseteq Nat /\ D # {}
  <2>1. \A m \in S : b - m \in Nat
    OBVIOUS
  <2>2. PICK m \in S : TRUE
    OBVIOUS
  <2>3. b - m \in D
    BY <2>2
  <2>. QED BY <2>1, <2>3
<1>2. \E d \in D : \A x \in D : d <= x
  <2>. HIDE DEF D
  <2>. QED BY <1>1, LeastNat
<1>3. PICK d \in D : \A x \in D : d <= x
  BY <1>2
<1>4. PICK n \in S : d = b - n
  BY <1>3
<1>5. \A m \in S : n >= m
  <2>1. ASSUME NEW m \in S PROVE n >= m
    <3>1. b - m \in D
      OBVIOUS
    <3>2. b - n <= b - m
      BY <1>3, <1>4, <3>1
    <3>. QED BY <3>2
  <2>. QED BY <2>1
<1>6. \E x \in S : \A y \in S : x >= y
  BY <1>5
<1>7. Max(S) \in S /\ \A y \in S : Max(S) >= y
  BY <1>6 DEF Max
<1>8. \A m \in S : m \in Nat /\ Max(S) \in Nat
  BY <1>7
<1>. QED BY <1>7, <1>8

LEMMA MaxOfTwo ==
  ASSUME NEW x \in Int
  PROVE  Max({1, x}) \in Nat \ {0}
<1>1. \E m \in {1, x} : \A y \in {1, x} : m >= y
  OBVIOUS
<1>2. Max({1, x}) \in {1, x} /\ \A y \in {1, x} : Max({1, x}) >= y
  BY <1>1 DEF Max
<1>. QED BY <1>2

LEMMA MinOfTwo ==
  ASSUME NEW x \in Nat, NEW y \in Nat
  PROVE  Min({x, y}) = IF x <= y THEN x ELSE y
<1>1. \E m \in {x, y} : \A z \in {x, y} : m <= z
  OBVIOUS
<1>2. Min({x, y}) \in {x, y} /\ \A z \in {x, y} : Min({x, y}) <= z
  BY <1>1 DEF Min
<1>. QED BY <1>2

LEMMA DivFacts ==
  ASSUME NEW n \in Nat, NEW p \in Nat \ {0}
  PROVE  /\ n \div p \in Nat
         /\ (n \div p) * p <= n
         /\ n < ((n \div p) + 1) * p
OBVIOUS

LEMMA DivLeast ==
  ASSUME NEW n \in Nat, NEW p \in Nat \ {0}, NEW m \in Nat \ {0}
  PROVE  n \div (m * p) <= n \div p
<1>. DEFINE q == n \div p
            s == n \div (m * p)
<1>1. m * p \in Nat \ {0}
  OBVIOUS
<1>2. q \in Nat /\ n < (q + 1) * p
  BY DivFacts
<1>3. s \in Nat /\ s * (m * p) <= n
  BY <1>1, DivFacts
<1>. HIDE DEF q, s
<1>4. ASSUME q < s PROVE FALSE
  <2>1. q + 1 <= s
    BY <1>2, <1>3, <1>4
  <2>2. (q + 1) * p <= s * p
    <3>1. \A x, y \in Nat : x <= y => x * p <= y * p
      OBVIOUS
    <3>2. q + 1 \in Nat
      BY <1>2
    <3>. QED BY <1>3, <2>1, <3>1, <3>2
  <2>3. s * p <= s * (m * p)
    <3>1. \A x \in Nat : x <= m * x
      OBVIOUS
    <3>2. s * p \in Nat /\ s * (m * p) = m * (s * p)
      BY <1>3
    <3>. QED BY <3>1, <3>2
  <2>4. (q + 1) * p \in Nat /\ s * p \in Nat /\ s * (m * p) \in Nat
    BY <1>1, <1>2, <1>3
  <2>. QED BY <1>2, <1>3, <2>2, <2>3, <2>4
<1>. QED BY <1>2, <1>3, <1>4 DEF q, s

LEMMA MulUp ==
  ASSUME NEW r \in Nat, NEW p \in Nat, NEW q \in Nat, p <= q
  PROVE  r * p <= r * q
OBVIOUS

(* The recursive function of a power exists.                                *)
IsPower(b, p, n) ==
  p \in [0..n -> Nat \ {0}] /\ p[0] = 1 /\ \A i \in 1..n : p[i] = b * p[i - 1]

LEMMA PowersExist ==
  ASSUME NEW b \in Nat \ {0}, NEW n \in Nat
  PROVE  \E p : IsPower(b, p, n)
<1>. DEFINE Without == {k \in Nat : ~\E p : IsPower(b, p, k)}
<1>1. CASE Without = {}
  BY <1>1
<1>2. CASE Without # {}
  <2>1. PICK k \in Without : \A m \in Without : k <= m
    BY <1>2, LeastNat
  <2>2. CASE k = 0
    <3>1. IsPower(b, [i \in 0..0 |-> 1], 0)
      BY DEF IsPower
    <3>. QED BY <2>1, <2>2, <3>1
  <2>3. CASE k # 0
    <3>1. k - 1 \in Nat /\ k - 1 \notin Without
      BY <2>1, <2>3
    <3>2. PICK p : IsPower(b, p, k - 1)
      BY <3>1
    <3>. DEFINE q == [i \in 0..k |-> IF i = k THEN b * p[k - 1] ELSE p[i]]
    <3>3. /\ p \in [0..(k - 1) -> Nat \ {0}] /\ p[0] = 1
          /\ \A i \in 1..(k - 1) : p[i] = b * p[i - 1]
      BY <3>2 DEF IsPower
    <3>4. k - 1 \in 0..(k - 1) /\ p[k - 1] \in Nat \ {0}
      BY <3>1, <3>3
    <3>5. b * p[k - 1] \in Nat \ {0}
      BY <3>4
    <3>6. \A i \in 0..k : q[i] \in Nat \ {0}
      BY <3>1, <3>3, <3>5
    <3>7. q[0] = 1
      BY <2>3, <3>1, <3>3
    <3>8. \A i \in 1..k : q[i] = b * q[i - 1]
      BY <3>1, <3>3
    <3>. HIDE DEF q
    <3>9. q \in [0..k -> Nat \ {0}]
      BY <3>6 DEF q
    <3>. QED BY <2>1, <3>7, <3>8, <3>9 DEF IsPower
  <2>. QED BY <2>2, <2>3
<1>. QED BY <1>1, <1>2

LEMMA PowerFunction ==
  ASSUME NEW b \in Nat \ {0}, NEW n \in Nat
  PROVE  \E p : IsPower(b, p, n) /\ Power(b, n) = p[n]
<1>. DEFINE Q(p) == p = [i \in 0..n |-> IF i = 0 THEN 1 ELSE b * p[i - 1]]
            power == CHOOSE p : Q(p)
<1>1. PICK p : IsPower(b, p, n)
  BY PowersExist
<1>2. Q(p)
  BY <1>1 DEF IsPower
<1>3. Q(power)
  <2>. HIDE DEF Q
  <2>. QED BY <1>2
<1>4. Power(b, n) = power[n]
  BY DEF Power
<1>. HIDE DEF power
<1>5. power[0] = 1 /\ \A i \in 1..n : power[i] = b * power[i - 1]
  BY <1>3
<1>. DEFINE Bad == {i \in 0..n : power[i] \notin Nat \ {0}}
<1>6. ASSUME Bad # {} PROVE FALSE
  <2>1. \E k \in Bad : \A i \in Bad : k <= i
    <3>1. Bad \subseteq Nat
      OBVIOUS
    <3>. HIDE DEF Bad
    <3>. QED BY <1>6, <3>1, LeastNat
  <2>2. PICK k \in Bad : \A i \in Bad : k <= i
    BY <2>1
  <2>3. k \in 1..n /\ k - 1 \in 0..n /\ k - 1 \notin Bad
    BY <1>5, <2>2
  <2>4. power[k - 1] \in Nat \ {0} /\ power[k] = b * power[k - 1]
    BY <1>5, <2>3
  <2>5. b * power[k - 1] \in Nat \ {0}
    BY <2>4
  <2>. QED BY <2>2, <2>4, <2>5
<1>7. \A i \in 0..n : power[i] \in Nat \ {0}
  BY <1>6
<1>8. power = [i \in 0..n |-> power[i]]
  BY <1>3
<1>9. power \in [0..n -> Nat \ {0}]
  BY <1>7, <1>8
<1>. QED BY <1>4, <1>5, <1>9 DEF IsPower

LEMMA PowerType ==
  ASSUME NEW b \in Nat \ {0}, NEW n \in Nat
  PROVE  Power(b, n) \in Nat \ {0} /\ (n = 0 => Power(b, n) = 1)
<1>1. PICK p : IsPower(b, p, n) /\ Power(b, n) = p[n]
  BY PowerFunction
<1>2. n \in 0..n
  OBVIOUS
<1>. QED BY <1>1, <1>2 DEF IsPower

LEMMA PowersAgree ==
  ASSUME NEW b \in Nat \ {0}, NEW m \in Nat, NEW n \in Nat, m <= n,
         NEW p, IsPower(b, p, m), NEW q, IsPower(b, q, n)
  PROVE  p[m] = q[m]
<1>. DEFINE Bad == {k \in 0..m : p[k] # q[k]}
<1>1. /\ p[0] = 1 /\ \A i \in 1..m : p[i] = b * p[i - 1]
      /\ q[0] = 1 /\ \A i \in 1..n : q[i] = b * q[i - 1]
  BY DEF IsPower
<1>2. ASSUME Bad # {} PROVE FALSE
  <2>1. \E k \in Bad : \A i \in Bad : k <= i
    <3>1. Bad \subseteq Nat
      OBVIOUS
    <3>. HIDE DEF Bad
    <3>. QED BY <1>2, <3>1, LeastNat
  <2>2. PICK k \in Bad : \A i \in Bad : k <= i
    BY <2>1
  <2>3. k \in 1..m /\ k \in 1..n /\ k - 1 \in 0..m /\ k - 1 \notin Bad
    BY <1>1, <2>2
  <2>4. p[k] = b * p[k - 1] /\ q[k] = b * q[k - 1] /\ p[k - 1] = q[k - 1]
    BY <1>1, <2>3
  <2>. QED BY <2>2, <2>4
<1>3. m \in 0..m
  OBVIOUS
<1>. QED BY <1>2, <1>3

LEMMA PowerStep ==
  ASSUME NEW b \in Nat \ {0}, NEW n \in Nat
  PROVE  Power(b, n + 1) = b * Power(b, n)
<1>1. PICK p : IsPower(b, p, n) /\ Power(b, n) = p[n]
  BY PowerFunction
<1>2. PICK q : IsPower(b, q, n + 1) /\ Power(b, n + 1) = q[n + 1]
  <2>1. n + 1 \in Nat
    OBVIOUS
  <2>. QED BY <2>1, PowerFunction
<1>3. p[n] = q[n]
  <2>1. n + 1 \in Nat /\ n <= n + 1
    OBVIOUS
  <2>. QED BY <1>1, <1>2, <2>1, PowersAgree
<1>4. q[n + 1] = b * q[n]
  <2>1. n + 1 \in 1..(n + 1) /\ (n + 1) - 1 = n
    OBVIOUS
  <2>2. \A i \in 1..(n + 1) : q[i] = b * q[i - 1]
    BY <1>2 DEF IsPower
  <2>3. q[n + 1] = b * q[(n + 1) - 1]
    BY <2>1, <2>2
  <2>. QED BY <2>1, <2>3
<1>. QED BY <1>1, <1>2, <1>3, <1>4

LEMMA PowerGrows ==
  ASSUME NEW b \in Nat \ {0}, NEW i \in Nat, NEW j \in Nat, i <= j
  PROVE  Power(b, i) <= Power(b, j)
<1>. DEFINE Bad == {k \in Nat : i <= k /\ ~(Power(b, i) <= Power(b, k))}
<1>1. ASSUME Bad # {} PROVE FALSE
  <2>1. PICK k \in Bad : \A m \in Bad : k <= m
    <3>1. Bad \subseteq Nat
      OBVIOUS
    <3>2. \E k \in Bad : \A m \in Bad : k <= m
      <4>. HIDE DEF Bad
      <4>. QED BY <1>1, <3>1, LeastNat
    <3>. QED BY <3>2
  <2>2. k # i
    <3>1. Power(b, i) \in Nat
      BY PowerType
    <3>. QED BY <2>1, <3>1
  <2>3. k - 1 \in Nat /\ i <= k - 1 /\ k - 1 \notin Bad /\ (k - 1) + 1 = k
    BY <2>1, <2>2
  <2>4. Power(b, i) <= Power(b, k - 1)
    BY <2>3
  <2>5. Power(b, k) = b * Power(b, k - 1)
    <3>1. Power(b, (k - 1) + 1) = b * Power(b, k - 1)
      BY <2>3, PowerStep
    <3>. QED BY <2>3, <3>1
  <2>6. Power(b, i) \in Nat /\ Power(b, k - 1) \in Nat
    BY <2>3, PowerType
  <2>7. Power(b, k - 1) <= b * Power(b, k - 1)
    <3>1. \A x \in Nat : x <= b * x
      OBVIOUS
    <3>. QED BY <2>6, <3>1
  <2>8. b * Power(b, k - 1) \in Nat
    BY <2>6
  <2>9. Power(b, i) <= Power(b, k)
    BY <2>4, <2>5, <2>6, <2>7, <2>8
  <2>. QED BY <2>1, <2>9
<1>. QED BY <1>1

(* The sums of the first k numbers of a sequence, as a recursive function.  *)
IsSum(s, t, k) ==
  t \in [0..k -> Nat] /\ t[0] = 0 /\ \A i \in 1..k : t[i] = t[i - 1] + s[i]

LEMMA SumsExist ==
  ASSUME NEW s \in Seq(Nat), NEW n \in 0..Len(s)
  PROVE  \E t : IsSum(s, t, n)
<1>. DEFINE Without == {k \in 0..Len(s) : ~\E t : IsSum(s, t, k)}
<1>1. CASE Without = {}
  BY <1>1
<1>2. ASSUME Without # {} PROVE FALSE
  <2>1. PICK k \in Without : \A m \in Without : k <= m
    <3>1. Without \subseteq Nat
      OBVIOUS
    <3>2. \E k \in Without : \A m \in Without : k <= m
      <4>. HIDE DEF Without
      <4>. QED BY <1>2, <3>1, LeastNat
    <3>. QED BY <3>2
  <2>2. CASE k = 0
    <3>1. IsSum(s, [i \in 0..0 |-> 0], 0)
      BY DEF IsSum
    <3>. QED BY <2>1, <2>2, <3>1
  <2>3. CASE k # 0
    <3>1. k \in 1..Len(s) /\ k - 1 \in 0..Len(s) /\ k - 1 \notin Without
      BY <2>1, <2>3
    <3>2. PICK t : IsSum(s, t, k - 1)
      BY <3>1
    <3>. DEFINE u == [i \in 0..k |-> IF i = k THEN t[k - 1] + s[k] ELSE t[i]]
    <3>3. /\ t \in [0..(k - 1) -> Nat] /\ t[0] = 0
          /\ \A i \in 1..(k - 1) : t[i] = t[i - 1] + s[i]
      BY <3>2 DEF IsSum
    <3>4. k - 1 \in 0..(k - 1) /\ t[k - 1] \in Nat /\ s[k] \in Nat
      BY <3>1, <3>3
    <3>6. \A i \in 0..k : u[i] \in Nat
      BY <3>1, <3>3, <3>4
    <3>7. u[0] = 0
      BY <2>3, <3>1, <3>3
    <3>8. \A i \in 1..k : u[i] = u[i - 1] + s[i]
      BY <3>1, <3>3
    <3>. HIDE DEF u
    <3>9. u \in [0..k -> Nat]
      BY <3>6 DEF u
    <3>. QED BY <2>1, <3>7, <3>8, <3>9 DEF IsSum
  <2>. QED BY <2>2, <2>3
<1>. QED BY <1>1, <1>2

LEMMA SumsFacts ==
  ASSUME NEW s \in Seq(Nat)
  PROVE  /\ Sums(s)[0] = 0
         /\ \A i \in 0..Len(s) : Sums(s)[i] \in Nat
         /\ \A i \in 1..Len(s) : Sums(s)[i] = Sums(s)[i - 1] + s[i]
<1>. DEFINE Q(t) == t = [i \in 0..Len(s) |-> IF i = 0 THEN 0 ELSE t[i - 1] + s[i]]
            sum == CHOOSE t : Q(t)
<1>1. Len(s) \in 0..Len(s) /\ Len(s) \in Nat
  OBVIOUS
<1>2. PICK t : IsSum(s, t, Len(s))
  BY <1>1, SumsExist
<1>3. Q(t)
  BY <1>1, <1>2 DEF IsSum
<1>4. Q(sum)
  <2>. HIDE DEF Q
  <2>. QED BY <1>3
<1>5. Sums(s) = sum
  BY DEF Sums
<1>. HIDE DEF sum
<1>6. sum[0] = 0 /\ \A i \in 1..Len(s) : sum[i] = sum[i - 1] + s[i]
  BY <1>1, <1>4
<1>. DEFINE Bad == {i \in 0..Len(s) : sum[i] \notin Nat}
<1>7. ASSUME Bad # {} PROVE FALSE
  <2>1. \E k \in Bad : \A i \in Bad : k <= i
    <3>1. Bad \subseteq Nat
      OBVIOUS
    <3>. HIDE DEF Bad
    <3>. QED BY <1>7, <3>1, LeastNat
  <2>2. PICK k \in Bad : \A i \in Bad : k <= i
    BY <2>1
  <2>3. k \in 1..Len(s) /\ k - 1 \in 0..Len(s) /\ k - 1 \notin Bad
    BY <1>6, <2>2
  <2>4. sum[k - 1] \in Nat /\ s[k] \in Nat /\ sum[k] = sum[k - 1] + s[k]
    BY <1>6, <2>3
  <2>. QED BY <2>2, <2>4
<1>. QED BY <1>5, <1>6, <1>7

LEMMA SumsGrow ==
  ASSUME NEW s \in Seq(Nat), NEW i \in 0..Len(s), NEW j \in 0..Len(s), i <= j
  PROVE  Sums(s)[i] <= Sums(s)[j]
<1>. DEFINE S == Sums(s)
            Bad == {k \in 0..Len(s) : i <= k /\ ~(S[i] <= S[k])}
<1>1. /\ \A k \in 0..Len(s) : S[k] \in Nat
      /\ \A k \in 1..Len(s) : S[k] = S[k - 1] + s[k]
      /\ \A k \in 1..Len(s) : s[k] \in Nat
  BY SumsFacts
<1>. HIDE DEF S
<1>2. ASSUME Bad # {} PROVE FALSE
  <2>1. \E k \in Bad : \A m \in Bad : k <= m
    <3>1. Bad \subseteq Nat
      OBVIOUS
    <3>. HIDE DEF Bad
    <3>. QED BY <1>2, <3>1, LeastNat
  <2>2. PICK k \in Bad : \A m \in Bad : k <= m
    BY <2>1
  <2>3. k # i
    BY <1>1, <2>2
  <2>4. k \in 1..Len(s) /\ k - 1 \in 0..Len(s) /\ i <= k - 1 /\ k - 1 \notin Bad
    BY <2>2, <2>3
  <2>5. S[i] <= S[k - 1] /\ S[k] = S[k - 1] + s[k]
    BY <1>1, <2>4
  <2>6. S[i] \in Nat /\ S[k - 1] \in Nat /\ S[k] \in Nat /\ s[k] \in Nat
    BY <1>1, <2>4
  <2>7. S[i] <= S[k]
    BY <2>5, <2>6
  <2>. QED BY <2>2, <2>7
<1>. QED BY <1>2 DEF S

-------------------------------------------------------------------------------
(* Plans                                                                    *)

LEMMA BracketType ==
  ASSUME NEW R \in Nat \ {0}, NEW eta \in Nat \ {0, 1}, NEW top \in Nat, NEW level \in Nat
  PROVE  /\ BracketAtLevel(R, eta, top, level) \in Seq(RoundPlan)
         /\ Len(BracketAtLevel(R, eta, top, level)) = level + 1
<1>. DEFINE share == (top + 1) * Power(eta, level)
            n == Max({1, (share + level) \div (level + 1)})
            r == Max({1, R \div Power(eta, level)})
            B == BracketAtLevel(R, eta, top, level)
<1>1. Power(eta, level) \in Nat \ {0} /\ top + 1 \in Nat
  BY PowerType
<1>2. share \in Nat
  BY <1>1
<1>3. (share + level) \div (level + 1) \in Int /\ R \div Power(eta, level) \in Int
  <2>. HIDE DEF share
  <2>. QED BY <1>1, <1>2
<1>. HIDE DEF share
<1>4. n \in Nat \ {0} /\ r \in Nat \ {0}
  BY <1>3, MaxOfTwo
<1>. HIDE DEF n, r
<1>5. ASSUME NEW i \in 1..(level + 1)
      PROVE  CountFromRound(n, eta, i - 1) \in Nat /\ ResourceFromRound(r, eta, i - 1) \in Nat
  <2>1. i - 1 \in Nat
    OBVIOUS
  <2>2. Power(eta, i - 1) \in Nat \ {0}
    BY <2>1, PowerType
  <2>3. n \div Power(eta, i - 1) \in Int /\ r * Power(eta, i - 1) \in Int
    BY <1>4, <2>2
  <2>. QED BY <2>3, MaxOfTwo DEF CountFromRound, ResourceFromRound
<1>6. B = [i \in 1..(level + 1) |->
             [nConfigs |-> CountFromRound(n, eta, i - 1), resource |-> ResourceFromRound(r, eta, i - 1)]]
  BY DEF BracketAtLevel, n, r, share
<1>7. B \in [1..(level + 1) -> RoundPlan]
  BY <1>5, <1>6 DEF RoundPlan
<1>. HIDE DEF B
<1>8. B \in Seq(RoundPlan) /\ Len(B) = level + 1
  BY <1>7
<1>. QED BY <1>8 DEF B

LEMMA PlanType ==
  ASSUME NEW R \in Nat \ {0}, NEW eta \in Nat \ {0, 1}, NEW top \in Nat
  PROVE  Planned(Plan(R, eta, top))
<1>. DEFINE P == Plan(R, eta, top)
            B(i) == BracketAtLevel(R, eta, top, top + 1 - i)
<1>2. ASSUME NEW i \in 1..(top + 1)
      PROVE  B(i) \in Seq(RoundPlan) /\ Len(B(i)) > 0
  <2>1. top + 1 - i \in Nat
    OBVIOUS
  <2>. QED BY <2>1, BracketType
<1>3. P = [i \in 1..(top + 1) |-> B(i)]
  BY DEF Plan
<1>. HIDE DEF B, P
<1>4. P \in [1..(top + 1) -> Seq(RoundPlan)]
  BY <1>2, <1>3
<1>5. P \in Seq(Seq(RoundPlan)) /\ Len(P) = top + 1
  BY <1>4
<1>6. \A i \in 1..Len(P) : Len(P[i]) > 0
  BY <1>2, <1>3, <1>5
<1>7. Planned(P)
  BY <1>5, <1>6 DEF Planned
<1>. QED BY <1>7 DEF P

(* A bracket that halves: its rounds are never empty and never grow, and     *)
(* each gives its trials the reduction factor times the resource of the one  *)
(* before, up to no more than there is.                                     *)
Halving(rounds, R, eta) ==
  \A i \in 1..Len(rounds) :
    /\ rounds[i].nConfigs >= 1 /\ rounds[i].resource \in 1..R
    /\ i < Len(rounds) =>
         /\ rounds[i + 1].nConfigs <= rounds[i].nConfigs
         /\ rounds[i + 1].resource = eta * rounds[i].resource

LEMMA MaxWithOne ==
  ASSUME NEW x \in Int
  PROVE  Max({1, x}) = IF x > 1 THEN x ELSE 1
<1>1. \E m \in {1, x} : \A y \in {1, x} : m >= y
  OBVIOUS
<1>2. Max({1, x}) \in {1, x} /\ \A y \in {1, x} : Max({1, x}) >= y
  BY <1>1 DEF Max
<1>. QED BY <1>2

LEMMA BracketHalves ==
  ASSUME NEW R \in Nat \ {0}, NEW eta \in Nat \ {0, 1},
         NEW top \in Nat, Power(eta, top) <= R, NEW level \in 0..top
  PROVE  Halving(BracketAtLevel(R, eta, top, level), R, eta)
<1>. DEFINE share == (top + 1) * Power(eta, level)
            n == Max({1, (share + level) \div (level + 1)})
            r == Max({1, R \div Power(eta, level)})
            B == BracketAtLevel(R, eta, top, level)
            p(i) == Power(eta, i)
<1>1. top \in Nat /\ level \in Nat /\ p(top) <= R
  OBVIOUS
<1>2. \A i \in Nat : p(i) \in Nat \ {0} /\ p(i + 1) = eta * p(i)
  BY PowerType, PowerStep
<1>3. \A i \in Nat : i <= level => p(i) <= p(level)
  BY <1>1, PowerGrows
<1>4. p(level) <= R
  <2>1. p(level) <= p(top)
    BY <1>1, PowerGrows
  <2>2. p(level) \in Nat /\ p(top) \in Nat
    BY <1>1, <1>2
  <2>. HIDE DEF p
  <2>. QED BY <1>1, <2>1, <2>2
<1>5. n \in Nat \ {0}
  <2>1. share \in Nat
    BY <1>1, <1>2
  <2>. HIDE DEF share
  <2>2. (share + level) \div (level + 1) \in Int
    BY <1>1, <2>1
  <2>. QED BY <2>2, MaxOfTwo
<1>6. r \in Nat \ {0} /\ r * p(level) <= R
  <2>. DEFINE q == R \div p(level)
  <2>1. q \in Nat /\ q * p(level) <= R /\ R < (q + 1) * p(level) /\ p(level) \in Nat \ {0}
    BY <1>1, <1>2, DivFacts
  <2>2. r = Max({1, q})
    OBVIOUS
  <2>. HIDE DEF q, p, r
  <2>3. q # 0
    <3>1. q = 0 => (q + 1) * p(level) = p(level)
      BY <2>1
    <3>. QED BY <1>4, <2>1, <3>1
  <2>4. r = q
    <3>1. r = IF q > 1 THEN q ELSE 1
      BY <2>1, <2>2, MaxWithOne
    <3>. QED BY <2>1, <2>3, <3>1
  <2>. QED BY <2>1, <2>3, <2>4
<1>7. B = [i \in 1..(level + 1) |->
             [nConfigs |-> CountFromRound(n, eta, i - 1), resource |-> ResourceFromRound(r, eta, i - 1)]]
  BY DEF BracketAtLevel
<1>8. Len(B) = level + 1
  BY <1>1, BracketType
<1>. HIDE DEF B, n, r
<1>9. ASSUME NEW i \in Nat, i <= level
      PROVE  ResourceFromRound(r, eta, i) = r * p(i) /\ r * p(i) \in 1..R
  <2>1. p(i) \in Nat \ {0} /\ p(i) <= p(level) /\ p(level) \in Nat
    BY <1>1, <1>2, <1>3, <1>9
  <2>2. ResourceFromRound(r, eta, i) = Max({1, r * p(i)})
    BY DEF ResourceFromRound
  <2>. HIDE DEF p
  <2>3. r * p(i) <= r * p(level)
    BY <1>6, <2>1, MulUp
  <2>4. r * p(i) \in Nat \ {0} /\ r * p(level) \in Nat
    BY <1>6, <2>1
  <2>5. r * p(i) \in 1..R
    BY <1>6, <2>3, <2>4
  <2>6. Max({1, r * p(i)}) = r * p(i)
    <3>1. Max({1, r * p(i)}) = IF r * p(i) > 1 THEN r * p(i) ELSE 1
      BY <2>4, MaxWithOne
    <3>. QED BY <2>4, <3>1
  <2>. QED BY <2>2, <2>5, <2>6
<1>10. ASSUME NEW i \in Nat
       PROVE  /\ CountFromRound(n, eta, i) \in Nat \ {0}
              /\ CountFromRound(n, eta, i + 1) <= CountFromRound(n, eta, i)
  <2>. DEFINE x == n \div p(i)
              y == n \div p(i + 1)
  <2>1. x \in Nat /\ y \in Nat
    <3>1. p(i) \in Nat \ {0} /\ p(i + 1) \in Nat \ {0}
      BY <1>2
    <3>. QED BY <1>5, <3>1, DivFacts
  <2>2. y <= x
    <3>1. p(i) \in Nat \ {0} /\ p(i + 1) = eta * p(i)
      BY <1>2
    <3>. QED BY <1>5, <3>1, DivLeast
  <2>3. CountFromRound(n, eta, i) = Max({1, x}) /\ CountFromRound(n, eta, i + 1) = Max({1, y})
    BY DEF CountFromRound
  <2>. HIDE DEF x, y
  <2>4. Max({1, x}) = (IF x > 1 THEN x ELSE 1) /\ Max({1, y}) = (IF y > 1 THEN y ELSE 1)
    BY <2>1, MaxWithOne
  <2>. QED BY <2>1, <2>2, <2>3, <2>4
<1>11. ASSUME NEW i \in 1..Len(B)
       PROVE  /\ B[i].nConfigs >= 1 /\ B[i].resource \in 1..R
              /\ i < Len(B) =>
                   B[i + 1].nConfigs <= B[i].nConfigs /\ B[i + 1].resource = eta * B[i].resource
  <2>1. i - 1 \in Nat /\ i - 1 <= level /\ i \in 1..(level + 1)
    BY <1>1, <1>8
  <2>2. B[i].nConfigs = CountFromRound(n, eta, i - 1) /\ B[i].resource = ResourceFromRound(r, eta, i - 1)
    BY <1>7, <2>1
  <2>3. B[i].nConfigs >= 1
    <3>1. CountFromRound(n, eta, i - 1) \in Nat \ {0}
      BY <1>10, <2>1
    <3>. QED BY <2>2, <3>1
  <2>4. B[i].resource = r * p(i - 1) /\ r * p(i - 1) \in 1..R
    BY <1>9, <2>1, <2>2
  <2>5. ASSUME i < Len(B)
        PROVE  B[i + 1].nConfigs <= B[i].nConfigs /\ B[i + 1].resource = eta * B[i].resource
    <3>1. i \in Nat /\ i <= level /\ i + 1 \in 1..(level + 1) /\ (i + 1) - 1 = i /\ (i - 1) + 1 = i
      BY <1>1, <1>8, <2>5
    <3>2. B[i + 1].nConfigs = CountFromRound(n, eta, i) /\ B[i + 1].resource = ResourceFromRound(r, eta, i)
      BY <1>7, <3>1
    <3>3. CountFromRound(n, eta, i) <= CountFromRound(n, eta, i - 1)
      <4>1. CountFromRound(n, eta, (i - 1) + 1) <= CountFromRound(n, eta, i - 1)
        BY <1>10, <2>1
      <4>. QED BY <3>1, <4>1
    <3>4. B[i + 1].resource = r * p(i)
      BY <1>9, <3>1, <3>2
    <3>5. p(i) = eta * p(i - 1) /\ p(i - 1) \in Nat
      <4>1. p((i - 1) + 1) = eta * p(i - 1) /\ p(i - 1) \in Nat
        BY <1>2, <2>1
      <4>. QED BY <3>1, <4>1
    <3>. HIDE DEF p
    <3>6. r * (eta * p(i - 1)) = eta * (r * p(i - 1))
      BY <1>6, <3>5
    <3>. QED BY <2>2, <2>4, <3>2, <3>3, <3>4, <3>5, <3>6
  <2>. QED BY <2>3, <2>4, <2>5
<1>12. Halving(B, R, eta)
  BY <1>11 DEF Halving
<1>. QED BY <1>12 DEF B

(* What buildBrackets makes of every topology and of every top level that   *)
(* sMaxFrom may find for it without going beyond the maximum resource, the   *)
(* logarithm or, where its doubles fall short of that, less: each bracket    *)
(* has one round less than the one before it, and every bracket halves       *)
(* (scheduler.ts:24-94).                                                    *)
THEOREM PlanHalves ==
  ASSUME NEW R \in Nat \ {0}, NEW eta \in Nat \ {0, 1}, NEW top \in Nat, Power(eta, top) <= R
  PROVE  LET brackets == Plan(R, eta, top) IN
         /\ Planned(brackets) /\ Len(brackets) = top + 1
         /\ \A b \in 1..Len(brackets) :
              Len(brackets[b]) = Len(brackets) + 1 - b /\ Halving(brackets[b], R, eta)
<1>. DEFINE P == Plan(R, eta, top)
            B(i) == BracketAtLevel(R, eta, top, top + 1 - i)
<1>2. Planned(P)
  BY PlanType
<1>3. P = [i \in 1..(top + 1) |-> B(i)]
  BY DEF Plan
<1>4. ASSUME NEW b \in 1..(top + 1)
      PROVE  Len(B(b)) = top + 2 - b /\ Halving(B(b), R, eta)
  <2>1. top + 1 - b \in Nat /\ top + 1 - b \in 0..top /\ (top + 1 - b) + 1 = top + 2 - b
    OBVIOUS
  <2>2. Len(B(b)) = (top + 1 - b) + 1
    <3>1. PICK level \in Nat : level = top + 1 - b
      BY <2>1
    <3>2. Len(BracketAtLevel(R, eta, top, level)) = level + 1
      BY BracketType
    <3>. QED BY <3>1, <3>2
  <2>3. Halving(B(b), R, eta)
    BY <2>1, BracketHalves
  <2>. QED BY <2>1, <2>2, <2>3
<1>. HIDE DEF P, B
<1>5. Len(P) = top + 1
  <2>1. P \in Seq(Seq(RoundPlan)) /\ DOMAIN P = 1..(top + 1)
    BY <1>2, <1>3 DEF Planned
  <2>2. Len(P) \in Nat /\ DOMAIN P = 1..Len(P)
    BY <2>1
  <2>. QED BY <2>1, <2>2
<1>6. ASSUME NEW b \in 1..Len(P)
      PROVE  Len(P[b]) = Len(P) + 1 - b /\ Halving(P[b], R, eta)
  <2>1. b \in 1..(top + 1) /\ P[b] = B(b)
    BY <1>3, <1>5
  <2>2. top + 2 - b = Len(P) + 1 - b
    BY <1>5, <2>1
  <2>. QED BY <1>4, <2>1, <2>2
<1>. QED BY <1>2, <1>5, <1>6 DEF P

(* How many trials a plan has room for, up to a round and up to a bracket.  *)
LEMMA RoundSums ==
  ASSUME Planned(plan), NEW b \in 1..Len(plan)
  PROVE  /\ Len(plan[b]) \in Nat \ {0}
         /\ \A r \in 1..Len(plan[b]) : plan[b][r].nConfigs \in Nat
         /\ RoundTrials(plan[b])[0] = 0
         /\ \A r \in 0..Len(plan[b]) : RoundTrials(plan[b])[r] \in Nat
         /\ \A r \in 1..Len(plan[b]) :
              /\ RoundTrials(plan[b])[r] = RoundTrials(plan[b])[r - 1] + plan[b][r].nConfigs
              /\ RoundTrials(plan[b])[r] <= RoundTrials(plan[b])[Len(plan[b])]
<1>. DEFINE rounds == plan[b]
            s == Sizes(rounds)
<1>1. rounds \in Seq(RoundPlan) /\ Len(rounds) \in Nat \ {0}
  BY DEF Planned
<1>2. ASSUME NEW r \in 1..Len(rounds) PROVE rounds[r].nConfigs \in Nat
  <2>. HIDE DEF rounds
  <2>1. rounds[r] \in RoundPlan
    BY <1>1
  <2>. QED BY <2>1 DEF RoundPlan
<1>3. s \in Seq(Nat) /\ Len(s) = Len(rounds) /\ \A r \in 1..Len(rounds) : s[r] = rounds[r].nConfigs
  <2>. HIDE DEF rounds
  <2>1. s = [r \in 1..Len(rounds) |-> rounds[r].nConfigs]
    BY DEF Sizes
  <2>2. s \in [1..Len(rounds) -> Nat]
    BY <1>2, <2>1
  <2>. HIDE DEF s
  <2>. QED BY <1>1, <2>1, <2>2
<1>. HIDE DEF s
<1>4. /\ Sums(s)[0] = 0
      /\ \A i \in 0..Len(s) : Sums(s)[i] \in Nat
      /\ \A i \in 1..Len(s) : Sums(s)[i] = Sums(s)[i - 1] + s[i]
  BY <1>3, SumsFacts
<1>5. \A r \in 1..Len(s) : Sums(s)[r] <= Sums(s)[Len(s)]
  <2>1. ASSUME NEW r \in 1..Len(s) PROVE r \in 0..Len(s) /\ Len(s) \in 0..Len(s) /\ r <= Len(s)
    BY <1>3
  <2>. QED BY <1>3, <2>1, SumsGrow
<1>6. RoundTrials(rounds) = Sums(s)
  BY DEF RoundTrials, s
<1>. HIDE DEF rounds
<1>7. /\ Len(rounds) \in Nat \ {0}
      /\ \A r \in 1..Len(rounds) : rounds[r].nConfigs \in Nat
      /\ RoundTrials(rounds)[0] = 0
      /\ \A r \in 0..Len(rounds) : RoundTrials(rounds)[r] \in Nat
      /\ \A r \in 1..Len(rounds) :
           /\ RoundTrials(rounds)[r] = RoundTrials(rounds)[r - 1] + rounds[r].nConfigs
           /\ RoundTrials(rounds)[r] <= RoundTrials(rounds)[Len(rounds)]
  BY <1>1, <1>2, <1>3, <1>4, <1>5, <1>6
<1>. QED BY <1>7 DEF rounds

LEMMA BracketSums ==
  ASSUME Planned(plan)
  PROVE  /\ Len(plan) \in Nat \ {0}
         /\ BracketTrials(plan)[0] = 0
         /\ \A b \in 0..Len(plan) : BracketTrials(plan)[b] \in Nat
         /\ \A b \in 1..Len(plan) :
              /\ BracketTrials(plan)[b] = BracketTrials(plan)[b - 1] + RoundTrials(plan[b])[Len(plan[b])]
              /\ BracketTrials(plan)[b] <= TotalTrials(plan)
<1>. DEFINE s == [b \in 1..Len(plan) |-> RoundTrials(plan[b])[Len(plan[b])]]
<1>1. Len(plan) \in Nat \ {0}
  BY DEF Planned
<1>2. \A b \in 1..Len(plan) : RoundTrials(plan[b])[Len(plan[b])] \in Nat
  <2>1. ASSUME NEW b \in 1..Len(plan)
        PROVE  RoundTrials(plan[b])[Len(plan[b])] \in Nat
    <3>1. Len(plan[b]) \in 0..Len(plan[b])
      BY RoundSums
    <3>. QED BY <3>1, RoundSums
  <2>. QED BY <2>1
<1>3. s \in Seq(Nat) /\ Len(s) = Len(plan)
      /\ \A b \in 1..Len(plan) : s[b] = RoundTrials(plan[b])[Len(plan[b])]
  <2>1. s \in [1..Len(plan) -> Nat]
    BY <1>2
  <2>2. \A b \in 1..Len(plan) : s[b] = RoundTrials(plan[b])[Len(plan[b])]
    OBVIOUS
  <2>. HIDE DEF s
  <2>. QED BY <1>1, <2>1, <2>2
<1>4. BracketTrials(plan) = Sums(s)
  BY DEF BracketTrials
<1>. HIDE DEF s
<1>5. /\ Sums(s)[0] = 0
      /\ \A i \in 0..Len(s) : Sums(s)[i] \in Nat
      /\ \A i \in 1..Len(s) : Sums(s)[i] = Sums(s)[i - 1] + s[i]
  BY <1>3, SumsFacts
<1>6. \A b \in 1..Len(s) : Sums(s)[b] <= Sums(s)[Len(s)]
  <2>1. ASSUME NEW b \in 1..Len(s) PROVE b \in 0..Len(s) /\ Len(s) \in 0..Len(s) /\ b <= Len(s)
    BY <1>3
  <2>. QED BY <1>3, <2>1, SumsGrow
<1>. QED BY <1>1, <1>3, <1>4, <1>5, <1>6 DEF TotalTrials

-------------------------------------------------------------------------------
(* The order of a round's completed trials                                  *)

LEMMA Elements ==
  ASSUME NEW S, NEW s \in Seq(S)
  PROVE  Len(s) \in Nat /\ DOMAIN s = 1..Len(s) /\ \A i \in 1..Len(s) : s[i] \in S
OBVIOUS

LEMMA CompletedFacts ==
  ASSUME TrialsOf(pool)
  PROVE  /\ Completed = {i \in 1..Len(pool) : pool[i].state = "completed"}
         /\ \A i \in Completed : i \in Nat /\ pool[i].value \in Nat
         /\ IsFiniteSet(Completed) /\ Cardinality(Completed) \in Nat
<1>1. Len(pool) \in Nat /\ DOMAIN pool = 1..Len(pool)
  BY Elements DEF TrialsOf
<1>2. Completed = {i \in 1..Len(pool) : pool[i].state = "completed"}
  BY <1>1 DEF Completed, In
<1>3. IsFiniteSet(1..Len(pool)) /\ Completed \subseteq 1..Len(pool)
  BY <1>1, <1>2, FS_Interval
<1>4. IsFiniteSet(Completed)
  BY <1>3, FS_Subset
<1>. QED BY <1>1, <1>2, <1>4, FS_CardinalityType DEF TrialsOf

LEMMA BeforeOrders ==
  ASSUME TrialsOf(pool), NEW i \in Completed, NEW j \in Completed
  PROVE  /\ ~Before(i, i)
         /\ i # j => Before(i, j) \/ Before(j, i)
         /\ ~(Before(i, j) /\ Before(j, i))
         /\ Before(i, j) => pool[i].value <= pool[j].value
         /\ \A k \in Completed : Before(k, i) /\ Before(i, j) => Before(k, j)
BY CompletedFacts DEF Before

Below(i) == {j \in Completed : Before(j, i)}
Rank(i) == Cardinality(Below(i))

LEMMA RankBound ==
  ASSUME TrialsOf(pool), NEW i \in Completed
  PROVE  /\ IsFiniteSet(Below(i)) /\ i \notin Below(i)
         /\ Rank(i) \in 0..(Cardinality(Completed) - 1)
<1>1. IsFiniteSet(Completed) /\ Cardinality(Completed) \in Nat
  BY CompletedFacts
<1>2. Below(i) \subseteq Completed \ {i} /\ Below(i) \subseteq Completed
  BY BeforeOrders DEF Below
<1>3. IsFiniteSet(Below(i)) /\ Cardinality(Below(i)) \in Nat
  BY <1>1, <1>2, FS_Subset, FS_CardinalityType
<1>4. IsFiniteSet(Completed \ {i}) /\ Cardinality(Completed \ {i}) = Cardinality(Completed) - 1
  BY <1>1, FS_RemoveElement
<1>5. Cardinality(Below(i)) <= Cardinality(Completed \ {i})
  BY <1>2, <1>4, FS_Subset
<1>. QED BY <1>1, <1>2, <1>3, <1>4, <1>5 DEF Rank

LEMMA RankGrows ==
  ASSUME TrialsOf(pool), NEW i \in Completed, NEW j \in Completed, Before(i, j)
  PROVE  Rank(i) < Rank(j)
<1>1. IsFiniteSet(Below(i)) /\ IsFiniteSet(Below(j)) /\ i \notin Below(i)
  BY RankBound
<1>2. Below(i) \cup {i} \subseteq Below(j)
  BY BeforeOrders DEF Below
<1>3. Cardinality(Below(i) \cup {i}) = Cardinality(Below(i)) + 1
  BY <1>1, FS_AddElement
<1>4. Cardinality(Below(i) \cup {i}) <= Cardinality(Below(j))
  BY <1>1, <1>2, FS_Subset
<1>5. Cardinality(Below(i)) \in Nat /\ Cardinality(Below(j)) \in Nat
  BY <1>1, FS_CardinalityType
<1>. QED BY <1>3, <1>4, <1>5 DEF Rank

(* No two have the same rank, hence every rank is taken.                    *)
LEMMA RanksDiffer ==
  ASSUME TrialsOf(pool), NEW i \in Completed, NEW j \in Completed, Rank(i) = Rank(j)
  PROVE  i = j
<1>1. Rank(i) \in Nat
  BY RankBound
<1>2. ~Before(i, j) /\ ~Before(j, i)
  BY <1>1, RankGrows
<1>. QED BY <1>2, BeforeOrders

LEMMA RankedFacts ==
  ASSUME TrialsOf(pool), NEW k \in 1..Cardinality(Completed)
  PROVE  Ranked(k) \in Completed /\ Rank(Ranked(k)) = k - 1
<1>. DEFINE m == Cardinality(Completed)
            rank == [i \in Completed |-> Rank(i)]
<1>1. IsFiniteSet(Completed) /\ m \in Nat
  BY CompletedFacts
<1>2. IsFiniteSet(0..(m - 1)) /\ Cardinality(0..(m - 1)) = m
  <2>. HIDE DEF m
  <2>1. 0 \in Int /\ m - 1 \in Int
    BY <1>1
  <2>. QED BY <1>1, <2>1, FS_Interval
<1>3. rank \in [Completed -> 0..(m - 1)]
  BY RankBound
<1>4. \A i, j \in Completed : rank[i] = rank[j] => i = j
  BY RanksDiffer
<1>5. rank \in Injection(Completed, 0..(m - 1))
  BY <1>3, <1>4 DEF Injection, IsInjective
<1>6. rank \in Surjection(Completed, 0..(m - 1))
  <2>. HIDE DEF rank
  <2>. QED BY <1>1, <1>2, <1>5, FS_Injection
<1>7. \A n \in 0..(m - 1) : \E i \in Completed : rank[i] = n
  <2>. HIDE DEF rank
  <2>. QED BY <1>6 DEF Surjection
<1>8. k - 1 \in 0..(m - 1)
  BY <1>1
<1>9. \E i \in Completed : Rank(i) = k - 1
  BY <1>7, <1>8
<1>10. \E i \in Completed : Cardinality({j \in Completed : Before(j, i)}) = k - 1
  BY <1>9 DEF Rank, Below
<1>11. /\ Ranked(k) \in Completed
       /\ Cardinality({j \in Completed : Before(j, Ranked(k))}) = k - 1
  BY <1>10 DEF Ranked
<1>. QED BY <1>11 DEF Rank, Below

(* The first few in rank are as many, and no other is better.               *)
LEMMA FirstAreBest ==
  ASSUME TrialsOf(pool), NEW n \in 0..Cardinality(Completed)
  PROVE  LET best == {Ranked(k) : k \in 1..n} IN
         /\ best \subseteq Completed /\ Cardinality(best) = n
         /\ \A i \in best, j \in Completed \ best : pool[i].value <= pool[j].value
<1>. DEFINE best == {Ranked(k) : k \in 1..n}
            f == [k \in 1..n |-> Ranked(k)]
<1>1. Cardinality(Completed) \in Nat /\ n \in Nat
  BY CompletedFacts
<1>2. \A k \in 1..n : k \in 1..Cardinality(Completed)
  BY <1>1
<1>3. \A k \in 1..n : Ranked(k) \in Completed /\ Rank(Ranked(k)) = k - 1
  BY <1>2, RankedFacts
<1>4. best \subseteq Completed
  BY <1>3
<1>5. Cardinality(best) = n
  <2>1. \A k, l \in 1..n : f[k] = f[l] => k = l
    <3>1. ASSUME NEW k \in 1..n, NEW l \in 1..n, Ranked(k) = Ranked(l) PROVE k = l
      BY <1>3, <3>1
    <3>. QED BY <3>1
  <2>2. f \in Bijection(1..n, best)
    <3>1. f \in [1..n -> best]
      OBVIOUS
    <3>2. \A b \in best : \E k \in 1..n : f[k] = b
      OBVIOUS
    <3>. HIDE DEF f, best
    <3>. QED BY <2>1, <3>1, <3>2 DEF Bijection, Injection, IsInjective, Surjection
  <2>3. ExistsBijection(1..n, best)
    <3>. HIDE DEF f, best
    <3>. QED BY <2>2 DEF ExistsBijection
  <2>. HIDE DEF best
  <2>. QED BY <1>1, <2>3, FS_CountingElements
<1>6. ASSUME NEW i \in best, NEW j \in Completed \ best
      PROVE  pool[i].value <= pool[j].value
  <2>1. PICK k \in 1..n : i = Ranked(k)
    BY <1>6
  <2>2. i \in Completed /\ Rank(i) = k - 1
    BY <1>3, <2>1
  <2>3. Rank(j) \in 0..(Cardinality(Completed) - 1)
    BY RankBound
  <2>4. Rank(j) >= n
    <3>1. ASSUME Rank(j) < n PROVE FALSE
      <4>1. Rank(j) + 1 \in 1..n
        BY <1>1, <2>3, <3>1
      <4>2. Ranked(Rank(j) + 1) \in Completed /\ Rank(Ranked(Rank(j) + 1)) = Rank(j)
        BY <1>3, <2>3, <4>1
      <4>3. j = Ranked(Rank(j) + 1)
        BY <4>2, RanksDiffer
      <4>. QED BY <1>6, <4>1, <4>3
    <3>. QED BY <1>1, <2>3, <3>1
  <2>5. Rank(i) \in Nat /\ Rank(j) \in Nat /\ ~(Rank(j) < Rank(i))
    BY <1>1, <2>1, <2>2, <2>3, <2>4
  <2>6. ~Before(j, i)
    BY <2>2, <2>5, RankGrows
  <2>7. i # j
    BY <1>6
  <2>. QED BY <2>2, <2>6, <2>7, BeforeOrders
<1>. QED BY <1>4, <1>5, <1>6

-------------------------------------------------------------------------------
(* What steps do to the pool                                                *)

LEMMA PoolFacts ==
  ASSUME TrialsOf(pool)
  PROVE  /\ Len(pool) \in Nat /\ DOMAIN pool = 1..Len(pool)
         /\ \A i \in 1..Len(pool) :
              /\ pool[i].config \in Nat /\ pool[i].state \in States
              /\ pool[i].number \in Nat \cup {None} /\ pool[i].value \in Nat \cup {None}
<1>1. Len(pool) \in Nat /\ DOMAIN pool = 1..Len(pool) /\ \A i \in 1..Len(pool) : pool[i] \in TrialRecord
  BY Elements DEF TrialsOf
<1>. QED BY <1>1 DEF TrialRecord

(* One trial of the pool has another state, number and value now.           *)
Marked(i, s, n, v) ==
  /\ Len(pool') = Len(pool)
  /\ pool'[i].config = pool[i].config /\ pool'[i].state = s
  /\ pool'[i].number = n /\ pool'[i].value = v
  /\ \A j \in 1..Len(pool) : j # i => pool'[j] = pool[j]

LEMMA Marking ==
  ASSUME TrialsOf(pool), NEW i \in 1..Len(pool), NEW t \in TrialRecord,
         t.config = pool[i].config, t.state = "completed" => t.value \in Nat,
         pool' = [pool EXCEPT ![i] = t]
  PROVE  Marked(i, t.state, t.number, t.value) /\ TrialsOf(pool')
<1>1. pool \in Seq(TrialRecord)
  BY DEF TrialsOf
<1>2. /\ pool' \in Seq(TrialRecord) /\ Len(pool') = Len(pool) /\ pool'[i] = t
      /\ \A j \in 1..Len(pool) : j # i => pool'[j] = pool[j]
  BY <1>1
<1>3. Marked(i, t.state, t.number, t.value)
  BY <1>2 DEF Marked
<1>4. \A j \in 1..Len(pool') : pool'[j].state = "completed" => pool'[j].value \in Nat
  BY <1>2 DEF TrialsOf
<1>. QED BY <1>2, <1>3, <1>4 DEF TrialsOf

LEMMA Marks ==
  ASSUME TrialsOf(pool), trialNumber \in Nat, NEW i \in 1..Len(pool)
  PROVE  /\ Take(i) =>
              TrialsOf(pool') /\ Marked(i, IF stopped THEN "skipped" ELSE "reserving",
                                        trialNumber, pool[i].value)
         /\ Reserve(i) => TrialsOf(pool') /\ Marked(i, "running", pool[i].number, pool[i].value)
         /\ \A x \in Values : Complete(i, x) =>
              TrialsOf(pool') /\ Marked(i, "completed", pool[i].number, x)
         /\ Miss(i) => TrialsOf(pool') /\ Marked(i, "missed", pool[i].number, pool[i].value)
<1>1. pool[i] \in TrialRecord /\ i \in DOMAIN pool
  BY Elements DEF TrialsOf
<1>2. ASSUME Take(i)
      PROVE  TrialsOf(pool') /\ Marked(i, IF stopped THEN "skipped" ELSE "reserving",
                                       trialNumber, pool[i].value)
  <2>. DEFINE s == IF stopped THEN "skipped" ELSE "reserving"
              u == [pool[i] EXCEPT !.number = trialNumber]
              t == [u EXCEPT !.state = s]
  <2>1. pool' = [pool EXCEPT ![i] = t]
    BY <1>1, <1>2 DEF Take
  <2>2. s \in States /\ s # "completed"
    BY DEF States
  <2>. HIDE DEF s
  <2>3. u \in TrialRecord /\ u.config = pool[i].config /\ u.number = trialNumber /\ u.value = pool[i].value
    BY <1>1 DEF TrialRecord
  <2>. HIDE DEF u
  <2>4. t \in TrialRecord /\ t.config = u.config /\ t.state = s /\ t.number = u.number /\ t.value = u.value
    BY <2>2, <2>3 DEF TrialRecord
  <2>. HIDE DEF t
  <2>5. TrialsOf(pool') /\ Marked(i, s, trialNumber, pool[i].value)
    BY <2>1, <2>2, <2>3, <2>4, Marking
  <2>. QED BY <2>5 DEF s
<1>3. ASSUME Reserve(i)
      PROVE  TrialsOf(pool') /\ Marked(i, "running", pool[i].number, pool[i].value)
  <2>. DEFINE t == [pool[i] EXCEPT !.state = "running"]
  <2>1. pool' = [pool EXCEPT ![i] = t]
    BY <1>1, <1>3 DEF Reserve
  <2>2. t \in TrialRecord /\ t.config = pool[i].config /\ t.state = "running"
        /\ t.number = pool[i].number /\ t.value = pool[i].value
    BY <1>1 DEF TrialRecord, States
  <2>. HIDE DEF t
  <2>. QED BY <2>1, <2>2, Marking
<1>4. ASSUME NEW x \in Values, Complete(i, x)
      PROVE  TrialsOf(pool') /\ Marked(i, "completed", pool[i].number, x)
  <2>. DEFINE u == [pool[i] EXCEPT !.state = "completed"]
              t == [u EXCEPT !.value = x]
  <2>1. pool' = [pool EXCEPT ![i] = t]
    BY <1>1, <1>4 DEF Complete
  <2>2. u \in TrialRecord /\ u.config = pool[i].config /\ u.state = "completed" /\ u.number = pool[i].number
    BY <1>1 DEF TrialRecord, States
  <2>3. x \in Nat
    BY BracketsAssumption
  <2>. HIDE DEF u
  <2>4. t \in TrialRecord /\ t.config = u.config /\ t.state = u.state /\ t.number = u.number /\ t.value = x
    BY <2>2, <2>3 DEF TrialRecord
  <2>. HIDE DEF t
  <2>. QED BY <2>1, <2>2, <2>3, <2>4, Marking
<1>5. ASSUME Miss(i)
      PROVE  TrialsOf(pool') /\ Marked(i, "missed", pool[i].number, pool[i].value)
  <2>. DEFINE t == [pool[i] EXCEPT !.state = "missed"]
  <2>1. pool' = [pool EXCEPT ![i] = t]
    BY <1>1, <1>5 DEF Miss
  <2>2. t \in TrialRecord /\ t.config = pool[i].config /\ t.state = "missed"
        /\ t.number = pool[i].number /\ t.value = pool[i].value
    BY <1>1 DEF TrialRecord, States
  <2>. HIDE DEF t
  <2>. QED BY <2>1, <2>2, Marking
<1>. QED BY <1>2, <1>3, <1>4, <1>5

(* A pool of configurations that wait.                                      *)
LEMMA PooledFacts ==
  ASSUME NEW configs \in Seq(Nat)
  PROVE  /\ TrialsOf(Pooled(configs)) /\ Len(Pooled(configs)) = Len(configs)
         /\ \A i \in 1..Len(configs) :
              Pooled(configs)[i].config = configs[i] /\ Pooled(configs)[i].state = "waiting"
<1>1. Len(configs) \in Nat /\ DOMAIN configs = 1..Len(configs) /\ \A i \in 1..Len(configs) : configs[i] \in Nat
  OBVIOUS
<1>. DEFINE P == Pooled(configs)
<1>2. P = [i \in 1..Len(configs) |-> Waiting(configs[i])]
  BY <1>1 DEF Pooled
<1>3. \A i \in 1..Len(configs) :
        Waiting(configs[i]) \in TrialRecord
  BY <1>1 DEF Waiting, TrialRecord, States
<1>. HIDE DEF P
<1>4. P \in [1..Len(configs) -> TrialRecord]
  BY <1>2, <1>3
<1>5. P \in Seq(TrialRecord) /\ Len(P) = Len(configs)
  BY <1>1, <1>4
<1>6. \A i \in 1..Len(configs) : P[i].config = configs[i] /\ P[i].state = "waiting"
  BY <1>2 DEF Waiting
<1>. QED BY <1>5, <1>6 DEF TrialsOf, P

(* Nothing waits or runs in a pool that is empty.                           *)
LEMMA EmptyPool ==
  TrialsOf(<<>>) /\ Len(<<>>) = 0
<1>1. <<>> \in Seq(TrialRecord) /\ Len(<<>>) = 0
  OBVIOUS
<1>. QED BY <1>1 DEF TrialsOf

-------------------------------------------------------------------------------
(* Steps of a trial: each part of the invariant                             *)

(* What a step of a trial leaves alone.                                     *)
Beside == UNCHANGED <<plan, mode, bracket, round, phase, completedCount, drawn, bests, announced,
                      previous, stopped>>

LEMMA TrialLeaves ==
  ASSUME NEW i, Trial(i)
  PROVE  Beside
BY DEF Trial, Take, Reserve, Complete, Miss, planVars, placeVars, roundVars, Beside

(* Only a round has trials.                                                 *)
LEMMA TrialOfRound ==
  ASSUME Types, Placed, NEW i \in 1..Len(pool)
  PROVE  phase = "round"
BY EmptyPool DEF Placed

LEMMA PassedFacts ==
  ASSUME Types, Placed, phase = "round"
  PROVE  Passed \in Nat /\ Passed + Len(pool) <= TotalTrials(plan)
<1>1. bracket \in 1..Len(plan) /\ round \in 1..Len(plan[bracket]) /\ Len(pool) = plan[bracket][round].nConfigs
  BY DEF Types, Placed, Rounds
<1>. DEFINE B == BracketTrials(plan)
            R == RoundTrials(plan[bracket])
            last == Len(plan[bracket])
<1>2. /\ B[bracket - 1] \in Nat /\ B[bracket] = B[bracket - 1] + R[last] /\ B[bracket] <= TotalTrials(plan)
      /\ B[bracket] \in Nat
  <2>1. bracket - 1 \in 0..Len(plan) /\ bracket \in 0..Len(plan)
    BY <1>1
  <2>. QED BY <1>1, <2>1, BracketSums DEF Types
<1>3. /\ R[round - 1] \in Nat /\ R[round] = R[round - 1] + Len(pool) /\ R[round] <= R[last]
      /\ R[round] \in Nat /\ R[last] \in Nat
  <2>1. round - 1 \in 0..last /\ round \in 0..last /\ last \in 0..last
    BY <1>1, RoundSums DEF Types
  <2>. QED BY <1>1, <2>1, RoundSums DEF Types
<1>4. Passed = B[bracket - 1] + R[round - 1]
  BY DEF Passed, Rounds
<1>5. TotalTrials(plan) \in Nat
  <2>1. Len(plan) \in 0..Len(plan)
    BY BracketSums DEF Types
  <2>. QED BY <2>1, BracketSums DEF Types, TotalTrials
<1>6. Len(pool) \in Nat
  BY PoolFacts DEF Types
<1>7. bracket \in Nat /\ round \in Nat
  BY DEF Types
<1>. HIDE DEF B, R, last
<1>8. R[round - 1] + Len(pool) <= R[last]
  BY <1>3
<1>9. B[bracket - 1] + (R[round - 1] + Len(pool)) <= TotalTrials(plan)
  BY <1>2, <1>3, <1>5, <1>6, <1>8
<1>. QED BY <1>2, <1>3, <1>4, <1>5, <1>6, <1>9

LEMMA PassedStill ==
  ASSUME UNCHANGED <<plan, bracket, round, phase>>
  PROVE  Passed' = Passed /\ TotalTrials(plan)' = TotalTrials(plan)
BY DEF Passed, Rounds

LEMMA TakeNumbered ==
  ASSUME Types, Placed, Numbered, NEW i \in 1..Len(pool), Take(i)
  PROVE  Numbered'
<1>1. /\ phase = "round" /\ pool[i].state = "waiting" /\ trialNumber' = trialNumber + 1
      /\ \A j \in 1..(i - 1) : pool[j].state # "waiting"
      /\ UNCHANGED <<history, late, stopped, plan, bracket, round, phase>>
  BY DEF Take, planVars, placeVars
<1>2. Marked(i, IF stopped THEN "skipped" ELSE "reserving", trialNumber, pool[i].value)
  BY Marks DEF Types
<1>3. PICK a, b, w \in 0..Len(pool) : Taken(a, b, w)
  BY DEF Numbered
<1>4. /\ Len(pool) \in Nat /\ trialNumber \in Nat /\ Cardinality(history) \in Nat
      /\ Passed \in Nat /\ Passed + Len(pool) <= TotalTrials(plan) /\ stopped \in BOOLEAN
  BY PoolFacts, PassedFacts, <1>1 DEF Types, Numbered
<1>5. i = w + 1
  <2>1. w < i
    BY <1>1, <1>3 DEF Taken
  <2>2. ASSUME w + 1 < i PROVE FALSE
    <3>1. w + 1 \in 1..(i - 1) /\ w + 1 \in 1..Len(pool) /\ w < w + 1
      BY <1>4, <2>2
    <3>2. pool[w + 1].state = "waiting"
      BY <1>3, <3>1 DEF Taken
    <3>. QED BY <1>1, <3>1, <3>2
  <2>. QED BY <2>1, <2>2
<1>6. trialNumber = Passed + w /\ trialNumber' <= TotalTrials(plan)
  <2>1. trialNumber = Passed + w
    BY <1>1, <1>3 DEF Taken
  <2>2. TotalTrials(plan) \in Nat
    <3>1. Len(plan) \in 0..Len(plan)
      BY BracketSums DEF Types
    <3>. QED BY <3>1, BracketSums DEF Types, TotalTrials
  <2>. QED BY <1>1, <1>4, <1>5, <2>1, <2>2
<1>7. /\ Passed' = Passed /\ TotalTrials(plan)' = TotalTrials(plan)
  BY <1>1, PassedStill
<1>8. a <= b /\ b <= w
  BY <1>3 DEF Taken
<1>9. \A j \in 1..Len(pool) :
        /\ j # i => pool'[j] = pool[j]
        /\ j = i => /\ pool'[j].number = trialNumber
                    /\ pool'[j].state = IF stopped THEN "skipped" ELSE "reserving"
  BY <1>2 DEF Marked
<1>10. \A j \in 1..Len(pool) :
         /\ pool[j].state = "waiting" <=> w < j
         /\ pool[j].state = "reserving" <=> a < j /\ j <= b
         /\ a < j /\ j <= b => pool[j].number = Cardinality(history) + (j - a - 1)
  BY <1>3 DEF Taken
<1>11. CASE stopped
  <2>1. Taken(a, b, w + 1)'
    <3>1. \A j \in 1..Len(pool) :
            /\ pool'[j].state = "waiting" <=> w + 1 < j
            /\ pool'[j].state = "reserving" <=> a < j /\ j <= b
            /\ a < j /\ j <= b => pool'[j].number = Cardinality(history) + (j - a - 1)
      <4>1. ASSUME NEW j \in 1..Len(pool), j # i
            PROVE  /\ pool'[j].state = "waiting" <=> w + 1 < j
                   /\ pool'[j].state = "reserving" <=> a < j /\ j <= b
                   /\ a < j /\ j <= b => pool'[j].number = Cardinality(history) + (j - a - 1)
        <5>1. w < j <=> w + 1 < j
          BY <1>5, <4>1
        <5>2. pool'[j] = pool[j]
          BY <1>9, <4>1
        <5>. QED BY <1>10, <4>1, <5>1, <5>2
      <4>2. pool'[i].state = "skipped" /\ ~(i <= b) /\ ~(w + 1 < i)
        BY <1>5, <1>8, <1>9, <1>11
      <4>. QED BY <4>1, <4>2
    <3>2. /\ phase' # "failed" => trialNumber' = Passed' + (w + 1)
          /\ Cardinality(history') + (b - a) <= trialNumber'
      <4>1. Cardinality(history) + (b - a) <= trialNumber
        BY <1>3 DEF Taken
      <4>. QED BY <1>1, <1>4, <1>6, <1>7, <1>8, <4>1
    <3>3. late' + (b - a) <= Concurrency /\ stopped'
      BY <1>1, <1>3, <1>11 DEF Taken
    <3>4. a <= b /\ b <= w + 1
      BY <1>8
    <3>5. IF stopped' THEN late' + (b - a) <= Concurrency ELSE late' = 0
      BY <3>3
    <3>6. phase' # "failed" /\ ~stopped' => b = w + 1 /\ Cardinality(history') + (b - a) = trialNumber'
      BY <3>3
    <3>7. Len(pool') = Len(pool) /\ Cardinality(history') = Cardinality(history)
      BY <1>1, <1>2 DEF Marked
    <3>. QED BY <3>1, <3>2, <3>4, <3>5, <3>6, <3>7 DEF Taken
  <2>2. a \in 0..Len(pool') /\ b \in 0..Len(pool') /\ w + 1 \in 0..Len(pool')
    BY <1>2, <1>4, <1>5 DEF Marked
  <2>3. \E x, y, z \in 0..Len(pool') : Taken(x, y, z)'
    BY <2>1, <2>2
  <2>. QED BY <1>1, <1>6, <1>7, <2>3 DEF Numbered
<1>12. CASE ~stopped
  <2>1. b = w /\ Cardinality(history) + (b - a) = trialNumber /\ late = 0
    BY <1>1, <1>3, <1>12 DEF Taken
  <2>2. Taken(a, b + 1, w + 1)'
    <3>1. \A j \in 1..Len(pool) :
            /\ pool'[j].state = "waiting" <=> w + 1 < j
            /\ pool'[j].state = "reserving" <=> a < j /\ j <= b + 1
            /\ a < j /\ j <= b + 1 => pool'[j].number = Cardinality(history) + (j - a - 1)
      <4>1. ASSUME NEW j \in 1..Len(pool), j # i
            PROVE  /\ pool'[j].state = "waiting" <=> w + 1 < j
                   /\ pool'[j].state = "reserving" <=> a < j /\ j <= b + 1
                   /\ a < j /\ j <= b + 1 => pool'[j].number = Cardinality(history) + (j - a - 1)
        <5>1. (w < j <=> w + 1 < j) /\ (j <= b <=> j <= b + 1)
          BY <1>5, <2>1, <4>1
        <5>2. pool'[j] = pool[j]
          BY <1>9, <4>1
        <5>. QED BY <1>10, <4>1, <5>1, <5>2
      <4>2. pool'[i].state = "reserving" /\ a < i /\ i <= b + 1 /\ ~(w + 1 < i)
        BY <1>5, <1>8, <1>9, <1>12, <2>1
      <4>3. pool'[i].number = Cardinality(history) + (i - a - 1)
        BY <1>4, <1>5, <1>8, <1>9, <2>1
      <4>. QED BY <4>1, <4>2, <4>3
    <3>2. /\ trialNumber' = Passed' + (w + 1)
          /\ Cardinality(history') + ((b + 1) - a) = trialNumber'
          /\ Cardinality(history') + ((b + 1) - a) <= trialNumber'
      BY <1>1, <1>4, <1>6, <1>7, <1>8, <2>1
    <3>3. late' = 0 /\ ~stopped'
      BY <1>1, <1>12, <2>1
    <3>4. a <= b + 1 /\ b + 1 <= w + 1 /\ b + 1 = w + 1
      BY <1>8, <2>1
    <3>5. IF stopped' THEN late' + ((b + 1) - a) <= Concurrency ELSE late' = 0
      BY <3>3
    <3>6. Len(pool') = Len(pool) /\ Cardinality(history') = Cardinality(history)
      BY <1>1, <1>2 DEF Marked
    <3>. QED BY <3>1, <3>2, <3>4, <3>5, <3>6 DEF Taken
  <2>3. a \in 0..Len(pool') /\ b + 1 \in 0..Len(pool') /\ w + 1 \in 0..Len(pool')
    BY <1>2, <1>4, <1>5, <2>1 DEF Marked
  <2>4. \E x, y, z \in 0..Len(pool') : Taken(x, y, z)'
    BY <2>2, <2>3
  <2>. QED BY <1>1, <1>6, <1>7, <2>4 DEF Numbered
<1>. QED BY <1>11, <1>12

LEMMA ReserveNumbered ==
  ASSUME Types, Placed, Numbered, NEW i \in 1..Len(pool), Reserve(i)
  PROVE  Numbered'
<1>1. /\ pool[i].state = "reserving"
      /\ \A j \in 1..(i - 1) : pool[j].state # "reserving"
      /\ history' = history \cup {pool[i].number}
      /\ late' = IF stopped THEN late + 1 ELSE late
      /\ UNCHANGED <<trialNumber, stopped, plan, bracket, round, phase>>
  BY DEF Reserve, planVars, placeVars
<1>2. Marked(i, "running", pool[i].number, pool[i].value)
  BY Marks DEF Types
<1>3. PICK a, b, w \in 0..Len(pool) : Taken(a, b, w)
  BY DEF Numbered
<1>4. /\ Len(pool) \in Nat /\ trialNumber \in Nat /\ late \in Nat
      /\ phase = "round" /\ stopped \in BOOLEAN /\ Concurrency \in Nat
  BY PoolFacts, TrialOfRound, BracketsAssumption DEF Types
<1>. DEFINE H == Cardinality(history)
<1>5. H \in Nat /\ history = 0..(H - 1) /\ trialNumber <= TotalTrials(plan)
  BY DEF Numbered
<1>6. a <= b /\ b <= w
  BY <1>3 DEF Taken
<1>7. \A j \in 1..Len(pool) :
        /\ pool[j].state = "waiting" <=> w < j
        /\ pool[j].state = "reserving" <=> a < j /\ j <= b
        /\ a < j /\ j <= b => pool[j].number = H + (j - a - 1)
  BY <1>3 DEF Taken
<1>8. i = a + 1 /\ a < b
  <2>1. a < i /\ i <= b
    BY <1>1, <1>7
  <2>2. ASSUME a + 1 < i PROVE FALSE
    <3>1. a + 1 \in 1..(i - 1) /\ a + 1 \in 1..Len(pool) /\ a < a + 1 /\ a + 1 <= b
      BY <1>4, <2>1, <2>2
    <3>2. pool[a + 1].state = "reserving"
      BY <1>7, <3>1
    <3>. QED BY <1>1, <3>1, <3>2
  <2>. QED BY <1>4, <2>1, <2>2
<1>9. pool[i].number = H
  BY <1>5, <1>7, <1>8
<1>10. Cardinality(history') = H + 1 /\ history' = 0..((H + 1) - 1)
  <2>1. history' = 0..H
    BY <1>1, <1>5, <1>9
  <2>. HIDE DEF H
  <2>2. Cardinality(0..H) = H + 1
    BY <1>5, FS_Interval
  <2>3. (H + 1) - 1 = H
    BY <1>5
  <2>. QED BY <2>1, <2>2, <2>3
<1>11. Passed' = Passed /\ TotalTrials(plan)' = TotalTrials(plan)
  BY <1>1, PassedStill
<1>12. Taken(a + 1, b, w)'
  <2>1. \A j \in 1..Len(pool) :
          /\ pool'[j].state = "waiting" <=> w < j
          /\ pool'[j].state = "reserving" <=> a + 1 < j /\ j <= b
          /\ a + 1 < j /\ j <= b => pool'[j].number = (H + 1) + (j - (a + 1) - 1)
    <3>1. ASSUME NEW j \in 1..Len(pool), j # i
          PROVE  /\ pool'[j].state = "waiting" <=> w < j
                 /\ pool'[j].state = "reserving" <=> a + 1 < j /\ j <= b
                 /\ a + 1 < j /\ j <= b => pool'[j].number = (H + 1) + (j - (a + 1) - 1)
      <4>1. pool'[j] = pool[j]
        BY <1>2, <3>1 DEF Marked
      <4>2. a < j <=> a + 1 < j
        BY <1>8, <3>1
      <4>3. H + (j - a - 1) = (H + 1) + (j - (a + 1) - 1)
        BY <1>5
      <4>. QED BY <1>7, <3>1, <4>1, <4>2, <4>3
    <3>2. pool'[i].state = "running" /\ ~(w < i) /\ ~(a + 1 < i)
      BY <1>2, <1>6, <1>8 DEF Marked
    <3>. QED BY <3>1, <3>2
  <2>2. /\ trialNumber' = Passed' + w
        /\ (H + 1) + (b - (a + 1)) = H + (b - a)
        /\ H + (b - a) <= trialNumber'
        /\ ~stopped' => b = w /\ H + (b - a) = trialNumber'
    BY <1>1, <1>3, <1>4, <1>5, <1>11 DEF Taken
  <2>3. IF stopped' THEN late' + (b - (a + 1)) <= Concurrency ELSE late' = 0
    <3>1. CASE stopped
      <4>1. late + (b - a) <= Concurrency /\ late' = late + 1 /\ stopped'
        BY <1>1, <1>3, <3>1 DEF Taken
      <4>. QED BY <1>4, <4>1
    <3>2. CASE ~stopped
      BY <1>1, <1>3, <3>2 DEF Taken
    <3>. QED BY <3>1, <3>2
  <2>4. a + 1 <= b /\ b <= w
    BY <1>6, <1>8
  <2>5. Len(pool') = Len(pool) /\ Cardinality(history') = H + 1
    BY <1>2, <1>10 DEF Marked
  <2>6. Cardinality(history') + (b - (a + 1)) = H + (b - a)
    BY <1>10, <2>2
  <2>. HIDE DEF H
  <2>. QED BY <2>1, <2>2, <2>3, <2>4, <2>5, <2>6 DEF Taken
<1>13. a + 1 \in 0..Len(pool') /\ b \in 0..Len(pool') /\ w \in 0..Len(pool')
  BY <1>2, <1>4, <1>8 DEF Marked
<1>14. \E x, y, z \in 0..Len(pool') : Taken(x, y, z)'
  BY <1>12, <1>13
<1>15. Cardinality(history') \in Nat /\ history' = 0..(Cardinality(history') - 1)
  BY <1>5, <1>10
<1>. QED BY <1>1, <1>5, <1>11, <1>14, <1>15 DEF Numbered

(* A running trial ends.                                                    *)
LEMMA EndNumbered ==
  ASSUME Types, Placed, Numbered, NEW i \in 1..Len(pool), pool[i].state = "running",
         NEW s \in {"completed", "missed"}, NEW x, Marked(i, s, pool[i].number, x),
         UNCHANGED <<trialNumber, stopped, plan, bracket, round, phase, history, late>>
  PROVE  Numbered'
<1>1. PICK a, b, w \in 0..Len(pool) : Taken(a, b, w)
  BY DEF Numbered
<1>2. Passed' = Passed /\ TotalTrials(plan)' = TotalTrials(plan)
  BY PassedStill
<1>3. \A j \in 1..Len(pool) :
        /\ pool'[j].state = "waiting" <=> w < j
        /\ pool'[j].state = "reserving" <=> a < j /\ j <= b
        /\ a < j /\ j <= b => pool'[j].number = Cardinality(history) + (j - a - 1)
  <2>1. \A j \in 1..Len(pool) :
          /\ pool[j].state = "waiting" <=> w < j
          /\ pool[j].state = "reserving" <=> a < j /\ j <= b
          /\ a < j /\ j <= b => pool[j].number = Cardinality(history) + (j - a - 1)
    BY <1>1 DEF Taken
  <2>2. \A j \in 1..Len(pool) :
          /\ pool'[j].state = "waiting" <=> pool[j].state = "waiting"
          /\ pool'[j].state = "reserving" <=> pool[j].state = "reserving"
          /\ pool'[j].number = pool[j].number
    BY DEF Marked
  <2>. QED BY <2>1, <2>2
<1>4. Taken(a, b, w)'
  BY <1>1, <1>2, <1>3 DEF Taken, Marked
<1>5. a \in 0..Len(pool') /\ b \in 0..Len(pool') /\ w \in 0..Len(pool')
  BY DEF Marked
<1>6. \E p, q, r \in 0..Len(pool') : Taken(p, q, r)'
  BY <1>4, <1>5
<1>. QED BY <1>2, <1>6 DEF Numbered

(* Who is active, and what was completed, after a trial's step.             *)
LEMMA ActiveFacts ==
  ASSUME TrialsOf(pool)
  PROVE  /\ Active = {j \in 1..Len(pool) : pool[j].state \in {"reserving", "running"}}
         /\ IsFiniteSet(Active) /\ Cardinality(Active) \in Nat
<1>1. Len(pool) \in Nat /\ DOMAIN pool = 1..Len(pool)
  BY PoolFacts
<1>2. Active = {j \in 1..Len(pool) : pool[j].state \in {"reserving", "running"}}
  BY <1>1 DEF Active, In
<1>3. IsFiniteSet(1..Len(pool)) /\ Active \subseteq 1..Len(pool)
  BY <1>1, <1>2, FS_Interval
<1>4. IsFiniteSet(Active)
  BY <1>3, FS_Subset
<1>. QED BY <1>2, <1>4, FS_CardinalityType

LEMMA MarkedSets ==
  ASSUME TrialsOf(pool), TrialsOf(pool'), NEW i \in 1..Len(pool), NEW s, NEW n, NEW v,
         Marked(i, s, n, v)
  PROVE  /\ s \in {"reserving", "running"} => Active' = Active \cup {i}
         /\ s \notin {"reserving", "running"} => Active' = Active \ {i}
         /\ pool[i].state # "completed" /\ s = "completed" => Now' = Now \cup {v}
         /\ pool[i].state # "completed" /\ s # "completed" => Now' = Now
<1>1. Len(pool) \in Nat /\ DOMAIN pool = 1..Len(pool)
  BY PoolFacts
<1>2. DOMAIN pool' = 1..Len(pool) /\ Len(pool') = Len(pool)
  BY <1>1 DEF TrialsOf, Marked
<1>3. /\ Active = {j \in 1..Len(pool) : pool[j].state \in {"reserving", "running"}}
      /\ Completed = {j \in 1..Len(pool) : pool[j].state = "completed"}
  BY <1>1 DEF Active, Completed, In
<1>4. /\ Active' = {j \in 1..Len(pool) : pool'[j].state \in {"reserving", "running"}}
      /\ Completed' = {j \in 1..Len(pool) : pool'[j].state = "completed"}
  BY <1>2 DEF Active, Completed, In
<1>5. pool'[i].state = s /\ pool'[i].value = v /\ \A j \in 1..Len(pool) : j # i => pool'[j] = pool[j]
  BY DEF Marked
<1>6. ASSUME s \in {"reserving", "running"} PROVE Active' = Active \cup {i}
  BY <1>3, <1>4, <1>5, <1>6
<1>7. ASSUME s \notin {"reserving", "running"} PROVE Active' = Active \ {i}
  BY <1>3, <1>4, <1>5, <1>7
<1>8. ASSUME pool[i].state # "completed"
      PROVE  (s = "completed" => Now' = Now \cup {v}) /\ (s # "completed" => Now' = Now)
  <2>1. i \notin Completed
    BY <1>3, <1>8
  <2>2. CASE s = "completed"
    <3>1. Completed' = Completed \cup {i}
      BY <1>3, <1>4, <1>5, <2>2
    <3>2. Now' = {pool'[j].value : j \in Completed \cup {i}}
      BY <3>1 DEF Now
    <3>3. \A j \in Completed : pool'[j].value = pool[j].value
      BY <1>3, <1>5, <2>1
    <3>. QED BY <1>5, <2>2, <3>2, <3>3 DEF Now
  <2>3. CASE s # "completed"
    <3>1. Completed' = Completed
      BY <1>3, <1>4, <1>5, <1>8, <2>3
    <3>2. Now' = {pool'[j].value : j \in Completed}
      BY <3>1 DEF Now
    <3>3. \A j \in Completed : pool'[j].value = pool[j].value
      BY <1>3, <1>5, <2>1
    <3>. QED BY <2>3, <3>2, <3>3 DEF Now
  <2>. QED BY <2>2, <2>3
<1>. QED BY <1>6, <1>7, <1>8

LEMMA TrialManned ==
  ASSUME Types, Manned, NEW i \in 1..Len(pool), Trial(i)
  PROVE  Manned'
<1>. DEFINE M == Cardinality(Active)
<1>1. TrialsOf(pool) /\ trialNumber \in Nat
  BY DEF Types
<1>2. IsFiniteSet(Active) /\ M \in Nat /\ M <= Concurrency /\ Concurrency \in Nat
  BY <1>1, ActiveFacts, BracketsAssumption DEF Manned
<1>3. ASSUME Active' \subseteq Active PROVE Manned'
  <2>1. Cardinality(Active') <= M /\ Cardinality(Active') \in Nat
    BY <1>2, <1>3, FS_Subset, FS_CardinalityType
  <2>. QED BY <1>2, <2>1 DEF Manned
<1>4. ASSUME Active' = Active \cup {i}, M < Concurrency PROVE Manned'
  <2>1. Cardinality(Active \cup {i}) <= M + 1 /\ Cardinality(Active \cup {i}) \in Nat
    <3>1. Cardinality(Active \cup {i}) = IF i \in Active THEN M ELSE M + 1
      BY <1>2, FS_AddElement
    <3>. HIDE DEF M
    <3>. QED BY <1>2, <3>1
  <2>2. M + 1 <= Concurrency
    BY <1>2, <1>4
  <2>. HIDE DEF M
  <2>. QED BY <1>2, <1>4, <2>1, <2>2 DEF Manned
<1>5. CASE Take(i)
  <2>1. M < Concurrency
    BY <1>5 DEF Take
  <2>2. TrialsOf(pool') /\ Marked(i, IF stopped THEN "skipped" ELSE "reserving", trialNumber, pool[i].value)
    BY <1>1, <1>5, Marks
  <2>. HIDE DEF M
  <2>3. Active' = Active \cup {i} \/ Active' \subseteq Active
    BY <1>1, <2>2, MarkedSets
  <2>. QED BY <1>3, <1>4, <2>1, <2>3
<1>6. CASE Reserve(i)
  <2>1. TrialsOf(pool') /\ Marked(i, "running", pool[i].number, pool[i].value)
    BY <1>1, <1>6, Marks
  <2>2. i \in Active
    BY <1>1, <1>6, ActiveFacts DEF Reserve
  <2>3. Active' = Active \cup {i}
    BY <1>1, <2>1, MarkedSets
  <2>. QED BY <1>3, <2>2, <2>3
<1>7. CASE Miss(i)
  <2>1. TrialsOf(pool') /\ Marked(i, "missed", pool[i].number, pool[i].value)
    BY <1>1, <1>7, Marks
  <2>2. Active' = Active \ {i}
    BY <1>1, <2>1, MarkedSets
  <2>. QED BY <1>3, <2>2
<1>8. ASSUME NEW x \in Values, Complete(i, x) PROVE Manned'
  <2>1. TrialsOf(pool') /\ Marked(i, "completed", pool[i].number, x)
    BY <1>1, <1>8, Marks
  <2>2. Active' = Active \ {i}
    BY <1>1, <2>1, MarkedSets
  <2>. QED BY <1>3, <2>2
<1>. QED BY <1>5, <1>6, <1>7, <1>8 DEF Trial

LEMMA TrialStanding ==
  ASSUME Types, Placed, Standing, NEW i \in 1..Len(pool), Trial(i)
  PROVE  Standing'
<1>1. TrialsOf(pool) /\ trialNumber \in Nat /\ phase = "round"
  BY TrialOfRound DEF Types
<1>2. UNCHANGED <<phase, bests, announced, bracket>>
  BY TrialLeaves DEF Beside
<1>3. /\ Found(bests) \subseteq seen /\ Now \subseteq seen
      /\ \A x \in seen : x \in Now \/ \E y \in Found(bests) : y <= x
  BY <1>1 DEF Standing
<1>4. Found(bests') = Found(bests) /\ phase' = "round"
  BY <1>1, <1>2
<1>5. ASSUME Now' = Now, seen' = seen PROVE Standing'
  BY <1>3, <1>4, <1>5 DEF Standing
<1>6. CASE Take(i)
  <2>1. TrialsOf(pool') /\ Marked(i, IF stopped THEN "skipped" ELSE "reserving", trialNumber, pool[i].value)
    BY <1>1, <1>6, Marks
  <2>2. pool[i].state # "completed" /\ seen' = seen
    BY <1>6 DEF Take
  <2>3. (IF stopped THEN "skipped" ELSE "reserving") # "completed"
    OBVIOUS
  <2>4. Now' = Now
    BY <1>1, <2>1, <2>2, <2>3, MarkedSets
  <2>. QED BY <1>5, <2>2, <2>4
<1>7. CASE Reserve(i)
  <2>1. TrialsOf(pool') /\ Marked(i, "running", pool[i].number, pool[i].value)
    BY <1>1, <1>7, Marks
  <2>2. pool[i].state # "completed" /\ seen' = seen
    BY <1>7 DEF Reserve
  <2>3. Now' = Now
    BY <1>1, <2>1, <2>2, MarkedSets
  <2>. QED BY <1>5, <2>2, <2>3
<1>8. CASE Miss(i)
  <2>1. TrialsOf(pool') /\ Marked(i, "missed", pool[i].number, pool[i].value)
    BY <1>1, <1>8, Marks
  <2>2. pool[i].state # "completed" /\ seen' = seen
    BY <1>8 DEF Miss
  <2>3. Now' = Now
    BY <1>1, <2>1, <2>2, MarkedSets
  <2>. QED BY <1>5, <2>2, <2>3
<1>9. ASSUME NEW x \in Values, Complete(i, x) PROVE Standing'
  <2>1. TrialsOf(pool') /\ Marked(i, "completed", pool[i].number, x)
    BY <1>1, <1>9, Marks
  <2>2. pool[i].state # "completed" /\ seen' = seen \cup {x}
    BY <1>9 DEF Complete
  <2>3. Now' = Now \cup {x}
    BY <1>1, <2>1, <2>2, MarkedSets
  <2>. QED BY <1>3, <1>4, <2>2, <2>3 DEF Standing
<1>. QED BY <1>6, <1>7, <1>8, <1>9 DEF Trial

(* A trial's step changes no configuration.                                 *)
SameConfigs ==
  /\ Len(pool') = Len(pool)
  /\ \A j \in 1..Len(pool) : pool'[j].config = pool[j].config

LEMMA TrialConfigs ==
  ASSUME Types, NEW i \in 1..Len(pool), Trial(i)
  PROVE  SameConfigs /\ TrialsOf(pool')
<1>1. TrialsOf(pool) /\ trialNumber \in Nat
  BY DEF Types
<1>2. ASSUME NEW s, NEW n, NEW v, Marked(i, s, n, v) PROVE SameConfigs
  BY <1>2 DEF Marked, SameConfigs
<1>3. CASE Take(i)
  BY <1>1, <1>2, <1>3, Marks
<1>4. CASE Reserve(i)
  BY <1>1, <1>2, <1>4, Marks
<1>5. CASE Miss(i)
  BY <1>1, <1>2, <1>5, Marks
<1>6. ASSUME NEW x \in Values, Complete(i, x) PROVE SameConfigs /\ TrialsOf(pool')
  BY <1>1, <1>2, <1>6, Marks
<1>. QED BY <1>3, <1>4, <1>5, <1>6 DEF Trial

LEMMA FinishedFacts ==
  ASSUME TrialsOf(previous)
  PROVE  Cardinality({i \in DOMAIN previous : previous[i].state = "completed"}) \in Nat
<1>1. Len(previous) \in Nat /\ DOMAIN previous = 1..Len(previous)
  BY DEF TrialsOf
<1>. DEFINE F == {i \in DOMAIN previous : previous[i].state = "completed"}
<1>2. IsFiniteSet(1..Len(previous)) /\ F \subseteq 1..Len(previous)
  BY <1>1, FS_Interval
<1>3. IsFiniteSet(F)
  <2>. HIDE DEF F
  <2>. QED BY <1>2, FS_Subset
<1>4. Cardinality(F) \in Nat
  <2>. HIDE DEF F
  <2>. QED BY <1>3, FS_CardinalityType
<1>. QED BY <1>4

LEMMA PromotesStill ==
  ASSUME Types, Placed, PromotesBest, SameConfigs, UNCHANGED <<plan, bracket, round, phase, previous>>
  PROVE  PromotesBest'
<1>. SUFFICES ASSUME phase = "round", round > 1 PROVE PromotesBest'
  BY DEF PromotesBest
<1>. DEFINE size == Rounds[round].nConfigs
            finished == {i \in DOMAIN previous : previous[i].state = "completed"}
            kept == Min({size, Cardinality(finished)})
<1>1. bracket \in 1..Len(plan) /\ round \in 1..Len(plan[bracket]) /\ Planned(plan)
  BY DEF Types, Placed, Rounds
<1>2. size \in Nat
  BY <1>1, RoundSums DEF Rounds
<1>3. Cardinality(finished) \in Nat
  BY FinishedFacts DEF Types
<1>4. kept \in Nat /\ kept <= size
  <2>. HIDE DEF size, finished
  <2>. QED BY <1>2, <1>3, MinOfTwo
<1>5. size' = size /\ finished' = finished
  BY DEF Rounds
<1>6. kept' = kept
  BY <1>5
<1>7. /\ Len(pool) = size
      /\ \E best \in kSubset(kept, finished) :
           /\ {pool[i].config : i \in 1..kept} = {previous[i].config : i \in best}
           /\ \A i \in best, j \in finished \ best : previous[i].value <= previous[j].value
      /\ \A i \in (kept + 1)..size :
           \/ pool[i].config = Exploration
           \/ \A j \in DOMAIN previous : previous[j].config # pool[i].config
  BY DEF PromotesBest
<1>. HIDE DEF size, finished, kept
<1>8. \A i \in 1..size : pool'[i].config = pool[i].config
  BY <1>7 DEF SameConfigs
<1>9. {pool'[i].config : i \in 1..kept} = {pool[i].config : i \in 1..kept}
  <2>1. \A i \in 1..kept : i \in 1..size
    BY <1>2, <1>4
  <2>. QED BY <1>8, <2>1
<1>10. \A i \in (kept + 1)..size :
         \/ pool'[i].config = Exploration
         \/ \A j \in DOMAIN previous' : previous'[j].config # pool'[i].config
  <2>1. \A i \in (kept + 1)..size : i \in 1..size
    BY <1>2, <1>4
  <2>. QED BY <1>7, <1>8, <2>1
<1>11. \E best \in kSubset(kept', finished') :
         /\ {pool'[i].config : i \in 1..kept'} = {previous'[i].config : i \in best}
         /\ \A i \in best, j \in finished' \ best : previous'[i].value <= previous'[j].value
  <2>1. PICK best \in kSubset(kept, finished) :
          /\ {pool[i].config : i \in 1..kept} = {previous[i].config : i \in best}
          /\ \A i \in best, j \in finished \ best : previous[i].value <= previous[j].value
    BY <1>7
  <2>2. best \in kSubset(kept', finished') /\ previous' = previous
    BY <1>5, <1>6
  <2>3. {pool'[i].config : i \in 1..kept'} = {previous'[i].config : i \in best}
    BY <1>6, <1>9, <2>1, <2>2
  <2>4. \A i \in best, j \in finished' \ best : previous'[i].value <= previous'[j].value
    BY <1>5, <2>1, <2>2
  <2>. QED BY <2>2, <2>3, <2>4
<1>12. Len(pool') = size'
  BY <1>5, <1>7 DEF SameConfigs
<1>13. \A i \in (kept' + 1)..size' :
         \/ pool'[i].config = Exploration
         \/ \A j \in DOMAIN previous' : previous'[j].config # pool'[i].config
  BY <1>5, <1>6, <1>10
<1>. USE DEF size, finished, kept
<1>. QED BY <1>11, <1>12, <1>13 DEF PromotesBest

LEMMA TrialKeeps ==
  ASSUME IInv, NEW i \in 1..Len(pool), Trial(i)
  PROVE  IInv'
<1>. USE DEF IInv
<1>1. SameConfigs /\ TrialsOf(pool') /\ Beside
  BY TrialConfigs, TrialLeaves
<1>2. TrialsOf(pool) /\ trialNumber \in Nat /\ late \in Nat /\ phase = "round" /\ seen \subseteq Nat
  BY TrialOfRound DEF Types
<1>3. trialNumber' \in Nat /\ late' \in Nat /\ seen' \subseteq Nat
  BY <1>2, BracketsAssumption DEF Trial, Take, Reserve, Complete, Miss
<1>4. Types'
  BY <1>1, <1>3 DEF Types, Beside
<1>5. Placed'
  BY <1>1, <1>2 DEF Placed, Beside, SameConfigs, Rounds
<1>6. Numbered'
  <2>1. CASE Take(i)
    BY <2>1, TakeNumbered
  <2>2. CASE Reserve(i)
    BY <2>2, ReserveNumbered
  <2>3. CASE Miss(i)
    <3>1. Marked(i, "missed", pool[i].number, pool[i].value) /\ pool[i].state = "running"
      BY <1>2, <2>3, Marks DEF Miss
    <3>2. UNCHANGED <<trialNumber, stopped, plan, bracket, round, phase, history, late>>
      BY <2>3 DEF Miss, planVars, placeVars
    <3>3. "missed" \in {"completed", "missed"}
      OBVIOUS
    <3>. QED BY <3>1, <3>2, <3>3, EndNumbered
  <2>4. ASSUME NEW x \in Values, Complete(i, x) PROVE Numbered'
    <3>1. Marked(i, "completed", pool[i].number, x) /\ pool[i].state = "running"
      BY <1>2, <2>4, Marks DEF Complete
    <3>2. UNCHANGED <<trialNumber, stopped, plan, bracket, round, phase, history, late>>
      BY <2>4 DEF Complete, planVars, placeVars
    <3>3. "completed" \in {"completed", "missed"}
      OBVIOUS
    <3>. QED BY <3>1, <3>2, <3>3, EndNumbered
  <2>. QED BY <2>1, <2>2, <2>3, <2>4 DEF Trial
<1>7. Manned' /\ Standing'
  BY TrialManned, TrialStanding
<1>8. Drawn'
  BY <1>1 DEF Drawn, SameConfigs, Beside
<1>9. PromotesBest'
  BY <1>1, PromotesStill DEF Beside
<1>. QED BY <1>4, <1>5, <1>6, <1>7, <1>8, <1>9

-------------------------------------------------------------------------------
(* Rounds: what is suggested, counted and kept between them                 *)

(* What Suggest chooses is the exploration or ahead of the stream.          *)
LEMMA SuggestFacts ==
  ASSUME drawn \in Nat, NEW n \in Nat, NEW s,
         \/ s = [i \in 1..n |-> Exploration] /\ drawn' = drawn
         \/ s = [i \in 1..n |-> drawn + i] /\ drawn' = drawn + n
  PROVE  /\ drawn' \in Nat /\ drawn <= drawn' /\ s \in Seq(Nat) /\ Len(s) = n
         /\ \A i \in 1..n : s[i] <= drawn' /\ (s[i] = Exploration \/ drawn < s[i])
<1>1. s \in [1..n -> Nat]
  BY DEF Exploration
<1>2. s \in Seq(Nat) /\ Len(s) = n
  BY <1>1
<1>. QED BY <1>2 DEF Exploration

(* Nobody is active or completed while all wait.                            *)
LEMMA AllWait ==
  ASSUME TrialsOf(pool'), \A j \in 1..Len(pool') : pool'[j].state = "waiting"
  PROVE  Manned' /\ Now' = {}
<1>1. DOMAIN pool' = 1..Len(pool')
  BY DEF TrialsOf
<1>2. Active' = {} /\ Completed' = {}
  BY <1>1 DEF Active, Completed, In
<1>3. Cardinality(Active') = 0
  BY <1>2, FS_EmptySet
<1>4. Manned'
  BY <1>3, BracketsAssumption DEF Manned
<1>5. Now' = {}
  BY <1>2 DEF Now
<1>. QED BY <1>4, <1>5

(* The numbers while no trial of the pool is reserved or waits to be.       *)
Counted ==
  /\ Cardinality(history) <= trialNumber
  /\ ~stopped => Cardinality(history) = trialNumber
  /\ IF stopped THEN late <= Concurrency ELSE late = 0

LEMMA FreshNumbered ==
  ASSUME Numbered, trialNumber \in Nat, late \in Nat, Counted \/ phase' = "failed",
         Cardinality(history) <= trialNumber, IF stopped THEN late <= Concurrency ELSE late = 0,
         UNCHANGED <<plan, history, late, stopped, trialNumber>>,
         Len(pool') \in Nat, \A j \in 1..Len(pool') : pool'[j].state = "waiting",
         phase' # "failed" => trialNumber = Passed'
  PROVE  Numbered'
<1>1. Cardinality(history) \in Nat /\ history = 0..(Cardinality(history) - 1) /\ trialNumber <= TotalTrials(plan)
  BY DEF Numbered
<1>2. Taken(0, 0, 0)'
  <2>1. \A j \in 1..Len(pool') :
          /\ pool'[j].state = "waiting" <=> 0 < j
          /\ pool'[j].state = "reserving" <=> 0 < j /\ j <= 0
          /\ 0 < j /\ j <= 0 => pool'[j].number = Cardinality(history') + (j - 0 - 1)
    BY <1>1
  <2>2. phase' # "failed" => trialNumber' = Passed' + 0
    <3>1. ASSUME phase' # "failed" PROVE trialNumber' = Passed' + 0
      BY <3>1
    <3>. QED BY <3>1
  <2>3. Cardinality(history') + (0 - 0) = Cardinality(history) /\ trialNumber' = trialNumber
    BY <1>1
  <2>4. phase' # "failed" /\ ~stopped' => 0 = 0 /\ Cardinality(history') + (0 - 0) = trialNumber'
    BY <2>3 DEF Counted
  <2>5. IF stopped' THEN late' + (0 - 0) <= Concurrency ELSE late' = 0
    <3>1. late' = late /\ stopped' = stopped
      OBVIOUS
    <3>2. CASE stopped
      <4>1. late <= Concurrency /\ late + (0 - 0) <= Concurrency
        BY <3>2
      <4>. QED BY <3>1, <3>2, <4>1
    <3>3. CASE ~stopped
      BY <3>1, <3>3
    <3>. QED BY <3>2, <3>3
  <2>6. Cardinality(history') + (0 - 0) <= trialNumber'
    BY <2>3
  <2>. QED BY <2>1, <2>2, <2>4, <2>5, <2>6 DEF Taken
<1>3. 0 \in 0..Len(pool')
  OBVIOUS
<1>4. \E a, b, w \in 0..Len(pool') : Taken(a, b, w)'
  BY <1>2, <1>3
<1>5. TotalTrials(plan)' = TotalTrials(plan)
  OBVIOUS
<1>. QED BY <1>1, <1>4, <1>5 DEF Numbered

(* A pool none of whose trials waits or is being reserved has had as many    *)
(* numbers as trials; an empty one has, too.                                *)
LEMMA RoundOver ==
  ASSUME Types, Placed, Numbered, phase # "failed",
         \A j \in 1..Len(pool) : pool[j].state \notin {"waiting", "reserving"}
  PROVE  Counted /\ trialNumber = Passed + Len(pool)
<1>1. PICK a, b, w \in 0..Len(pool) : Taken(a, b, w)
  BY DEF Numbered
<1>2. Len(pool) \in Nat /\ Cardinality(history) \in Nat /\ late \in Nat /\ Concurrency \in Nat
  BY PoolFacts, BracketsAssumption DEF Types, Numbered
<1>3. a <= b /\ b <= w
  BY <1>1 DEF Taken
<1>4. w = Len(pool)
  <2>1. ASSUME w < Len(pool) PROVE FALSE
    <3>1. Len(pool) \in 1..Len(pool)
      BY <1>2, <2>1
    <3>2. pool[Len(pool)].state = "waiting"
      BY <1>1, <2>1, <3>1 DEF Taken
    <3>. QED BY <3>1, <3>2
  <2>. QED BY <1>2, <2>1
<1>5. a = b
  <2>1. ASSUME a < b PROVE FALSE
    <3>1. b \in 1..Len(pool) /\ b <= b
      BY <1>2, <2>1
    <3>2. pool[b].state = "reserving"
      BY <1>1, <2>1, <3>1 DEF Taken
    <3>. QED BY <3>1, <3>2
  <2>. QED BY <1>2, <1>3, <2>1
<1>6. trialNumber = Passed + w /\ Cardinality(history) + (b - a) <= trialNumber
  BY <1>1 DEF Taken
<1>7. Cardinality(history) + (b - a) = Cardinality(history) /\ late + (b - a) = late
  BY <1>2, <1>5
<1>8. ~stopped => Cardinality(history) = trialNumber
  BY <1>1, <1>7 DEF Taken
<1>9. IF stopped THEN late <= Concurrency ELSE late = 0
  BY <1>1, <1>7 DEF Taken
<1>. QED BY <1>4, <1>6, <1>7, <1>8, <1>9 DEF Counted

(* The best of some values is that of others they stand for.                *)
LEMMA BestOf ==
  ASSUME NEW S \in SUBSET Nat, NEW D \in SUBSET S, \A x \in S : \E y \in D : y <= x
  PROVE  Best(D) = Best(S)
<1>1. CASE S = {}
  BY <1>1 DEF Best
<1>2. CASE S # {}
  <2>1. D # {} /\ D \in SUBSET Nat
    BY <1>2
  <2>2. /\ Min(S) \in S /\ \A m \in S : Min(S) <= m
        /\ Min(D) \in D /\ \A m \in D : Min(D) <= m
    BY <1>2, <2>1, MinIsLeast
  <2>3. PICK y \in D : y <= Min(S)
    BY <2>2
  <2>4. Min(D) \in Nat /\ Min(S) \in Nat /\ y \in Nat /\ Min(D) <= y /\ Min(S) <= Min(D)
    BY <2>2, <2>3
  <2>5. Min(D) = Min(S)
    BY <2>3, <2>4
  <2>. QED BY <1>2, <2>1, <2>5 DEF Best
<1>. QED BY <1>1, <1>2

LEMMA RangeAppend ==
  ASSUME NEW S, NEW s \in Seq(S), NEW e \in S
  PROVE  Range(Append(s, e)) = Range(s) \cup {e}
<1>. DEFINE t == Append(s, e)
<1>1. Len(s) \in Nat /\ DOMAIN s = 1..Len(s) /\ DOMAIN t = 1..(Len(s) + 1)
  OBVIOUS
<1>2. t[Len(s) + 1] = e /\ \A i \in 1..Len(s) : t[i] = s[i]
  OBVIOUS
<1>. HIDE DEF t
<1>3. Range(s) = {s[i] : i \in 1..Len(s)} /\ Range(t) = {t[i] : i \in 1..(Len(s) + 1)}
  BY <1>1 DEF Range
<1>4. 1..(Len(s) + 1) = 1..Len(s) \cup {Len(s) + 1}
  BY <1>1
<1>5. Range(t) = {s[i] : i \in 1..Len(s)} \cup {e}
  BY <1>2, <1>3, <1>4
<1>. QED BY <1>3, <1>5 DEF t

(* The bests of the rounds, this one's among them, stand for what was seen. *)
LEMMA KeptBests ==
  ASSUME Types, Standing, phase = "round", Summarised
  PROVE  /\ bests' \in Seq(Nat \cup {None})
         /\ Found(bests') \subseteq seen
         /\ \A x \in seen : \E y \in Found(bests') : y <= x
<1>1. /\ Found(bests) \subseteq seen /\ Now \subseteq seen
      /\ \A x \in seen : x \in Now \/ \E y \in Found(bests) : y <= x
  BY DEF Standing
<1>2. seen \subseteq Nat /\ bests \in Seq(Nat \cup {None}) /\ None \notin Nat
  BY BracketsAssumption DEF Types
<1>3. Now \in SUBSET Nat
  BY <1>1, <1>2
<1>4. Best(Now) \in Nat \cup {None} /\ (Best(Now) # None => Best(Now) \in Now)
  BY <1>2, <1>3, MinIsLeast DEF Best
<1>5. \A x \in Now : Best(Now) \in Now /\ Best(Now) <= x
  BY <1>3, MinIsLeast DEF Best
<1>6. bests' = Append(bests, Best(Now))
  BY DEF Summarised, Now
<1>7. bests' \in Seq(Nat \cup {None}) /\ Range(bests') = Range(bests) \cup {Best(Now)}
  <2>. DEFINE b == Best(Now)
  <2>. HIDE DEF b
  <2>1. bests' = Append(bests, b) /\ b \in Nat \cup {None}
    BY <1>4, <1>6 DEF b
  <2>2. bests' \in Seq(Nat \cup {None}) /\ Range(bests') = Range(bests) \cup {b}
    BY <1>2, <2>1, RangeAppend
  <2>. QED BY <2>2 DEF b
<1>8. Found(bests') \subseteq seen
  BY <1>1, <1>4, <1>7 DEF Found
<1>9. ASSUME NEW x \in seen PROVE \E y \in Found(bests') : y <= x
  <2>1. CASE x \in Now
    <3>1. Best(Now) \in Now /\ Best(Now) <= x
      BY <1>5, <2>1
    <3>2. Best(Now) # None
      BY <1>2, <1>3, <3>1
    <3>3. Best(Now) \in Found(bests')
      BY <1>7, <3>2 DEF Found
    <3>. QED BY <3>1, <3>3
  <2>2. ASSUME NEW y \in Found(bests), y <= x PROVE \E z \in Found(bests') : z <= x
    <3>1. y \in Found(bests')
      BY <1>7, <2>2 DEF Found
    <3>. QED BY <2>2, <3>1
  <2>. QED BY <1>1, <2>1, <2>2
<1>. QED BY <1>7, <1>8, <1>9

-------------------------------------------------------------------------------
(* Steps of the schedule                                                    *)

LEMMA StartBracketKeeps ==
  ASSUME IInv, StartBracket
  PROVE  IInv'
<1>. DEFINE n == Rounds[1].nConfigs
<1>1. /\ Types /\ Placed /\ Numbered /\ Manned /\ Standing
  BY DEF IInv
<1>2. /\ phase = "bracket" /\ bracket \in 1..Len(plan) /\ pool = <<>> /\ Len(pool) = 0
      /\ phase' = "round" /\ round' = 1 /\ seen' = {} /\ bests' = <<>> /\ previous' = <<>>
      /\ UNCHANGED <<plan, mode, bracket, completedCount, announced, trialNumber, stopped, history, late>>
  BY <1>1, EmptyPool DEF StartBracket, Types, Placed, planVars
<1>3. Len(plan[bracket]) \in Nat \ {0} /\ n \in Nat /\ drawn \in Nat /\ 1 \in 1..Len(plan[bracket])
  <2>1. Len(plan[bracket]) \in Nat \ {0} /\ \A r \in 1..Len(plan[bracket]) : plan[bracket][r].nConfigs \in Nat
    BY <1>1, <1>2, RoundSums DEF Types
  <2>. QED BY <1>1, <2>1 DEF Types, Rounds
<1>4. PICK configs : /\ Suggest(n, completedCount, configs)
                     /\ pool' = Pooled(configs)
  BY DEF StartBracket
<1>5. /\ drawn' \in Nat /\ drawn <= drawn' /\ configs \in Seq(Nat) /\ Len(configs) = n
      /\ \A i \in 1..n : configs[i] <= drawn'
  <2>1. \/ configs = [i \in 1..n |-> Exploration] /\ drawn' = drawn
        \/ configs = [i \in 1..n |-> drawn + i] /\ drawn' = drawn + n
    BY <1>4 DEF Suggest
  <2>. HIDE DEF n
  <2>. QED BY <1>3, <2>1, SuggestFacts
<1>6. /\ TrialsOf(pool') /\ Len(pool') = n
      /\ \A i \in 1..n : pool'[i].config = configs[i] /\ pool'[i].state = "waiting"
  <2>. HIDE DEF n
  <2>. QED BY <1>4, <1>5, PooledFacts
<1>7. Types'
  <2>1. bests' \in Seq(Nat \cup {None}) /\ seen' \subseteq Nat
    BY <1>2
  <2>2. TrialsOf(previous')
    BY <1>2, EmptyPool
  <2>. QED BY <1>1, <1>2, <1>5, <1>6, <2>1, <2>2 DEF Types
<1>8. Placed'
  <2>1. n = plan'[bracket'][round'].nConfigs /\ round' \in 1..Len(plan'[bracket']) /\ bracket' <= Len(plan')
    BY <1>2, <1>3 DEF Rounds
  <2>. QED BY <1>2, <1>6, <2>1 DEF Placed, Rounds
<1>. HIDE DEF n
<1>9. Manned' /\ Now' = {}
  BY <1>6, AllWait
<1>10. Numbered'
  <2>1. Counted /\ trialNumber = Passed + Len(pool)
    <3>1. \A j \in 1..Len(pool) : pool[j].state \notin {"waiting", "reserving"}
      BY <1>2
    <3>. QED BY <1>1, <1>2, <3>1, RoundOver
  <2>2. Passed = BracketTrials(plan)[bracket - 1] + 0
    BY <1>2 DEF Passed
  <2>3. Passed' = BracketTrials(plan)[bracket - 1] + 0
    <3>1. RoundTrials(plan[bracket])[0] = 0
      BY <1>1, <1>2, RoundSums DEF Types
    <3>2. Passed' = BracketTrials(plan)[bracket - 1] + RoundTrials(plan[bracket])[1 - 1]
      BY <1>2 DEF Passed, Rounds
    <3>. QED BY <3>1, <3>2
  <2>4. trialNumber \in Nat /\ late \in Nat /\ Passed + 0 = Passed
    <3>1. bracket - 1 \in 0..Len(plan)
      BY <1>2
    <3>. QED BY <1>1, <2>2, <3>1, BracketSums DEF Types
  <2>5. trialNumber = Passed'
    BY <1>2, <2>1, <2>2, <2>3, <2>4
  <2>6. Len(pool') \in Nat /\ \A j \in 1..Len(pool') : pool'[j].state = "waiting"
    BY <1>3, <1>6
  <2>. QED BY <1>1, <1>2, <2>1, <2>4, <2>5, <2>6, FreshNumbered DEF Counted
<1>11. Standing'
  <2>1. Found(bests') = {}
    BY <1>2 DEF Found, Range
  <2>. QED BY <1>2, <1>9, <2>1 DEF Standing
<1>12. Drawn'
  BY <1>5, <1>6 DEF Drawn
<1>13. PromotesBest'
  <2>1. ~(round' > 1)
    BY <1>2
  <2>. QED BY <2>1 DEF PromotesBest
<1>. QED BY <1>7, <1>8, <1>9, <1>10, <1>11, <1>12, <1>13 DEF IInv

LEMMA ListIsSeq ==
  ASSUME NEW S, NEW n \in Nat, NEW f \in [1..n -> S]
  PROVE  f \in Seq(S) /\ Len(f) = n
OBVIOUS

LEMMA ConcatFacts ==
  ASSUME NEW S, NEW s \in Seq(S), NEW t \in Seq(S)
  PROVE  /\ s \o t \in Seq(S) /\ Len(s \o t) = Len(s) + Len(t)
         /\ \A i \in 1..Len(s) : (s \o t)[i] = s[i]
         /\ \A i \in 1..Len(t) : (s \o t)[Len(s) + i] = t[i]
OBVIOUS

(* The pool of the next round, and what is promoted into it.                *)
LEMMA Promoting ==
  ASSUME TrialsOf(pool), drawn \in Nat, Drawn, NEW size \in Nat, NEW kept \in 0..size,
         kept <= Cardinality(Completed), NEW fill,
         \/ fill = [i \in 1..(size - kept) |-> Exploration] /\ drawn' = drawn
         \/ fill = [i \in 1..(size - kept) |-> drawn + i] /\ drawn' = drawn + (size - kept),
         pool' = Pooled([k \in 1..kept |-> pool[Ranked(k)].config] \o fill)
  PROVE  /\ drawn' \in Nat /\ TrialsOf(pool') /\ Len(pool') = size
         /\ \A i \in 1..size : pool'[i].state = "waiting" /\ pool'[i].config <= drawn'
         /\ \A k \in 1..kept : pool'[k].config = pool[Ranked(k)].config
         /\ \A i \in (kept + 1)..size :
              pool'[i].config = Exploration \/ drawn < pool'[i].config
<1>. DEFINE picked == [k \in 1..kept |-> pool[Ranked(k)].config]
            configs == picked \o fill
<1>1. Cardinality(Completed) \in Nat /\ Len(pool) \in Nat
      /\ Completed \subseteq 1..Len(pool)
  BY CompletedFacts, PoolFacts
<1>2. \A k \in 1..kept : Ranked(k) \in 1..Len(pool)
  <2>1. \A k \in 1..kept : k \in 1..Cardinality(Completed)
    BY <1>1
  <2>. QED BY <1>1, <2>1, RankedFacts
<1>3. \A k \in 1..kept : pool[Ranked(k)].config \in Nat /\ pool[Ranked(k)].config <= drawn
  BY <1>2, PoolFacts DEF Drawn
<1>4. picked \in Seq(Nat) /\ Len(picked) = kept
      /\ \A k \in 1..kept : picked[k] = pool[Ranked(k)].config
  <2>1. picked \in [1..kept -> Nat] /\ \A k \in 1..kept : picked[k] = pool[Ranked(k)].config
    BY <1>3
  <2>. HIDE DEF picked
  <2>2. kept \in Nat
    OBVIOUS
  <2>3. picked \in Seq(Nat) /\ Len(picked) = kept
    BY <2>1, <2>2, ListIsSeq
  <2>. QED BY <2>1, <2>3
<1>. HIDE DEF picked
<1>5. /\ drawn' \in Nat /\ drawn <= drawn' /\ fill \in Seq(Nat) /\ Len(fill) = size - kept
      /\ \A i \in 1..(size - kept) : fill[i] <= drawn' /\ (fill[i] = Exploration \/ drawn < fill[i])
  <2>1. size - kept \in Nat
    OBVIOUS
  <2>. QED BY <2>1, SuggestFacts
<1>6. /\ configs \in Seq(Nat) /\ Len(configs) = size
      /\ \A k \in 1..kept : configs[k] = picked[k]
      /\ \A i \in (kept + 1)..size : configs[i] = fill[i - kept]
  <2>1. /\ configs \in Seq(Nat) /\ Len(configs) = Len(picked) + Len(fill)
        /\ \A i \in 1..Len(picked) : configs[i] = picked[i]
        /\ \A i \in 1..Len(fill) : configs[Len(picked) + i] = fill[i]
    <3>1. picked \in Seq(Nat) /\ fill \in Seq(Nat)
      BY <1>4, <1>5
    <3>. QED BY ONLY <3>1, ConcatFacts
  <2>. HIDE DEF configs
  <2>2. kept + (size - kept) = size
    OBVIOUS
  <2>3. ASSUME NEW i \in (kept + 1)..size PROVE configs[i] = fill[i - kept]
    <3>1. i - kept \in 1..(size - kept) /\ kept + (i - kept) = i
      OBVIOUS
    <3>. QED BY <1>4, <1>5, <2>1, <3>1
  <2>. QED BY <1>4, <1>5, <2>1, <2>2, <2>3
<1>7. pool' = Pooled(configs)
  BY DEF picked
<1>. HIDE DEF configs
<1>8. /\ TrialsOf(pool') /\ Len(pool') = size
      /\ \A i \in 1..size : pool'[i].config = configs[i] /\ pool'[i].state = "waiting"
  BY <1>6, <1>7, PooledFacts
<1>9. \A k \in 1..kept : pool'[k].config = pool[Ranked(k)].config
  <2>1. \A k \in 1..kept : k \in 1..size
    OBVIOUS
  <2>. QED BY <1>4, <1>6, <1>8, <2>1
<1>10. ASSUME NEW i \in (kept + 1)..size
       PROVE  pool'[i].config <= drawn' /\ (pool'[i].config = Exploration \/ drawn < pool'[i].config)
  <2>1. i - kept \in 1..(size - kept) /\ i \in 1..size
    OBVIOUS
  <2>2. pool'[i].config = fill[i - kept]
    BY <1>6, <1>8, <2>1
  <2>. QED BY <1>5, <2>1, <2>2
<1>11. ASSUME NEW i \in 1..size PROVE pool'[i].state = "waiting" /\ pool'[i].config <= drawn'
  <2>1. i \in 1..kept \/ i \in (kept + 1)..size
    OBVIOUS
  <2>2. ASSUME i \in 1..kept PROVE pool'[i].config <= drawn'
    <3>1. pool[Ranked(i)].config \in Nat /\ pool[Ranked(i)].config <= drawn
      BY <1>3, <2>2
    <3>2. pool'[i].config = pool[Ranked(i)].config
      BY <1>9, <2>2
    <3>. QED BY <1>5, <3>1, <3>2
  <2>. QED BY <1>8, <1>10, <2>1, <2>2
<1>. QED BY <1>5, <1>8, <1>9, <1>10, <1>11

LEMMA NextRoundKeeps ==
  ASSUME IInv, NextRound
  PROVE  IInv'
<1>. DEFINE size == NextRoundSize
            kept == Min({size, Cardinality(Completed)})
<1>1. Types /\ Placed /\ Numbered /\ Standing /\ Drawn
  BY DEF IInv
<1>2. /\ phase = "round" /\ Settled /\ round < Len(Rounds) /\ Summarised
      /\ phase' = "round" /\ round' = round + 1
      /\ UNCHANGED <<plan, mode, bracket, announced, trialNumber, stopped, history, seen, late>>
  BY DEF NextRound, planVars
<1>3. TrialsOf(pool) /\ drawn \in Nat /\ trialNumber \in Nat /\ late \in Nat
  BY <1>1 DEF Types
<1>4. /\ bracket \in 1..Len(plan) /\ round \in 1..Len(plan[bracket]) /\ round + 1 \in 1..Len(plan[bracket])
      /\ Len(pool) = plan[bracket][round].nConfigs
  BY <1>1, <1>2 DEF Types, Placed, Rounds
<1>5. size = plan[bracket][round + 1].nConfigs /\ size \in Nat
  <2>1. size = plan[bracket][round + 1].nConfigs
    BY <1>2 DEF NextRoundSize, Rounds
  <2>2. plan[bracket][round + 1].nConfigs \in Nat
    BY <1>1, <1>4, RoundSums DEF Types
  <2>. QED BY <2>1, <2>2
<1>6. Cardinality(Completed) \in Nat /\ Completed = {i \in DOMAIN pool : pool[i].state = "completed"}
  BY <1>3, CompletedFacts DEF Completed, In
<1>. HIDE DEF size
<1>7. /\ kept \in 0..size /\ kept \in 0..Cardinality(Completed) /\ kept <= Cardinality(Completed)
  <2>1. kept = IF size <= Cardinality(Completed) THEN size ELSE Cardinality(Completed)
    BY <1>5, <1>6, MinOfTwo
  <2>. HIDE DEF kept
  <2>. QED BY <1>5, <1>6, <2>1
<1>8. Selected = [k \in 1..kept |-> pool[Ranked(k)].config]
  BY DEF Selected, size
<1>. HIDE DEF kept
<1>9. Missing = size - kept
  <2>1. Len(Selected) = kept
    BY <1>7, <1>8
  <2>. QED BY <2>1 DEF Missing, size
<1>10. PICK fill : Suggest(Missing, completedCount', fill) /\ pool' = Pooled(Selected \o fill)
  BY DEF NextRound
<1>11. \/ fill = [i \in 1..(size - kept) |-> Exploration] /\ drawn' = drawn
       \/ fill = [i \in 1..(size - kept) |-> drawn + i] /\ drawn' = drawn + (size - kept)
  BY <1>9, <1>10 DEF Suggest
<1>12. /\ drawn' \in Nat /\ TrialsOf(pool') /\ Len(pool') = size
       /\ \A i \in 1..size : pool'[i].state = "waiting" /\ pool'[i].config <= drawn'
       /\ \A k \in 1..kept : pool'[k].config = pool[Ranked(k)].config
       /\ \A i \in (kept + 1)..size :
            pool'[i].config = Exploration \/ drawn < pool'[i].config
  BY <1>1, <1>3, <1>5, <1>7, <1>8, <1>10, <1>11, Promoting
<1>13. /\ bests' \in Seq(Nat \cup {None})
       /\ Found(bests') \subseteq seen
       /\ \A x \in seen : \E y \in Found(bests') : y <= x
  BY <1>1, <1>2, KeptBests
<1>14. previous' = pool
  BY <1>2 DEF Summarised
<1>15. Types'
  <2>1. TrialsOf(previous')
    BY <1>3, <1>14
  <2>2. round' \in Nat
    BY <1>2, <1>4
  <2>. QED BY <1>1, <1>2, <1>12, <1>13, <2>1, <2>2 DEF Types
<1>16. Placed'
  <2>1. size = plan'[bracket'][round'].nConfigs /\ round' \in 1..Len(plan'[bracket']) /\ bracket' <= Len(plan')
    BY <1>2, <1>4, <1>5
  <2>. QED BY <1>2, <1>12, <2>1 DEF Placed, Rounds
<1>17. Manned' /\ Now' = {}
  BY <1>12, AllWait
<1>18. Numbered'
  <2>1. Counted /\ trialNumber = Passed + Len(pool)
    <3>1. \A j \in 1..Len(pool) : pool[j].state \notin {"waiting", "reserving"}
      BY <1>2, <1>3, PoolFacts DEF Settled, In
    <3>2. phase # "failed"
      BY <1>2
    <3>. QED BY <1>1, <3>1, <3>2, RoundOver
  <2>. DEFINE B == BracketTrials(plan)[bracket - 1]
              R == RoundTrials(plan[bracket])
  <2>2. Passed = B + R[round - 1]
    BY <1>2 DEF Passed, Rounds
  <2>3. Passed' = B + R[round]
    <3>1. Passed' = B + R[(round + 1) - 1]
      BY <1>2 DEF Passed, Rounds
    <3>2. (round + 1) - 1 = round
      BY <1>4
    <3>. QED BY <3>1, <3>2
  <2>4. B \in Nat /\ R[round - 1] \in Nat /\ R[round] = R[round - 1] + Len(pool)
    <3>1. bracket - 1 \in 0..Len(plan) /\ round - 1 \in 0..Len(plan[bracket])
      BY <1>4
    <3>. QED BY <1>1, <1>4, <3>1, BracketSums, RoundSums DEF Types
  <2>. HIDE DEF B, R
  <2>5. trialNumber = Passed' /\ Len(pool) \in Nat
    <3>1. Len(pool) \in Nat
      BY <1>3, PoolFacts
    <3>. QED BY <2>1, <2>2, <2>3, <2>4, <3>1
  <2>6. Len(pool') \in Nat /\ \A j \in 1..Len(pool') : pool'[j].state = "waiting"
    BY <1>5, <1>12
  <2>. QED BY <1>1, <1>2, <1>3, <2>1, <2>5, <2>6, FreshNumbered DEF Counted
<1>19. Standing'
  BY <1>2, <1>13, <1>17 DEF Standing
<1>20. Drawn'
  BY <1>12 DEF Drawn
<1>21. PromotesBest'
  <2>. DEFINE best == {Ranked(k) : k \in 1..kept}
  <2>1. /\ best \subseteq Completed /\ Cardinality(best) = kept
        /\ \A i \in best, j \in Completed \ best : pool[i].value <= pool[j].value
    BY <1>3, <1>7, FirstAreBest
  <2>2. {pool'[i].config : i \in 1..kept} = {pool[i].config : i \in best}
    BY <1>12
  <2>. HIDE DEF best
  <2>3. best \in kSubset(kept, Completed)
    BY <2>1 DEF kSubset
  <2>4. ASSUME NEW i \in (kept + 1)..size
        PROVE  \/ pool'[i].config = Exploration
               \/ \A j \in DOMAIN pool : pool[j].config # pool'[i].config
    <3>1. CASE drawn < pool'[i].config
      <4>1. ASSUME NEW j \in DOMAIN pool PROVE pool[j].config # pool'[i].config
        <5>1. pool[j].config \in Nat /\ pool[j].config <= drawn
          BY <1>1, <1>3, <4>1, PoolFacts DEF Drawn
        <5>. QED BY <1>3, <3>1, <5>1
      <4>. QED BY <4>1
    <3>. QED BY <1>12, <3>1
  <2>. DEFINE rounds == Rounds'[round'].nConfigs
              finished == {i \in DOMAIN previous' : previous'[i].state = "completed"}
              limit == Min({rounds, Cardinality(finished)})
  <2>5. rounds = size /\ finished = Completed
    BY <1>2, <1>5, <1>6, <1>14 DEF Rounds
  <2>6. limit = kept
    BY <2>5 DEF kept
  <2>. HIDE DEF rounds, finished, limit
  <2>7. Len(pool') = rounds
    BY <1>12, <2>5
  <2>8. \E b \in kSubset(limit, finished) :
          /\ {pool'[i].config : i \in 1..limit} = {previous'[i].config : i \in b}
          /\ \A i \in b, j \in finished \ b : previous'[i].value <= previous'[j].value
    <3>1. best \in kSubset(limit, finished)
      BY <2>3, <2>5, <2>6
    <3>2. {pool'[i].config : i \in 1..limit} = {previous'[i].config : i \in best}
      BY <1>14, <2>2, <2>6
    <3>3. \A i \in best, j \in finished \ best : previous'[i].value <= previous'[j].value
      BY <1>14, <2>1, <2>5
    <3>. QED BY <3>1, <3>2, <3>3
  <2>9. \A i \in (limit + 1)..rounds :
          \/ pool'[i].config = Exploration
          \/ \A j \in DOMAIN previous' : previous'[j].config # pool'[i].config
    BY <1>14, <2>4, <2>5, <2>6
  <2>. USE DEF rounds, finished, limit
  <2>. QED BY <2>7, <2>8, <2>9 DEF PromotesBest
<1>. QED BY <1>15, <1>16, <1>17, <1>18, <1>19, <1>20, <1>21 DEF IInv

LEMMA CompleteBracketKeeps ==
  ASSUME IInv, CompleteBracket
  PROVE  IInv'
<1>1. Types /\ Placed /\ Numbered /\ Standing
  BY DEF IInv
<1>2. /\ phase = "round" /\ Settled /\ round = Len(Rounds) /\ Summarised
      /\ announced' = Best(Range(bests') \ {None}) /\ pool' = <<>>
      /\ bracket' = bracket + 1 /\ round' = 0
      /\ phase' = IF bracket = Len(plan) THEN "ended" ELSE "bracket"
      /\ UNCHANGED <<plan, mode, drawn, trialNumber, stopped, history, seen, late>>
  BY DEF CompleteBracket, planVars
<1>3. TrialsOf(pool) /\ trialNumber \in Nat /\ late \in Nat
  BY <1>1 DEF Types
<1>4. /\ bracket \in 1..Len(plan) /\ round \in 1..Len(plan[bracket]) /\ round = Len(plan[bracket])
      /\ Len(pool) = plan[bracket][round].nConfigs
  BY <1>1, <1>2 DEF Types, Placed, Rounds
<1>5. /\ bests' \in Seq(Nat \cup {None})
      /\ Found(bests') \subseteq seen
      /\ \A x \in seen : \E y \in Found(bests') : y <= x
  BY <1>1, <1>2, KeptBests
<1>6. TrialsOf(pool') /\ Len(pool') = 0
  BY <1>2, EmptyPool
<1>7. phase' \in {"bracket", "ended"}
  BY <1>2
<1>8. Types'
  <2>1. TrialsOf(previous')
    BY <1>2, <1>3 DEF Summarised
  <2>2. round' \in Nat /\ bracket' \in Nat \ {0}
    BY <1>2, <1>4
  <2>. QED BY <1>1, <1>2, <1>5, <1>6, <1>7, <2>1, <2>2 DEF Types
<1>9. Placed'
  <2>1. Len(plan) \in Nat /\ Len(plan') = Len(plan)
    BY <1>1, <1>2, BracketSums DEF Types
  <2>2. phase' = "bracket" => bracket' <= Len(plan')
    <3>1. ASSUME phase' = "bracket" PROVE bracket' <= Len(plan')
      <4>1. bracket # Len(plan)
        BY <1>2, <3>1
      <4>. QED BY <1>2, <1>4, <2>1, <4>1
    <3>. QED BY <3>1
  <2>3. phase' = "ended" => bracket' = Len(plan') + 1
    <3>1. ASSUME phase' = "ended" PROVE bracket' = Len(plan') + 1
      <4>1. bracket = Len(plan)
        BY <1>2, <3>1
      <4>. QED BY <1>2, <2>1, <4>1
    <3>. QED BY <3>1
  <2>4. phase' # "round"
    BY <1>7
  <2>. QED BY <1>2, <2>2, <2>3, <2>4 DEF Placed
<1>10. Manned' /\ Now' = {}
  BY <1>6, AllWait
<1>11. Numbered'
  <2>1. Counted /\ trialNumber = Passed + Len(pool)
    <3>1. \A j \in 1..Len(pool) : pool[j].state \notin {"waiting", "reserving"}
      BY <1>2, <1>3, PoolFacts DEF Settled, In
    <3>2. phase # "failed"
      BY <1>2
    <3>. QED BY <1>1, <3>1, <3>2, RoundOver
  <2>. DEFINE B == BracketTrials(plan)
              R == RoundTrials(plan[bracket])
  <2>2. Passed = B[bracket - 1] + R[round - 1]
    BY <1>2 DEF Passed, Rounds
  <2>3. Passed' = B[bracket] + 0
    <3>1. Passed' = B[(bracket + 1) - 1] + 0
      BY <1>2, <1>7 DEF Passed
    <3>2. (bracket + 1) - 1 = bracket
      BY <1>4
    <3>. QED BY <3>1, <3>2
  <2>4. /\ B[bracket - 1] \in Nat /\ B[bracket] \in Nat /\ R[round - 1] \in Nat
        /\ R[round] = R[round - 1] + Len(pool) /\ B[bracket] = B[bracket - 1] + R[round]
    <3>1. bracket - 1 \in 0..Len(plan) /\ bracket \in 0..Len(plan) /\ round - 1 \in 0..Len(plan[bracket])
      BY <1>4
    <3>. QED BY <1>1, <1>4, <3>1, BracketSums, RoundSums DEF Types
  <2>. HIDE DEF B, R
  <2>5. trialNumber = Passed'
    <3>1. Len(pool) \in Nat
      BY <1>3, PoolFacts
    <3>. QED BY <2>1, <2>2, <2>3, <2>4, <3>1
  <2>6. Len(pool') \in Nat /\ \A j \in 1..Len(pool') : pool'[j].state = "waiting"
    BY <1>6
  <2>. QED BY <1>1, <1>2, <1>3, <2>1, <2>5, <2>6, FreshNumbered DEF Counted
<1>12. Standing'
  <2>1. announced' = Best(Found(bests'))
    BY <1>2 DEF Found
  <2>2. seen \in SUBSET Nat /\ Found(bests') \in SUBSET seen
    BY <1>1, <1>5 DEF Types
  <2>3. Best(Found(bests')) = Best(seen)
    BY <1>5, <2>2, BestOf
  <2>4. announced' = Best(seen')
    BY <1>2, <2>1, <2>3
  <2>5. phase' # "round"
    BY <1>7
  <2>. QED BY <2>4, <2>5 DEF Standing
<1>13. Drawn'
  BY <1>6 DEF Drawn
<1>14. PromotesBest'
  BY <1>7 DEF PromotesBest
<1>. QED BY <1>8, <1>9, <1>10, <1>11, <1>12, <1>13, <1>14 DEF IInv

LEMMA FailKeeps ==
  ASSUME IInv, Fail
  PROVE  IInv'
<1>1. Types /\ Placed /\ Numbered /\ Standing
  BY DEF IInv
<1>2. /\ phase \in {"bracket", "round"} /\ phase' = "failed" /\ pool' = <<>>
      /\ UNCHANGED <<plan, mode, bracket, round, completedCount, drawn, bests, announced, previous,
                     trialNumber, stopped, history, seen, late>>
  BY DEF Fail, planVars, roundVars
<1>3. TrialsOf(pool') /\ Len(pool') = 0
  BY <1>2, EmptyPool
<1>4. Types'
  BY <1>1, <1>2, <1>3 DEF Types
<1>5. Placed'
  BY <1>2 DEF Placed
<1>6. Manned' /\ Now' = {}
  BY <1>3, AllWait
<1>7. Numbered'
  <2>1. PICK a, b, w \in 0..Len(pool) : Taken(a, b, w)
    BY <1>1 DEF Numbered
  <2>2. /\ Cardinality(history) \in Nat /\ trialNumber \in Nat /\ late \in Nat /\ Concurrency \in Nat
        /\ Len(pool) \in Nat
    BY <1>1, PoolFacts, BracketsAssumption DEF Types, Numbered
  <2>3. a <= b /\ Cardinality(history) + (b - a) <= trialNumber
    BY <2>1 DEF Taken
  <2>4. Cardinality(history) <= trialNumber
    BY <2>2, <2>3
  <2>5. IF stopped THEN late <= Concurrency ELSE late = 0
    <3>1. CASE stopped
      <4>1. late + (b - a) <= Concurrency
        BY <2>1, <3>1 DEF Taken
      <4>2. late <= Concurrency
        BY <2>2, <2>3, <4>1
      <4>. QED BY <3>1, <4>2
    <3>2. CASE ~stopped
      BY <2>1, <3>2 DEF Taken
    <3>. QED BY <3>1, <3>2
  <2>6. Len(pool') \in Nat /\ \A j \in 1..Len(pool') : pool'[j].state = "waiting"
    BY <1>3
  <2>. QED BY <1>1, <1>2, <2>2, <2>4, <2>5, <2>6, FreshNumbered
<1>8. Standing'
  BY <1>2 DEF Standing
<1>9. Drawn'
  BY <1>3 DEF Drawn
<1>10. PromotesBest'
  BY <1>2 DEF PromotesBest
<1>. QED BY <1>4, <1>5, <1>6, <1>7, <1>8, <1>9, <1>10 DEF IInv

(* Trials that are being reserved are active: no more than the concurrency. *)
LEMMA ReservingFew ==
  ASSUME TrialsOf(pool), Manned, NEW a \in 0..Len(pool), NEW b \in 0..Len(pool), a <= b,
         \A i \in 1..Len(pool) : a < i /\ i <= b => pool[i].state = "reserving"
  PROVE  b - a <= Concurrency
<1>1. Len(pool) \in Nat /\ IsFiniteSet(Active) /\ Cardinality(Active) \in Nat
      /\ Active = {j \in 1..Len(pool) : pool[j].state \in {"reserving", "running"}}
  BY PoolFacts, ActiveFacts
<1>2. (a + 1)..b \subseteq Active
  <2>1. ASSUME NEW i \in (a + 1)..b PROVE i \in Active
    <3>1. i \in 1..Len(pool) /\ a < i /\ i <= b
      BY <1>1, <2>1
    <3>. QED BY <1>1, <3>1
  <2>. QED BY <2>1
<1>3. Cardinality((a + 1)..b) = b - a
  <2>1. a + 1 \in Int /\ b \in Int
    BY <1>1
  <2>2. Cardinality((a + 1)..b) = IF a + 1 > b THEN 0 ELSE b - (a + 1) + 1
    BY <2>1, FS_Interval
  <2>3. (a + 1 > b => b - a = 0) /\ (~(a + 1 > b) => b - (a + 1) + 1 = b - a)
    <3>1. a \in Nat /\ b \in Nat
      BY <1>1
    <3>. QED BY <3>1
  <2>. QED BY <2>2, <2>3
<1>4. Cardinality((a + 1)..b) <= Cardinality(Active)
  BY <1>1, <1>2, FS_Subset
<1>. QED BY <1>1, <1>3, <1>4, BracketsAssumption DEF Manned

LEMMA StopKeeps ==
  ASSUME IInv, Stop
  PROVE  IInv'
<1>1. Types /\ Placed /\ Numbered /\ Manned /\ Standing /\ Drawn /\ PromotesBest
  BY DEF IInv
<1>2. /\ phase \in {"bracket", "round"} /\ ~stopped /\ stopped' = TRUE
      /\ UNCHANGED <<plan, mode, bracket, round, phase, completedCount, drawn, bests, announced, previous,
                     pool, trialNumber, history, seen, late>>
  BY DEF Stop, planVars, placeVars, roundVars
<1>3. Types'
  BY <1>1, <1>2 DEF Types
<1>4. Placed' /\ Drawn' /\ PromotesBest' /\ Standing' /\ Manned'
  <2>1. Placed'
    BY <1>1, <1>2 DEF Placed, Rounds
  <2>2. Drawn'
    BY <1>1, <1>2 DEF Drawn
  <2>3. Standing'
    BY <1>1, <1>2 DEF Standing, Now, Completed, In
  <2>4. Manned'
    BY <1>1, <1>2 DEF Manned, Active, In
  <2>5. PromotesBest'
    BY <1>1, <1>2, PromotesStill DEF SameConfigs
  <2>. QED BY <2>1, <2>2, <2>3, <2>4, <2>5
<1>5. Numbered'
  <2>1. PICK a, b, w \in 0..Len(pool) : Taken(a, b, w)
    BY <1>1 DEF Numbered
  <2>2. Len(pool) \in Nat /\ late = 0 /\ a <= b
    BY <1>1, <1>2, <2>1, PoolFacts DEF Types, Taken
  <2>3. b - a <= Concurrency
    <3>1. \A i \in 1..Len(pool) : a < i /\ i <= b => pool[i].state = "reserving"
      BY <2>1 DEF Taken
    <3>2. TrialsOf(pool)
      BY <1>1 DEF Types
    <3>. QED BY <1>1, <2>2, <3>1, <3>2, ReservingFew
  <2>4. late + (b - a) <= Concurrency
    BY <2>2, <2>3
  <2>5. Passed' = Passed /\ TotalTrials(plan)' = TotalTrials(plan)
    BY <1>2, PassedStill
  <2>6. Taken(a, b, w)'
    <3>1. IF stopped' THEN late' + (b - a) <= Concurrency ELSE late' = 0
      BY <1>2, <2>4
    <3>2. phase' # "failed" /\ ~stopped' => b = w /\ Cardinality(history') + (b - a) = trialNumber'
      BY <1>2
    <3>3. phase' # "failed" => trialNumber' = Passed' + w
      BY <1>2, <2>1, <2>5 DEF Taken
    <3>4. pool' = pool /\ history' = history /\ trialNumber' = trialNumber
      BY <1>2
    <3>. QED BY <2>1, <3>1, <3>2, <3>3, <3>4 DEF Taken
  <2>7. \E x, y, z \in 0..Len(pool') : Taken(x, y, z)'
    BY <1>2, <2>6
  <2>. QED BY <1>1, <1>2, <2>5, <2>7 DEF Numbered
<1>. QED BY <1>3, <1>4, <1>5 DEF IInv

-------------------------------------------------------------------------------
(* The invariant                                                            *)

LEMMA InitHolds ==
  Init => IInv
<1>. SUFFICES ASSUME Init PROVE IInv
  OBVIOUS
<1>1. Planned(plan)
  <2>1. PICK t \in Topologies : plan = Plan(t[1], t[2], t[3])
    BY DEF Init
  <2>2. t[1] \in Nat \ {0} /\ t[2] \in Nat \ {0, 1} /\ t[3] \in Nat
    BY BracketsAssumption
  <2>. QED BY <2>1, <2>2, PlanType
<1>2. /\ bracket = 1 /\ round = 0 /\ phase = "bracket" /\ pool = <<>> /\ previous = <<>> /\ bests = <<>>
      /\ trialNumber = 0 /\ drawn = 0 /\ stopped = FALSE /\ history = {} /\ seen = {} /\ late = 0
  BY DEF Init
<1>3. TrialsOf(pool) /\ TrialsOf(previous) /\ Len(pool) = 0
  BY <1>2, EmptyPool
<1>4. Types
  <2>1. bracket \in Nat \ {0} /\ round \in Nat /\ trialNumber \in Nat /\ drawn \in Nat /\ late \in Nat
    BY <1>2
  <2>2. seen \subseteq Nat /\ bests \in Seq(Nat \cup {None}) /\ stopped \in BOOLEAN
    <3>1. <<>> \in Seq(Nat \cup {None})
      OBVIOUS
    <3>2. bests \in Seq(Nat \cup {None})
      BY <1>2, <3>1
    <3>3. seen \subseteq Nat
      BY <1>2
    <3>4. stopped \in BOOLEAN
      BY <1>2
    <3>. QED BY <3>2, <3>3, <3>4
  <2>3. phase \in {"bracket", "round", "ended", "failed"}
    BY <1>2
  <2>. QED BY <1>1, <1>3, <2>1, <2>2, <2>3 DEF Types
<1>5. Placed
  BY <1>1, <1>2 DEF Placed, Planned
<1>6. Numbered
  <2>1. Cardinality(history) = 0 /\ history = 0..(0 - 1)
    BY <1>2, FS_EmptySet
  <2>2. Len(plan) \in Nat \ {0} /\ TotalTrials(plan) \in Nat /\ BracketTrials(plan)[0] = 0
    <3>1. Len(plan) \in 0..Len(plan)
      BY <1>1, BracketSums
    <3>. QED BY <1>1, <3>1, BracketSums DEF TotalTrials
  <2>3. Passed = 0
    <3>1. Passed = BracketTrials(plan)[1 - 1] + 0
      BY <1>2 DEF Passed
    <3>. QED BY <2>2, <3>1
  <2>4. Taken(0, 0, 0)
    BY <1>2, <1>3, <2>1, <2>3 DEF Taken
  <2>5. 0 \in 0..Len(pool)
    BY <1>3
  <2>6. trialNumber <= TotalTrials(plan)
    BY <1>2, <2>2
  <2>. QED BY <2>1, <2>4, <2>5, <2>6 DEF Numbered
<1>7. Manned
  <2>1. DOMAIN pool = {}
    BY <1>2
  <2>2. Cardinality(Active) = 0
    BY <2>1, FS_EmptySet DEF Active, In
  <2>. QED BY <2>2, BracketsAssumption DEF Manned
<1>8. Standing
  <2>1. ~(bracket > 1) /\ phase # "round"
    BY <1>2
  <2>. QED BY <2>1 DEF Standing
<1>9. Drawn
  BY <1>3 DEF Drawn
<1>10. PromotesBest
  BY <1>2 DEF PromotesBest
<1>. QED BY <1>4, <1>5, <1>6, <1>7, <1>8, <1>9, <1>10 DEF IInv

LEMMA StutterKeeps ==
  ASSUME IInv, UNCHANGED vars
  PROVE  IInv'
<1>1. UNCHANGED <<plan, mode, bracket, round, phase, completedCount, drawn, bests, announced, previous,
                  pool, trialNumber, stopped, history, seen, late>>
  BY DEF vars, planVars, placeVars, roundVars
<1>2. Types /\ Placed /\ Numbered /\ Manned /\ Standing /\ Drawn /\ PromotesBest
  BY DEF IInv
<1>3. Types' /\ Placed'
  BY <1>1, <1>2 DEF Types, Placed, Rounds
<1>4. Numbered'
  <2>1. PICK a, b, w \in 0..Len(pool) : Taken(a, b, w)
    BY <1>2 DEF Numbered
  <2>2. Passed' = Passed /\ TotalTrials(plan)' = TotalTrials(plan)
    BY <1>1, PassedStill
  <2>3. Taken(a, b, w)'
    BY <1>1, <2>1, <2>2 DEF Taken
  <2>4. \E x, y, z \in 0..Len(pool') : Taken(x, y, z)'
    BY <1>1, <2>3
  <2>. QED BY <1>1, <1>2, <2>2, <2>4 DEF Numbered
<1>5. Manned' /\ Standing' /\ Drawn'
  BY <1>1, <1>2 DEF Manned, Active, In, Standing, Now, Completed, Drawn
<1>6. PromotesBest'
  BY <1>1, <1>2, PromotesStill DEF SameConfigs
<1>. QED BY <1>3, <1>4, <1>5, <1>6 DEF IInv

LEMMA NextPreserves ==
  IInv /\ [Next]_vars => IInv'
<1>. SUFFICES ASSUME IInv, [Next]_vars PROVE IInv'
  OBVIOUS
<1>1. CASE StartBracket
  BY <1>1, StartBracketKeeps
<1>2. CASE NextRound
  BY <1>2, NextRoundKeeps
<1>3. CASE CompleteBracket
  BY <1>3, CompleteBracketKeeps
<1>4. ASSUME NEW i \in DOMAIN pool, Trial(i) PROVE IInv'
  <2>1. i \in 1..Len(pool)
    BY <1>4, PoolFacts DEF IInv, Types
  <2>. QED BY <1>4, <2>1, TrialKeeps
<1>5. CASE Stop
  BY <1>5, StopKeeps
<1>6. CASE Fail
  BY <1>6, FailKeeps
<1>7. CASE UNCHANGED vars
  BY <1>7, StutterKeeps
<1>. QED BY <1>1, <1>2, <1>3, <1>4, <1>5, <1>6, <1>7 DEF Next, Go

LEMMA AlwaysIInv ==
  Spec => []IInv
BY InitHolds, NextPreserves, PTL DEF Spec

(* What the numbers say of the history and of what is being reserved.       *)
LEMMA FollowsPlan ==
  IInv => PlanFollowed
<1>. SUFFICES ASSUME IInv PROVE PlanFollowed
  OBVIOUS
<1>. DEFINE H == Cardinality(history)
            reserving == In({"reserving"})
<1>1. Types /\ Placed /\ Numbered /\ Manned /\ Standing
  BY DEF IInv
<1>2. PICK a, b, w \in 0..Len(pool) : Taken(a, b, w)
  BY <1>1 DEF Numbered
<1>3. /\ Len(pool) \in Nat /\ DOMAIN pool = 1..Len(pool) /\ a <= b /\ b <= w
      /\ H \in Nat /\ trialNumber \in Nat /\ late \in Nat /\ Concurrency \in Nat
  BY <1>1, <1>2, PoolFacts, BracketsAssumption DEF Types, Numbered, Taken
<1>4. TotalTrials(plan) \in Nat /\ trialNumber <= TotalTrials(plan) /\ H + (b - a) <= trialNumber
      /\ history = 0..(H - 1)
  <2>1. Len(plan) \in 0..Len(plan)
    BY <1>1, BracketSums DEF Types
  <2>. QED BY <1>1, <1>2, <2>1, BracketSums DEF Types, TotalTrials, Numbered, Taken
<1>5. \A i \in 1..Len(pool) :
        /\ pool[i].state = "reserving" <=> a < i /\ i <= b
        /\ a < i /\ i <= b => pool[i].number = H + (i - a - 1)
  BY <1>2 DEF Taken
<1>6. reserving = (a + 1)..b
  <2>1. reserving = {i \in 1..Len(pool) : pool[i].state = "reserving"}
    BY <1>3 DEF In
  <2>2. \A i \in 1..Len(pool) : i \in (a + 1)..b <=> a < i /\ i <= b
    BY <1>3
  <2>3. \A i \in (a + 1)..b : i \in 1..Len(pool)
    BY <1>3
  <2>. HIDE DEF reserving
  <2>. QED BY <1>5, <2>1, <2>2, <2>3
<1>. HIDE DEF H, reserving
<1>7. Cardinality(reserving) = b - a
  <2>1. a + 1 \in Int /\ b \in Int /\ a \in Nat /\ b \in Nat
    BY <1>3
  <2>2. Cardinality((a + 1)..b) = IF a + 1 > b THEN 0 ELSE b - (a + 1) + 1
    BY <2>1, FS_Interval
  <2>3. (a + 1 > b => b - a = 0) /\ (~(a + 1 > b) => b - (a + 1) + 1 = b - a)
    BY <1>3, <2>1
  <2>. QED BY <1>6, <2>2, <2>3
<1>8. history \cup {pool[i].number : i \in reserving} = 0..(H + (b - a) - 1)
  <2>1. \A i \in reserving : pool[i].number = H + (i - a - 1)
    BY <1>3, <1>5, <1>6
  <2>2. {pool[i].number : i \in reserving} = {H + (i - a - 1) : i \in (a + 1)..b}
    BY <1>6, <2>1
  <2>3. ASSUME NEW x \in {H + (i - a - 1) : i \in (a + 1)..b} PROVE x \in 0..(H + (b - a) - 1)
    BY <1>3
  <2>4. 0..(H - 1) \subseteq 0..(H + (b - a) - 1)
    BY <1>3
  <2>5. ASSUME NEW x \in 0..(H + (b - a) - 1), x \notin 0..(H - 1)
        PROVE  x \in {H + (i - a - 1) : i \in (a + 1)..b}
    <3>1. x - H + a + 1 \in (a + 1)..b /\ x = H + ((x - H + a + 1) - a - 1)
      BY <1>3, <2>5
    <3>. QED BY <3>1
  <2>. QED BY <1>4, <2>2, <2>3, <2>4, <2>5
<1>9. H <= TotalTrials(plan)
  BY <1>3, <1>4
<1>10. late <= Concurrency
  <2>1. CASE stopped
    <3>1. late + (b - a) <= Concurrency
      BY <1>2, <2>1 DEF Taken
    <3>. QED BY <1>3, <3>1
  <2>2. CASE ~stopped
    <3>1. late = 0
      BY <1>2, <2>2 DEF Taken
    <3>. QED BY <1>3, <3>1
  <2>. QED BY <2>1, <2>2
<1>11. ASSUME phase = "ended", ~stopped PROVE H = TotalTrials(plan)
  <2>1. pool = <<>> /\ Len(pool) = 0 /\ bracket = Len(plan) + 1 /\ phase # "failed" /\ phase # "round"
    BY <1>1, <1>11, EmptyPool DEF Placed
  <2>2. trialNumber = Passed + w /\ H + (b - a) = trialNumber
    BY <1>2, <1>11, <2>1 DEF Taken, H
  <2>3. a = 0 /\ b = 0 /\ w = 0
    BY <2>1
  <2>4. Passed = BracketTrials(plan)[bracket - 1] + 0
    BY <2>1 DEF Passed
  <2>5. bracket - 1 = Len(plan)
    BY <1>1, <2>1, BracketSums DEF Types
  <2>6. Passed = TotalTrials(plan) + 0
    BY <2>4, <2>5 DEF TotalTrials
  <2>. QED BY <1>3, <1>4, <2>2, <2>3, <2>6
<1>12. /\ history \cup {pool[i].number : i \in In({"reserving"})}
            = 0..(Cardinality(history) + Cardinality(In({"reserving"})) - 1)
       /\ Cardinality(history) <= TotalTrials(plan)
  BY <1>7, <1>8, <1>9 DEF H, reserving
<1>13. Cardinality(Active) <= Concurrency
  BY <1>1 DEF Manned
<1>14. phase \in {"bracket", "ended"} /\ bracket > 1 => announced = Best(seen)
  BY <1>1 DEF Standing
<1>. QED BY <1>10, <1>11, <1>12, <1>13, <1>14 DEF PlanFollowed, H

(* What a round hands to the next is the best of what it completed, for any  *)
(* number of trials, of rounds and of values, ties included: the order that  *)
(* sortByDirection makes is total, so the first of it are that many trials,  *)
(* and none of the rest is better.                                          *)
THEOREM PromotesTheBest ==
  Spec => []PromotesBest
<1>1. IInv => PromotesBest
  BY DEF IInv
<1>. QED BY <1>1, AlwaysIInv, PTL

(* The plan is what is run, whichever topology it is made of and however     *)
(* many trials are evaluated at once: numbers without a gap, no more active  *)
(* trials than the concurrency, no more reserved after a stop than that, the *)
(* best of a bracket's rounds announced, and Scheduler.totalTrials trials in *)
(* the history of a run that nothing stopped.                               *)
THEOREM PlanIsFollowed ==
  Spec => []PlanFollowed
BY FollowsPlan, AlwaysIInv, PTL

-------------------------------------------------------------------------------
(* A schedule ends                                                          *)

(* Starting, handing over and completing: a bracket of r rounds takes r + 1  *)
(* turns.                                                                   *)
Turns(brackets) == Sums([b \in 1..Len(brackets) |-> Len(brackets[b]) + 1])

TurnsLeft ==
  Turns(plan)[Len(plan)] - (Turns(plan)[bracket - 1] + IF phase = "round" THEN round ELSE 0)

(* How many trials are in a state.                                          *)
Many(state) == Cardinality(In({state}))

(* How much of the plan is ahead: its turns, and up to three steps of every  *)
(* trial.                                                                   *)
Ahead ==
  TurnsLeft + 3 * (TotalTrials(plan) - trialNumber)
    + 2 * Many("reserving") + Many("running")

LEMMA TurnSums ==
  ASSUME Planned(plan)
  PROVE  /\ Len(plan) \in Nat \ {0}
         /\ \A b \in 0..Len(plan) : Turns(plan)[b] \in Nat
         /\ \A b \in 1..Len(plan) :
              /\ Len(plan[b]) \in Nat \ {0}
              /\ Turns(plan)[b] = Turns(plan)[b - 1] + (Len(plan[b]) + 1)
              /\ Turns(plan)[b] <= Turns(plan)[Len(plan)]
<1>. DEFINE s == [b \in 1..Len(plan) |-> Len(plan[b]) + 1]
<1>1. Len(plan) \in Nat \ {0}
  BY DEF Planned
<1>2. \A b \in 1..Len(plan) : Len(plan[b]) \in Nat \ {0}
  BY RoundSums
<1>3. s \in [1..Len(plan) -> Nat] /\ \A b \in 1..Len(plan) : s[b] = Len(plan[b]) + 1
  BY <1>2
<1>4. Turns(plan) = Sums(s)
  BY DEF Turns
<1>. HIDE DEF s
<1>5. s \in Seq(Nat) /\ Len(s) = Len(plan)
  BY <1>1, <1>3, ListIsSeq
<1>6. /\ \A i \in 0..Len(s) : Sums(s)[i] \in Nat
      /\ \A i \in 1..Len(s) : Sums(s)[i] = Sums(s)[i - 1] + s[i]
  BY <1>5, SumsFacts
<1>7. \A b \in 1..Len(s) : Sums(s)[b] <= Sums(s)[Len(s)]
  <2>1. ASSUME NEW b \in 1..Len(s) PROVE b \in 0..Len(s) /\ Len(s) \in 0..Len(s) /\ b <= Len(s)
    BY <1>1, <1>5
  <2>. QED BY <1>5, <2>1, SumsGrow
<1>. QED BY <1>1, <1>2, <1>3, <1>4, <1>5, <1>6, <1>7

LEMMA InFacts ==
  ASSUME TrialsOf(pool), NEW q
  PROVE  /\ In({q}) = {j \in 1..Len(pool) : pool[j].state = q}
         /\ IsFiniteSet(In({q})) /\ Many(q) \in Nat
<1>1. Len(pool) \in Nat /\ DOMAIN pool = 1..Len(pool)
  BY PoolFacts
<1>2. In({q}) = {j \in 1..Len(pool) : pool[j].state = q}
  BY <1>1 DEF In
<1>3. IsFiniteSet(1..Len(pool)) /\ In({q}) \subseteq 1..Len(pool)
  <2>1. In({q}) \subseteq 1..Len(pool)
    BY <1>2
  <2>2. IsFiniteSet(1..Len(pool))
    BY <1>1, FS_Interval
  <2>. QED BY <2>1, <2>2
<1>4. IsFiniteSet(In({q}))
  BY <1>3, FS_Subset
<1>. QED BY <1>2, <1>4, FS_CardinalityType DEF Many

(* How many are in a state after a trial's step.                            *)
LEMMA MarkedIn ==
  ASSUME TrialsOf(pool), TrialsOf(pool'), NEW i \in 1..Len(pool), NEW s, NEW n, NEW v,
         Marked(i, s, n, v), NEW q
  PROVE  /\ s = q /\ pool[i].state # q =>
              Many(q)' = Many(q) + 1
         /\ s # q /\ pool[i].state = q =>
              Many(q)' = Many(q) - 1
         /\ s # q /\ pool[i].state # q => Many(q)' = Many(q)
<1>1. /\ In({q}) = {j \in 1..Len(pool) : pool[j].state = q}
      /\ IsFiniteSet(In({q})) /\ Many(q) \in Nat
  BY InFacts
<1>2. DOMAIN pool' = 1..Len(pool)
  BY DEF TrialsOf, Marked
<1>3. In({q})' = {j \in 1..Len(pool) : pool'[j].state = q}
  BY <1>2 DEF In
<1>4. pool'[i].state = s /\ \A j \in 1..Len(pool) : j # i => pool'[j] = pool[j]
  BY DEF Marked
<1>5. ASSUME s = q, pool[i].state # q
      PROVE  Many(q)' = Many(q) + 1
  <2>1. i \notin In({q})
    BY <1>1, <1>5
  <2>2. \A j \in 1..Len(pool) : pool'[j].state = q <=> pool[j].state = q \/ j = i
    BY <1>4, <1>5
  <2>3. In({q})' = In({q}) \cup {i}
    BY <1>1, <1>3, <2>2
  <2>. QED BY <1>1, <2>1, <2>3, FS_AddElement DEF Many
<1>6. ASSUME s # q, pool[i].state = q
      PROVE  Many(q)' = Many(q) - 1
  <2>1. In({q})' = In({q}) \ {i} /\ i \in In({q})
    BY <1>1, <1>3, <1>4, <1>6
  <2>. QED BY <1>1, <2>1, FS_RemoveElement DEF Many
<1>7. ASSUME s # q, pool[i].state # q
      PROVE  Many(q)' = Many(q)
  <2>1. In({q})' = In({q})
    BY <1>1, <1>3, <1>4, <1>7
  <2>. QED BY <2>1 DEF Many
<1>. QED BY <1>5, <1>6, <1>7

(* Nobody is being reserved or runs while all wait, or when none is left.   *)
LEMMA NobodyIn ==
  ASSUME NEW q \in {"reserving", "running"}
  PROVE  /\ TrialsOf(pool) /\ (\A j \in 1..Len(pool) : pool[j].state \notin {"reserving", "running"}) =>
              Many(q) = 0
         /\ TrialsOf(pool') /\ (\A j \in 1..Len(pool') : pool'[j].state = "waiting") =>
              Many(q)' = 0
<1>1. ASSUME TrialsOf(pool), \A j \in 1..Len(pool) : pool[j].state \notin {"reserving", "running"}
      PROVE  Many(q) = 0
  <2>1. In({q}) = {}
    BY <1>1, InFacts
  <2>. QED BY <2>1, FS_EmptySet DEF Many
<1>2. ASSUME TrialsOf(pool'), \A j \in 1..Len(pool') : pool'[j].state = "waiting"
      PROVE  Many(q)' = 0
  <2>1. DOMAIN pool' = 1..Len(pool')
    BY <1>2 DEF TrialsOf
  <2>2. In({q})' = {}
    BY <1>2, <2>1 DEF In
  <2>. QED BY <2>2, FS_EmptySet DEF Many
<1>. QED BY <1>1, <1>2

(* Before a step of the schedule, and after it, what is ahead is counted.   *)
LEMMA AheadType ==
  ASSUME IInv, phase # "failed"
  PROVE  /\ TurnsLeft \in Nat
         /\ TotalTrials(plan) \in Nat /\ trialNumber \in Nat /\ trialNumber <= TotalTrials(plan)
         /\ Many("reserving") \in Nat /\ Many("running") \in Nat
         /\ Ahead \in Nat
<1>1. Types /\ Placed /\ Numbered
  BY DEF IInv
<1>. DEFINE T == Turns(plan)
<1>2. /\ Len(plan) \in Nat \ {0}
      /\ \A b \in 0..Len(plan) : T[b] \in Nat
      /\ \A b \in 1..Len(plan) :
           /\ Len(plan[b]) \in Nat \ {0}
           /\ T[b] = T[b - 1] + (Len(plan[b]) + 1)
           /\ T[b] <= T[Len(plan)]
  BY <1>1, TurnSums DEF Types
<1>3. TurnsLeft = T[Len(plan)] - (T[bracket - 1] + IF phase = "round" THEN round ELSE 0)
  BY DEF TurnsLeft
<1>. HIDE DEF T
<1>4. TurnsLeft \in Nat
  <2>1. CASE phase = "ended"
    <3>1. bracket - 1 = Len(plan) /\ Len(plan) \in 0..Len(plan)
      BY <1>1, <1>2, <2>1 DEF Placed
    <3>2. TurnsLeft = T[Len(plan)] - (T[Len(plan)] + 0)
      BY <1>3, <2>1, <3>1
    <3>. QED BY <1>2, <3>1, <3>2
  <2>2. CASE phase = "bracket"
    <3>1. bracket \in 1..Len(plan) /\ bracket - 1 \in 0..Len(plan) /\ Len(plan) \in 0..Len(plan)
      BY <1>1, <1>2, <2>2 DEF Types, Placed
    <3>2. TurnsLeft = T[Len(plan)] - (T[bracket - 1] + 0)
      BY <1>3, <2>2
    <3>3. T[bracket] \in Nat /\ T[bracket - 1] \in Nat /\ T[Len(plan)] \in Nat /\ T[bracket - 1] <= T[bracket]
          /\ T[bracket] <= T[Len(plan)]
      BY <1>2, <3>1
    <3>. QED BY <3>2, <3>3
  <2>3. CASE phase = "round"
    <3>1. bracket \in 1..Len(plan) /\ bracket - 1 \in 0..Len(plan) /\ bracket \in 0..Len(plan)
          /\ Len(plan) \in 0..Len(plan) /\ round \in 1..Len(plan[bracket])
      BY <1>1, <1>2, <2>3 DEF Types, Placed, Rounds
    <3>2. TurnsLeft = T[Len(plan)] - (T[bracket - 1] + round)
      BY <1>3, <2>3
    <3>3. T[bracket] \in Nat /\ T[bracket - 1] \in Nat /\ T[Len(plan)] \in Nat
          /\ T[bracket - 1] + round <= T[bracket] /\ T[bracket] <= T[Len(plan)]
      BY <1>2, <3>1
    <3>. QED BY <3>1, <3>2, <3>3
  <2>. QED BY <1>1, <2>1, <2>2, <2>3 DEF Types
<1>5. TotalTrials(plan) \in Nat
  <2>1. Len(plan) \in 0..Len(plan)
    BY <1>2
  <2>. QED BY <1>1, <2>1, BracketSums DEF Types, TotalTrials
<1>6. trialNumber \in Nat /\ trialNumber <= TotalTrials(plan)
  BY <1>1 DEF Types, Numbered
<1>7. Many("reserving") \in Nat /\ Many("running") \in Nat
  BY <1>1, InFacts DEF Types
<1>8. Ahead \in Nat
  <2>. DEFINE L == TurnsLeft
              N == TotalTrials(plan)
              x == Many("reserving")
              y == Many("running")
  <2>1. L \in Nat /\ N \in Nat /\ x \in Nat /\ y \in Nat
    BY <1>4, <1>5, <1>7
  <2>2. Ahead = L + 3 * (N - trialNumber) + 2 * x + y
    BY DEF Ahead
  <2>. HIDE DEF L, N, x, y
  <2>3. N - trialNumber \in Nat
    BY <1>6, <2>1 DEF N
  <2>. QED BY <2>1, <2>2, <2>3
<1>. QED BY <1>4, <1>5, <1>6, <1>7, <1>8

LEMMA AheadCounted == IInv /\ phase # "failed" => Ahead \in Nat
BY AheadType

LEMMA AheadAfter ==
  ASSUME IInv', phase' # "failed"
  PROVE  Ahead' \in Nat
<1>1. (IInv /\ phase # "failed" => Ahead \in Nat)'
  BY AheadCounted, PTL
<1>. QED BY <1>1

LEMMA TrialDescends ==
  ASSUME IInv, NEW i \in 1..Len(pool), Trial(i)
  PROVE  Ahead' < Ahead
<1>. DEFINE L == TurnsLeft
            N == TotalTrials(plan)
            x == Many("reserving")
            y == Many("running")
            L1 == TurnsLeft'
            N1 == TotalTrials(plan)'
            x1 == Many("reserving")'
            y1 == Many("running")'
<1>1. TrialsOf(pool) /\ trialNumber \in Nat /\ phase = "round"
  BY TrialOfRound DEF IInv, Types
<1>2. L \in Nat /\ N \in Nat /\ x \in Nat /\ y \in Nat
  BY <1>1, AheadType
<1>3. L1 = L /\ N1 = N
  BY TrialLeaves DEF Beside, TurnsLeft
<1>4. Ahead = L + 3 * (N - trialNumber) + 2 * x + y
      /\ Ahead' = L1 + 3 * (N1 - trialNumber') + 2 * x1 + y1
  BY DEF Ahead
<1>5. CASE Take(i)
  <2>1. trialNumber' = trialNumber + 1 /\ pool[i].state = "waiting"
    BY <1>5 DEF Take
  <2>2. TrialsOf(pool') /\ Marked(i, IF stopped THEN "skipped" ELSE "reserving", trialNumber, pool[i].value)
    BY <1>1, <1>5, Marks
  <2>3. x1 <= x + 1 /\ x1 \in Nat /\ y1 = y
    <3>1. CASE stopped
      <4>1. Marked(i, "skipped", trialNumber, pool[i].value)
        BY <2>2, <3>1
      <4>2. x1 = x /\ y1 = y
        BY <1>1, <2>1, <2>2, <4>1, MarkedIn
      <4>. HIDE DEF x, y, x1, y1
      <4>. QED BY <1>2, <4>2
    <3>2. CASE ~stopped
      <4>1. Marked(i, "reserving", trialNumber, pool[i].value)
        BY <2>2, <3>2
      <4>2. x1 = x + 1
        BY <1>1, <2>1, <2>2, <4>1, MarkedIn
      <4>3. y1 = y
        BY <1>1, <2>1, <2>2, <4>1, MarkedIn
      <4>. HIDE DEF x, y, x1, y1
      <4>. QED BY <1>2, <4>2, <4>3
    <3>. QED BY <3>1, <3>2
  <2>4. trialNumber' = trialNumber + 1
    BY <2>1
  <2>. HIDE DEF L, N, x, y, L1, N1, x1, y1
  <2>5. Ahead' = L + 3 * (N - (trialNumber + 1)) + 2 * x1 + y
    BY <1>3, <1>4, <2>3, <2>4
  <2>6. 3 * (N - (trialNumber + 1)) = 3 * (N - trialNumber) - 3 /\ 3 * (N - trialNumber) \in Int
    BY <1>1, <1>2
  <2>. DEFINE z == 3 * (N - trialNumber)
  <2>7. Ahead' = L + (z - 3) + 2 * x1 + y /\ Ahead = L + z + 2 * x + y /\ z \in Int
    BY <1>4, <2>5, <2>6
  <2>. HIDE DEF z
  <2>8. L + (z - 3) + 2 * x1 + y < L + z + 2 * x + y
    BY ONLY <1>2, <2>3, <2>7
  <2>. QED BY ONLY <2>7, <2>8
<1>6. CASE Reserve(i)
  <2>1. trialNumber' = trialNumber /\ pool[i].state = "reserving"
    BY <1>6 DEF Reserve
  <2>2. TrialsOf(pool') /\ Marked(i, "running", pool[i].number, pool[i].value)
    BY <1>1, <1>6, Marks
  <2>3. x1 = x - 1
    BY <1>1, <2>1, <2>2, MarkedIn
  <2>4. y1 = y + 1
    BY <1>1, <2>1, <2>2, MarkedIn
  <2>. HIDE DEF L, N, x, y, L1, N1, x1, y1
  <2>. QED BY <1>1, <1>2, <1>3, <1>4, <2>1, <2>3, <2>4
<1>7. ASSUME NEW s \in {"completed", "missed"}, NEW v, TrialsOf(pool'), pool[i].state = "running",
             Marked(i, s, pool[i].number, v), trialNumber' = trialNumber
      PROVE  Ahead' < Ahead
  <2>1. x1 = x
    BY <1>1, <1>7, MarkedIn
  <2>2. y1 = y - 1
    BY <1>1, <1>7, MarkedIn
  <2>. HIDE DEF L, N, x, y, L1, N1, x1, y1
  <2>. QED BY <1>1, <1>2, <1>3, <1>4, <1>7, <2>1, <2>2
<1>8. CASE Miss(i)
  <2>1. TrialsOf(pool') /\ Marked(i, "missed", pool[i].number, pool[i].value)
    BY <1>1, <1>8, Marks
  <2>2. pool[i].state = "running" /\ trialNumber' = trialNumber
    BY <1>8 DEF Miss
  <2>3. "missed" \in {"completed", "missed"}
    OBVIOUS
  <2>. HIDE DEF L, N, x, y, L1, N1, x1, y1
  <2>. QED BY <1>7, <2>1, <2>2, <2>3
<1>9. ASSUME NEW v \in Values, Complete(i, v) PROVE Ahead' < Ahead
  <2>1. TrialsOf(pool') /\ Marked(i, "completed", pool[i].number, v)
    BY <1>1, <1>9, Marks
  <2>2. pool[i].state = "running" /\ trialNumber' = trialNumber
    BY <1>9 DEF Complete
  <2>3. "completed" \in {"completed", "missed"}
    OBVIOUS
  <2>. HIDE DEF L, N, x, y, L1, N1, x1, y1
  <2>. QED BY <1>7, <2>1, <2>2, <2>3
<1>. QED BY <1>5, <1>6, <1>8, <1>9 DEF Trial

(* A turn leaves the pool with nobody in it, or with trials that wait.      *)
LEMMA TurnDescends ==
  ASSUME IInv, phase # "failed", UNCHANGED <<plan, trialNumber>>, TurnsLeft' < TurnsLeft, TurnsLeft' \in Int,
         \A j \in 1..Len(pool) : pool[j].state \notin {"reserving", "running"},
         TrialsOf(pool'), \A j \in 1..Len(pool') : pool'[j].state = "waiting"
  PROVE  Ahead' < Ahead
<1>. DEFINE L == TurnsLeft
            N == TotalTrials(plan)
            x == Many("reserving")
            y == Many("running")
            L1 == TurnsLeft'
            N1 == TotalTrials(plan)'
            x1 == Many("reserving")'
            y1 == Many("running")'
<1>1. L \in Nat /\ N \in Nat /\ trialNumber \in Nat
  BY AheadType
<1>2. TrialsOf(pool) /\ "reserving" \in {"reserving", "running"} /\ "running" \in {"reserving", "running"}
  BY DEF IInv, Types
<1>3. x = 0 /\ y = 0 /\ x1 = 0 /\ y1 = 0
  BY <1>2, NobodyIn
<1>4. Ahead = L + 3 * (N - trialNumber) + 2 * x + y
      /\ Ahead' = L1 + 3 * (N1 - trialNumber') + 2 * x1 + y1
  BY DEF Ahead
<1>5. N1 = N /\ L1 < L /\ L1 \in Int
  OBVIOUS
<1>. HIDE DEF L, N, x, y, L1, N1, x1, y1
<1>6. Ahead = L + 3 * (N - trialNumber) /\ Ahead' = L1 + 3 * (N - trialNumber)
  BY <1>1, <1>3, <1>4, <1>5
<1>. DEFINE z == 3 * (N - trialNumber)
<1>7. Ahead = L + z /\ Ahead' = L1 + z /\ z \in Int
  BY <1>1, <1>6
<1>. HIDE DEF z
<1>8. L1 + z < L + z
  BY ONLY <1>1, <1>5, <1>7
<1>. QED BY ONLY <1>7, <1>8

LEMMA GoDescends ==
  ASSUME IInv, Go
  PROVE  Ahead \in Nat /\ Ahead' \in Nat /\ Ahead' < Ahead
<1>1. Types /\ Placed /\ Numbered
  BY DEF IInv
<1>2. TrialsOf(pool) /\ DOMAIN pool = 1..Len(pool)
  BY <1>1, PoolFacts DEF Types
<1>. DEFINE T == Turns(plan)
<1>3. /\ Len(plan) \in Nat \ {0}
      /\ \A b \in 0..Len(plan) : T[b] \in Nat
      /\ \A b \in 1..Len(plan) :
           /\ Len(plan[b]) \in Nat \ {0}
           /\ T[b] = T[b - 1] + (Len(plan[b]) + 1)
           /\ T[b] <= T[Len(plan)]
  BY <1>1, TurnSums DEF Types
<1>4. TurnsLeft = T[Len(plan)] - (T[bracket - 1] + IF phase = "round" THEN round ELSE 0)
  BY DEF TurnsLeft
<1>5. plan' = plan =>
        TurnsLeft' = T[Len(plan)] - (T[bracket' - 1] + IF phase' = "round" THEN round' ELSE 0)
  BY DEF TurnsLeft
<1>. HIDE DEF T
<1>6. phase # "failed"
  <2>1. ASSUME phase = "failed" PROVE FALSE
    <3>1. pool = <<>> /\ DOMAIN pool = {}
      BY <1>1, <2>1 DEF Placed
    <3>. QED BY <2>1, <3>1 DEF Go, StartBracket, NextRound, CompleteBracket
  <2>. QED BY <2>1
<1>7. IInv'
  <2>1. [Next]_vars
    BY DEF Next
  <2>. QED BY <2>1, NextPreserves
<1>8. TrialsOf(pool') /\ TrialsOf(pool)
  BY <1>2, <1>7 DEF IInv, Types
<1>9. CASE StartBracket
  <2>1. /\ phase = "bracket" /\ bracket \in 1..Len(plan) /\ phase' = "round" /\ round' = 1 /\ bracket' = bracket
        /\ pool = <<>> /\ Len(pool) = 0 /\ UNCHANGED <<plan, trialNumber>>
    BY <1>1, <1>9, EmptyPool DEF StartBracket, Types, Placed, planVars
  <2>2. TurnsLeft = T[Len(plan)] - (T[bracket - 1] + 0)
    BY <1>4, <2>1
  <2>3. TurnsLeft' = T[Len(plan)] - (T[bracket - 1] + 1)
    BY <1>5, <2>1
  <2>4. bracket - 1 \in 0..Len(plan) /\ Len(plan) \in 0..Len(plan)
    BY <1>3, <2>1
  <2>5. TurnsLeft' < TurnsLeft /\ TurnsLeft' \in Int
    BY <1>3, <2>2, <2>3, <2>4
  <2>6. \A j \in 1..Len(pool') : pool'[j].state = "waiting"
    <3>1. PICK configs : pool' = Pooled(configs)
      BY <1>9 DEF StartBracket
    <3>2. DOMAIN pool' = 1..Len(pool')
      BY <1>8 DEF TrialsOf
    <3>. QED BY <3>1, <3>2 DEF Pooled, Waiting
  <2>7. Ahead' < Ahead
    BY <1>6, <1>8, <2>1, <2>5, <2>6, TurnDescends
  <2>8. phase' # "failed"
    BY <2>1
  <2>. QED BY <1>6, <1>7, <2>7, <2>8, AheadType, AheadAfter
<1>10. CASE NextRound
  <2>1. /\ phase = "round" /\ Settled /\ phase' = "round" /\ round' = round + 1 /\ bracket' = bracket
        /\ UNCHANGED <<plan, trialNumber>>
    BY <1>10 DEF NextRound, planVars
  <2>2. bracket \in 1..Len(plan) /\ round \in Nat
    BY <1>1, <2>1 DEF Types, Placed
  <2>3. TurnsLeft = T[Len(plan)] - (T[bracket - 1] + round)
    BY <1>4, <2>1
  <2>4. TurnsLeft' = T[Len(plan)] - (T[bracket - 1] + (round + 1))
    BY <1>5, <2>1
  <2>5. bracket - 1 \in 0..Len(plan) /\ Len(plan) \in 0..Len(plan)
    BY <1>3, <2>2
  <2>6. TurnsLeft' < TurnsLeft /\ TurnsLeft' \in Int
    <3>1. T[bracket - 1] \in Nat /\ T[Len(plan)] \in Nat
      BY <1>3, <2>5
    <3>. QED BY <2>2, <2>3, <2>4, <3>1
  <2>7. \A j \in 1..Len(pool') : pool'[j].state = "waiting"
    <3>1. PICK configs : pool' = Pooled(configs)
      BY <1>10 DEF NextRound
    <3>2. DOMAIN pool' = 1..Len(pool')
      BY <1>8 DEF TrialsOf
    <3>. QED BY <3>1, <3>2 DEF Pooled, Waiting
  <2>8. \A j \in 1..Len(pool) : pool[j].state \notin {"reserving", "running"}
    BY <1>2, <2>1 DEF Settled, In
  <2>9. Ahead' < Ahead
    BY <1>6, <1>8, <2>1, <2>6, <2>7, <2>8, TurnDescends
  <2>10. phase' # "failed"
    BY <2>1
  <2>. QED BY <1>6, <1>7, <2>9, <2>10, AheadType, AheadAfter
<1>11. CASE CompleteBracket
  <2>1. /\ phase = "round" /\ Settled /\ phase' \in {"ended", "bracket"} /\ bracket' = bracket + 1
        /\ round = Len(plan[bracket]) /\ pool' = <<>> /\ UNCHANGED <<plan, trialNumber>>
    BY <1>11 DEF CompleteBracket, planVars, Rounds
  <2>2. bracket \in 1..Len(plan) /\ round \in Nat
    BY <1>1, <2>1 DEF Types, Placed
  <2>3. TurnsLeft = T[Len(plan)] - (T[bracket - 1] + round)
    BY <1>4, <2>1
  <2>4. TurnsLeft' = T[Len(plan)] - (T[bracket] + 0)
    <3>1. (bracket + 1) - 1 = bracket /\ phase' # "round"
      BY <2>1, <2>2
    <3>2. TurnsLeft' = T[Len(plan)] - (T[(bracket + 1) - 1] + 0)
      BY <1>5, <2>1, <3>1
    <3>. QED BY <3>1, <3>2
  <2>5. bracket - 1 \in 0..Len(plan) /\ bracket \in 0..Len(plan) /\ Len(plan) \in 0..Len(plan)
    BY <1>3, <2>2
  <2>6. TurnsLeft' < TurnsLeft /\ TurnsLeft' \in Int
    <3>1. T[bracket] = T[bracket - 1] + (round + 1)
      BY <1>3, <2>1, <2>2
    <3>2. T[bracket] \in Nat /\ T[bracket - 1] \in Nat /\ T[Len(plan)] \in Nat
      BY <1>3, <2>5
    <3>. QED BY <2>2, <2>3, <2>4, <3>1, <3>2
  <2>7. \A j \in 1..Len(pool') : pool'[j].state = "waiting"
    BY <2>1, EmptyPool
  <2>8. \A j \in 1..Len(pool) : pool[j].state \notin {"reserving", "running"}
    BY <1>2, <2>1 DEF Settled, In
  <2>9. Ahead' < Ahead
    BY <1>6, <1>8, <2>1, <2>6, <2>7, <2>8, TurnDescends
  <2>10. phase' # "failed"
    BY <2>1
  <2>. QED BY <1>6, <1>7, <2>9, <2>10, AheadType, AheadAfter
<1>12. ASSUME NEW i \in DOMAIN pool, Trial(i) PROVE Ahead \in Nat /\ Ahead' \in Nat /\ Ahead' < Ahead
  <2>1. i \in 1..Len(pool)
    BY <1>2, <1>12
  <2>2. Ahead' < Ahead
    BY <1>12, <2>1, TrialDescends
  <2>3. phase' # "failed"
    BY <1>6, <1>12, TrialLeaves DEF Beside
  <2>. QED BY <1>6, <1>7, <2>2, <2>3, AheadType, AheadAfter
<1>. QED BY <1>9, <1>10, <1>11, <1>12 DEF Go

(* Every step of the schedule, whatever it is and whatever stops it, leaves  *)
(* less of the plan ahead: no loop of rounds, refills or skipped trials.     *)
(* That is what ScheduleEnds rests on beside fairness.                       *)
THEOREM ScheduleDescends == Spec => [][Go => Ahead \in Nat /\ Ahead' \in Nat /\ Ahead' < Ahead]_vars
<1>1. IInv /\ [Next]_vars => [Go => Ahead \in Nat /\ Ahead' \in Nat /\ Ahead' < Ahead]_vars
  BY GoDescends
<1>2. Spec => []IInv
  BY AlwaysIInv
<1>. QED BY <1>1, <1>2, PTL DEF Spec

(* The first trial in a state is the next that the pool takes, or that gets  *)
(* the study's permit.                                                      *)
First(state, i) == pool[i].state = state /\ \A j \in 1..(i - 1) : pool[j].state # state

(* The guards of the schedule's steps.  What a guard lets happen always has  *)
(* an outcome: of the two ways to suggest one is always allowed.            *)
CanGo ==
  \/ phase = "bracket" /\ bracket <= Len(plan)
  \/ phase = "round" /\ Settled /\ round <= Len(Rounds)
  \/ \E i \in DOMAIN pool :
       \/ pool[i].state = "running"
       \/ First("reserving", i)
       \/ phase = "round" /\ First("waiting", i) /\ Cardinality(Active) < Concurrency

LEMMA FirstExists ==
  ASSUME TrialsOf(pool), NEW i \in DOMAIN pool
  PROVE  \E k \in DOMAIN pool : First(pool[i].state, k)
<1>. DEFINE S == {k \in 1..Len(pool) : pool[k].state = pool[i].state}
<1>1. Len(pool) \in Nat /\ DOMAIN pool = 1..Len(pool)
  BY PoolFacts
<1>2. S \in SUBSET Nat /\ S # {}
  BY <1>1
<1>3. PICK k : k = Min(S)
  OBVIOUS
<1>4. k \in S /\ \A m \in S : k <= m
  BY <1>2, <1>3, MinIsLeast
<1>5. k \in DOMAIN pool /\ pool[k].state = pool[i].state
  BY <1>1, <1>4
<1>6. ASSUME NEW j \in 1..(k - 1) PROVE pool[j].state # pool[i].state
  <2>1. j \in 1..Len(pool) /\ ~(k <= j)
    BY <1>1, <1>4
  <2>. QED BY <1>4, <2>1
<1>. QED BY <1>5, <1>6 DEF First

LEMMA AlwaysCanGo ==
  ASSUME IInv, phase \in {"bracket", "round"}
  PROVE  CanGo
<1>1. Types /\ Placed /\ TrialsOf(pool)
  BY DEF IInv, Types
<1>2. CASE phase = "bracket"
  BY <1>1, <1>2 DEF Placed, CanGo
<1>3. CASE phase = "round" /\ Settled
  <2>1. Len(Rounds) \in Nat /\ round \in 1..Len(Rounds)
    BY <1>1, <1>3, RoundSums DEF Types, Placed, Rounds
  <2>2. round <= Len(Rounds)
    BY <2>1
  <2>. QED BY <1>3, <2>2 DEF CanGo
<1>4. CASE phase = "round" /\ \E i \in DOMAIN pool : pool[i].state = "running"
  BY <1>4 DEF CanGo
<1>5. CASE phase = "round" /\ \E i \in DOMAIN pool : pool[i].state = "reserving"
  <2>1. PICK i \in DOMAIN pool : pool[i].state = "reserving"
    BY <1>5
  <2>2. PICK k \in DOMAIN pool : First("reserving", k)
    BY <1>1, <2>1, FirstExists
  <2>. QED BY <2>2 DEF CanGo
<1>6. CASE /\ phase = "round" /\ ~Settled
           /\ \A i \in DOMAIN pool : pool[i].state \notin {"reserving", "running"}
  <2>1. PICK i \in DOMAIN pool : pool[i].state = "waiting"
    BY <1>6 DEF Settled, In
  <2>2. PICK k \in DOMAIN pool : First("waiting", k)
    BY <1>1, <2>1, FirstExists
  <2>3. Active = {}
    BY <1>6 DEF Active, In
  <2>4. Cardinality(Active) < Concurrency
    BY <2>3, FS_EmptySet, BracketsAssumption
  <2>. QED BY <1>6, <2>2, <2>4 DEF CanGo
<1>. QED BY <1>2, <1>3, <1>4, <1>5, <1>6

(* Until it has ended or failed a schedule always has a step to take: nobody *)
(* waits for a place in the pool, for the permit or for a round's end that   *)
(* does not come.  With ScheduleDescends, all that ScheduleEnds still needs  *)
(* is that steps that can be taken are.                                     *)
THEOREM NeverStuck == Spec => [](phase \in {"bracket", "round"} => CanGo)
<1>1. IInv => (phase \in {"bracket", "round"} => CanGo)
  BY AlwaysCanGo
<1>2. Spec => []IInv
  BY AlwaysIInv
<1>. QED BY <1>1, <1>2, PTL
===============================================================================
