--------------------------------- MODULE Sums ---------------------------------
(***************************************************************************)
(* Sums of sizes, which stream headers declare and readers check: the      *)
(* models define them by recursive functions on the natural numbers.  Here *)
(* is what such a function is, whatever the sizes are; a least number for  *)
(* which it were not so stands in for an induction.  With it come the      *)
(* inductions and the recursions that the readers of transforms need, for  *)
(* sets and functions, not for operators.                                  *)
(***************************************************************************)
EXTENDS Naturals, NaturalsInduction, WellFoundedInduction, TLAPS

Below == {pair \in Nat \X Nat : pair[1] < pair[2]}

(* There is no endless descent among the natural numbers. *)
LEMMA BelowWellFounded == IsWellFoundedOn(Below, Nat)
<1>1. OpToRel(<, Nat) = Below
  BY Zenon DEF OpToRel, Below
<1>2. IsWellFoundedOn(OpToRel(<, Nat), Nat)
  BY Zenon, NatLessThanWellFounded
<1>3. QED
  BY Zenon, <1>1, <1>2

(* A non-empty set of numbers has a least one. *)
LEMMA Least ==
  ASSUME NEW S \in SUBSET Nat, S # {}
  PROVE  \E n \in S : \A m \in S : n <= m
<1>1. PICK n \in S : \A m \in S : ~ (<<m, n>> \in Below)
  BY Zenon, BelowWellFounded, WFMin
<1>2. ASSUME NEW m \in S PROVE n <= m
  <2>1. n \in Nat /\ m \in Nat
    OBVIOUS
  <2>2. ~ (m < n)
    BY <1>1, <2>1 DEF Below
  <2>3. QED
    BY <2>1, <2>2
<1>3. QED
  BY <1>2

--------------------------------------------------------------------------------
(* The equation of sum[i \in Nat] == IF i = 0 THEN 0 ELSE sum[i - 1] + list[i]. *)
IsSum(f, list) ==
  f = [i \in Nat |-> IF i = 0 THEN 0 ELSE f[i - 1] + list[i]]

(* The same up to k, which exists by what precedes k. *)
IsPartOfSum(f, list, k) ==
  f = [i \in 0..k |-> IF i = 0 THEN 0 ELSE f[i - 1] + list[i]]

(* Each partial sum adds one size to the one before. *)
LEMMA PartStep ==
  ASSUME NEW k \in Nat, NEW list, NEW f, IsPartOfSum(f, list, k)
  PROVE  f[0] = 0 /\ \A n \in Nat : n < k => f[n + 1] = f[n] + list[n + 1]
<1>1. ASSUME NEW i \in 0..k
      PROVE  f[i] = IF i = 0 THEN 0 ELSE f[i - 1] + list[i]
  BY Zenon DEF IsPartOfSum
<1>2. f[0] = 0
  BY <1>1
<1>3. ASSUME NEW n \in Nat, n < k PROVE f[n + 1] = f[n] + list[n + 1]
  <2>1. n + 1 \in 0..k /\ n + 1 # 0 /\ (n + 1) - 1 = n
    BY <1>3
  <2>2. f[n + 1] = f[(n + 1) - 1] + list[n + 1]
    BY <1>1, <2>1
  <2>3. QED
    BY <2>1, <2>2
<1>4. QED
  BY <1>2, <1>3

(* Lists that begin with the same n sizes have the same sum of them. *)
LEMMA PartsAgree ==
  ASSUME NEW j \in Nat, NEW k \in Nat, NEW n \in Nat, n <= j, n <= k,
         NEW one, NEW other, \A i \in 1..n : one[i] = other[i],
         NEW f, NEW g, IsPartOfSum(f, one, j), IsPartOfSum(g, other, k)
  PROVE  f[n] = g[n]
<1> DEFINE Bad == {m \in 0..n : f[m] # g[m]}
<1>1. SUFFICES ASSUME Bad # {} PROVE FALSE
  OBVIOUS
<1>2. PICK m \in Bad : \A other_m \in Bad : m <= other_m
  <2>1. Bad \in SUBSET Nat
    OBVIOUS
  <2> HIDE DEF Bad
  <2>2. QED
    BY <2>1, <1>1, Least
<1>3. m \in 0..n /\ f[m] # g[m]
  OBVIOUS
<1>4. m # 0
  BY <1>3, PartStep
<1>5. m - 1 \in Nat /\ m - 1 < j /\ m - 1 < k /\ (m - 1) + 1 = m /\ m \in 1..n
  BY <1>3, <1>4
<1>6. f[m - 1] = g[m - 1]
  BY <1>2, <1>3, <1>5
<1>7. f[(m - 1) + 1] = f[m - 1] + one[(m - 1) + 1]
  BY <1>5, PartStep
<1>8. g[(m - 1) + 1] = g[m - 1] + other[(m - 1) + 1]
  BY <1>5, PartStep
<1>9. QED
  BY <1>3, <1>5, <1>6, <1>7, <1>8

(* There is a partial sum of every length. *)
LEMMA PartsExist ==
  ASSUME NEW list PROVE \A k \in Nat : \E f : IsPartOfSum(f, list, k)
<1> DEFINE Bad == {k \in Nat : ~ \E f : IsPartOfSum(f, list, k)}
<1>1. SUFFICES ASSUME Bad # {} PROVE FALSE
  OBVIOUS
<1>2. PICK k \in Bad : \A other \in Bad : k <= other
  <2>1. Bad \in SUBSET Nat
    OBVIOUS
  <2> HIDE DEF Bad
  <2>2. QED
    BY <2>1, <1>1, Least
<1>3. k \in Nat /\ ~ \E f : IsPartOfSum(f, list, k)
  OBVIOUS
<1>4. CASE k = 0
  <2> DEFINE f == [i \in 0..0 |-> 0]
  <2>1. \A i \in 0..0 : i = 0
    OBVIOUS
  <2>2. IsPartOfSum(f, list, 0)
    BY <2>1 DEF IsPartOfSum
  <2>3. QED
    BY <1>3, <1>4, <2>2
<1>5. CASE k # 0
  <2>1. k - 1 \in Nat /\ k - 1 \notin Bad
    BY <1>2, <1>3, <1>5
  <2>2. PICK g : IsPartOfSum(g, list, k - 1)
    BY <2>1
  <2> DEFINE f == [i \in 0..k |-> IF i = k THEN g[k - 1] + list[k] ELSE g[i]]
  <2>3. \A i \in 0..(k - 1) : g[i] = IF i = 0 THEN 0 ELSE g[i - 1] + list[i]
    BY <2>2, Zenon DEF IsPartOfSum
  <2>4. \A i \in 0..(k - 1) : f[i] = g[i]
    BY <2>1
  <2>5. f[k] = g[k - 1] + list[k]
    BY <2>1
  <2>6. f = [i \in 0..k |-> f[i]]
    OBVIOUS
  <2> HIDE DEF f
  <2>7. ASSUME NEW i \in 0..k PROVE f[i] = IF i = 0 THEN 0 ELSE f[i - 1] + list[i]
    <3>1. CASE i = k
      <4>1. k - 1 \in 0..(k - 1)
        BY <2>1
      <4>2. QED
        BY <3>1, <4>1, <2>4, <2>5, <1>5
    <3>2. CASE i # k
      <4>1. i \in 0..(k - 1) /\ (i # 0 => i - 1 \in 0..(k - 1))
        BY <3>2, <2>1
      <4>2. QED
        BY <4>1, <2>3, <2>4
    <3>3. QED
      BY <3>1, <3>2
  <2>8. IsPartOfSum(f, list, k)
    BY <2>6, <2>7 DEF IsPartOfSum
  <2>9. QED
    BY <2>8, <1>3
<1>6. QED
  BY <1>4, <1>5

(* There is such a function, and it adds the sizes one by one. *)
LEMMA SumExists ==
  ASSUME NEW list PROVE \E f : IsSum(f, list)
<1> DEFINE part(k) == CHOOSE f : IsPartOfSum(f, list, k)
           whole == [k \in Nat |-> part(k)[k]]
<1>1. \A k \in Nat : IsPartOfSum(part(k), list, k)
  BY PartsExist, Zenon
<1> HIDE DEF part
<1>2. ASSUME NEW i \in Nat
      PROVE  whole[i] = IF i = 0 THEN 0 ELSE whole[i - 1] + list[i]
  <2>1. CASE i = 0
    BY <2>1, <1>1, PartStep
  <2>2. CASE i # 0
    <3>1. i - 1 \in Nat /\ i - 1 < i /\ (i - 1) + 1 = i
      BY <2>2
    <3>2. part(i)[(i - 1) + 1] = part(i)[i - 1] + list[(i - 1) + 1]
      BY <3>1, <1>1, PartStep
    <3>3. part(i)[i - 1] = part(i - 1)[i - 1]
      <4>1. PICK f : f = part(i)
        OBVIOUS
      <4>2. PICK g : g = part(i - 1)
        OBVIOUS
      <4>3. PICK j \in Nat : j = i - 1
        BY <3>1
      <4>4. IsPartOfSum(f, list, i) /\ IsPartOfSum(g, list, j) /\ j <= i
        BY <1>1, <3>1, <4>1, <4>2, <4>3
      <4>5. f[j] = g[j]
        <5>1. PICK same : same = list
          OBVIOUS
        <5>2. j <= j /\ \A m \in 1..j : same[m] = list[m]
          BY <4>3, <5>1
        <5>3. IsPartOfSum(f, same, i) /\ IsPartOfSum(g, list, j) /\ j <= i
          BY <4>4, <5>1
        <5>4. QED
          BY ONLY <5>2, <5>3, j \in Nat, i \in Nat, PartsAgree
      <4>6. QED
        BY <4>1, <4>2, <4>3, <4>5
    <3>4. QED
      BY <3>1, <3>2, <3>3, <2>2
  <2>3. QED
    BY <2>1, <2>2
<1>3. IsSum(whole, list)
  <2>1. whole = [i \in Nat |-> whole[i]]
    OBVIOUS
  <2> HIDE DEF whole
  <2>2. QED
    BY <2>1, <1>2 DEF IsSum
<1>4. QED
  BY <1>3

(* What sums are used for: to add one size at a time. *)
Adds(f, list) ==
  f[0] = 0 /\ \A n \in Nat : f[n + 1] = f[n] + list[n + 1]

(* A sum over a list adds its sizes one after the other. *)
LEMMA SumAdds ==
  ASSUME NEW f, NEW list, IsSum(f, list) PROVE Adds(f, list)
<1>1. \A i \in Nat : f[i] = IF i = 0 THEN 0 ELSE f[i - 1] + list[i]
  BY Zenon DEF IsSum
<1>2. ASSUME NEW n \in Nat PROVE f[n + 1] = f[n] + list[n + 1]
  <2>1. n + 1 \in Nat /\ n + 1 # 0 /\ (n + 1) - 1 = n
    OBVIOUS
  <2>2. f[n + 1] = f[(n + 1) - 1] + list[n + 1]
    BY <2>1, <1>1
  <2>3. QED
    BY <2>1, <2>2
<1>3. f[0] = 0
  BY <1>1
<1>4. QED
  BY <1>2, <1>3 DEF Adds

(* Only the first n sizes count. *)
LEMMA SumOfSame ==
  ASSUME NEW one, NEW other, NEW n \in Nat, \A i \in 1..n : one[i] = other[i],
         NEW f, NEW g, Adds(f, one), Adds(g, other)
  PROVE  f[n] = g[n]
<1> DEFINE Bad == {m \in 0..n : f[m] # g[m]}
<1>1. SUFFICES ASSUME Bad # {} PROVE FALSE
  OBVIOUS
<1>2. PICK m \in Bad : \A m_2 \in Bad : m <= m_2
  <2>1. Bad \in SUBSET Nat
    OBVIOUS
  <2> HIDE DEF Bad
  <2>2. QED
    BY <2>1, <1>1, Least
<1>3. m \in 0..n /\ f[m] # g[m]
  OBVIOUS
<1>4. m # 0
  BY <1>3 DEF Adds
<1>5. m - 1 \in Nat /\ (m - 1) + 1 = m /\ m \in 1..n /\ m - 1 \in 0..n
  BY <1>3, <1>4
<1>6. f[m - 1] = g[m - 1]
  BY <1>2, <1>5
<1>7. f[(m - 1) + 1] = f[m - 1] + one[(m - 1) + 1]
  BY <1>5 DEF Adds
<1>8. g[(m - 1) + 1] = g[m - 1] + other[(m - 1) + 1]
  BY <1>5 DEF Adds
<1>9. QED
  BY <1>3, <1>5, <1>6, <1>7, <1>8

(* Longer prefixes weigh at least as much. *)
LEMMA SumGrows ==
  ASSUME NEW list, NEW n \in Nat, \A i \in 1..n : list[i] \in Nat,
         NEW f, Adds(f, list)
  PROVE  \A m \in 0..n : f[m] \in Nat /\ f[m] <= f[n]
<1> DEFINE Typed == \A m \in 0..n : f[m] \in Nat
<1>1. Typed
  <2> DEFINE Bad == {m \in 0..n : f[m] \notin Nat}
  <2>1. SUFFICES ASSUME Bad # {} PROVE FALSE
    OBVIOUS
  <2>2. PICK m \in Bad : \A m_2 \in Bad : m <= m_2
    <3>1. Bad \in SUBSET Nat
      OBVIOUS
    <3> HIDE DEF Bad
    <3>2. QED
      BY <3>1, <2>1, Least
  <2>3. m \in 0..n /\ f[m] \notin Nat
    OBVIOUS
  <2>4. m # 0
    BY <2>3 DEF Adds
  <2>5. m - 1 \in Nat /\ (m - 1) + 1 = m /\ m \in 1..n /\ m - 1 \in 0..n
    BY <2>3, <2>4
  <2>6. f[m - 1] \in Nat
    BY <2>2, <2>5
  <2>7. f[(m - 1) + 1] = f[m - 1] + list[(m - 1) + 1]
    BY <2>5 DEF Adds
  <2>8. QED
    BY <2>3, <2>5, <2>6, <2>7
<1> DEFINE Wrong == {d \in 0..n : ~ (f[n - d] <= f[n])}
<1>2. Wrong = {}
  <2>1. SUFFICES ASSUME Wrong # {} PROVE FALSE
    OBVIOUS
  <2>2. PICK d \in Wrong : \A d_2 \in Wrong : d <= d_2
    <3>1. Wrong \in SUBSET Nat
      OBVIOUS
    <3> HIDE DEF Wrong
    <3>2. QED
      BY <3>1, <2>1, Least
  <2>3. d \in 0..n /\ ~ (f[n - d] <= f[n])
    OBVIOUS
  <2>4. d # 0
    <3>1. n - 0 = n /\ f[n] \in Nat
      BY <1>1
    <3>2. QED
      BY <3>1, <2>3
  <2>5. /\ d - 1 \in 0..n /\ n - d \in 0..n /\ n - (d - 1) \in 1..n
        /\ (n - d) + 1 = n - (d - 1)
    BY <2>3, <2>4
  <2>6. f[n - (d - 1)] <= f[n]
    BY <2>2, <2>5
  <2>7. f[(n - d) + 1] = f[n - d] + list[(n - d) + 1]
    BY <2>5 DEF Adds
  <2>8. /\ f[n - d] \in Nat /\ f[n] \in Nat
        /\ f[n - (d - 1)] \in Nat /\ list[n - (d - 1)] \in Nat
    BY <1>1, <2>5
  <2>9. QED
    BY <2>3, <2>5, <2>6, <2>7, <2>8
<1>3. ASSUME NEW m \in 0..n PROVE f[m] <= f[n]
  <2>1. n - m \in 0..n /\ n - (n - m) = m
    OBVIOUS
  <2>2. n - m \notin Wrong
    BY <1>2
  <2>3. QED
    BY <2>1, <2>2
<1>4. QED
  BY <1>1, <1>3
--------------------------------------------------------------------------------
(* What holds of a number if it holds of all smaller ones, holds of all:   *)
(* the set is that of the numbers of which it holds.                       *)
LEMMA Induction ==
  ASSUME NEW S, \A n \in Nat : (\A m \in 0..(n - 1) : m \in S) => n \in S
  PROVE  \A n \in Nat : n \in S
<1> DEFINE Bad == Nat \ S
<1>1. SUFFICES ASSUME Bad # {} PROVE FALSE
  OBVIOUS
<1>2. PICK n \in Bad : \A m \in Bad : n <= m
  <2>1. Bad \in SUBSET Nat
    OBVIOUS
  <2> HIDE DEF Bad
  <2>2. QED
    BY <2>1, <1>1, Least
<1>3. \A m \in 0..(n - 1) : m \in S
  BY <1>2
<1>4. QED
  BY <1>3

(* The same from one number to the next. *)
LEMMA StepInduction ==
  ASSUME NEW S, 0 \in S, \A n \in Nat : n \in S => n + 1 \in S
  PROVE  \A n \in Nat : n \in S
<1>1. ASSUME NEW n \in Nat, \A m \in 0..(n - 1) : m \in S PROVE n \in S
  <2>1. CASE n = 0
    BY <2>1
  <2>2. CASE n # 0
    <3>1. n - 1 \in 0..(n - 1) /\ n - 1 \in Nat /\ (n - 1) + 1 = n
      BY <2>2
    <3>2. n - 1 \in S
      BY <1>1, <3>1
    <3>3. (n - 1) + 1 \in S
      BY <3>1, <3>2
    <3>4. QED
      BY <3>1, <3>3
  <2>3. QED
    BY <2>1, <2>2
<1>2. QED
  BY <1>1, Induction

(* The same up to a number. *)
LEMMA FiniteInduction ==
  ASSUME NEW k \in Nat, NEW S, 0 \in S, \A n \in 0..(k - 1) : n \in S => n + 1 \in S
  PROVE  \A n \in 0..k : n \in S
<1> DEFINE T == {n \in Nat : n <= k => n \in S}
<1>1. 0 \in T
  OBVIOUS
<1>2. \A n \in Nat : n \in T => n + 1 \in T
  OBVIOUS
<1>3. \A n \in Nat : n \in T
  <2> HIDE DEF T
  <2>1. QED
    BY <1>1, <1>2, StepInduction
<1>4. QED
  BY <1>3

(* A recursive function on the natural numbers: each number is a base case *)
(* or refers to one smaller number.                                        *)
Recurs(f, base, start, step, before) ==
  \A n \in DOMAIN f : f[n] = IF n \in base THEN start[n] ELSE step[<<n, f[before[n]]>>]

(* Two such functions agree wherever both are defined. *)
LEMMA RecursionUnique ==
  ASSUME NEW base, NEW start, NEW step, NEW before,
         \A n \in Nat \ base : before[n] \in Nat /\ before[n] < n,
         NEW j \in Nat, NEW k \in Nat, NEW n \in Nat, n <= j, n <= k,
         NEW f, NEW g, DOMAIN f = 0..j, DOMAIN g = 0..k,
         Recurs(f, base, start, step, before), Recurs(g, base, start, step, before)
  PROVE  f[n] = g[n]
<1> DEFINE Bad == {m \in 0..n : f[m] # g[m]}
<1>1. SUFFICES ASSUME Bad # {} PROVE FALSE
  OBVIOUS
<1>2. PICK m \in Bad : \A other \in Bad : m <= other
  <2>1. Bad \in SUBSET Nat
    OBVIOUS
  <2> HIDE DEF Bad
  <2>2. QED
    BY <2>1, <1>1, Least
<1>3. m \in 0..n /\ f[m] # g[m] /\ m \in 0..j /\ m \in 0..k
  OBVIOUS
<1>4. f[m] = IF m \in base THEN start[m] ELSE step[<<m, f[before[m]]>>]
  BY <1>3, Zenon DEF Recurs
<1>5. g[m] = IF m \in base THEN start[m] ELSE step[<<m, g[before[m]]>>]
  BY <1>3, Zenon DEF Recurs
<1>6. CASE m \in base
  BY <1>3, <1>4, <1>5, <1>6
<1>7. CASE m \notin base
  <2>1. before[m] \in 0..n /\ ~ (m <= before[m])
    BY <1>3, <1>7
  <2>2. f[before[m]] = g[before[m]]
    BY <2>1, <1>2
  <2>3. QED
    BY <2>2, <1>3, <1>4, <1>5, <1>7
<1>8. QED
  BY <1>6, <1>7

(* A function that is defined for every number from an earlier one exists. *)
LEMMA RecursionExists ==
  ASSUME NEW V, NEW base, NEW start, NEW step, NEW before,
         \A n \in Nat \ base : before[n] \in Nat /\ before[n] < n,
         \A n \in Nat \cap base : start[n] \in V,
         \A n \in Nat \ base : \A v \in V : step[<<n, v>>] \in V
  PROVE  \E f \in [Nat -> V] : Recurs(f, base, start, step, before)
<1> DEFINE Part(f, k) == f \in [0..k -> V] /\ Recurs(f, base, start, step, before)
           Bad == {k \in Nat : ~ \E f : Part(f, k)}
<1>0. ASSUME NEW f, NEW k, Part(f, k)
      PROVE  \A i \in 0..k : /\ f[i] \in V
                              /\ f[i] = IF i \in base THEN start[i] ELSE step[<<i, f[before[i]]>>]
  <2>1. DOMAIN f = 0..k /\ \A i \in 0..k : f[i] \in V
    BY <1>0
  <2>2. \A i \in DOMAIN f : f[i] = IF i \in base THEN start[i] ELSE step[<<i, f[before[i]]>>]
    BY <1>0, Zenon DEF Recurs
  <2>3. QED
    BY <2>1, <2>2, Zenon
<1>00. \A n \in Nat : n \notin base => before[n] \in 0..(n - 1)
  OBVIOUS
<1> HIDE DEF Part
<1>1. Bad = {}
  <2>1. SUFFICES ASSUME Bad # {} PROVE FALSE
    OBVIOUS
  <2>2. PICK k \in Bad : \A other \in Bad : k <= other
    <3>1. Bad \in SUBSET Nat
      OBVIOUS
    <3> HIDE DEF Bad
    <3>2. QED
      BY <3>1, <2>1, Least
  <2>3. k \in Nat /\ ~ \E f : Part(f, k)
    OBVIOUS
  <2>4. PICK g : \A i \in 0..(k - 1) :
          g[i] \in V /\ g[i] = IF i \in base THEN start[i] ELSE step[<<i, g[before[i]]>>]
    <3>1. CASE k = 0
      BY <3>1
    <3>2. CASE k # 0
      <4>1. k - 1 \in Nat /\ k - 1 \notin Bad
        BY <2>2, <2>3, <3>2
      <4>2. PICK g : Part(g, k - 1)
        BY <4>1
      <4>3. QED
        BY <4>2, <1>0, Zenon
    <3>3. QED
      BY <3>1, <3>2
  <2> DEFINE last == IF k \in base THEN start[k] ELSE step[<<k, g[before[k]]>>]
             f == [i \in 0..k |-> IF i = k THEN last ELSE g[i]]
  <2>5. last \in V
    <3>1. CASE k \in base
      BY <2>3, <3>1
    <3>2. CASE k \notin base
      <4>1. before[k] \in 0..(k - 1)
        BY <2>3, <3>2, <1>00
      <4>2. QED
        BY <4>1, <2>3, <2>4, <3>2
    <3>3. QED
      BY <3>1, <3>2
  <2>6. f[k] = last /\ \A i \in 0..(k - 1) : f[i] = g[i]
    <3> HIDE DEF last
    <3>1. QED
      BY <2>3
  <2>7. f \in [0..k -> V]
    <3>1. ASSUME NEW i \in 0..k PROVE IF i = k THEN last \in V ELSE g[i] \in V
      <4>1. i # k => i \in 0..(k - 1)
        BY <2>3
      <4>2. QED
        BY <4>1, <2>4, <2>5
    <3> HIDE DEF last
    <3>2. QED
      BY <3>1
  <2> HIDE DEF f
  <2>8. ASSUME NEW i \in 0..k
        PROVE  f[i] = IF i \in base THEN start[i] ELSE step[<<i, f[before[i]]>>]
    <3>1. CASE i \in base /\ i = k
      BY <2>6, <3>1
    <3>2. CASE i \in base /\ i # k
      <4>1. i \in 0..(k - 1)
        BY <2>3, <3>2
      <4>2. QED
        BY <4>1, <2>4, <2>6, <3>2
    <3>3. CASE i \notin base
      <4>1. before[i] \in 0..(k - 1)
        BY <2>3, <3>3
      <4>2. f[before[i]] = g[before[i]]
        BY <4>1, <2>6
      <4>3. CASE i = k
        BY <4>2, <4>3, <3>3, <2>6
      <4>4. CASE i # k
        <5>1. i \in 0..(k - 1)
          BY <2>3, <4>4
        <5>2. f[i] = g[i] /\ g[i] = step[<<i, g[before[i]]>>]
          BY <5>1, <2>4, <2>6, <3>3
        <5>3. QED
          BY <5>2, <4>2, <3>3
      <4>5. QED
        BY <4>3, <4>4
    <3>4. QED
      BY <3>1, <3>2, <3>3
  <2>9. DOMAIN f = 0..k
    BY <2>7
  <2>10. Part(f, k)
    BY <2>7, <2>8, <2>9, Zenon DEF Recurs, Part
  <2>11. QED
    BY <2>10, <2>3, Zenon
<1> DEFINE part(k) == CHOOSE f : Part(f, k)
           whole == [k \in Nat |-> part(k)[k]]
<1>2. \A k \in Nat : Part(part(k), k)
  BY <1>1, Zenon
<1> HIDE DEF part
<1>3. ASSUME NEW k \in Nat PROVE whole[k] \in V
  BY <1>2, <1>0, k \in 0..k
<1>4. ASSUME NEW n \in Nat
      PROVE  whole[n] = IF n \in base THEN start[n] ELSE step[<<n, whole[before[n]]>>]
  <2>1. /\ DOMAIN part(n) = 0..n /\ n \in 0..n
        /\ Recurs(part(n), base, start, step, before)
    BY <1>2 DEF Part
  <2>2. part(n)[n] = IF n \in base THEN start[n] ELSE step[<<n, part(n)[before[n]]>>]
    BY <2>1, Zenon DEF Recurs
  <2>3. CASE n \in base
    BY <2>2, <2>3
  <2>4. CASE n \notin base
    <3>1. PICK b \in Nat : b = before[n] /\ b < n
      BY <2>4
    <3>2. DOMAIN part(b) = 0..b /\ Recurs(part(b), base, start, step, before)
      BY <1>2 DEF Part
    <3>3. b <= n /\ b <= b
      BY <3>1
    <3>4. PICK f, g : f = part(n) /\ g = part(b)
      OBVIOUS
    <3>5. DOMAIN f = 0..n /\ Recurs(f, base, start, step, before)
      BY <2>1, <3>4
    <3>6. DOMAIN g = 0..b /\ Recurs(g, base, start, step, before)
      BY <3>2, <3>4
    <3>7. f[b] = g[b]
      BY <3>3, <3>5, <3>6, RecursionUnique
    <3>8. QED
      BY <3>1, <3>4, <3>7, <2>2, <2>4
  <2>5. QED
    BY <2>3, <2>4
<1>5. whole \in [Nat -> V] /\ DOMAIN whole = Nat
  BY <1>3
<1> HIDE DEF whole
<1>6. Recurs(whole, base, start, step, before)
  BY <1>4, <1>5, Zenon DEF Recurs
<1>7. QED
  BY <1>5, <1>6

(* From one number to the next, up to a number. *)
Iterates(f, V, c, k, step) ==
  /\ f \in [0..k -> V] /\ f[0] = c
  /\ \A n \in 1..k : f[n] = step[<<n, f[n - 1]>>]

(* So does one that makes k steps from a first value. *)
LEMMA FiniteRecursion ==
  ASSUME NEW V, NEW c \in V, NEW k \in Nat, NEW step,
         \A n \in 1..k : \A v \in V : step[<<n, v>>] \in V
  PROVE  \E f : Iterates(f, V, c, k, step)
<1> DEFINE base == {0} \cup (Nat \ 0..k)
           start == [n \in Nat |-> c]
           before == [n \in Nat |-> n - 1]
<1>0. \A n \in Nat \ base : n \in 1..k /\ before[n] = n - 1
  OBVIOUS
<1>1. \A n \in Nat \ base : before[n] \in Nat /\ before[n] < n
  <2> HIDE DEF base, before
  <2>1. QED
    BY <1>0
<1>2. \A n \in Nat \cap base : start[n] \in V
  OBVIOUS
<1>3. \A n \in Nat \ base : \A v \in V : step[<<n, v>>] \in V
  <2> HIDE DEF base, before
  <2>1. QED
    BY <1>0
<1>4. /\ 0 \in base /\ start[0] = c
      /\ \A n \in 1..k : n \notin base /\ before[n] = n - 1 /\ n \in Nat
  OBVIOUS
<1> HIDE DEF base, start, before
<1>5. PICK f \in [Nat -> V] : Recurs(f, base, start, step, before)
  BY <1>1, <1>2, <1>3, RecursionExists
<1>6. \A n \in Nat : f[n] = IF n \in base THEN start[n] ELSE step[<<n, f[before[n]]>>]
  BY <1>5, DOMAIN f = Nat, Zenon DEF Recurs
<1> DEFINE g == [n \in 0..k |-> f[n]]
<1>7. g \in [0..k -> V]
  OBVIOUS
<1>8. g[0] = c
  <2>1. 0 \in 0..k
    OBVIOUS
  <2>2. g[0] = f[0] /\ f[0] = start[0]
    BY <2>1, <1>4, <1>6
  <2>3. QED
    BY <2>2, <1>4
<1>9. ASSUME NEW n \in 1..k PROVE g[n] = step[<<n, g[n - 1]>>]
  <2>1. f[n] = step[<<n, f[n - 1]>>]
    BY <1>4, <1>6
  <2>2. n \in 0..k /\ n - 1 \in 0..k
    OBVIOUS
  <2>3. QED
    BY <2>1, <2>2
<1>10. QED
  BY <1>7, <1>8, <1>9, Zenon DEF Iterates
================================================================================
