---------------------------- MODULE TransformProofs ----------------------------
(***************************************************************************)
(* Reading gives back what was written, for every source: the theorems     *)
(* about LogTransforms and ColumnTransforms and, on the way, about the     *)
(* numbers, the sized bytes and the lines of ByteStrings, which every      *)
(* transform is made of.                                                   *)
(*                                                                         *)
(* Each recursive function is shown to exist (RecursionExists and          *)
(* FiniteRecursion of Sums) and then unfolded; what it computes is proved  *)
(* by FiniteInduction.  A reader is followed through the states that the   *)
(* writer's parts determine: it has exactly one, the one with the lines    *)
(* so far, the output they make (Grows) and the bytes left (Leaves).       *)
(***************************************************************************)
EXTENDS LogTransforms, ColumnTransforms, Sums, SequenceTheorems, FiniteSetTheorems, TLAPS
--------------------------------------------------------------------------------
(* Numbers and pieces of sequences. *)

(* A number is its quotient times the divisor and its remainder. *)
LEMMA Division ==
  ASSUME NEW v \in Nat, NEW b \in Nat \ {0}
  PROVE  /\ v \div b \in Nat /\ v % b \in 0..(b - 1)
         /\ v = b * (v \div b) + (v % b)
  OBVIOUS

(* No other quotient and remainder make it. *)
LEMMA DivisionUnique ==
  ASSUME NEW b \in Nat \ {0}, NEW q \in Nat, NEW r \in 0..(b - 1)
  PROVE  /\ (b * q + r) % b = r
         /\ (b * q + r) \div b = q
  OBVIOUS

(* The next digits of a number are those of a smaller one. *)
LEMMA Shrinks ==
  ASSUME NEW v \in Nat, NEW b \in Nat \ {0, 1}, v >= b
  PROVE  v \div b < v /\ v \div b >= 1
  OBVIOUS

(* The bytes in front of others are told from them by their number. *)
LEMMA FrontAndRest ==
  ASSUME NEW s \in Seq(Nat), NEW t \in Seq(Nat)
  PROVE  /\ s \o t \in Seq(Nat) /\ Len(s \o t) = Len(s) + Len(t) /\ ~(Len(s) > Len(s \o t))
         /\ SubSeq(s \o t, 1, Len(s)) = s /\ Rest(s \o t, Len(s)) = t
         /\ \A i \in 1..Len(s) : (s \o t)[i] = s[i]
<1>1. s \o t \in Seq(Nat) /\ Len(s \o t) = Len(s) + Len(t)
  BY ConcatProperties
<1>2. \A i \in 1..Len(s) : (s \o t)[i] = s[i]
  BY ConcatProperties
<1>3. SubSeq(s \o t, 1, Len(s)) = s
  BY <1>1, <1>2, SMT
<1>4. SubSeq(s \o t, Len(s) + 1, Len(s \o t)) = t
  BY <1>1, SMT
<1>5. ~ (Len(s) > Len(s \o t))
  BY <1>1
<1>6. QED
  BY <1>1, <1>2, <1>3, <1>4, <1>5, Zenon DEF Rest

(* How parts are grouped does not change the bytes they make. *)
LEMMA Regroup ==
  ASSUME NEW s \in Seq(Nat), NEW t \in Seq(Nat), NEW u \in Seq(Nat)
  PROVE  /\ (s \o t) \o u = s \o (t \o u)
         /\ s \o t \in Seq(Nat) /\ t \o u \in Seq(Nat)
<1>1. (s \o t) \o u = s \o (t \o u)
  BY ConcatAssociative
<1>2. s \o t \in Seq(Nat) /\ t \o u \in Seq(Nat)
  BY ConcatProperties
<1>3. QED
  BY <1>1, <1>2

Regrouped(s, t, u) == (s \o t) \o u = s \o (t \o u)

(* As Regroup, for use among many sequences. *)
LEMMA IsRegrouped ==
  ASSUME NEW s \in Seq(Nat), NEW t \in Seq(Nat), NEW u \in Seq(Nat)
  PROVE  Regrouped(s, t, u)
  BY ConcatAssociative DEF Regrouped

(* Taking as many bytes as there are in front gives these. *)
LEMMA TakeFront ==
  ASSUME NEW s \in Seq(Nat), NEW t \in Seq(Nat)
  PROVE  Take(s \o t, Len(s)) = {[value |-> s, rest |-> t]}
  BY FrontAndRest, Zenon DEF Take

(* The same of one byte: a mode, an index or a command. *)
LEMMA TakeByte ==
  ASSUME NEW b \in Nat, NEW t \in Seq(Nat)
  PROVE  Take(<<b>> \o t, 1) = {[value |-> <<b>>, rest |-> t]}
<1>1. <<b>> \in Seq(Nat) /\ Len(<<b>>) = 1
  OBVIOUS
<1>2. PICK s \in Seq(Nat) : s = <<b>>
  BY <1>1
<1>3. Take(s \o t, Len(s)) = {[value |-> s, rest |-> t]}
  BY TakeFront
<1>4. QED
  BY <1>1, <1>2, <1>3

IsDigits(f) ==
  f = [v \in Nat |-> IF v < VarintBase THEN <<v>>
                     ELSE <<(v % VarintBase) + VarintBase>> \o f[v \div VarintBase]]

(* The digits of every number are the low one and those of the rest. *)
LEMMA DigitsExist ==
  ASSUME VarintBase \in Nat \ {0, 1}
  PROVE  \E f : IsDigits(f) /\ f \in [Nat -> Seq(Nat)]
<1> DEFINE base == 0..(VarintBase - 1)
           start == [v \in Nat |-> <<v>>]
           step == [pair \in Nat \X Seq(Nat) |-> <<(pair[1] % VarintBase) + VarintBase>> \o pair[2]]
           before == [v \in Nat |-> v \div VarintBase]
<1>1. \A n \in Nat \ base : before[n] \in Nat /\ before[n] < n
  <2>1. ASSUME NEW n \in Nat \ base PROVE before[n] \in Nat /\ before[n] < n
    <3>1. n >= VarintBase /\ before[n] = n \div VarintBase /\ n \in Nat
      OBVIOUS
    <3>2. n \div VarintBase < n /\ n \div VarintBase >= 1
      BY <3>1, Shrinks
    <3>3. n \div VarintBase \in Nat
      BY <3>1, Division
    <3>4. QED
      BY <3>1, <3>2, <3>3
  <2>2. QED
    BY <2>1
<1>2. \A n \in Nat \cap base : start[n] \in Seq(Nat)
  OBVIOUS
<1>3. \A n \in Nat : \A v \in Seq(Nat) :
        step[<<n, v>>] = <<(n % VarintBase) + VarintBase>> \o v
  OBVIOUS
<1>4. ASSUME NEW n \in Nat \ base, NEW v \in Seq(Nat) PROVE step[<<n, v>>] \in Seq(Nat)
  <2>1. (n % VarintBase) + VarintBase \in Nat
    BY Division
  <2>2. <<(n % VarintBase) + VarintBase>> \in Seq(Nat)
    BY <2>1
  <2>3. QED
    BY <2>2, <1>3, ConcatProperties
<1>5. \A n \in Nat : start[n] = <<n>> /\ before[n] = n \div VarintBase /\ (n \in base <=> n < VarintBase)
  OBVIOUS
<1> HIDE DEF base, start, step, before
<1>6. PICK f \in [Nat -> Seq(Nat)] : Recurs(f, base, start, step, before)
  BY <1>1, <1>2, <1>4, RecursionExists
<1>7. ASSUME NEW v \in Nat
      PROVE  f[v] = IF v < VarintBase THEN <<v>>
                    ELSE <<(v % VarintBase) + VarintBase>> \o f[v \div VarintBase]
  <2>1. f[v] = IF v \in base THEN start[v] ELSE step[<<v, f[before[v]]>>]
    BY <1>6, DOMAIN f = Nat, Zenon DEF Recurs
  <2>2. v \div VarintBase \in Nat /\ f[v \div VarintBase] \in Seq(Nat)
    BY Division
  <2>3. QED
    BY <2>1, <2>2, <1>3, <1>5
<1>8. f = [v \in Nat |-> f[v]]
  OBVIOUS
<1>9. IsDigits(f)
  BY <1>7, <1>8, Zenon DEF IsDigits
<1>10. QED
  BY <1>9

(* A number's bytes: the last digit first. *)
LEMMA VarintUnfolds ==
  ASSUME VarintBase \in Nat \ {0, 1}, NEW v \in Nat
  PROVE  /\ Varint(v) \in Seq(Nat)
         /\ v < VarintBase => Varint(v) = <<v>>
         /\ v >= VarintBase => Varint(v) = <<(v % VarintBase) + VarintBase>> \o Varint(v \div VarintBase)
<1> DEFINE f == CHOOSE g : IsDigits(g)
<1>1. PICK g : IsDigits(g) /\ g \in [Nat -> Seq(Nat)]
  BY DigitsExist
<1>2. IsDigits(f)
  BY <1>1, Zenon
<1>3. \A w : Varint(w) = f[w]
  BY Zenon DEF Varint, IsDigits
<1> HIDE DEF f
<1>4. \A w \in Nat : f[w] = IF w < VarintBase THEN <<w>>
                     ELSE <<(w % VarintBase) + VarintBase>> \o f[w \div VarintBase]
  BY <1>2, Zenon DEF IsDigits
<1> DEFINE Typed == {w \in Nat : f[w] \in Seq(Nat)}
<1>5. ASSUME NEW w \in Nat, \A u \in 0..(w - 1) : u \in Typed PROVE w \in Typed
  <2>1. CASE w < VarintBase
    <3>1. f[w] = <<w>>
      BY <2>1, <1>4, Zenon
    <3>2. <<w>> \in Seq(Nat)
      OBVIOUS
    <3>3. QED
      BY <3>1, <3>2
  <2>2. CASE ~(w < VarintBase)
    <3>1. /\ w \div VarintBase \in Nat /\ w \div VarintBase < w
          /\ (w % VarintBase) + VarintBase \in Nat
      BY <2>2, Division, Shrinks
    <3>2. w \div VarintBase \in Typed
      BY <3>1, <1>5
    <3>3. f[w \div VarintBase] \in Seq(Nat) /\ <<(w % VarintBase) + VarintBase>> \in Seq(Nat)
      BY <3>1, <3>2
    <3>4. <<(w % VarintBase) + VarintBase>> \o f[w \div VarintBase] \in Seq(Nat)
      BY <3>3, ConcatProperties
    <3>5. QED
      BY <3>4, <2>2, <1>4
  <2>3. QED
    BY <2>1, <2>2
<1>6. \A w \in Nat : w \in Typed
  <2> HIDE DEF Typed
  <2>1. QED
    BY <1>5, Induction
<1>7. v \div VarintBase \in Nat
  BY Division
<1>8. Varint(v) \in Seq(Nat)
  BY <1>3, <1>6
<1>9. Varint(v) = IF v < VarintBase THEN <<v>>
                  ELSE <<(v % VarintBase) + VarintBase>> \o Varint(v \div VarintBase)
  BY <1>3, <1>4, <1>7, Zenon
<1>10. QED
  BY <1>8, <1>9

IsValue(f, bytes) ==
  f = [n \in 0..Len(bytes) |->
         IF n = 0 THEN 0
         ELSE (bytes[Len(bytes) - n + 1] % VarintBase) + VarintBase * f[n - 1]]

(* The value of some bytes is computed from the last one to the first. *)
LEMMA ValueSteps ==
  ASSUME VarintBase \in Nat \ {0, 1}, NEW bytes \in Seq(Nat)
  PROVE  \E f \in [0..Len(bytes) -> Nat] :
           /\ Value(bytes) = f[Len(bytes)] /\ f[0] = 0
           /\ \A n \in 1..Len(bytes) :
                f[n] = (bytes[Len(bytes) - n + 1] % VarintBase) + VarintBase * f[n - 1]
<1> DEFINE k == Len(bytes)
           step == [pair \in (1..k) \X Nat |->
                      (bytes[k - pair[1] + 1] % VarintBase) + VarintBase * pair[2]]
           f == CHOOSE g : IsValue(g, bytes)
<1>1. k \in Nat
  OBVIOUS
<1>2. \A n \in 1..k : \A v \in Nat :
        step[<<n, v>>] = (bytes[k - n + 1] % VarintBase) + VarintBase * v
  OBVIOUS
<1>3. ASSUME NEW n \in 1..k, NEW v \in Nat
      PROVE  (bytes[k - n + 1] % VarintBase) + VarintBase * v \in Nat
  <2>1. PICK b \in Nat : b = bytes[k - n + 1]
    BY k - n + 1 \in 1..k, ElementOfSeq
  <2>2. b % VarintBase \in Nat /\ VarintBase * v \in Nat
    BY Division
  <2>3. QED
    BY <2>1, <2>2
<1> HIDE DEF step
<1>4. PICK g \in [0..k -> Nat] : g[0] = 0 /\ \A n \in 1..k : g[n] = step[<<n, g[n - 1]>>]
  <2>1. \A n \in 1..k : \A v \in Nat : step[<<n, v>>] \in Nat
    BY <1>2, <1>3
  <2>2. \E g : Iterates(g, Nat, 0, k, step)
    BY <2>1, <1>1, FiniteRecursion
  <2>3. QED
    BY <2>2, Zenon DEF Iterates
<1>5. IsValue(g, bytes)
  <2>1. ASSUME NEW n \in 0..k
        PROVE  g[n] = IF n = 0 THEN 0
                      ELSE (bytes[k - n + 1] % VarintBase) + VarintBase * g[n - 1]
    <3>1. CASE n = 0
      BY <3>1, <1>4
    <3>2. CASE n # 0
      <4>1. n \in 1..k /\ g[n - 1] \in Nat
        BY <3>2, <1>1
      <4>2. QED
        BY <4>1, <3>2, <1>2, <1>4
    <3>3. QED
      BY <3>1, <3>2
  <2>2. g = [n \in 0..k |-> g[n]]
    OBVIOUS
  <2>3. QED
    BY <2>1, <2>2, Zenon DEF IsValue
<1>6. IsValue(f, bytes)
  BY <1>5, Zenon
<1>7. Value(bytes) = f[k]
  BY Zenon DEF Value, IsValue
<1> HIDE DEF f
<1>8. /\ f = [n \in 0..k |-> f[n]]
      /\ \A n \in 0..k : f[n] = IF n = 0 THEN 0
                       ELSE (bytes[k - n + 1] % VarintBase) + VarintBase * f[n - 1]
  BY <1>6, Zenon DEF IsValue
<1>9. f[0] = 0 /\ \A n \in 1..k : f[n] = (bytes[k - n + 1] % VarintBase) + VarintBase * f[n - 1]
  <2>1. 0 \in 0..k /\ \A n \in 1..k : n \in 0..k /\ n # 0
    BY <1>1
  <2> HIDE DEF k
  <2>2. QED
    BY <2>1, <1>8, Zenon
<1> DEFINE Typed == {n \in Nat : f[n] \in Nat}
<1>10. \A n \in 0..k : n \in Typed
  <2>1. 0 \in Typed
    BY <1>9
  <2>2. ASSUME NEW n \in 0..(k - 1), n \in Typed PROVE n + 1 \in Typed
    <3>1. n + 1 \in 1..k /\ (n + 1) - 1 = n /\ f[n] \in Nat
      BY <2>2
    <3>2. f[n + 1] = (bytes[k - (n + 1) + 1] % VarintBase) + VarintBase * f[n]
      BY <3>1, <1>9
    <3>3. QED
      <4>1. (bytes[k - (n + 1) + 1] % VarintBase) + VarintBase * f[n] \in Nat
        BY <3>1, <1>3
      <4>2. QED
        BY <3>1, <3>2, <4>1
  <2> HIDE DEF Typed, k
  <2>3. QED
    BY <2>1, <2>2, <1>1, FiniteInduction
<1>11. f \in [0..k -> Nat]
  BY <1>8, <1>10
<1>12. QED
  BY <1>7, <1>9, <1>11

(* The first byte counts once, what the others make counts base times. *)
LEMMA ValueUnfolds ==
  ASSUME VarintBase \in Nat \ {0, 1}
  PROVE  /\ Value(<<>>) = 0
         /\ \A t \in Seq(Nat) : Value(t) \in Nat
         /\ \A b \in Nat, t \in Seq(Nat) :
              Value(<<b>> \o t) = (b % VarintBase) + VarintBase * Value(t)
<1>1. ASSUME NEW t \in Seq(Nat) PROVE Value(t) \in Nat
  <2>1. PICK f \in [0..Len(t) -> Nat] : Value(t) = f[Len(t)]
    BY ValueSteps
  <2>2. QED
    BY <2>1
<1>2. Value(<<>>) = 0
  <2>1. PICK t \in Seq(Nat) : t = <<>> /\ Len(t) = 0
    BY EmptySeq
  <2>2. PICK f \in [0..Len(t) -> Nat] : Value(t) = f[Len(t)] /\ f[0] = 0
    BY ValueSteps
  <2>3. QED
    BY <2>1, <2>2
<1>3. ASSUME NEW b \in Nat, NEW t \in Seq(Nat)
      PROVE  Value(<<b>> \o t) = (b % VarintBase) + VarintBase * Value(t)
  <2> DEFINE s == <<b>> \o t
             k == Len(t)
  <2>1. /\ s \in Seq(Nat) /\ Len(s) = k + 1 /\ s[1] = b /\ k \in Nat
        /\ \A i \in 1..k : s[i + 1] = t[i]
    <3>1. <<b>> \in Seq(Nat) /\ Len(<<b>>) = 1 /\ <<b>>[1] = b /\ k \in Nat
      OBVIOUS
    <3>2. QED
      BY <3>1, ConcatProperties
  <2>2. PICK f \in [0..k -> Nat] :
          /\ Value(t) = f[k] /\ f[0] = 0
          /\ \A n \in 1..k : f[n] = (t[k - n + 1] % VarintBase) + VarintBase * f[n - 1]
    BY ValueSteps
  <2> HIDE DEF s
  <2>3. PICK g \in [0..(k + 1) -> Nat] :
          /\ Value(s) = g[k + 1] /\ g[0] = 0
          /\ \A n \in 1..(k + 1) :
               g[n] = (s[(k + 1) - n + 1] % VarintBase) + VarintBase * g[n - 1]
    <3>1. PICK j : j = Len(s)
      OBVIOUS
    <3>2. \E g \in [0..j -> Nat] :
          /\ Value(s) = g[j] /\ g[0] = 0
          /\ \A n \in 1..j : g[n] = (s[j - n + 1] % VarintBase) + VarintBase * g[n - 1]
      BY <2>1, <3>1, ValueSteps
    <3>3. j = k + 1
      BY <2>1, <3>1
    <3>4. QED
      BY <3>2, <3>3
  <2> DEFINE Same == {n \in Nat : f[n] = g[n]}
  <2>4. \A n \in 0..k : n \in Same
    <3>1. 0 \in Same
      BY <2>2, <2>3
    <3>2. ASSUME NEW n \in 0..(k - 1), n \in Same PROVE n + 1 \in Same
      <4>1. /\ n + 1 \in 1..k /\ n + 1 \in 1..(k + 1) /\ (n + 1) - 1 = n
            /\ k - n \in 1..k /\ k - (n + 1) + 1 = k - n
            /\ (k + 1) - (n + 1) + 1 = (k - n) + 1 /\ f[n] = g[n]
        BY <2>1, <3>2
      <4>2. f[n + 1] = (t[k - n] % VarintBase) + VarintBase * f[n]
        BY <4>1, <2>2
      <4>3. g[n + 1] = (s[(k - n) + 1] % VarintBase) + VarintBase * g[n]
        BY <4>1, <2>3
      <4>4. s[(k - n) + 1] = t[k - n]
        BY <4>1, <2>1
      <4>5. QED
        BY <4>1, <4>2, <4>3, <4>4
    <3> HIDE DEF Same, k
    <3>3. QED
      BY <2>1, <3>1, <3>2, FiniteInduction
  <2>5. f[k] = g[k]
    BY <2>1, <2>4
  <2>6. g[k + 1] = (s[1] % VarintBase) + VarintBase * g[k]
    <3>1. /\ k + 1 \in 1..(k + 1) /\ (k + 1) - (k + 1) + 1 = 1 /\ (k + 1) - 1 = k
      BY <2>1
    <3>2. QED
      BY <3>1, <2>3
  <2>7. QED
    BY <2>1, <2>2, <2>3, <2>5, <2>6 DEF s
<1>4. QED
  BY <1>1, <1>2, <1>3

IsPower(f) == f = [k \in Nat |-> IF k = 0 THEN 1 ELSE VarintBase * f[k - 1]]

(* What n bytes can count grows by the base with each. *)
LEMMA PowerUnfolds ==
  ASSUME VarintBase \in Nat \ {0, 1}
  PROVE  /\ Power(0) = 1
         /\ \A k \in Nat : Power(k + 1) = VarintBase * Power(k)
<1> DEFINE base == {0}
           start == [n \in Nat |-> 1]
           step == [pair \in Nat \X Nat |-> VarintBase * pair[2]]
           before == [n \in Nat |-> n - 1]
           f == CHOOSE g : IsPower(g)
<1>1. \A n \in Nat \ base : before[n] \in Nat /\ before[n] < n
  OBVIOUS
<1>2. \A n \in Nat \cap base : start[n] \in Nat
  OBVIOUS
<1>3. \A n \in Nat : \A v \in Nat : step[<<n, v>>] = VarintBase * v /\ VarintBase * v \in Nat
  OBVIOUS
<1>4. \A n \in Nat : start[n] = 1 /\ before[n] = n - 1 /\ (n \in base <=> n = 0)
  OBVIOUS
<1> HIDE DEF base, start, step, before
<1>5. \E g \in [Nat -> Nat] : Recurs(g, base, start, step, before)
  <2>1. \A n \in Nat \ base : \A v \in Nat : step[<<n, v>>] \in Nat
    BY <1>3
  <2>2. PICK V : V = Nat
    OBVIOUS
  <2>3. /\ \A n \in Nat \cap base : start[n] \in V
        /\ \A n \in Nat \ base : \A v \in V : step[<<n, v>>] \in V
    BY <1>2, <2>1, <2>2
  <2>4. \E g \in [Nat -> V] : Recurs(g, base, start, step, before)
    BY <1>1, <2>3, RecursionExists
  <2>5. QED
    BY <2>2, <2>4
<1>6. PICK g \in [Nat -> Nat] : Recurs(g, base, start, step, before)
  BY <1>5
<1>7. ASSUME NEW k \in Nat PROVE g[k] = IF k = 0 THEN 1 ELSE VarintBase * g[k - 1]
  <2>1. g[k] = IF k \in base THEN start[k] ELSE step[<<k, g[before[k]]>>]
    BY <1>6, DOMAIN g = Nat, Zenon DEF Recurs
  <2>2. k # 0 => g[k - 1] \in Nat
    BY <1>6
  <2>3. QED
    BY <2>1, <2>2, <1>3, <1>4
<1>8. g = [k \in Nat |-> g[k]]
  OBVIOUS
<1>9. IsPower(g)
  BY <1>7, <1>8, Zenon DEF IsPower
<1>10. IsPower(f)
  BY <1>9, Zenon
<1>11. \A k : Power(k) = f[k]
  BY Zenon DEF Power, IsPower
<1> HIDE DEF f
<1>12. \A k \in Nat : f[k] = IF k = 0 THEN 1 ELSE VarintBase * f[k - 1]
  BY <1>10, Zenon DEF IsPower
<1>13. f[0] = 1
  BY <1>12
<1>14. ASSUME NEW k \in Nat PROVE f[k + 1] = VarintBase * f[k]
  <2>1. k + 1 \in Nat /\ k + 1 # 0 /\ (k + 1) - 1 = k
    OBVIOUS
  <2>2. f[k + 1] = VarintBase * f[(k + 1) - 1]
    BY <2>1, <1>12, Zenon
  <2>3. QED
    BY <2>1, <2>2
<1>15. QED
  BY <1>11, <1>13, <1>14

(* It is a number. *)
LEMMA PowerNat ==
  ASSUME VarintBase \in Nat \ {0, 1}
  PROVE  \A k \in Nat : Power(k) \in Nat
<1> DEFINE S == {k \in Nat : Power(k) \in Nat}
<1>1. 0 \in S
  BY PowerUnfolds
<1>2. ASSUME NEW k \in Nat, k \in S PROVE k + 1 \in S
  <2>1. Power(k + 1) = VarintBase * Power(k) /\ Power(k) \in Nat
    BY <1>2, PowerUnfolds
  <2>2. QED
    BY <2>1
<1>3. \A k \in Nat : k \in S
  <2> HIDE DEF S
  <2>1. QED
    BY <1>1, <1>2, StepInduction
<1>4. QED
  BY <1>3

(* What the bytes of a number are. *)
IsNumber(s, v) ==
  /\ s \in Seq(Nat) /\ Len(s) >= 1 /\ Value(s) = v
  /\ s[Len(s)] < VarintBase /\ (Len(s) > 1 => s[Len(s)] # 0)
  /\ \A i \in 1..(Len(s) - 1) : s[i] >= VarintBase
  /\ \A k \in Nat : v < Power(k + 1) => Len(s) <= k + 1

(* The code of a number has its value, ends with its only byte below the   *)
(* base, takes no more bytes than it must and, unless it is of zero, does  *)
(* not end with a zero.                                                    *)
LEMMA VarintIsNumber ==
  ASSUME VarintBase \in Nat \ {0, 1}
  PROVE  \A v \in Nat : IsNumber(Varint(v), v) /\ (v > 0 => Varint(v)[Len(Varint(v))] # 0)
<1> DEFINE Good(v) == IsNumber(Varint(v), v) /\ (v > 0 => Varint(v)[Len(Varint(v))] # 0)
           S == {v \in Nat : Good(v)}
<1>1. ASSUME NEW v \in Nat, \A u \in 0..(v - 1) : u \in S PROVE v \in S
  <2>1. CASE v < VarintBase
    <3>1. Varint(v) = <<v>>
      BY <2>1, VarintUnfolds
    <3>2. <<v>> \in Seq(Nat) /\ Len(<<v>>) = 1 /\ <<v>>[1] = v
      OBVIOUS
    <3>3. Value(<<v>>) = v
      <4>1. PICK t \in Seq(Nat) : t = <<>>
        BY EmptySeq
      <4>2. Value(<<v>> \o t) = (v % VarintBase) + VarintBase * Value(t) /\ Value(t) = 0
        BY <4>1, ValueUnfolds
      <4>3. <<v>> \o t = <<v>>
        BY <3>2, <4>1, ConcatEmptySeq
      <4>4. v % VarintBase = v
        BY <2>1
      <4>5. VarintBase * 0 = 0 /\ v + 0 = v
        OBVIOUS
      <4>6. QED
        BY <4>2, <4>3, <4>4, <4>5, Zenon
    <3>4. PICK s : s = <<v>> /\ s = Varint(v) /\ Value(s) = v
      BY <3>1, <3>3, Zenon
    <3>5. IsNumber(s, v) /\ s[Len(s)] = v
      BY <3>2, <3>4, <2>1 DEF IsNumber
    <3>6. IsNumber(Varint(v), v) /\ Varint(v)[Len(Varint(v))] = v
      BY <3>4, <3>5, Zenon
    <3>7. QED
      BY <3>6
  <2>2. CASE ~(v < VarintBase)
    <3> DEFINE q == v \div VarintBase
               b == (v % VarintBase) + VarintBase
               t == Varint(q)
               s == <<b>> \o t
    <3>1. /\ q \in Nat /\ q < v /\ q >= 1 /\ b \in Nat /\ b >= VarintBase
          /\ v = VarintBase * q + (v % VarintBase) /\ b % VarintBase = v % VarintBase
          /\ v % VarintBase \in 0..(VarintBase - 1)
      <4>1. q \in Nat /\ q < v /\ q >= 1
        BY <2>2, Division, Shrinks
      <4>2. v = VarintBase * q + (v % VarintBase) /\ v % VarintBase \in 0..(VarintBase - 1)
        BY Division
      <4>3. (VarintBase * 1 + (v % VarintBase)) % VarintBase = v % VarintBase
        BY <4>2, DivisionUnique
      <4>4. b = VarintBase * 1 + (v % VarintBase)
        BY <4>2
      <4>5. QED
        BY <4>1, <4>2, <4>3, <4>4
    <3>2. Varint(v) = s
      <4>1. v >= VarintBase
        BY <2>2
      <4>2. QED
        BY <4>1, VarintUnfolds, Zenon
    <3> HIDE DEF b, q
    <3>3. q \in S
      BY <3>1, <1>1
    <3>4. Good(q)
      BY <3>3
    <3> HIDE DEF S, t
    <3>5. /\ t \in Seq(Nat) /\ Len(t) >= 1 /\ Value(t) = q
          /\ t[Len(t)] < VarintBase /\ t[Len(t)] # 0
          /\ \A i \in 1..(Len(t) - 1) : t[i] >= VarintBase
          /\ \A k \in Nat : q < Power(k + 1) => Len(t) <= k + 1
      BY <3>1, <3>4 DEF IsNumber, t
    <3>6. /\ s \in Seq(Nat) /\ Len(s) = Len(t) + 1 /\ s[1] = b
          /\ \A i \in 1..Len(t) : s[i + 1] = t[i]
      <4>1. <<b>> \in Seq(Nat) /\ Len(<<b>>) = 1 /\ <<b>>[1] = b
        BY <3>1
      <4>2. QED
        BY <3>5, <4>1, ConcatProperties
    <3>7. Value(s) = v
      <4>1. Value(s) = (b % VarintBase) + VarintBase * Value(t)
        BY <3>1, <3>5, ValueUnfolds
      <4>2. QED
        BY <4>1, <3>1, <3>5
    <3> HIDE DEF s
    <3>8. s[Len(s)] = t[Len(t)]
      BY <3>5, <3>6
    <3>9. \A i \in 1..(Len(s) - 1) : s[i] >= VarintBase
      <4>1. ASSUME NEW i \in 1..(Len(s) - 1) PROVE s[i] >= VarintBase
        <5>1. CASE i = 1
          BY <5>1, <3>1, <3>6
        <5>2. CASE i # 1
          <6>1. i - 1 \in 1..(Len(t) - 1) /\ i - 1 \in 1..Len(t) /\ (i - 1) + 1 = i
            BY <5>2, <3>5, <3>6
          <6>2. QED
            BY <6>1, <3>5, <3>6
        <5>3. QED
          BY <5>1, <5>2
      <4>2. QED
        BY <4>1
    <3>10. ASSUME NEW k \in Nat, v < Power(k + 1) PROVE Len(s) <= k + 1
      <4>1. Power(k + 1) = VarintBase * Power(k) /\ Power(k) \in Nat
        BY PowerUnfolds, PowerNat
      <4>2. q < Power(k)
        <5>1. SUFFICES ASSUME Power(k) <= q PROVE FALSE
          BY <3>1, <4>1
        <5>2. PICK p \in Nat : p = Power(k)
          BY <4>1
        <5>3. VarintBase * p <= VarintBase * q
          BY <5>1, <5>2, <3>1
        <5>4. VarintBase * q <= v /\ v < VarintBase * p
          BY <3>1, <4>1, <3>10, <5>2
        <5>5. QED
          BY <5>2, <5>3, <5>4, <3>1
      <4>3. k # 0
        BY <4>2, <3>1, PowerUnfolds
      <4>4. k - 1 \in Nat /\ (k - 1) + 1 = k
        BY <4>3
      <4>5. Len(t) <= (k - 1) + 1
        BY <4>2, <4>4, <3>5
      <4>6. QED
        BY <4>4, <4>5, <3>5, <3>6
    <3>11. IsNumber(s, v)
      BY <3>5, <3>6, <3>7, <3>8, <3>9, <3>10 DEF IsNumber
    <3>12. QED
      BY <3>2, <3>5, <3>8, <3>11 DEF S
  <2>3. QED
    BY <2>1, <2>2
<1>2. \A v \in Nat : v \in S
  <2> HIDE DEF S
  <2>1. QED
    BY <1>1, Induction
<1>3. QED
  BY <1>2

(* Each of the readers, the Rust ones that shift in 64 bits and the strict *)
(* one too, makes of the code of a number below 2^64 this number and       *)
(* nothing else, whatever bytes follow it.                                 *)
THEOREM ReadsVarint ==
  ASSUME BytesAssumption, NEW reader, NEW v \in Nat, v < Word, NEW t \in Seq(Nat)
  PROVE  /\ ReadVarint(reader, Varint(v) \o t) = {[value |-> v, rest |-> t]}
         /\ Varint(v) \o t \in Seq(Nat)
<1>1. PICK s : s = Varint(v)
  OBVIOUS
<1>2. VarintBase \in Nat \ {0, 1} /\ VarintLimit \in Nat \ {0} /\ Word \in Nat
  BY DEF BytesAssumption
<1>3. IsNumber(s, v)
  BY <1>1, <1>2, VarintIsNumber
<1>4. Len(s) <= VarintLimit
  <2>1. v < Power(VarintLimit) /\ VarintLimit - 1 \in Nat /\ (VarintLimit - 1) + 1 = VarintLimit
    <3>1. Word < Power(VarintLimit) /\ Power(VarintLimit) \in Nat
      BY <1>2, PowerNat DEF BytesAssumption
    <3>2. QED
      BY <1>2, <3>1
  <2>2. \A k \in Nat : v < Power(k + 1) => Len(s) <= k + 1
    BY <1>3, Zenon DEF IsNumber
  <2>3. QED
    BY <2>1, <2>2
<1>5. /\ s \in Seq(Nat) /\ Len(s) \in 1..VarintLimit /\ Value(s) = v
      /\ s[Len(s)] < VarintBase /\ (Len(s) > 1 => s[Len(s)] # 0)
      /\ \A i \in 1..(Len(s) - 1) : s[i] >= VarintBase
  BY <1>2, <1>3, <1>4 DEF IsNumber
<1> DEFINE bytes == s \o t
<1>6. /\ bytes \in Seq(Nat) /\ Len(s) <= Len(bytes)
      /\ \A i \in 1..Len(s) : bytes[i] = s[i]
      /\ SubSeq(bytes, 1, Len(s)) = s /\ Rest(bytes, Len(s)) = t
  BY <1>5, FrontAndRest
<1> DEFINE Ends(n) == /\ n <= Len(bytes) /\ bytes[n] < VarintBase
                      /\ \A i \in 1..(n - 1) : bytes[i] >= VarintBase
                      /\ reader = "strict" => /\ n > 1 => bytes[n] # 0
                                              /\ Value(SubSeq(bytes, 1, n)) < Word
<1> HIDE DEF bytes
<1>7. ASSUME NEW n \in 1..VarintLimit, Ends(n) PROVE n = Len(s)
  <2>1. CASE n < Len(s)
    <3>1. n \in 1..(Len(s) - 1) /\ n \in 1..Len(s)
      BY <2>1, <1>5
    <3>2. bytes[n] >= VarintBase /\ bytes[n] < VarintBase /\ bytes[n] \in Nat
      BY <3>1, <1>5, <1>6, <1>7, ElementOfSeq
    <3>3. QED
      BY <3>2, <1>2
  <2>2. CASE n > Len(s)
    <3>1. Len(s) \in 1..(n - 1) /\ Len(s) \in 1..Len(s)
      BY <2>2, <1>5
    <3>2. bytes[Len(s)] >= VarintBase /\ bytes[Len(s)] < VarintBase /\ bytes[Len(s)] \in Nat
      BY <3>1, <1>5, <1>6, <1>7, ElementOfSeq
    <3>3. QED
      BY <3>2, <1>2
  <2>3. QED
    BY <2>1, <2>2, <1>5
<1>8. Ends(Len(s))
  <2>1. \A i \in 1..(Len(s) - 1) : i \in 1..Len(s)
    BY <1>5
  <2>2. Len(s) \in 1..Len(s)
    BY <1>5
  <2>3. QED
    BY <2>1, <2>2, <1>5, <1>6
<1>9. {n \in 1..VarintLimit : Ends(n)} = {Len(s)}
  <2> HIDE DEF Ends
  <2>1. QED
    BY <1>5, <1>7, <1>8
<1>10. v % Word = v
  BY <1>2
<1>11. ReadVarint(reader, bytes) =
         {[value |-> IF reader \in {"native", "jls2"} THEN Value(SubSeq(bytes, 1, n)) % Word
                     ELSE Value(SubSeq(bytes, 1, n)),
           rest |-> Rest(bytes, n)] : n \in {n \in 1..VarintLimit : Ends(n)}}
  BY Zenon DEF ReadVarint
<1>12. ReadVarint(reader, bytes) =
         {[value |-> IF reader \in {"native", "jls2"} THEN Value(SubSeq(bytes, 1, Len(s))) % Word
                     ELSE Value(SubSeq(bytes, 1, Len(s))),
           rest |-> Rest(bytes, Len(s))]}
  <2> HIDE DEF Ends
  <2>1. QED
    BY <1>9, <1>11, Zenon
<1>13. QED
  BY <1>1, <1>5, <1>6, <1>10, <1>12, Zenon DEF bytes

(* The same of bytes with their number in front. *)
LEMMA ReadsSized ==
  ASSUME BytesAssumption, NEW reader, NEW s \in Seq(Nat), Len(s) < Word, NEW t \in Seq(Nat)
  PROVE  ReadSized(reader, Sized(s) \o t) = {[value |-> s, rest |-> t]}
<1>1. PICK v : v = Varint(Len(s))
  OBVIOUS
<1>2. Len(s) \in Nat /\ v \in Seq(Nat) /\ s \o t \in Seq(Nat)
  <2>1. VarintBase \in Nat \ {0, 1}
    BY DEF BytesAssumption
  <2>2. PICK k \in Nat : k = Len(s)
    OBVIOUS
  <2>3. Varint(k) \in Seq(Nat)
    BY <2>1, VarintUnfolds
  <2>4. QED
    BY <2>2, <2>3, <1>1, ConcatProperties
<1>3. Sized(s) \o t = v \o (s \o t)
  <2>1. (v \o s) \o t = v \o (s \o t)
    BY <1>2, ConcatAssociative
  <2>2. QED
    BY <1>1, <2>1, Zenon DEF Sized
<1>4. ReadVarint(reader, v \o (s \o t)) = {[value |-> Len(s), rest |-> s \o t]}
  BY <1>1, <1>2, ReadsVarint
<1>5. Take(s \o t, Len(s)) = {[value |-> s, rest |-> t]}
  BY TakeFront
<1>6. PICK n : n = [value |-> Len(s), rest |-> s \o t]
  OBVIOUS
<1>7. ReadSized(reader, Sized(s) \o t) = UNION {Take(m.rest, m.value) : m \in {n}}
  BY <1>3, <1>4, <1>6, Zenon DEF ReadSized
<1>8. UNION {Take(m.rest, m.value) : m \in {n}} = Take(n.rest, n.value)
  BY Zenon
<1>9. n.rest = s \o t /\ n.value = Len(s)
  BY <1>6
<1>10. QED
  BY <1>5, <1>7, <1>8, <1>9, Zenon

IsFlat(f, list) ==
  f = [i \in 1..Len(list) |-> IF i = 1 THEN list[i] ELSE f[i - 1] \o list[i]]

(* What is left of some bytes after each of the parts they are made of. *)
Leaves(r, list, bytes) ==
  /\ r \in [0..Len(list) -> Seq(Nat)] /\ r[0] = bytes /\ r[Len(list)] = <<>>
  /\ \A n \in 1..Len(list) : r[n - 1] = list[n] \o r[n]
--------------------------------------------------------------------------------
(* Parts, and lines. *)

(* A sequence of parts, put together, is built up one part at a time. *)
LEMMA FlatIsPrefixes ==
  ASSUME NEW list \in Seq(Seq(Nat))
  PROVE  \E f : /\ f \in [0..Len(list) -> Seq(Nat)] /\ f[0] = <<>> /\ FlattenSeq(list) = f[Len(list)]
                /\ \A n \in 1..Len(list) : f[n] = f[n - 1] \o list[n]
<1> DEFINE k == Len(list)
           step == [pair \in (1..k) \X Seq(Nat) |-> pair[2] \o list[pair[1]]]
           h == CHOOSE g : IsFlat(g, list)
<1>1. k \in Nat /\ DOMAIN list = 1..k
  OBVIOUS
<1>2. \A n \in 1..k : list[n] \in Seq(Nat)
  BY ElementOfSeq
<1>3. \A n \in 1..k : \A v \in Seq(Nat) : step[<<n, v>>] = v \o list[n]
  OBVIOUS
<1>4. <<>> \in Seq(Nat)
  BY EmptySeq
<1> HIDE DEF step, k
<1>5. \A n \in 1..k : \A v \in Seq(Nat) : step[<<n, v>>] \in Seq(Nat)
  <2>1. ASSUME NEW n \in 1..k, NEW v \in Seq(Nat) PROVE v \o list[n] \in Seq(Nat)
    BY <1>2, ConcatProperties
  <2>2. QED
    BY <2>1, <1>3
<1>6. \E f : Iterates(f, Seq(Nat), <<>>, k, step)
  <2>1. PICK V, c : V = Seq(Nat) /\ c = <<>>
    OBVIOUS
  <2>2. c \in V /\ \A n \in 1..k : \A v \in V : step[<<n, v>>] \in V
    BY <2>1, <1>4, <1>5
  <2>3. \E f : Iterates(f, V, c, k, step)
    BY <2>2, <1>1, FiniteRecursion
  <2>4. QED
    BY <2>1, <2>3
<1>7. PICK f : /\ f \in [0..k -> Seq(Nat)] /\ f[0] = <<>>
               /\ \A n \in 1..k : f[n] = step[<<n, f[n - 1]>>]
  BY <1>6, Zenon DEF Iterates
<1>8. ASSUME NEW n \in 1..k PROVE n - 1 \in 0..k /\ f[n] = f[n - 1] \o list[n]
  <2>1. n - 1 \in 0..k
    BY <1>1
  <2>2. f[n - 1] \in Seq(Nat)
    BY <2>1, <1>7
  <2>3. QED
    BY <2>1, <2>2, <1>3, <1>7, Zenon
<1>9. FlattenSeq(list) = f[k]
  <2>1. CASE k = 0
    <3>1. FlattenSeq(list) = list
      BY <2>1, Zenon DEF FlattenSeq, k
    <3>2. list = <<>>
      BY <2>1 DEF k
    <3>3. QED
      BY <2>1, <3>1, <3>2, <1>7
  <2>2. CASE k # 0
    <3> DEFINE g == [n \in 1..k |-> f[n]]
    <3>1. IsFlat(g, list)
      <4>1. ASSUME NEW n \in 1..k
            PROVE  g[n] = IF n = 1 THEN list[n] ELSE g[n - 1] \o list[n]
        <5>1. CASE n = 1
          <6>1. n - 1 = 0 /\ g[n] = f[n]
            BY <5>1
          <6>2. list[n] \in Seq(Nat)
            BY <1>2
          <6>3. <<>> \o list[n] = list[n]
            BY <6>2, ConcatEmptySeq
          <6>4. QED
            BY <5>1, <6>1, <6>3, <1>7, <1>8, Zenon
        <5>2. CASE n # 1
          <6>1. n - 1 \in 1..k
            BY <5>2, <1>1
          <6>2. g[n - 1] = f[n - 1] /\ g[n] = f[n]
            BY <6>1
          <6>3. QED
            BY <6>2, <5>2, <1>8, Zenon
        <5>3. QED
          BY <5>1, <5>2
      <4>2. g = [n \in 1..k |-> g[n]]
        OBVIOUS
      <4> HIDE DEF g
      <4>3. QED
        BY <4>1, <4>2, Zenon DEF IsFlat, k
    <3>2. IsFlat(h, list)
      BY <3>1, Zenon
    <3>3. FlattenSeq(list) = h[k]
      BY <2>2, Zenon DEF FlattenSeq, IsFlat, k
    <3> HIDE DEF h
    <3>4. \A n \in 1..k : h[n] = IF n = 1 THEN list[n] ELSE h[n - 1] \o list[n]
      BY <3>2, Zenon DEF IsFlat, k
    <3> DEFINE Same == {n \in Nat : n = 0 \/ h[n] = f[n]}
    <3>5. \A n \in 0..k : n \in Same
      <4>1. 0 \in Same
        OBVIOUS
      <4>2. ASSUME NEW n \in 0..(k - 1), n \in Same PROVE n + 1 \in Same
        <5>1. n + 1 \in 1..k /\ (n + 1) - 1 = n /\ n + 1 \in Nat
          BY <1>1
        <5>2. f[n + 1] = f[n] \o list[n + 1]
          BY <5>1, <1>8
        <5>3. CASE n = 0
          <6>1. list[n + 1] \in Seq(Nat)
            BY <5>1, <1>2
          <6>2. <<>> \o list[n + 1] = list[n + 1]
            BY <6>1, ConcatEmptySeq
          <6>3. h[n + 1] = list[n + 1] /\ f[n] = <<>>
            BY <5>3, <5>1, <3>4, <1>7
          <6>4. QED
            BY <6>2, <6>3, <5>1, <5>2
        <5>4. CASE n # 0
          <6>1. n + 1 # 1 /\ h[n] = f[n]
            BY <5>4, <4>2
          <6>2. h[n + 1] = h[(n + 1) - 1] \o list[n + 1]
            BY <6>1, <5>1, <3>4, Zenon
          <6>3. QED
            BY <6>1, <6>2, <5>1, <5>2
        <5>5. QED
          BY <5>3, <5>4
      <4> HIDE DEF Same
      <4>3. QED
        BY <1>1, <4>1, <4>2, FiniteInduction
    <3>6. k \in 0..k
      BY <1>1
    <3>7. QED
      BY <2>2, <3>3, <3>5, <3>6
  <2>3. QED
    BY <2>1, <2>2
<1>10. QED
  BY <1>7, <1>8, <1>9, Zenon DEF k

(* So it can be taken apart from the front, one part at a time. *)
LEMMA FlatLeaves ==
  ASSUME NEW list \in Seq(Seq(Nat))
  PROVE  \E r : Leaves(r, list, FlattenSeq(list))
<1> DEFINE k == Len(list)
           step == [pair \in (1..k) \X Seq(Nat) |-> list[k - pair[1] + 1] \o pair[2]]
<1>1. k \in Nat
  OBVIOUS
<1>2. \A n \in 1..k : list[n] \in Seq(Nat)
  BY ElementOfSeq
<1>3. \A n \in 1..k : \A v \in Seq(Nat) : step[<<n, v>>] = list[k - n + 1] \o v
  OBVIOUS
<1>4. <<>> \in Seq(Nat)
  BY EmptySeq
<1>5. PICK f : /\ f \in [0..k -> Seq(Nat)] /\ f[0] = <<>> /\ FlattenSeq(list) = f[k]
               /\ \A n \in 1..k : f[n] = f[n - 1] \o list[n]
  BY FlatIsPrefixes
<1> HIDE DEF step, k
<1>6. \A n \in 1..k : \A v \in Seq(Nat) : step[<<n, v>>] \in Seq(Nat)
  <2>1. ASSUME NEW n \in 1..k, NEW v \in Seq(Nat) PROVE list[k - n + 1] \o v \in Seq(Nat)
    <3>1. k - n + 1 \in 1..k
      BY <1>1
    <3>2. list[k - n + 1] \in Seq(Nat)
      BY <3>1, <1>2
    <3>3. QED
      BY <3>2, ConcatProperties
  <2>2. QED
    BY <2>1, <1>3
<1>7. \E g : Iterates(g, Seq(Nat), <<>>, k, step)
  <2>1. PICK V, c : V = Seq(Nat) /\ c = <<>>
    OBVIOUS
  <2>2. c \in V /\ \A n \in 1..k : \A v \in V : step[<<n, v>>] \in V
    BY <2>1, <1>4, <1>6
  <2>3. \E g : Iterates(g, V, c, k, step)
    BY <2>2, <1>1, FiniteRecursion
  <2>4. QED
    BY <2>1, <2>3
<1>8. PICK g : /\ g \in [0..k -> Seq(Nat)] /\ g[0] = <<>>
               /\ \A n \in 1..k : g[n] = step[<<n, g[n - 1]>>]
  BY <1>7, Zenon DEF Iterates
<1> DEFINE r == [n \in 0..k |-> g[k - n]]
<1>9. \A n \in 0..k : r[n] = g[k - n] /\ r[n] \in Seq(Nat)
  BY <1>1, <1>8
<1>10. r \in [0..k -> Seq(Nat)] /\ r[k] = <<>>
  <2>1. k \in 0..k /\ k - k = 0
    BY <1>1
  <2>2. r[k] = g[0]
    BY <2>1, <1>9
  <2>3. QED
    BY <1>8, <1>9, <2>2
<1> HIDE DEF r
<1>11. ASSUME NEW n \in 1..k PROVE r[n - 1] = list[n] \o r[n]
  <2>1. k - n + 1 \in 1..k /\ (k - n + 1) - 1 = k - n /\ k - (k - n + 1) + 1 = n
        /\ k - (n - 1) = k - n + 1 /\ n \in 0..k /\ n - 1 \in 0..k /\ k - n \in 0..k
    BY <1>1
  <2>2. g[k - n + 1] = step[<<k - n + 1, g[k - n]>>]
    BY <2>1, <1>8
  <2>3. PICK m \in 1..k : m = k - n + 1
    BY <2>1
  <2>4. step[<<m, g[k - n]>>] = list[k - m + 1] \o g[k - n]
    BY <2>1, <1>3, <1>8
  <2>5. k - m + 1 = n
    BY <2>1, <2>3
  <2>6. QED
    BY <2>1, <2>2, <2>3, <2>4, <2>5, <1>9
<1> DEFINE S == {n \in Nat : f[n] \o r[n] = r[0]}
<1>12. \A n \in 0..k : n \in S
  <2>1. 0 \in S
    <3>1. 0 \in 0..k
      BY <1>1
    <3>2. r[0] \in Seq(Nat)
      BY <3>1, <1>9
    <3>3. <<>> \o r[0] = r[0]
      BY <3>2, ConcatEmptySeq
    <3>4. QED
      BY <3>3, <1>5
  <2>2. ASSUME NEW n \in 0..(k - 1), n \in S PROVE n + 1 \in S
    <3>1. n + 1 \in 1..k /\ (n + 1) - 1 = n /\ n \in 0..k /\ n + 1 \in 0..k /\ n + 1 \in Nat
      BY <1>1
    <3>2. /\ f[n] \in Seq(Nat) /\ list[n + 1] \in Seq(Nat) /\ r[n + 1] \in Seq(Nat)
      BY <3>1, <1>2, <1>5, <1>9
    <3>3. (f[n] \o list[n + 1]) \o r[n + 1] = f[n] \o (list[n + 1] \o r[n + 1])
      <4>1. PICK x, y, z \in Seq(Nat) : x = f[n] /\ y = list[n + 1] /\ z = r[n + 1]
        BY <3>2
      <4>2. (x \o y) \o z = x \o (y \o z)
        BY ConcatAssociative
      <4>3. QED
        BY <4>1, <4>2, Zenon
    <3>4. f[n + 1] = f[n] \o list[n + 1] /\ r[n] = list[n + 1] \o r[n + 1]
      <4>1. PICK m \in 1..k : m = n + 1 /\ m - 1 = n
        BY <3>1
      <4>2. f[m] = f[m - 1] \o list[m] /\ r[m - 1] = list[m] \o r[m]
        BY <1>5, <1>11
      <4>3. QED
        BY <4>1, <4>2, Zenon
    <3>5. f[n] \o r[n] = r[0]
      BY <2>2
    <3>6. QED
      BY <3>1, <3>3, <3>4, <3>5
  <2> HIDE DEF S
  <2>3. QED
    BY <1>1, <2>1, <2>2, FiniteInduction
<1>13. r[0] = FlattenSeq(list)
  <2>1. k \in 0..k
    BY <1>1
  <2>2. f[k] \o r[k] = r[0] /\ f[k] \in Seq(Nat)
    BY <2>1, <1>5, <1>12
  <2>3. f[k] \o <<>> = f[k]
    BY <2>2, ConcatEmptySeq
  <2>4. QED
    BY <2>2, <2>3, <1>5, <1>10
<1>14. QED
  BY <1>10, <1>11, <1>13, Zenon DEF Leaves, k

(* What there is of some bytes before and after each of their lines. *)
Grows(o, lines, bytes) ==
  /\ o \in [0..Len(lines) -> Seq(Nat)] /\ o[0] = <<>> /\ o[Len(lines)] = bytes
  /\ \A n \in 1..Len(lines) : /\ o[n] = o[n - 1] \o lines[n]
                              /\ Len(o[n - 1]) + Len(lines[n]) <= Len(bytes)

(* What there is of a sequence after one more element. *)
LEMMA Appended ==
  ASSUME NEW S, NEW s \in Seq(S), NEW e \in S
  PROVE  /\ Append(s, e) \in Seq(S) /\ Len(Append(s, e)) = Len(s) + 1 /\ Len(s) \in Nat
         /\ Append(s, e)[Len(s) + 1] = e /\ Append(s, e) = s \o <<e>>
         /\ \A i \in 1..Len(s) : Append(s, e)[i] = s[i]
<1>1. /\ Append(s, e) \in Seq(S) /\ Len(Append(s, e)) = Len(s) + 1 /\ Len(s) \in Nat
      /\ Append(s, e)[Len(s) + 1] = e
      /\ \A i \in 1..Len(s) : Append(s, e)[i] = s[i]
  OBVIOUS
<1>2. <<e>> \in Seq(S) /\ Len(<<e>>) = 1 /\ <<e>>[1] = e
  OBVIOUS
<1>3. /\ s \o <<e>> \in Seq(S) /\ Len(s \o <<e>>) = Len(s) + 1
      /\ \A i \in 1..(Len(s) + 1) : (s \o <<e>>)[i] = IF i <= Len(s) THEN s[i] ELSE <<e>>[i - Len(s)]
  BY <1>2, ConcatProperties
<1>4. ASSUME NEW i \in 1..(Len(s) + 1) PROVE (s \o <<e>>)[i] = Append(s, e)[i]
  <2>1. CASE i <= Len(s)
    BY <2>1, <1>1, <1>3
  <2>2. CASE ~(i <= Len(s))
    <3>1. i = Len(s) + 1 /\ i - Len(s) = 1
      BY <2>2, <1>1
    <3>2. QED
      BY <3>1, <2>2, <1>1, <1>2, <1>3
  <2>3. QED
    BY <2>1, <2>2
<1>5. PICK x, y \in Seq(S) : x = Append(s, e) /\ y = s \o <<e>>
  BY <1>1, <1>3
<1>6. Len(x) = Len(y) /\ \A i \in 1..Len(x) : x[i] = y[i]
  BY <1>1, <1>3, <1>4, <1>5
<1>7. x = y
  BY <1>6, SeqEqual
<1>8. QED
  BY <1>1, <1>5, <1>7, Zenon

(* A list with one more byte, as a part of its own or behind the last one. *)
Extended(list, more, b) ==
  \/ more = Append(list, <<b>>)
  \/ /\ Len(list) >= 1 /\ Len(more) = Len(list)
     /\ more[Len(list)] = list[Len(list)] \o <<b>>
     /\ \A n \in 1..(Len(list) - 1) : more[n] = list[n]

(* One more byte makes one more line or makes the last one longer. *)
LEMMA WithByteType ==
  ASSUME NEW B, NEW lines \in Seq(Seq(B)), NEW b \in B
  PROVE  /\ WithByte(lines, b) \in Seq(Seq(B))
         /\ Extended(lines, WithByte(lines, b), b)
<1>1. <<b>> \in Seq(B) /\ Len(<<b>>) = 1
  OBVIOUS
<1>2. CASE lines = <<>> \/ Last(Last(lines)) = LineEnd
  <2>1. WithByte(lines, b) = Append(lines, <<b>>)
    BY <1>2, Zenon DEF WithByte
  <2>2. PICK x : x = <<b>>
    OBVIOUS
  <2>3. Append(lines, x) \in Seq(Seq(B))
    BY <1>1, <2>2
  <2>4. QED
    BY <2>1, <2>2, <2>3, Zenon DEF Extended
<1>3. CASE ~(lines = <<>> \/ Last(Last(lines)) = LineEnd)
  <2>1. WithByte(lines, b) = Append(Front(lines), Append(Last(lines), b))
    BY <1>3, Zenon DEF WithByte
  <2>2. Len(lines) \in Nat /\ Len(lines) >= 1
    BY <1>3, EmptySeq
  <2>3. PICK last \in Seq(B) : last = lines[Len(lines)] /\ last = Last(lines)
    BY <2>2, ElementOfSeq DEF Last
  <2>4. PICK x \in Seq(B) : x = Append(last, b) /\ x = last \o <<b>>
    BY Appended
  <2> DEFINE k == Len(lines) - 1
  <2>5. k \in Nat /\ Len(lines) = k + 1
    BY <2>2
  <2>6. PICK front \in Seq(Seq(B)) :
          /\ front = Front(lines) /\ Len(front) = Len(lines) - 1
          /\ \A n \in 1..(Len(lines) - 1) : front[n] = lines[n]
    <3>1. \A i \in 1..(Len(lines) - 1) : lines[i] \in Seq(B)
      BY ElementOfSeq
    <3> HIDE DEF k
    <3>2. /\ SubSeq(lines, 1, k) \in Seq(Seq(B)) /\ Len(SubSeq(lines, 1, k)) = k
          /\ \A n \in 1..k : SubSeq(lines, 1, k)[n] = lines[n]
      BY <2>2, <2>5
    <3>3. QED
      BY <2>5, <3>2, Zenon DEF Front, k
  <2>7. PICK L, x1, f1 : L = Seq(B) /\ x1 = x /\ f1 = front /\ x1 \in L /\ f1 \in Seq(L)
    BY <2>4, <2>6
  <2>8. PICK new : /\ new = Append(f1, x1) /\ new \in Seq(L)
                   /\ Len(new) = Len(f1) + 1 /\ new[Len(f1) + 1] = x1
                   /\ \A n \in 1..Len(f1) : new[n] = f1[n]
    <3>1. f1 \in Seq(L) /\ x1 \in L
      BY <2>7
    <3> HIDE DEF k
    <3>2. /\ Append(f1, x1) \in Seq(L) /\ Len(Append(f1, x1)) = Len(f1) + 1
          /\ Append(f1, x1)[Len(f1) + 1] = x1
          /\ \A i \in 1..Len(f1) : Append(f1, x1)[i] = f1[i]
      BY <3>1
    <3>3. QED
      BY <3>2, Zenon
  <2>9. WithByte(lines, b) = new
    BY <2>1, <2>3, <2>4, <2>6, <2>7, <2>8, Zenon
  <2>10. /\ new \in Seq(Seq(B)) /\ Len(new) = Len(lines) /\ new[Len(lines)] = x
         /\ \A n \in 1..(Len(lines) - 1) : new[n] = lines[n]
    <3>1. Len(f1) = k /\ Len(lines) - 1 = k /\ Len(lines) = k + 1
      BY <2>5, <2>6, <2>7
    <3>2. QED
      BY <3>1, <2>6, <2>7, <2>8
  <2>11. QED
    BY <2>2, <2>3, <2>4, <2>9, <2>10, Zenon DEF Extended
<1>4. QED
  BY <1>2, <1>3

(* If the parts made the bytes so far, they do with one more byte. *)
LEMMA OneMoreGrows ==
  ASSUME NEW B \in SUBSET Nat, NEW lines \in Seq(Seq(B)), NEW new \in Seq(Seq(B)), NEW b \in B,
         NEW d \in Seq(B), Extended(lines, new, b), \E o : Grows(o, lines, d)
  PROVE  \E o : Grows(o, new, d \o <<b>>)
<1> DEFINE m == Len(new)
           e == d \o <<b>>
<1>1. PICK o : Grows(o, lines, d)
  OBVIOUS
<1>2. /\ o \in [0..Len(lines) -> Seq(Nat)] /\ o[0] = <<>> /\ o[Len(lines)] = d
      /\ \A n \in 1..Len(lines) : /\ o[n] = o[n - 1] \o lines[n]
                                  /\ Len(o[n - 1]) + Len(lines[n]) <= Len(d)
  BY <1>1, Zenon DEF Grows
<1>3. <<b>> \in Seq(Nat) /\ Len(<<b>>) = 1 /\ Len(lines) \in Nat
  OBVIOUS
<1>4. d \in Seq(Nat) /\ e \in Seq(Nat) /\ Len(e) = Len(d) + 1 /\ Len(d) \in Nat
  <2>1. d \in Seq(Nat)
    BY SeqMonotonic
  <2>2. QED
    BY <2>1, <1>3, ConcatProperties
<1>5. \A n \in 1..Len(lines) : lines[n] \in Seq(Nat)
  <2>1. ASSUME NEW n \in 1..Len(lines) PROVE lines[n] \in Seq(Nat)
    <3>1. lines[n] \in Seq(B)
      BY ElementOfSeq
    <3>2. QED
      BY <3>1, SeqMonotonic
  <2>2. QED
    BY <2>1
<1> HIDE DEF e
<1>6. CASE new = Append(lines, <<b>>)
  <2>1. PICK x \in Seq(Nat) : x = <<b>> /\ Len(x) = 1
    BY <1>3
  <2>2. m = Len(lines) + 1 /\ new[m] = x /\ \A n \in 1..Len(lines) : new[n] = lines[n]
    BY <1>6, <2>1
  <2> HIDE DEF m
  <2> DEFINE p == [n \in 0..m |-> IF n = m THEN e ELSE o[n]]
  <2>3. p \in [0..m -> Seq(Nat)] /\ p[m] = e /\ \A n \in 0..Len(lines) : p[n] = o[n]
    BY <1>2, <1>3, <1>4, <2>2
  <2> HIDE DEF p
  <2>4. ASSUME NEW n \in 1..m
        PROVE  p[n] = p[n - 1] \o new[n] /\ Len(p[n - 1]) + Len(new[n]) <= Len(e)
    <3>1. CASE n = m
      <4>1. n - 1 = Len(lines) /\ n - 1 \in 0..Len(lines)
        BY <3>1, <2>2, <1>3
      <4>2. p[n - 1] = d /\ new[n] = x /\ p[n] = e
        BY <4>1, <3>1, <2>2, <2>3, <1>2
      <4>3. e = d \o x
        BY <2>1, Zenon DEF e
      <4>4. QED
        BY <4>2, <4>3, <2>1, <1>4
    <3>2. CASE n # m
      <4>1. n \in 1..Len(lines) /\ n - 1 \in 0..Len(lines) /\ n \in 0..Len(lines)
        BY <3>2, <2>2, <1>3
      <4>2. p[n - 1] = o[n - 1] /\ new[n] = lines[n] /\ p[n] = o[n]
        BY <4>1, <2>2, <2>3
      <4>3. o[n] = o[n - 1] \o lines[n] /\ Len(o[n - 1]) + Len(lines[n]) <= Len(d)
        BY <4>1, <1>2
      <4>4. PICK y, z \in Seq(Nat) : y = o[n - 1] /\ z = lines[n]
        BY <4>1, <1>2, <1>5
      <4>5. Len(y) \in Nat /\ Len(z) \in Nat /\ Len(y) + Len(z) <= Len(d)
        <5>1. Len(y) \in Nat /\ Len(z) \in Nat
          OBVIOUS
        <5>2. QED
          BY <5>1, <4>3, <4>4, Zenon
      <4>6. Len(y) + Len(z) <= Len(e)
        BY <4>5, <1>4
      <4>7. QED
        BY <4>2, <4>3, <4>4, <4>6, Zenon
    <3>3. QED
      BY <3>1, <3>2
  <2>5. p[0] = <<>>
    BY <2>3, <1>2, <1>3
  <2>6. Grows(p, new, e)
    BY <2>3, <2>4, <2>5, Zenon DEF Grows, m
  <2>7. QED
    BY <2>6, Zenon DEF e
<1>7. CASE /\ Len(lines) >= 1 /\ Len(new) = Len(lines)
           /\ new[Len(lines)] = lines[Len(lines)] \o <<b>>
           /\ \A n \in 1..(Len(lines) - 1) : new[n] = lines[n]
  <2>1. PICK x \in Seq(Nat) : x = <<b>> /\ Len(x) = 1
    BY <1>3
  <2>2. PICK k \in Nat : k = Len(lines) /\ k >= 1
    BY <1>3, <1>7
  <2>3. /\ m = k /\ new[k] = lines[k] \o x
        /\ \A n \in 1..(k - 1) : new[n] = lines[n]
    BY <1>7, <2>1, <2>2, Zenon
  <2> HIDE DEF m
  <2> DEFINE p == [n \in 0..k |-> IF n = k THEN e ELSE o[n]]
  <2>4. p \in [0..k -> Seq(Nat)] /\ p[k] = e /\ \A n \in 0..(k - 1) : p[n] = o[n]
    BY <1>2, <1>4, <2>2
  <2> HIDE DEF p
  <2>5. ASSUME NEW n \in 1..k
        PROVE  p[n] = p[n - 1] \o new[n] /\ Len(p[n - 1]) + Len(new[n]) <= Len(e)
    <3>1. n - 1 \in 0..(k - 1) /\ n - 1 \in 0..k /\ n \in 1..Len(lines) /\ k \in 0..Len(lines)
      BY <2>2
    <3>2. PICK y, z \in Seq(Nat) : y = o[n - 1] /\ z = lines[n] /\ p[n - 1] = y
      BY <3>1, <1>2, <1>5, <2>2, <2>4
    <3>3. o[n] = y \o z /\ Len(y) + Len(z) <= Len(d) /\ Len(y) \in Nat /\ Len(z) \in Nat
      <4>1. o[n] = o[n - 1] \o lines[n] /\ Len(o[n - 1]) + Len(lines[n]) <= Len(d)
        BY <3>1, <1>2
      <4>2. Len(y) \in Nat /\ Len(z) \in Nat
        OBVIOUS
      <4>3. QED
        BY <3>2, <4>1, <4>2, Zenon
    <3>4. CASE n = k
      <4>1. d = y \o z
        BY <3>3, <3>4, <2>2, <1>2
      <4>2. e = (y \o z) \o x
        BY <4>1, <2>1, Zenon DEF e
      <4>3. e = y \o (z \o x)
        <5>1. Regrouped(y, z, x)
          BY IsRegrouped
        <5>2. QED
          BY <4>2, <5>1, Zenon DEF Regrouped
      <4>4. new[n] = z \o x /\ p[n] = e
        BY <3>2, <3>4, <2>3, <2>4, Zenon
      <4>5. Len(z \o x) = Len(z) + 1
        BY <2>1, ConcatProperties
      <4>6. Len(y) + (Len(z) + 1) <= Len(e)
        BY <3>3, <1>4
      <4>7. QED
        BY <4>3, <4>4, <4>5, <4>6, <3>2, Zenon
    <3>5. CASE n # k
      <4>1. n \in 1..(k - 1) /\ n \in 0..(k - 1)
        BY <3>5, <2>2
      <4>2. new[n] = z /\ p[n] = o[n]
        BY <4>1, <2>3, <2>4, <3>2
      <4>3. Len(y) + Len(z) <= Len(e)
        BY <3>3, <1>4
      <4>4. QED
        BY <4>2, <4>3, <3>2, <3>3, Zenon
    <3>6. QED
      BY <3>4, <3>5
  <2>6. p[0] = <<>>
    BY <2>2, <2>4, <1>2
  <2>7. Grows(p, new, e)
    BY <2>3, <2>4, <2>5, <2>6, Zenon DEF Grows, m
  <2>8. QED
    BY <2>7, Zenon DEF e
<1>8. QED
  BY <1>6, <1>7, Zenon DEF Extended

(* No part of a list is empty. *)
Full(list) == \A n \in 1..Len(list) : list[n] # <<>>

LEMMA OneMoreIsFull ==
  ASSUME NEW B, NEW lines \in Seq(Seq(B)), NEW new, NEW b \in B, Extended(lines, new, b), Full(lines)
  PROVE  Full(new)
<1>1. PICK x \in Seq(B) : x = <<b>> /\ Len(x) = 1
  <2>1. <<b>> \in Seq(B) /\ Len(<<b>>) = 1
    OBVIOUS
  <2>2. QED
    BY <2>1
<1>2. PICK k \in Nat : k = Len(lines)
  OBVIOUS
<1>3. \A n \in 1..k : lines[n] # <<>>
  BY <1>2, Zenon DEF Full
<1>4. x # <<>>
  BY <1>1
<1>5. CASE new = Append(lines, <<b>>)
  <2>1. PICK L : L = Seq(B)
    OBVIOUS
  <2>2. lines \in Seq(L) /\ x \in L
    BY <2>1
  <2>3. Len(Append(lines, x)) = k + 1 /\ Append(lines, x)[k + 1] = x
        /\ \A n \in 1..k : Append(lines, x)[n] = lines[n]
    BY <2>2, <1>2, Appended
  <2>4. \A n \in 1..(k + 1) : n \in 1..k \/ n = k + 1
    OBVIOUS
  <2>5. QED
    BY <2>3, <2>4, <1>1, <1>3, <1>4, <1>5, Zenon DEF Full
<1>6. CASE /\ Len(lines) >= 1 /\ Len(new) = Len(lines)
           /\ new[Len(lines)] = lines[Len(lines)] \o <<b>>
           /\ \A n \in 1..(Len(lines) - 1) : new[n] = lines[n]
  <2>1. k \in 1..k /\ k \in 1..Len(lines)
    BY <1>2, <1>6
  <2>2. PICK y \in Seq(B) : y = lines[k]
    BY <2>1, ElementOfSeq
  <2>3. Len(y \o x) = Len(y) + 1 /\ Len(y) \in Nat
    BY <1>1, ConcatProperties
  <2>4. y \o x # <<>>
    BY <2>3
  <2>5. new[k] = y \o x /\ Len(new) = k /\ \A n \in 1..(k - 1) : new[n] = lines[n]
    BY <1>1, <1>2, <1>6, <2>2, Zenon
  <2>6. \A n \in 1..k : n = k \/ n \in 1..(k - 1)
    OBVIOUS
  <2>7. \A n \in 1..(k - 1) : n \in 1..k
    OBVIOUS
  <2>8. QED
    BY <2>4, <2>5, <2>6, <2>7, <1>3, Zenon DEF Full
<1>7. QED
  BY <1>5, <1>6, Zenon DEF Extended

IsLines(f, data) ==
  f = [n \in 0..Len(data) |-> IF n = 0 THEN <<>> ELSE WithByte(f[n - 1], data[n])]

(* The lines of some bytes make these bytes, one after the other, and none  *)
(* of them is empty.                                                       *)
THEOREM LinesMake ==
  ASSUME NEW B \in SUBSET Nat, NEW data \in Seq(B)
  PROVE  /\ Lines(data) \in Seq(Seq(B)) /\ \E o : Grows(o, Lines(data), data)
         /\ Full(Lines(data))
<1> DEFINE k == Len(data)
           V == Seq(Seq(B))
           step == [pair \in (1..k) \X V |-> WithByte(pair[2], data[pair[1]])]
           f == CHOOSE g : IsLines(g, data)
<1>1. k \in Nat
  OBVIOUS
<1>2. \A n \in 1..k : data[n] \in B
  BY ElementOfSeq
<1>3. \A n \in 1..k : \A v \in V : step[<<n, v>>] = WithByte(v, data[n])
  <2> HIDE DEF V
  <2>1. QED
    OBVIOUS
<1> HIDE DEF step, k
<1>4. \A n \in 1..k : \A v \in V : WithByte(v, data[n]) \in V
  BY <1>2, WithByteType
<1>5. <<>> \in V
  BY EmptySeq
<1> HIDE DEF V
<1>6. \E g : Iterates(g, V, <<>>, k, step)
  <2>1. PICK c : c = <<>>
    OBVIOUS
  <2>2. c \in V /\ \A n \in 1..k : \A v \in V : step[<<n, v>>] \in V
    BY <2>1, <1>3, <1>4, <1>5
  <2>3. \E g : Iterates(g, V, c, k, step)
    BY <2>2, <1>1, FiniteRecursion
  <2>4. QED
    BY <2>1, <2>3
<1>7. PICK g : /\ g \in [0..k -> V] /\ g[0] = <<>>
               /\ \A n \in 1..k : g[n] = step[<<n, g[n - 1]>>]
  BY <1>6, Zenon DEF Iterates
<1>8. IsLines(g, data)
  <2>1. ASSUME NEW n \in 0..k
        PROVE  g[n] = IF n = 0 THEN <<>> ELSE WithByte(g[n - 1], data[n])
    <3>1. CASE n = 0
      BY <3>1, <1>7
    <3>2. CASE n # 0
      <4>1. n \in 1..k /\ n - 1 \in 0..k
        BY <3>2, <1>1
      <4>2. g[n] = WithByte(g[n - 1], data[n])
        BY <4>1, <1>3, <1>7
      <4>3. QED
        BY <4>2, <3>2
    <3>3. QED
      BY <3>1, <3>2
  <2>2. g = [n \in 0..k |-> g[n]]
    BY <1>7
  <2>3. QED
    BY <2>1, <2>2, Zenon DEF IsLines, k
<1>9. IsLines(f, data)
  BY <1>8, Zenon
<1>10. Lines(data) = f[k]
  BY Zenon DEF Lines, IsLines, k
<1> HIDE DEF f
<1>11. \A n \in 0..k : f[n] = IF n = 0 THEN <<>> ELSE WithByte(f[n - 1], data[n])
  BY <1>9, Zenon DEF IsLines, k
<1> DEFINE S == {n \in Nat : /\ f[n] \in V /\ Full(f[n])
                            /\ \E o : Grows(o, f[n], SubSeq(data, 1, n))}
<1>12. \A n \in 0..k : n \in S
  <2>1. 0 \in S
    <3>1. PICK list, d : list = <<>> /\ d = <<>> /\ Len(list) = 0
      OBVIOUS
    <3>2. f[0] = list
      BY <3>1, <1>1, <1>11
    <3>3. SubSeq(data, 1, 0) = d
      BY <3>1, SubSeqEmpty
    <3>4. list \in V
      BY <3>1, <1>5
    <3>5. d \in Seq(Nat)
      BY <3>1, EmptySeq
    <3> DEFINE o == [n \in 0..0 |-> d]
    <3>6. o \in [0..0 -> Seq(Nat)] /\ o[0] = d
      BY <3>5
    <3> HIDE DEF o
    <3>7. \A n \in 1..0 : FALSE
      OBVIOUS
    <3>8. Grows(o, list, d)
      BY <3>1, <3>6, <3>7, Zenon DEF Grows
    <3>9. Full(list)
      BY <3>1, <3>7, Zenon DEF Full
    <3>10. QED
      BY <3>2, <3>3, <3>4, <3>8, <3>9
  <2>2. ASSUME NEW n \in 0..(k - 1), n \in S PROVE n + 1 \in S
    <3>1. n + 1 \in 0..k /\ n + 1 # 0 /\ (n + 1) - 1 = n /\ n + 1 \in 1..k /\ n \in Nat /\ n <= k
      BY <1>1
    <3>2. f[n] \in V /\ Full(f[n]) /\ \E o : Grows(o, f[n], SubSeq(data, 1, n))
      BY <2>2
    <3>3. f[n + 1] = WithByte(f[n], data[n + 1])
      BY <3>1, <1>11, Zenon
    <3>4. PICK list, b, d : list = f[n] /\ b = data[n + 1] /\ d = SubSeq(data, 1, n)
      OBVIOUS
    <3>5. list \in Seq(Seq(B)) /\ b \in B /\ d \in Seq(B)
      <4>1. d \in Seq(B)
        <5>1. \A i \in 1..n : data[i] \in B
          BY <3>1, <1>1, <1>2
        <5>2. QED
          BY <5>1, <3>1, <3>4, SubSeqProperties
      <4>2. QED
        BY <4>1, <3>1, <3>2, <3>4, <1>2 DEF V
    <3>6. WithByte(list, b) \in Seq(Seq(B)) /\ Extended(list, WithByte(list, b), b)
      BY <3>5, WithByteType, Zenon
    <3>7. \E o : Grows(o, WithByte(list, b), d \o <<b>>)
      BY <3>2, <3>4, <3>5, <3>6, OneMoreGrows, Zenon
    <3>8. SubSeq(data, 1, n + 1) = d \o <<b>>
      <4>1. SubSeq(data, 1, n + 1) = SubSeq(data, 1, (n + 1) - 1) \o <<data[n + 1]>>
        BY <3>1, SubSeqRecursiveSecond DEF k
      <4>2. QED
        BY <4>1, <3>1, <3>4
    <3>9. f[n + 1] \in V
      BY <3>3, <3>4, <3>6 DEF V
    <3>10. \E o : Grows(o, f[n + 1], SubSeq(data, 1, n + 1))
      BY <3>3, <3>4, <3>7, <3>8, Zenon
    <3>11. Full(f[n + 1])
      <4>1. Full(list)
        BY <3>2, <3>4, Zenon
      <4>2. PICK new : new = WithByte(list, b)
        OBVIOUS
      <4>3. Extended(list, new, b)
        BY <3>6, <4>2, Zenon
      <4>4. Full(new)
        BY <3>5, <4>1, <4>3, OneMoreIsFull, Zenon
      <4>5. QED
        BY <3>3, <3>4, <4>2, <4>4, Zenon
    <3>12. QED
      BY <3>1, <3>9, <3>10, <3>11
  <2> HIDE DEF S
  <2>3. QED
    BY <1>1, <2>1, <2>2, FiniteInduction
<1>13. SubSeq(data, 1, k) = data
  BY SubSeqFull DEF k
<1>14. k \in 0..k
  BY <1>1
<1>15. QED
  BY <1>10, <1>12, <1>13, <1>14 DEF V
--------------------------------------------------------------------------------
(* The commands of one line. *)

(* The least of some numbers is one of them. *)
LEMMA MinIs ==
  ASSUME NEW S \in SUBSET Nat, S # {}
  PROVE  Min(S) \in S /\ \A n \in S : Min(S) <= n
<1>1. \E x \in S : \A y \in S : x <= y
  BY Least
<1>2. QED
  BY <1>1, Zenon DEF Min

(* So is the greatest, where there is a bound. *)
LEMMA MaxIs ==
  ASSUME NEW S \in SUBSET Nat, S # {}, NEW b \in Nat, \A n \in S : n <= b
  PROVE  Max(S) \in S /\ \A n \in S : n <= Max(S)
<1> DEFINE T == {n \in 0..b : b - n \in S}
<1>1. T \in SUBSET Nat
  OBVIOUS
<1>2. T # {}
  <2>1. PICK n \in S : n \in Nat /\ n <= b
    OBVIOUS
  <2>2. b - n \in 0..b /\ b - (b - n) = n
    BY <2>1
  <2>3. b - n \in T
    BY <2>1, <2>2
  <2>4. QED
    BY <2>3
<1>3. PICK m \in T : \A n \in T : m <= n
  <2> HIDE DEF T
  <2>1. QED
    BY <1>1, <1>2, Least
<1>4. b - m \in S /\ m \in 0..b
  OBVIOUS
<1>5. ASSUME NEW n \in S PROVE b - m >= n
  <2>1. n \in Nat /\ n <= b /\ b - n \in 0..b /\ b - (b - n) = n
    OBVIOUS
  <2>2. b - n \in T
    BY <2>1
  <2>3. m <= b - n
    BY <2>2, <1>3
  <2>4. QED
    BY <2>1, <2>3, <1>4
<1>6. \E x \in S : \A y \in S : x >= y
  BY <1>4, <1>5
<1>7. Max(S) \in S /\ \A y \in S : Max(S) >= y
  BY <1>6, Zenon DEF Max
<1>8. QED
  BY <1>7

(* A command stands for at least one byte and at most MaxRun. *)
LEMMA CommandEndIs ==
  ASSUME LogAssumption, NEW residual \in Seq(Nat), NEW i \in 1..Len(residual)
  PROVE  /\ ZeroRun(residual, i) \in Nat
         /\ CommandEnd(residual, i) \in (i + 1)..(Len(residual) + 1)
         /\ CommandEnd(residual, i) - i <= MaxRun
         /\ ZeroRun(residual, i) >= 2 =>
              \A k \in i..(CommandEnd(residual, i) - 1) : residual[k] = 0
<1> DEFINE zeros == {n \in 0..MaxRun : /\ i + n <= Len(residual) + 1
                                       /\ \A k \in i..(i + n - 1) : residual[k] = 0}
           ends == {e \in (i + 1)..(Len(residual) + 1) :
                      e = Len(residual) + 1 \/ e - i = MaxRun \/ ZeroRun(residual, e) >= 2}
<1>1. MaxRun \in Nat \ {0} /\ Len(residual) \in Nat
  BY DEF LogAssumption
<1>2. Max(zeros) \in zeros
  <2>1. 0 \in zeros
    BY <1>1
  <2>2. zeros \in SUBSET Nat /\ \A n \in zeros : n <= MaxRun
    BY <1>1
  <2> HIDE DEF zeros
  <2>3. QED
    BY <1>1, <2>1, <2>2, MaxIs
<1>3. ZeroRun(residual, i) = Max(zeros)
  BY Zenon DEF ZeroRun
<1>4. Min(ends) \in ends /\ \A e \in ends : Min(ends) <= e
  <2>1. Len(residual) + 1 \in ends
    BY <1>1
  <2>2. ends \in SUBSET Nat
    BY <1>1
  <2> HIDE DEF ends
  <2>3. QED
    BY <2>1, <2>2, MinIs
<1>5. LiteralEnd(residual, i) = Min(ends)
  BY Zenon DEF LiteralEnd
<1>6. CASE ZeroRun(residual, i) >= 2
  <2>1. CommandEnd(residual, i) = i + ZeroRun(residual, i)
    BY <1>6, Zenon DEF CommandEnd
  <2>2. PICK z : z = ZeroRun(residual, i) /\ z \in zeros
    BY <1>2, <1>3, Zenon
  <2>3. QED
    BY <1>1, <1>6, <2>1, <2>2
<1>7. CASE ~(ZeroRun(residual, i) >= 2)
  <2>1. CommandEnd(residual, i) = LiteralEnd(residual, i)
    BY <1>7, Zenon DEF CommandEnd
  <2>2. PICK e : e = CommandEnd(residual, i) /\ e \in ends /\ \A d \in ends : e <= d
    BY <1>4, <1>5, <2>1, Zenon
  <2>3. e \in (i + 1)..(Len(residual) + 1)
    BY <2>2
  <2>4. e - i <= MaxRun
    <3>1. CASE i + MaxRun <= Len(residual) + 1
      <4>1. i + MaxRun \in ends
        BY <1>1, <3>1
      <4>2. e <= i + MaxRun
        BY <2>2, <4>1
      <4>3. QED
        BY <4>2, <2>3, <1>1
    <3>2. CASE ~(i + MaxRun <= Len(residual) + 1)
      BY <3>2, <2>3, <1>1
    <3>3. QED
      BY <3>1, <3>2
  <2>5. ZeroRun(residual, i) \in Nat
    <3>1. Max(zeros) \in Nat
      BY <1>2
    <3>2. QED
      BY <3>1, <1>3, Zenon
  <2>6. QED
    BY <1>7, <2>2, <2>3, <2>4, <2>5
<1>8. QED
  BY <1>6, <1>7

(* A command is a sequence of bytes. *)
LEMMA CommandType ==
  ASSUME LogAssumption, NEW residual \in Seq(Nat), NEW i \in 1..Len(residual)
  PROVE  Command(residual, i) \in Seq(Nat)
<1>1. MaxRun \in Nat \ {0} /\ Len(residual) \in Nat
  BY DEF LogAssumption
<1>2. PICK size : size = CommandEnd(residual, i) - i
  OBVIOUS
<1>3. size \in 1..MaxRun /\ i + size - 1 <= Len(residual)
  BY <1>1, <1>2, CommandEndIs
<1>4. CASE ZeroRun(residual, i) >= 2
  <2>1. Command(residual, i) = <<MaxRun + size - 1>>
    BY <1>2, <1>4, Zenon DEF Command
  <2>2. MaxRun + size - 1 \in Nat
    BY <1>1, <1>3
  <2>3. <<MaxRun + size - 1>> \in Seq(Nat)
    BY <2>2
  <2>4. QED
    BY <2>1, <2>3
<1>5. CASE ~(ZeroRun(residual, i) >= 2)
  <2>1. Command(residual, i) = <<size - 1>> \o SubSeq(residual, i, i + size - 1)
    BY <1>2, <1>5, Zenon DEF Command
  <2>2. <<size - 1>> \in Seq(Nat)
    <3>1. size - 1 \in Nat
      BY <1>3, <1>1
    <3>2. QED
      BY <3>1
  <2>3. SubSeq(residual, i, i + size - 1) \in Seq(Nat)
    <3>1. \A k \in i..(i + size - 1) : residual[k] \in Nat
      <4>1. \A k \in i..(i + size - 1) : k \in 1..Len(residual)
        BY <1>1, <1>3
      <4>2. QED
        BY <4>1, ElementOfSeq
    <3>2. QED
      BY <3>1, <1>1, <1>3, SubSeqProperties
  <2>4. QED
    BY <2>1, <2>2, <2>3, ConcatProperties
<1>6. QED
  BY <1>4, <1>5

IsCommands(f, residual) ==
  f = [left \in 0..Len(residual) |->
         IF left = 0 THEN <<>>
         ELSE LET i == Len(residual) - left + 1
              IN  Command(residual, i) \o f[Len(residual) - CommandEnd(residual, i) + 1]]

(* The commands for what is left of a residual. *)
LEMMA CommandsUnfold ==
  ASSUME LogAssumption, NEW residual \in Seq(Nat)
  PROVE  \E c : /\ c \in [0..Len(residual) -> Seq(Nat)] /\ c[0] = <<>>
                /\ c[Len(residual)] = Commands(residual)
                /\ \A i \in 1..Len(residual) :
                     c[Len(residual) - i + 1] =
                       Command(residual, i) \o c[Len(residual) - CommandEnd(residual, i) + 1]
<1> DEFINE k == Len(residual)
           base == {0} \cup (Nat \ 0..k)
           start == [n \in Nat |-> <<>>]
           step == [pair \in (1..k) \X Seq(Nat) |-> Command(residual, k - pair[1] + 1) \o pair[2]]
           before == [n \in Nat |-> k - CommandEnd(residual, k - n + 1) + 1]
           f == CHOOSE g : IsCommands(g, residual)
<1>1. k \in Nat
  OBVIOUS
<1>2. \A n \in Nat : n \notin base <=> n \in 1..k
  OBVIOUS
<1>3. \A i \in 1..k : /\ Command(residual, i) \in Seq(Nat)
                      /\ CommandEnd(residual, i) \in (i + 1)..(k + 1)
  BY CommandType, CommandEndIs
<1>4. 0 \in base
  OBVIOUS
<1>5. /\ \A n \in Nat : start[n] = <<>>
      /\ \A n \in 1..k : before[n] = k - CommandEnd(residual, k - n + 1) + 1
      /\ \A n \in 1..k : \A v \in Seq(Nat) : step[<<n, v>>] = Command(residual, k - n + 1) \o v
  <2> HIDE DEF k
  <2>1. \A n \in Nat : start[n] = <<>>
    OBVIOUS
  <2>2. \A n \in 1..k : before[n] = k - CommandEnd(residual, k - n + 1) + 1
    <3> HIDE DEF step
    <3>1. \A n \in 1..k : n \in Nat
      BY <1>1
    <3>2. QED
      BY <3>1, Zenon
  <2>3. \A n \in 1..k : \A v \in Seq(Nat) : step[<<n, v>>] = Command(residual, k - n + 1) \o v
    <3> HIDE DEF before, start
    <3>1. ASSUME NEW n \in 1..k, NEW v \in Seq(Nat)
          PROVE  step[<<n, v>>] = Command(residual, k - n + 1) \o v
      OBVIOUS
    <3>2. QED
      BY <3>1
  <2>4. QED
    BY <2>1, <2>2, <2>3
<1>6. \A n \in 1..k : k - n + 1 \in 1..k /\ k - (k - n + 1) + 1 = n /\ n \in 0..k /\ n # 0
  BY <1>1
<1> HIDE DEF k, base, start, step, before
<1>7. \A n \in Nat \ base : before[n] \in Nat /\ before[n] < n
  <2>1. ASSUME NEW n \in 1..k PROVE before[n] \in 0..k /\ before[n] < n
    <3>1. CommandEnd(residual, k - n + 1) \in (k - n + 2)..(k + 1)
      <4>1. PICK i \in 1..k : i = k - n + 1
        BY <1>6
      <4>2. CommandEnd(residual, i) \in (i + 1)..(k + 1)
        BY <1>3
      <4>3. QED
        BY <4>1, <4>2, <1>1
    <3>2. QED
      BY <3>1, <1>1, <1>5
  <2>2. QED
    BY <2>1, <1>2
<1>8. <<>> \in Seq(Nat)
  BY EmptySeq
<1>9. PICK g \in [Nat -> Seq(Nat)] : Recurs(g, base, start, step, before)
  <2>1. PICK V : V = Seq(Nat)
    OBVIOUS
  <2>2. \A n \in Nat \cap base : start[n] \in V
    BY <1>5, <1>8, <2>1
  <2>3. \A n \in Nat \ base : \A v \in V : step[<<n, v>>] \in V
    <3>1. ASSUME NEW n \in 1..k, NEW v \in Seq(Nat) PROVE step[<<n, v>>] \in Seq(Nat)
      <4>1. Command(residual, k - n + 1) \in Seq(Nat)
        BY <1>3, <1>6
      <4>2. Command(residual, k - n + 1) \o v \in Seq(Nat)
        BY <4>1, ConcatProperties
      <4>3. QED
        BY <4>2, <1>5
    <3>2. QED
      BY <2>1, <3>1, <1>2
  <2>4. \E g \in [Nat -> V] : Recurs(g, base, start, step, before)
    BY <1>7, <2>2, <2>3, RecursionExists
  <2>5. QED
    BY <2>1, <2>4
<1>10. \A n \in Nat : g[n] = IF n \in base THEN start[n] ELSE step[<<n, g[before[n]]>>]
  BY <1>9, DOMAIN g = Nat, Zenon DEF Recurs
<1>11. g[0] = <<>>
  BY <1>5, <1>4, <1>10
<1>12. ASSUME NEW n \in 1..k
       PROVE  /\ before[n] \in 0..k /\ before[n] = k - CommandEnd(residual, k - n + 1) + 1
              /\ g[n] = Command(residual, k - n + 1) \o g[before[n]]
  <2>1. n \in Nat \ base
    BY <1>2
  <2>2. before[n] \in Nat /\ before[n] < n
    BY <2>1, <1>7
  <2>3. g[n] = step[<<n, g[before[n]]>>]
    BY <2>1, <1>10
  <2>4. g[before[n]] \in Seq(Nat)
    BY <2>2, <1>9
  <2>5. before[n] = k - CommandEnd(residual, k - n + 1) + 1
    BY <1>5
  <2>6. before[n] \in 0..k
    BY <2>2, <1>1
  <2>7. g[n] = Command(residual, k - n + 1) \o g[before[n]]
    BY <2>3, <2>4, <1>5, Zenon
  <2>8. QED
    BY <2>5, <2>6, <2>7
<1> DEFINE h == [n \in 0..k |-> g[n]]
<1>13. IsCommands(h, residual)
  <2>1. ASSUME NEW left \in 0..k
        PROVE  h[left] = IF left = 0 THEN <<>>
                         ELSE LET i == k - left + 1
                              IN  Command(residual, i) \o h[k - CommandEnd(residual, i) + 1]
    <3>1. CASE left = 0
      BY <3>1, <1>11
    <3>2. CASE left # 0
      <4>1. left \in 1..k
        BY <3>2, <1>1
      <4>2. h[before[left]] = g[before[left]] /\ h[left] = g[left]
        BY <4>1, <1>12
      <4>3. h[left] = Command(residual, k - left + 1) \o h[k - CommandEnd(residual, k - left + 1) + 1]
        BY <4>1, <4>2, <1>12, Zenon
      <4>4. QED
        BY <4>3, <3>2, Zenon
    <3>3. QED
      BY <3>1, <3>2
  <2>2. h = [left \in 0..k |-> h[left]]
    OBVIOUS
  <2> HIDE DEF h
  <2>3. QED
    BY <2>1, <2>2, Zenon DEF IsCommands, k
<1>14. IsCommands(f, residual)
  BY <1>13, Zenon
<1>15. Commands(residual) = f[k]
  BY Zenon DEF Commands, IsCommands, k
<1> HIDE DEF f, h
<1>16. \A left \in 0..k : f[left] = IF left = 0 THEN <<>>
                          ELSE Command(residual, k - left + 1)
                                 \o f[k - CommandEnd(residual, k - left + 1) + 1]
  BY <1>14, Zenon DEF IsCommands, k
<1>17. f[0] = <<>>
  <2>1. 0 \in 0..k
    BY <1>1
  <2>2. QED
    BY <2>1, <1>16, Zenon
<1>18. ASSUME NEW n \in 1..k
       PROVE  f[n] = Command(residual, k - n + 1) \o f[before[n]]
  BY <1>6, <1>12, <1>16, Zenon
<1> DEFINE S == {n \in Nat : n <= k => f[n] \in Seq(Nat)}
<1>19. ASSUME NEW n \in Nat, \A m \in 0..(n - 1) : m \in S PROVE n \in S
  <2>1. CASE n = 0
    BY <2>1, <1>8, <1>17
  <2>2. CASE n # 0 /\ n <= k
    <3>1. n \in 1..k /\ n \in Nat \ base
      BY <2>2, <1>1, <1>2
    <3>2. before[n] \in 0..(n - 1) /\ before[n] <= k
      <4>1. PICK b \in Nat : b = before[n] /\ b < n
        BY <3>1, <1>7
      <4>2. b \in 0..(n - 1)
        BY <4>1
      <4>3. b <= k
        BY <4>1, <2>2, <1>1
      <4>4. QED
        BY <4>1, <4>2, <4>3, Zenon
    <3>3. f[before[n]] \in Seq(Nat)
      BY <3>2, <1>19
    <3>4. Command(residual, k - n + 1) \in Seq(Nat)
      BY <3>1, <1>3, <1>6
    <3>5. Command(residual, k - n + 1) \o f[before[n]] \in Seq(Nat)
      BY <3>3, <3>4, ConcatProperties
    <3>6. QED
      BY <3>1, <3>5, <1>18
  <2>3. QED
    BY <2>1, <2>2
<1>20. \A n \in Nat : n \in S
  <2> HIDE DEF S
  <2>1. QED
    BY <1>19, Induction
<1>21. f \in [0..k -> Seq(Nat)]
  <2>1. f = [n \in 0..k |-> f[n]]
    BY <1>14, Zenon DEF IsCommands, k
  <2>2. \A n \in 0..k : f[n] \in Seq(Nat)
    BY <1>1, <1>20
  <2>3. QED
    BY <2>1, <2>2
<1>22. ASSUME NEW i \in 1..k
       PROVE  f[k - i + 1] = Command(residual, i) \o f[k - CommandEnd(residual, i) + 1]
  <2>1. PICK n \in 1..k : n = k - i + 1 /\ k - n + 1 = i
    BY <1>1
  <2>2. QED
    BY <2>1, <1>12, <1>18, Zenon
<1>23. QED
  BY <1>15, <1>17, <1>21, <1>22, Zenon DEF k

(* The difference of two lines of one length gives the one back from the   *)
(* other; where it is zero they are the same.                              *)
LEMMA DifferenceIs ==
  ASSUME LogAssumption, NEW record \in Seq(Byte), NEW reference \in Seq(Byte),
         Len(record) = Len(reference)
  PROVE  /\ Difference(record, reference) \in Seq(Nat)
         /\ Len(Difference(record, reference)) = Len(record)
         /\ \A j \in 1..Len(record) :
              /\ record[j] \in Byte /\ reference[j] \in Byte
              /\ Xor(Difference(record, reference)[j], reference[j]) = record[j]
              /\ Difference(record, reference)[j] = 0 => record[j] = reference[j]
<1>1. PICK k \in Nat : k = Len(record) /\ k = Len(reference) /\ DOMAIN record = 1..k
  OBVIOUS
<1>2. \A j \in 1..k : record[j] \in Byte /\ reference[j] \in Byte
  BY <1>1, ElementOfSeq
<1> DEFINE d == [j \in 1..k |-> Xor(record[j], reference[j])]
<1>3. Difference(record, reference) = d
  BY <1>1, Zenon DEF Difference
<1>4. d = [j \in 1..k |-> d[j]] /\ \A j \in 1..k : d[j] = Xor(record[j], reference[j])
  BY Zenon
<1> HIDE DEF d
<1>5. ASSUME NEW j \in 1..k
      PROVE  /\ d[j] \in Byte /\ Xor(d[j], reference[j]) = record[j]
             /\ d[j] = 0 => record[j] = reference[j]
  <2>1. PICK x, y \in Byte : x = record[j] /\ y = reference[j]
    BY <1>2
  <2>2. Xor(x, y) \in Byte /\ Xor(Xor(x, y), y) = x /\ (Xor(x, y) = 0 <=> x = y)
    BY Zenon DEF LogAssumption
  <2>3. d[j] = Xor(x, y)
    BY <1>4, <2>1, Zenon
  <2>4. QED
    BY <2>1, <2>2, <2>3, Zenon
<1>6. d \in [1..k -> Nat]
  <2>1. \A j \in 1..k : d[j] \in Nat
    <3>1. \A j \in 1..k : d[j] \in Byte
      BY <1>5, Zenon
    <3>2. Byte \subseteq Nat
      BY DEF Byte
    <3>3. QED
      BY <3>1, <3>2, Zenon
  <2>2. QED
    BY <1>4, <2>1
<1>7. d \in Seq(Nat) /\ Len(d) = k
  BY <1>1, <1>6
<1>8. QED
  BY <1>1, <1>2, <1>3, <1>5, <1>7, Zenon

(* A sequence of bytes is one of numbers. *)
LEMMA ByteSeq ==
  ASSUME NEW s \in Seq(Byte)
  PROVE  s \in Seq(Nat) /\ \A j \in 1..Len(s) : s[j] \in Nat
<1>1. Byte \subseteq Nat
  BY DEF Byte
<1>2. PICK B : B = Byte
  OBVIOUS
<1>3. s \in Seq(B) /\ B \subseteq Nat
  BY <1>1, <1>2
<1>4. s \in Seq(Nat)
  BY <1>3, SeqMonotonic
<1>5. QED
  BY <1>4

(* A piece of a sequence, and what precedes it. *)
LEMMA Piece ==
  ASSUME NEW s \in Seq(Nat), NEW p \in 0..Len(s), NEW n \in 0..Len(s), p <= n
  PROVE  /\ SubSeq(s, 1, p) \in Seq(Nat) /\ Len(SubSeq(s, 1, p)) = p
         /\ SubSeq(s, p + 1, n) \in Seq(Nat) /\ Len(SubSeq(s, p + 1, n)) = n - p
         /\ \A j \in 1..(n - p) : SubSeq(s, p + 1, n)[j] = s[p + j]
         /\ SubSeq(s, 1, p) \o SubSeq(s, p + 1, n) = SubSeq(s, 1, n)
<1>1. \A j \in 1..Len(s) : s[j] \in Nat
  OBVIOUS
<1>2. \A j \in (p + 1)..n : s[j] \in Nat
  BY <1>1
<1>3. /\ SubSeq(s, p + 1, n) \in Seq(Nat)
      /\ Len(SubSeq(s, p + 1, n)) = n - p
      /\ \A j \in 1..(n - p) : SubSeq(s, p + 1, n)[j] = s[p + j]
  <2>1. PICK m \in Int : m = p + 1
    OBVIOUS
  <2>2. \A j \in m..n : s[j] \in Nat
    BY <1>2, <2>1
  <2>3. /\ SubSeq(s, m, n) \in Seq(Nat)
        /\ Len(SubSeq(s, m, n)) = IF m <= n THEN n - m + 1 ELSE 0
        /\ \A j \in 1..(n - m + 1) : SubSeq(s, m, n)[j] = s[m + j - 1]
    BY <2>2, SubSeqProperties
  <2>4. n - m + 1 = n - p /\ (IF m <= n THEN n - m + 1 ELSE 0) = n - p
    BY <2>1
  <2>5. \A j \in 1..(n - p) : m + j - 1 = p + j
    BY <2>1
  <2>6. QED
    BY <2>1, <2>3, <2>4, <2>5
<1>4. SubSeq(s, 1, p) \in Seq(Nat) /\ Len(SubSeq(s, 1, p)) = p
  <2>1. \A j \in 1..p : s[j] \in Nat
    BY <1>1
  <2>2. QED
    BY <2>1, SubSeqProperties
<1>5. SubSeq(s, 1, p) \o SubSeq(s, p + 1, n) = SubSeq(s, 1, n)
  <2>1. 1 \in 1..(Len(s) + 1) /\ p \in (1 - 1)..Len(s) /\ n \in p..Len(s)
    OBVIOUS
  <2>2. QED
    BY <2>1, ConcatAdjacentSubSeq
<1>6. QED
  BY <1>3, <1>4, <1>5

(* From one command a reader knows the line up to where that command ends. *)
CommandIsRead(record, reference, residual, i, t) ==
  ReadCommand([value |-> SubSeq(record, 1, i - 1), rest |-> Command(residual, i) \o t], reference)
    = {[value |-> SubSeq(record, 1, CommandEnd(residual, i) - 1), rest |-> t]}

(* A reader that knows a line up to a command knows it, after this command, *)
(* up to where the next one begins: the bytes it copies are those of the   *)
(* reference, the others are the difference to it.                         *)
LEMMA ReadsCommand ==
  ASSUME LogAssumption, NEW record \in Seq(Byte), NEW reference \in Seq(Byte),
         Len(record) = Len(reference), NEW t \in Seq(Nat),
         NEW residual \in Seq(Nat), residual = Difference(record, reference),
         NEW i \in 1..Len(record)
  PROVE  CommandIsRead(record, reference, residual, i, t)
<1>1. /\ residual \in Seq(Nat) /\ Len(residual) = Len(record) /\ Len(record) \in Nat
      /\ MaxRun \in Nat \ {0}
  BY DifferenceIs DEF LogAssumption
<1> DEFINE size == CommandEnd(residual, i) - i
           p == i - 1
           line == [value |-> SubSeq(record, 1, p), rest |-> Command(residual, i) \o t]
           Body(c) == LET n == (c.value[1] % MaxRun) + 1
                          same == SubSeq(reference, Len(line.value) + 1, Len(line.value) + n)
                      IN  IF n > Len(reference) - Len(line.value) THEN {}
                          ELSE IF c.value[1] >= MaxRun
                          THEN {[value |-> line.value \o same, rest |-> c.rest]}
                          ELSE {[value |-> line.value \o Difference(l.value, same), rest |-> l.rest] :
                                  l \in Take(c.rest, n)}
<1>2. /\ CommandEnd(residual, i) \in (i + 1)..(Len(record) + 1)
      /\ CommandEnd(residual, i) - i <= MaxRun
      /\ ZeroRun(residual, i) >= 2 =>
           \A k \in i..(CommandEnd(residual, i) - 1) : residual[k] = 0
  <2>1. i \in 1..Len(residual)
    BY <1>1
  <2>2. QED
    BY <2>1, <1>1, CommandEndIs
<1>3. /\ size \in 1..MaxRun /\ p \in 0..Len(record) /\ p + size \in 0..Len(record)
      /\ p + 1 = i /\ p + size = CommandEnd(residual, i) - 1 /\ size \in Nat /\ p \in Nat
  BY <1>1, <1>2
<1> HIDE DEF size, p
<1>4. /\ record \in Seq(Nat) /\ reference \in Seq(Nat)
      /\ \A j \in 1..Len(record) :
           /\ Xor(residual[j], reference[j]) = record[j]
           /\ residual[j] = 0 => record[j] = reference[j]
  BY DifferenceIs, ByteSeq, Zenon
<1>5. /\ Len(SubSeq(record, 1, p)) = p
      /\ SubSeq(record, 1, p) \in Seq(Nat)
      /\ SubSeq(record, p + 1, p + size) \in Seq(Nat)
      /\ Len(SubSeq(record, p + 1, p + size)) = size
      /\ \A j \in 1..size : SubSeq(record, p + 1, p + size)[j] = record[p + j]
      /\ SubSeq(record, 1, p) \o SubSeq(record, p + 1, p + size) = SubSeq(record, 1, p + size)
  <2>1. PICK n \in 0..Len(record) : n = p + size /\ p <= n /\ n - p = size
    BY <1>3
  <2>2. /\ Len(SubSeq(record, 1, p)) = p
        /\ SubSeq(record, 1, p) \in Seq(Nat)
        /\ SubSeq(record, p + 1, n) \in Seq(Nat) /\ Len(SubSeq(record, p + 1, n)) = n - p
        /\ \A j \in 1..(n - p) : SubSeq(record, p + 1, n)[j] = record[p + j]
        /\ SubSeq(record, 1, p) \o SubSeq(record, p + 1, n) = SubSeq(record, 1, n)
    BY <1>3, <1>4, <2>1, Piece
  <2>3. QED
    BY <2>1, <2>2
<1>6. /\ SubSeq(reference, p + 1, p + size) \in Seq(Nat)
      /\ Len(SubSeq(reference, p + 1, p + size)) = size
      /\ \A j \in 1..size : SubSeq(reference, p + 1, p + size)[j] = reference[p + j]
  <2>1. p \in 0..Len(reference) /\ reference \in Seq(Nat)
    BY <1>3, <1>4
  <2>2. PICK n \in 0..Len(reference) : n = p + size /\ p <= n /\ n - p = size
    BY <1>3
  <2>3. /\ SubSeq(reference, p + 1, n) \in Seq(Nat) /\ Len(SubSeq(reference, p + 1, n)) = n - p
        /\ \A j \in 1..(n - p) : SubSeq(reference, p + 1, n)[j] = reference[p + j]
    BY <2>1, <2>2, Piece
  <2>4. QED
    BY <2>2, <2>3
<1>7. \A j \in 1..size : p + j \in 1..Len(record)
  BY <1>1, <1>3
<1>8. PICK old, same, piece : /\ old = SubSeq(record, 1, p)
                              /\ same = SubSeq(reference, p + 1, p + size)
                              /\ piece = SubSeq(record, p + 1, p + size)
  OBVIOUS
<1>9. /\ line.value = old /\ line.rest = Command(residual, i) \o t /\ Len(line.value) = p
  BY <1>5, <1>8
<1> HIDE DEF line
<1>10. ReadCommand(line, reference) = UNION {Body(c) : c \in Take(line.rest, 1)}
  <2>1. ~(Len(line.value) = Len(reference))
    BY <1>3, <1>9, <1>1, <1>2
  <2>2. QED
    BY <2>1, Zenon DEF ReadCommand
<1>11. ~(size > Len(reference) - Len(line.value))
  BY <1>1, <1>3, <1>9
<1>12. SUFFICES ReadCommand(line, reference) = {[value |-> old \o piece, rest |-> t]}
  <2>1. SubSeq(record, 1, CommandEnd(residual, i) - 1) = old \o piece
    BY <1>3, <1>5, <1>8
  <2>2. QED
    BY <2>1, <1>12, Zenon DEF line, p, CommandIsRead
<1>13. CASE ZeroRun(residual, i) >= 2
  <2> DEFINE b == MaxRun + size - 1
  <2>1. Command(residual, i) = <<b>>
    BY <1>13, Zenon DEF Command, size
  <2>2. b \in Nat /\ b >= MaxRun /\ (b % MaxRun) + 1 = size
    <3>1. b = MaxRun * 1 + (size - 1) /\ size - 1 \in 0..(MaxRun - 1) /\ b >= MaxRun
      BY <1>1, <1>3
    <3>2. (MaxRun * 1 + (size - 1)) % MaxRun = size - 1
      BY <3>1, <1>1, DivisionUnique
    <3>3. QED
      BY <3>1, <3>2, <1>1, <1>3
  <2> HIDE DEF b
  <2>3. PICK d : d = [value |-> <<b>>, rest |-> t]
    OBVIOUS
  <2>4. Take(line.rest, 1) = {d}
    BY <2>1, <2>2, <2>3, <1>9, TakeByte, Zenon
  <2>5. d.value[1] = b /\ d.rest = t
    BY <2>3
  <2>6. UNION {Body(c) : c \in {d}} = Body(d)
    <3> HIDE DEF Body
    <3>1. QED
      BY Zenon
  <2>7. Body(d) = {[value |-> line.value \o same, rest |-> d.rest]}
    <3>1. (d.value[1] % MaxRun) + 1 = size /\ d.value[1] >= MaxRun
      BY <2>2, <2>5, Zenon
    <3>2. QED
      BY <3>1, <1>8, <1>9, <1>11, Zenon
  <2>8. same = piece
    <3>1. ASSUME NEW j \in 1..size PROVE same[j] = piece[j]
      <4>1. p + j \in 1..Len(record) /\ p + j \in i..(CommandEnd(residual, i) - 1)
        BY <1>3, <1>7
      <4>2. residual[p + j] = 0
        BY <4>1, <1>2, <1>13
      <4>3. record[p + j] = reference[p + j]
        BY <4>1, <4>2, <1>4
      <4>4. QED
        BY <4>3, <1>5, <1>6, <1>8
    <3>2. same \in Seq(Nat) /\ piece \in Seq(Nat) /\ Len(same) = size /\ Len(piece) = size
      BY <1>5, <1>6, <1>8
    <3>3. QED
      BY <3>1, <3>2, SeqEqual
  <2>9. QED
    BY <2>4, <2>5, <2>6, <2>7, <2>8, <1>9, <1>10, Zenon
<1>14. CASE ~(ZeroRun(residual, i) >= 2)
  <2> DEFINE b == size - 1
             lit == SubSeq(residual, i, i + size - 1)
  <2>1. Command(residual, i) = <<b>> \o lit
    BY <1>14, Zenon DEF Command, size
  <2>2. b \in Nat /\ ~(b >= MaxRun) /\ (b % MaxRun) + 1 = size
    <3>1. size - 1 \in 0..(MaxRun - 1) /\ MaxRun * 0 + (size - 1) = size - 1
      BY <1>1, <1>3
    <3>2. (MaxRun * 0 + (size - 1)) % MaxRun = size - 1
      BY <3>1, <1>1, DivisionUnique
    <3>3. QED
      BY <3>1, <3>2, <1>1, <1>3
  <2>3. /\ lit \in Seq(Nat) /\ Len(lit) = size
        /\ \A j \in 1..size : lit[j] = residual[p + j]
    <3>1. PICK n \in 0..Len(residual) : n = i + size - 1 /\ p <= n /\ n - p = size
      BY <1>1, <1>3
    <3>2. /\ SubSeq(residual, p + 1, n) \in Seq(Nat) /\ Len(SubSeq(residual, p + 1, n)) = n - p
          /\ \A j \in 1..(n - p) : SubSeq(residual, p + 1, n)[j] = residual[p + j]
      BY <1>1, <1>3, <3>1, Piece
    <3>3. QED
      BY <3>1, <3>2, <1>3
  <2> HIDE DEF b, lit
  <2>4. <<b>> \in Seq(Nat) /\ lit \o t \in Seq(Nat)
    BY <2>2, <2>3, ConcatProperties
  <2>5. (<<b>> \o lit) \o t = <<b>> \o (lit \o t)
    BY <2>3, <2>4, ConcatAssociative
  <2>6. PICK d : d = [value |-> <<b>>, rest |-> lit \o t]
    OBVIOUS
  <2>7. Take(line.rest, 1) = {d}
    <3>1. PICK u \in Seq(Nat) : u = lit \o t
      BY <2>4
    <3>2. Take(<<b>> \o u, 1) = {[value |-> <<b>>, rest |-> u]}
      BY <2>2, TakeByte
    <3>3. line.rest = <<b>> \o u
      BY <3>1, <2>1, <2>5, <1>9, Zenon
    <3>4. QED
      BY <3>1, <3>2, <3>3, <2>6, Zenon
  <2>8. d.value[1] = b /\ d.rest = lit \o t
    BY <2>6
  <2>9. UNION {Body(c) : c \in {d}} = Body(d)
    <3> HIDE DEF Body
    <3>1. QED
      BY Zenon
  <2>10. Body(d) = {[value |-> line.value \o Difference(l.value, same), rest |-> l.rest] :
                      l \in Take(d.rest, size)}
    <3>1. (d.value[1] % MaxRun) + 1 = size /\ ~(d.value[1] >= MaxRun)
      BY <2>2, <2>8, Zenon
    <3>2. QED
      BY <3>1, <1>8, <1>9, <1>11, Zenon
  <2>11. PICK w : w = [value |-> lit, rest |-> t]
    OBVIOUS
  <2>12. Take(d.rest, size) = {w}
    BY <2>3, <2>8, <2>11, TakeFront, Zenon
  <2>13. w.value = lit /\ w.rest = t
    BY <2>11
  <2>14. Difference(lit, same) = piece
    <3>1. ASSUME NEW j \in 1..size PROVE Xor(lit[j], same[j]) = piece[j]
      <4>1. p + j \in 1..Len(record)
        BY <1>7
      <4>2. /\ lit[j] = residual[p + j] /\ same[j] = reference[p + j]
            /\ piece[j] = record[p + j]
        BY <1>5, <1>6, <1>8, <2>3, Zenon
      <4>3. QED
        BY <4>1, <4>2, <1>4, Zenon
    <3>2. DOMAIN lit = 1..size
      BY <2>3, <1>3
    <3>3. Difference(lit, same) = [j \in 1..size |-> Xor(lit[j], same[j])]
      BY <3>2, Zenon DEF Difference
    <3>4. piece = [j \in 1..size |-> piece[j]]
      <4>1. piece \in Seq(Nat) /\ Len(piece) = size
        BY <1>5, <1>8
      <4>2. piece \in [1..size -> Nat]
        BY <4>1, LenProperties
      <4>3. QED
        BY <4>2
    <3>5. QED
      BY <3>1, <3>3, <3>4, Zenon
  <2>15. Body(d) = {[value |-> line.value \o Difference(w.value, same), rest |-> w.rest]}
    BY <2>10, <2>12, Zenon
  <2>16. Body(d) = {[value |-> old \o piece, rest |-> t]}
    BY <2>13, <2>14, <2>15, <1>9, Zenon
  <2>17. ReadCommand(line, reference) = Body(d)
    <3> HIDE DEF Body
    <3>1. QED
      BY <2>7, <2>9, <1>10, Zenon
  <2>18. QED
    BY <2>16, <2>17, Zenon
<1>15. QED
  BY <1>13, <1>14

IsRead(f, bytes, reference) ==
  f = [n \in 0..Len(reference) |->
         IF n = 0 THEN {[value |-> <<>>, rest |-> bytes]}
         ELSE UNION {ReadCommand(line, reference) : line \in f[n - 1]}]

(* The commands of a line give it back. *)
THEOREM ReadsCommands ==
  ASSUME LogAssumption, NEW record \in Seq(Byte), NEW reference \in Seq(Byte),
         Len(record) = Len(reference), NEW t \in Seq(Nat)
  PROVE  ReadCommands(Commands(Difference(record, reference)) \o t, reference)
           = {[value |-> record, rest |-> t]}
<1>1. PICK residual : residual = Difference(record, reference)
  OBVIOUS
<1>2. PICK k \in Nat : k = Len(record) /\ k = Len(reference)
  OBVIOUS
<1>3. residual \in Seq(Nat) /\ Len(residual) = k /\ record \in Seq(Nat)
  BY <1>1, <1>2, DifferenceIs, ByteSeq
<1>4. PICK c : /\ c \in [0..k -> Seq(Nat)] /\ c[0] = <<>> /\ c[k] = Commands(residual)
               /\ \A i \in 1..k : c[k - i + 1] =
                    Command(residual, i) \o c[k - CommandEnd(residual, i) + 1]
  BY <1>3, CommandsUnfold
<1>5. \A i \in 1..k : /\ CommandEnd(residual, i) \in (i + 1)..(k + 1)
                      /\ Command(residual, i) \in Seq(Nat)
  BY <1>3, CommandEndIs, CommandType
<1> DEFINE step == [pair \in (1..k) \X (0..k) |->
                      IF pair[2] = k THEN k ELSE CommandEnd(residual, pair[2] + 1) - 1]
<1>6. \A n \in 1..k : \A v \in 0..k :
        step[<<n, v>>] = IF v = k THEN k ELSE CommandEnd(residual, v + 1) - 1
  OBVIOUS
<1> HIDE DEF step
<1>7. ASSUME NEW v \in 0..k, v # k
      PROVE  v + 1 \in 1..k /\ CommandEnd(residual, v + 1) - 1 \in (v + 1)..k
  <2>1. PICK i \in 1..k : i = v + 1
    BY <1>7
  <2>2. CommandEnd(residual, i) \in (i + 1)..(k + 1)
    BY <1>5
  <2>3. QED
    BY <2>1, <2>2
<1>8. \E p : Iterates(p, 0..k, 0, k, step)
  <2>1. PICK V, z : V = 0..k /\ z = 0
    OBVIOUS
  <2>2. z \in V
    BY <2>1
  <2>3. \A n \in 1..k : \A v \in V : step[<<n, v>>] \in V
    <3>1. ASSUME NEW n \in 1..k, NEW v \in 0..k PROVE step[<<n, v>>] \in 0..k
      BY <1>6, <1>7
    <3>2. QED
      BY <2>1, <3>1
  <2>4. \E p : Iterates(p, V, z, k, step)
    BY <2>2, <2>3, FiniteRecursion
  <2>5. QED
    BY <2>1, <2>4
<1>9. PICK p : /\ p \in [0..k -> 0..k] /\ p[0] = 0
               /\ \A n \in 1..k : p[n] = step[<<n, p[n - 1]>>]
  BY <1>8, Zenon DEF Iterates
<1>10. ASSUME NEW n \in 1..k
       PROVE  /\ n - 1 \in 0..k /\ p[n - 1] \in 0..k /\ p[n] \in 0..k
              /\ p[n] = IF p[n - 1] = k THEN k ELSE CommandEnd(residual, p[n - 1] + 1) - 1
  <2>1. n - 1 \in 0..k /\ n \in 0..k
    OBVIOUS
  <2>2. p[n - 1] \in 0..k /\ p[n] \in 0..k
    BY <2>1, <1>9
  <2>3. QED
    BY <2>1, <2>2, <1>6, <1>9, Zenon
<1>11. p[k] = k
  <2> DEFINE S == {n \in Nat : n <= k => p[n] >= n}
  <2>1. \A n \in 0..k : n \in S
    <3>1. 0 \in S
      BY <1>9
    <3>2. ASSUME NEW n \in 0..(k - 1), n \in S PROVE n + 1 \in S
      <4>1. n + 1 \in 1..k /\ (n + 1) - 1 = n /\ n + 1 \in Nat
        OBVIOUS
      <4>2. p[n] \in 0..k /\ p[n] >= n
        BY <3>2, <1>9
      <4>3. p[n + 1] = IF p[n] = k THEN k ELSE CommandEnd(residual, p[n] + 1) - 1
        BY <4>1, <1>10, Zenon
      <4>4. p[n + 1] >= n + 1
        <5>1. CASE p[n] = k
          BY <4>1, <4>3, <5>1
        <5>2. CASE p[n] # k
          <6>1. CommandEnd(residual, p[n] + 1) - 1 \in (p[n] + 1)..k
            BY <4>2, <5>2, <1>7
          <6>2. p[n + 1] = CommandEnd(residual, p[n] + 1) - 1
            BY <4>3, <5>2
          <6>3. QED
            BY <4>2, <6>1, <6>2
        <5>3. QED
          BY <5>1, <5>2
      <4>5. QED
        BY <4>1, <4>4
    <3> HIDE DEF S
    <3>3. QED
      BY <3>1, <3>2, FiniteInduction
  <2>2. k \in S /\ p[k] \in 0..k
    BY <2>1, <1>9
  <2>3. QED
    BY <2>2
<1> DEFINE State(n) == [value |-> SubSeq(record, 1, p[n]), rest |-> c[k - p[n]] \o t]
           bytes == Commands(residual) \o t
           w == [n \in 0..k |-> {State(n)}]
           f == CHOOSE g : IsRead(g, bytes, reference)
<1>12. State(0) = [value |-> <<>>, rest |-> bytes]
  <2>1. SubSeq(record, 1, 0) = <<>>
    BY SubSeqEmpty
  <2>2. k - 0 = k
    OBVIOUS
  <2>3. QED
    BY <2>1, <2>2, <1>4, <1>9, Zenon
<1>13. State(k) = [value |-> record, rest |-> t]
  <2>1. SubSeq(record, 1, k) = record
    BY <1>2, SubSeqFull
  <2>2. <<>> \o t = t
    BY ConcatEmptySeq
  <2>3. k - k = 0
    OBVIOUS
  <2>4. QED
    BY <2>1, <2>2, <2>3, <1>4, <1>11, Zenon
<1>14. ASSUME NEW n \in 1..k
       PROVE  UNION {ReadCommand(line, reference) : line \in {State(n - 1)}} = {State(n)}
  <2>1. PICK line : line = State(n - 1)
    OBVIOUS
  <2>2. line.value = SubSeq(record, 1, p[n - 1]) /\ line.rest = c[k - p[n - 1]] \o t
    BY <2>1
  <2>3. SUFFICES ReadCommand(line, reference) = {State(n)}
    <3> HIDE DEF State
    <3>1. QED
      BY <2>1, <2>3, Zenon
  <2>4. CASE p[n - 1] = k
    <3>1. SubSeq(record, 1, k) = record
      BY <1>2, SubSeqFull
    <3>2. Len(line.value) = Len(reference)
      BY <2>2, <2>4, <3>1, <1>2
    <3>3. ReadCommand(line, reference) = {line}
      BY <3>2, Zenon DEF ReadCommand
    <3>4. p[n] = p[n - 1]
      BY <2>4, <1>10
    <3>5. QED
      BY <2>1, <3>3, <3>4, Zenon
  <2>5. CASE p[n - 1] # k
    <3>1. PICK i \in 1..k : i = p[n - 1] + 1 /\ i - 1 = p[n - 1]
      <4>1. PICK v \in 0..k : v = p[n - 1] /\ v # k
        BY <2>5, <1>10
      <4>2. v + 1 \in 1..k /\ (v + 1) - 1 = v
        BY <4>1
      <4>3. QED
        BY <4>1, <4>2
    <3>2. k - p[n - 1] = k - i + 1
      BY <3>1, <1>10
    <3>3. CommandEnd(residual, i) - 1 \in 0..k /\ k - (CommandEnd(residual, i) - 1) = k - CommandEnd(residual, i) + 1
          /\ k - CommandEnd(residual, i) + 1 \in 0..k
      <4>1. CommandEnd(residual, i) \in (i + 1)..(k + 1)
        BY <1>5
      <4>2. QED
        BY <4>1
    <3>4. p[n] = CommandEnd(residual, i) - 1
      BY <2>5, <3>1, <1>10, Zenon
    <3>5. PICK x, y \in Seq(Nat) : x = Command(residual, i) /\ y = c[k - CommandEnd(residual, i) + 1]
      BY <3>3, <1>4, <1>5
    <3>6. (x \o y) \o t = x \o (y \o t) /\ y \o t \in Seq(Nat)
      BY ConcatAssociative, ConcatProperties
    <3>7. line = [value |-> SubSeq(record, 1, i - 1), rest |-> x \o (y \o t)]
      <4>1. c[k - i + 1] = x \o y
        BY <3>5, <1>4
      <4>2. QED
        BY <4>1, <3>1, <3>2, <3>6, <2>1, Zenon
    <3>8. PICK u \in Seq(Nat) : u = y \o t
      BY <3>6
    <3>9. i \in 1..Len(record)
      BY <1>2
    <3>10. ReadCommand([value |-> SubSeq(record, 1, i - 1), rest |-> Command(residual, i) \o u],
                       reference)
             = {[value |-> SubSeq(record, 1, CommandEnd(residual, i) - 1), rest |-> u]}
      <4>1. CommandIsRead(record, reference, residual, i, u)
        BY <3>9, <1>1, <1>3, ReadsCommand
      <4>2. QED
        BY <4>1, Zenon DEF CommandIsRead
    <3>11. State(n) = [value |-> SubSeq(record, 1, CommandEnd(residual, i) - 1), rest |-> u]
      BY <3>3, <3>4, <3>5, <3>8, Zenon
    <3>12. QED
      BY <3>5, <3>7, <3>8, <3>10, <3>11, Zenon
  <2>6. QED
    BY <2>4, <2>5
<1> HIDE DEF State
<1>15. IsRead(w, bytes, reference)
  <2>1. ASSUME NEW n \in 0..k
        PROVE  w[n] = IF n = 0 THEN {[value |-> <<>>, rest |-> bytes]}
                      ELSE UNION {ReadCommand(line, reference) : line \in w[n - 1]}
    <3>1. CASE n = 0
      BY <3>1, <1>12, Zenon
    <3>2. CASE n # 0
      <4>1. n \in 1..k /\ n - 1 \in 0..k
        BY <3>2
      <4>2. w[n] = {State(n)} /\ w[n - 1] = {State(n - 1)}
        BY <4>1, Zenon
      <4> HIDE DEF w
      <4>3. QED
        BY <4>1, <4>2, <3>2, <1>14, Zenon
    <3>3. QED
      BY <3>1, <3>2
  <2>2. w = [n \in 0..k |-> w[n]]
    BY Zenon
  <2> HIDE DEF w, bytes
  <2>3. QED
    BY <2>1, <2>2, <1>2, Zenon DEF IsRead
<1>16. IsRead(f, bytes, reference)
  BY <1>15, Zenon
<1>17. ReadCommands(bytes, reference) = f[k]
  BY <1>2, Zenon DEF ReadCommands, IsRead
<1> HIDE DEF f, w, bytes
<1>18. \A n \in 0..k : f[n] = IF n = 0 THEN {[value |-> <<>>, rest |-> bytes]}
                       ELSE UNION {ReadCommand(line, reference) : line \in f[n - 1]}
  BY <1>2, <1>16, Zenon DEF IsRead
<1> DEFINE S == {n \in Nat : f[n] = {State(n)}}
<1>19. \A n \in 0..k : n \in S
  <2>1. 0 \in S
    <3>1. 0 \in 0..k
      OBVIOUS
    <3>2. f[0] = {[value |-> <<>>, rest |-> bytes]}
      BY <3>1, <1>18, Zenon
    <3>3. QED
      BY <3>2, <1>12
  <2>2. ASSUME NEW n \in 0..(k - 1), n \in S PROVE n + 1 \in S
    <3>1. n + 1 \in 1..k /\ (n + 1) - 1 = n /\ n + 1 \in Nat /\ n + 1 \in 0..k /\ n + 1 # 0
      OBVIOUS
    <3>2. f[n] = {State(n)}
      BY <2>2
    <3>3. f[n + 1] = UNION {ReadCommand(line, reference) : line \in f[n]}
      BY <3>1, <1>18, Zenon
    <3>4. f[n + 1] = {State(n + 1)}
      BY <3>1, <3>2, <3>3, <1>14, Zenon
    <3>5. QED
      BY <3>1, <3>4
  <2> HIDE DEF S
  <2>3. QED
    BY <2>1, <2>2, FiniteInduction
<1>20. f[k] = {State(k)}
  BY <1>19, k \in 0..k
<1>21. QED
  BY <1>1, <1>13, <1>17, <1>20, Zenon DEF bytes
--------------------------------------------------------------------------------
(* References to lines, and the lines in turn. *)

(* Of the lines in one place, a later one is younger. *)
LEMMA AgeOrders ==
  ASSUME NEW format, NEW past, NEW m \in Nat, DOMAIN past = 1..m, NEW n,
         NEW k \in Placed(format, past, n)
  PROVE  /\ Age(format, past, n, k) \in Nat
         /\ \A l \in Placed(format, past, n) : Age(format, past, n, l) = Age(format, past, n, k) => l = k
<1> DEFINE P == Placed(format, past, n)
           Before(l) == {j \in P : j < l}
<1>1. P \subseteq 1..m
  BY Zenon DEF Placed
<1>2. \A l : Age(format, past, n, l) = Cardinality(Before(l))
  BY Zenon DEF Age
<1> HIDE DEF P
<1>3. \A l : IsFiniteSet(Before(l)) /\ Cardinality(Before(l)) \in Nat
  <2>1. ASSUME NEW l PROVE IsFiniteSet(Before(l)) /\ Cardinality(Before(l)) \in Nat
    <3>1. Before(l) \in SUBSET (1..m)
      BY <1>1
    <3>2. IsFiniteSet(1..m)
      BY FS_Interval
    <3>3. PICK I : I = 1..m
      OBVIOUS
    <3>4. IsFiniteSet(Before(l))
      BY <3>1, <3>2, <3>3, FS_Subset
    <3> HIDE DEF Before
    <3>5. QED
      BY <3>4, FS_CardinalityType
  <2>2. QED
    BY <2>1
<1>4. ASSUME NEW i \in P, NEW j \in P, i < j
      PROVE  Cardinality(Before(i)) < Cardinality(Before(j))
  <2>1. PICK T, U : T = Before(i) /\ U = Before(j)
    OBVIOUS
  <2>2. IsFiniteSet(T) /\ IsFiniteSet(U) /\ Cardinality(T) \in Nat /\ Cardinality(U) \in Nat
    BY <1>3, <2>1
  <2>3. i \notin T /\ T \cup {i} \in SUBSET U
    <3>1. i \in Nat /\ j \in Nat /\ ~(i < i) /\ \A x \in P : x \in Nat
      BY <1>1
    <3>2. i \notin T /\ i \in U
      BY <3>1, <1>4, <2>1
    <3>3. ASSUME NEW x \in T PROVE x \in U
      <4>1. x \in P /\ x < i
        BY <2>1
      <4>2. x < j
        BY <4>1, <3>1, <1>4
      <4>3. QED
        BY <4>1, <4>2, <2>1
    <3>4. QED
      BY <3>2, <3>3
  <2>4. Cardinality(T \cup {i}) = Cardinality(T) + 1
    BY <2>2, <2>3, FS_AddElement
  <2>5. PICK W : W = T \cup {i}
    OBVIOUS
  <2>6. Cardinality(W) <= Cardinality(U)
    <3>1. W \in SUBSET U
      BY <2>3, <2>5
    <3>2. QED
      BY <2>2, <3>1, FS_Subset
  <2>7. QED
    BY <2>1, <2>2, <2>4, <2>5, <2>6
<1>5. k \in P
  BY DEF P
<1>6. ASSUME NEW l \in P, Cardinality(Before(l)) = Cardinality(Before(k)) PROVE l = k
  <2>1. k \in Nat /\ l \in Nat
    BY <1>1, <1>5
  <2>2. ~(k < l) /\ ~(l < k)
    <3> HIDE DEF Before
    <3>1. Cardinality(Before(k)) \in Nat
      BY <1>3
    <3>2. QED
      BY <3>1, <1>4, <1>5, <1>6
  <2>3. QED
    BY <2>1, <2>2
<1>7. QED
  <2> HIDE DEF Before
  <2>1. QED
    BY <1>2, <1>3, <1>6, Zenon DEF P

(* The commands for a line are a sequence of bytes. *)
LEMMA CommandsType ==
  ASSUME LogAssumption, NEW record \in Seq(Byte), NEW reference \in Seq(Byte),
         Len(record) = Len(reference)
  PROVE  Commands(Difference(record, reference)) \in Seq(Nat)
<1>1. PICK residual \in Seq(Nat) : residual = Difference(record, reference)
  BY DifferenceIs
<1>2. PICK c \in [0..Len(residual) -> Seq(Nat)] : c[Len(residual)] = Commands(residual)
  BY CommandsUnfold
<1>3. Len(residual) \in 0..Len(residual)
  OBVIOUS
<1>4. QED
  BY <1>1, <1>2, <1>3

(* What a line can refer to is a line of its own length before it. *)
LEMMA CandidatesAre ==
  ASSUME NEW format, NEW past \in Seq(Seq(Byte)), NEW n, NEW k \in Candidates(format, past, n)
  PROVE  /\ k \in Placed(format, past, n) /\ k \in 1..Len(past)
         /\ past[k] \in Seq(Byte) /\ Len(past[k]) = n
<1>1. k \in Placed(format, past, n) /\ Len(past[k]) = n
  BY Zenon DEF Candidates
<1>2. k \in DOMAIN past
  BY <1>1, Zenon DEF Placed
<1>3. DOMAIN past = 1..Len(past)
  OBVIOUS
<1>4. QED
  BY <1>1, <1>2, <1>3, ElementOfSeq

(* If a line can refer to any, the best of them is one of these. *)
LEMMA BestIs ==
  ASSUME LogAssumption, NEW format, NEW past \in Seq(Seq(Byte)), NEW record \in Seq(Byte),
         Candidates(format, past, Len(record)) # {}
  PROVE  Best(format, past, record) \in Candidates(format, past, Len(record))
<1> DEFINE lines == Candidates(format, past, Len(record))
           cost(k) == Len(LineCommands(past, record, k))
           costs == {cost(k) : k \in lines}
<1>1. \A k \in lines : cost(k) \in Nat /\ k \in Nat
  <2>1. ASSUME NEW k \in lines PROVE cost(k) \in Nat /\ k \in Nat
    <3>1. k \in 1..Len(past) /\ past[k] \in Seq(Byte) /\ Len(past[k]) = Len(record)
      BY CandidatesAre
    <3>2. LineCommands(past, record, k) \in Seq(Nat)
      BY <3>1, CommandsType, Zenon DEF LineCommands
    <3>3. Len(past) \in Nat
      OBVIOUS
    <3>4. QED
      BY <3>1, <3>2, <3>3
  <2>2. QED
    BY <2>1
<1>2. lines # {}
  OBVIOUS
<1> HIDE DEF lines, cost
<1>3. PICK c \in costs : \A d \in costs : c <= d
  <2>1. costs \in SUBSET Nat /\ costs # {}
    BY <1>1, <1>2
  <2> HIDE DEF costs
  <2>2. QED
    BY <2>1, Least
<1> DEFINE cheapest == {k \in lines : cost(k) = c}
<1>4. PICK k \in cheapest : \A j \in cheapest : k <= j
  <2>1. cheapest \in SUBSET Nat /\ cheapest # {}
    BY <1>1
  <2> HIDE DEF cheapest
  <2>2. QED
    BY <2>1, Least
<1>5. k \in lines /\ cost(k) = c /\ c \in Nat
  BY <1>1
<1>6. ASSUME NEW j \in lines
      PROVE  cost(k) < cost(j) \/ (cost(k) = cost(j) /\ k <= j)
  <2>1. cost(j) \in costs /\ cost(j) \in Nat
    BY <1>1
  <2>2. c <= cost(j)
    BY <2>1, <1>3
  <2>3. CASE cost(j) = c
    <3>1. j \in cheapest
      BY <2>3
    <3>2. QED
      BY <3>1, <2>3, <1>4, <1>5
  <2>4. CASE cost(j) # c
    BY <2>1, <2>2, <2>4, <1>5
  <2>5. QED
    BY <2>3, <2>4
<1>7. \E i \in lines : \A j \in lines : cost(i) < cost(j) \/ (cost(i) = cost(j) /\ i <= j)
  BY <1>5, <1>6
<1>8. Best(format, past, record)
        = CHOOSE i \in lines : \A j \in lines : cost(i) < cost(j) \/ (cost(i) = cost(j) /\ i <= j)
  BY Zenon DEF Best, lines, cost
<1>9. QED
  BY <1>7, <1>8, Zenon DEF lines

(* What follows the mode of a line that refers to another one. *)
ReferenceCode(format, past, record) ==
  LET best == Best(format, past, record)
      index == IF format = "window" THEN <<Age(format, past, Len(record), best)>> ELSE <<>>
  IN  index \o LineCommands(past, record, best)

ReferenceIsRead(format, past, record, t) ==
  /\ ReferenceCode(format, past, record) \in Seq(Nat)
  /\ ReadReference(format, ReferenceCode(format, past, record) \o t, past, Len(record))
       = {[value |-> record, rest |-> t]}

(* The reader finds the same line for the index as the writer: the lines of *)
(* the window have different ages, the slot has one line.                  *)
LEMMA ReadsReference ==
  ASSUME LogAssumption, NEW format, NEW past \in Seq(Seq(Byte)), NEW record \in Seq(Byte),
         Candidates(format, past, Len(record)) # {}, NEW t \in Seq(Nat)
  PROVE  ReferenceIsRead(format, past, record, t)
<1> DEFINE n == Len(record)
           lines == Candidates(format, past, n)
           best == Best(format, past, record)
           a == Age(format, past, n, best)
           cmds == LineCommands(past, record, best)
<1>1. best \in lines
  BY BestIs
<1>2. /\ best \in Placed(format, past, n) /\ past[best] \in Seq(Byte) /\ Len(past[best]) = n
  BY <1>1, CandidatesAre
<1>3. cmds = Commands(Difference(record, past[best]))
  BY Zenon DEF LineCommands
<1>4. cmds \in Seq(Nat)
  <2>1. PICK reference \in Seq(Byte) : reference = past[best] /\ Len(record) = Len(reference)
    BY <1>2
  <2>2. Commands(Difference(record, reference)) \in Seq(Nat)
    BY <2>1, CommandsType
  <2> HIDE DEF cmds, best
  <2>3. QED
    BY <2>1, <2>2, <1>3
<1>5. ReadCommands(cmds \o t, past[best]) = {[value |-> record, rest |-> t]}
  <2>1. PICK reference \in Seq(Byte) : reference = past[best] /\ Len(record) = Len(reference)
    BY <1>2
  <2>2. ReadCommands(Commands(Difference(record, reference)) \o t, reference)
          = {[value |-> record, rest |-> t]}
    BY <2>1, ReadsCommands
  <2> HIDE DEF cmds, best
  <2>3. QED
    BY <2>1, <2>2, <1>3, Zenon
<1>6. DOMAIN past = 1..Len(past) /\ Len(past) \in Nat
  OBVIOUS
<1>7. a \in Nat /\ \A k \in lines : Age(format, past, n, k) = a => k = best
  <2>1. \A k \in lines : k \in Placed(format, past, n)
    BY CandidatesAre
  <2>2. PICK m \in Nat : DOMAIN past = 1..m
    BY <1>6
  <2>3. /\ Age(format, past, n, best) \in Nat
        /\ \A l \in Placed(format, past, n) :
             Age(format, past, n, l) = Age(format, past, n, best) => l = best
    BY <1>2, <2>2, AgeOrders
  <2>4. QED
    BY <2>1, <2>3
<1>8. \A k \in lines : Age(format, past, n, k) < IF format = "window" THEN Window ELSE 1
  BY Zenon DEF Candidates
<1> DEFINE code == ReferenceCode(format, past, record)
<1>9. code = (IF format = "window" THEN <<a>> ELSE <<>>) \o cmds
  BY Zenon DEF ReferenceCode
<1> HIDE DEF n, lines, best, a, cmds, code
<1>10. CASE format = "window"
  <2>1. code = <<a>> \o cmds
    BY <1>9, <1>10
  <2>2. <<a>> \in Seq(Nat) /\ cmds \o t \in Seq(Nat)
    BY <1>4, <1>7, ConcatProperties
  <2>3. code \in Seq(Nat) /\ code \o t = <<a>> \o (cmds \o t)
    BY <2>1, <2>2, <1>4, ConcatProperties, ConcatAssociative
  <2>4. PICK u \in Seq(Nat) : u = cmds \o t
    BY <2>2
  <2>5. PICK d : d = [value |-> <<a>>, rest |-> u]
    OBVIOUS
  <2>6. d.value[1] = a /\ d.rest = u
    BY <2>5
  <2>7. Take(<<a>> \o u, 1) = {d}
    BY <1>7, <2>5, TakeByte
  <2> DEFINE Read(i) == UNION {ReadCommands(i.rest, past[k]) :
                                 k \in {k \in lines : Age(format, past, n, k) = i.value[1]}}
  <2>8. ReadReference(format, code \o t, past, n) = UNION {Read(i) : i \in Take(code \o t, 1)}
    BY <1>10, Zenon DEF ReadReference, lines
  <2>9. {k \in lines : Age(format, past, n, k) = d.value[1]} = {best}
    <3>1. best \in lines /\ Age(format, past, n, best) = a
      BY <1>1, Zenon DEF a
    <3>2. QED
      BY <3>1, <1>7, <2>6
  <2>10. Read(d) = ReadCommands(u, past[best])
    BY <2>6, <2>9, Zenon
  <2> HIDE DEF Read
  <2>11. ReadReference(format, code \o t, past, n) = Read(d)
    BY <2>3, <2>4, <2>7, <2>8, Zenon
  <2>12. code \in Seq(Nat) /\ ReadReference(format, code \o t, past, n) = {[value |-> record, rest |-> t]}
    BY <2>3, <2>4, <2>10, <2>11, <1>5, Zenon
  <2>13. QED
    BY <2>12, Zenon DEF ReferenceIsRead, code, n
<1>11. CASE format # "window"
  <2>1. code = <<>> \o cmds
    BY <1>9, <1>11
  <2>2. code = cmds
    BY <2>1, <1>4, ConcatEmptySeq
  <2>3. lines = {best}
    <3>1. ASSUME NEW k \in lines PROVE k = best
      <4>1. Age(format, past, n, k) < 1 /\ Age(format, past, n, best) < 1
        BY <1>1, <1>8, <1>11
      <4>2. Age(format, past, n, k) \in Nat
        <5>1. k \in Placed(format, past, n)
          BY CandidatesAre DEF lines
        <5>2. PICK m \in Nat : DOMAIN past = 1..m
          BY <1>6
        <5>3. QED
          BY <5>1, <5>2, AgeOrders
      <4>3. Age(format, past, n, best) = a
        BY Zenon DEF a
      <4>4. Age(format, past, n, k) = a
        BY <4>1, <4>2, <4>3, <1>7
      <4>5. QED
        BY <4>4, <1>7
    <3>2. QED
      BY <3>1, <1>1
  <2>4. ReadReference(format, code \o t, past, n) = UNION {ReadCommands(code \o t, past[k]) : k \in lines}
    BY <1>11, Zenon DEF ReadReference, lines
  <2>5. PICK u : u = code \o t
    OBVIOUS
  <2>6. UNION {ReadCommands(u, past[k]) : k \in {best}} = ReadCommands(u, past[best])
    BY Zenon
  <2>7. ReadReference(format, u, past, n) = ReadCommands(u, past[best])
    BY <2>3, <2>4, <2>5, <2>6, Zenon
  <2>8. code \in Seq(Nat) /\ ReadReference(format, code \o t, past, n) = {[value |-> record, rest |-> t]}
    BY <2>2, <2>5, <2>7, <1>4, <1>5, Zenon
  <2>9. QED
    BY <2>8, Zenon DEF ReferenceIsRead, code, n
<1>12. QED
  BY <1>10, <1>11

LineIsRead(format, past, record, body, t) ==
  /\ LineCode(format, past, record) = Varint(Len(record)) \o body
  /\ ReadLine(format, body \o t, past, Len(record)) = {[value |-> record, rest |-> t]}

(* A line after its length, as it is or as a reference, is read back. *)
LEMMA ReadsLine ==
  ASSUME LogAssumption, NEW format, NEW past \in Seq(Seq(Byte)), NEW record \in Seq(Byte),
         NEW t \in Seq(Nat)
  PROVE  \E body \in Seq(Nat) : LineIsRead(format, past, record, body, t)
<1> DEFINE lines == Candidates(format, past, Len(record))
           code == ReferenceCode(format, past, record)
           shorter == lines # {} /\ Len(code) < Len(record)
           Read(mode) == CASE mode.value[1] = Raw -> Take(mode.rest, Len(record))
                           [] mode.value[1] = Reference ->
                                ReadReference(format, mode.rest, past, Len(record))
                           [] OTHER -> {}
<1>1. LineCode(format, past, record) =
        Varint(Len(record)) \o (IF shorter THEN <<Reference>> \o code ELSE <<Raw>> \o record)
  BY Zenon DEF LineCode, ReferenceCode
<1>2. record \in Seq(Nat)
  BY ByteSeq
<1>3. Raw \in Nat /\ Reference \in Nat /\ Raw # Reference
  BY DEF Raw, Reference
<1>4. \A bytes : ReadLine(format, bytes, past, Len(record)) = UNION {Read(mode) : mode \in Take(bytes, 1)}
  BY Zenon DEF ReadLine
<1>5. ASSUME NEW b \in Nat, NEW s \in Seq(Nat)
      PROVE  /\ <<b>> \o s \in Seq(Nat)
             /\ ReadLine(format, (<<b>> \o s) \o t, past, Len(record))
                  = Read([value |-> <<b>>, rest |-> s \o t])
  <2>1. <<b>> \in Seq(Nat)
    OBVIOUS
  <2>2. <<b>> \o s \in Seq(Nat) /\ s \o t \in Seq(Nat) /\ (<<b>> \o s) \o t = <<b>> \o (s \o t)
    BY <2>1, ConcatProperties, ConcatAssociative
  <2>3. PICK u \in Seq(Nat) : u = s \o t
    BY <2>2
  <2>4. PICK d : d = [value |-> <<b>>, rest |-> u]
    OBVIOUS
  <2>5. Take(<<b>> \o u, 1) = {d}
    BY <2>4, TakeByte
  <2> HIDE DEF Read
  <2>6. ReadLine(format, (<<b>> \o s) \o t, past, Len(record)) = Read(d)
    BY <1>4, <2>2, <2>3, <2>5, Zenon
  <2>7. QED
    BY <2>2, <2>3, <2>4, <2>6, Zenon
<1>6. CASE shorter
  <2>1. /\ code \in Seq(Nat)
        /\ ReadReference(format, code \o t, past, Len(record)) = {[value |-> record, rest |-> t]}
    <3>1. ReferenceIsRead(format, past, record, t)
      BY <1>6, ReadsReference
    <3>2. QED
      BY <3>1, Zenon DEF ReferenceIsRead
  <2> HIDE DEF code
  <2>2. PICK d : d = [value |-> <<Reference>>, rest |-> code \o t]
    OBVIOUS
  <2>3. d.value[1] = Reference /\ d.rest = code \o t
    BY <2>2
  <2>4. Read(d) = ReadReference(format, code \o t, past, Len(record))
    BY <2>3, <1>3, Zenon
  <2> HIDE DEF Read
  <2>5. PICK body : body = <<Reference>> \o code
    OBVIOUS
  <2>6. body \in Seq(Nat) /\ ReadLine(format, body \o t, past, Len(record)) = Read(d)
    BY <2>1, <2>2, <2>5, <1>3, <1>5, Zenon
  <2>7. LineCode(format, past, record) = Varint(Len(record)) \o body
    BY <1>1, <1>6, <2>5, Zenon DEF code
  <2>8. QED
    BY <2>1, <2>4, <2>6, <2>7, Zenon DEF LineIsRead
<1>7. CASE ~shorter
  <2>1. PICK d : d = [value |-> <<Raw>>, rest |-> record \o t]
    OBVIOUS
  <2>2. d.value[1] = Raw /\ d.rest = record \o t
    BY <2>1
  <2>3. Read(d) = Take(record \o t, Len(record))
    BY <2>2, <1>3, Zenon
  <2>4. Take(record \o t, Len(record)) = {[value |-> record, rest |-> t]}
    BY <1>2, TakeFront
  <2> HIDE DEF Read
  <2>5. PICK body : body = <<Raw>> \o record
    OBVIOUS
  <2>6. body \in Seq(Nat) /\ ReadLine(format, body \o t, past, Len(record)) = Read(d)
    BY <2>1, <2>5, <1>2, <1>3, <1>5, Zenon
  <2>7. LineCode(format, past, record) = Varint(Len(record)) \o body
    BY <1>1, <1>7, <2>5, Zenon
  <2>8. QED
    BY <2>3, <2>4, <2>6, <2>7, Zenon DEF LineIsRead
<1>8. QED
  BY <1>6, <1>7

NextIsRead(reader, format, past, record, o, size, t) ==
  /\ LineCode(format, past, record) \in Seq(Nat)
  /\ ReadNext(reader, format,
              [past |-> past, output |-> o, rest |-> LineCode(format, past, record) \o t], size)
       = {[past |-> <<record>> \o past, output |-> o \o record, rest |-> t]}

(* With the lines before it read, the next line is. *)
LEMMA ReadsNext ==
  ASSUME BytesAssumption, LogAssumption, NEW reader, NEW format, NEW past \in Seq(Seq(Byte)),
         NEW record \in Seq(Byte), Len(record) < Word, NEW o \in Seq(Nat), NEW size \in Nat,
         Len(o) + Len(record) <= size, NEW t \in Seq(Nat)
  PROVE  NextIsRead(reader, format, past, record, o, size, t)
<1> DEFINE code == LineCode(format, past, record)
<1>1. PICK body \in Seq(Nat) :
        /\ code = Varint(Len(record)) \o body
        /\ ReadLine(format, body \o t, past, Len(record)) = {[value |-> record, rest |-> t]}
  <2>1. PICK body \in Seq(Nat) : LineIsRead(format, past, record, body, t)
    BY ReadsLine
  <2>2. QED
    BY <2>1, Zenon DEF LineIsRead
<1> HIDE DEF code
<1>2. PICK k \in Nat : k = Len(record) /\ k < Word
  OBVIOUS
<1>3. PICK v \in Seq(Nat) : v = Varint(k)
  BY VarintUnfolds DEF BytesAssumption
<1>4. code = v \o body
  BY <1>1, <1>2, <1>3
<1>5. code \in Seq(Nat) /\ body \o t \in Seq(Nat) /\ code \o t = v \o (body \o t)
  BY <1>4, Regroup, Zenon
<1>6. PICK u \in Seq(Nat) : u = body \o t
  BY <1>5
<1>7. PICK d : d = [value |-> k, rest |-> u]
  OBVIOUS
<1>8. d.value = k /\ d.rest = u
  BY <1>7
<1>9. ReadVarint(reader, code \o t) = {d}
  <2>1. ReadVarint(reader, Varint(k) \o u) = {[value |-> k, rest |-> u]}
    BY <1>2, ReadsVarint
  <2>2. QED
    BY <2>1, <1>3, <1>5, <1>6, <1>7, Zenon
<1>10. PICK read : read = [past |-> past, output |-> o, rest |-> code \o t]
  OBVIOUS
<1>11. read.past = past /\ read.output = o /\ read.rest = code \o t
  BY <1>10
<1>12. k <= size - Len(o)
  <2>1. Len(o) \in Nat
    OBVIOUS
  <2>2. QED
    BY <2>1, <1>2
<1> DEFINE fits == {n \in ReadVarint(reader, read.rest) : n.value <= size - Len(read.output)}
           found == UNION {ReadLine(format, n.rest, read.past, n.value) : n \in fits}
<1>13. fits = {d}
  BY <1>8, <1>9, <1>11, <1>12, Zenon
<1>14. ReadNext(reader, format, read, size) =
         {[past |-> <<line.value>> \o read.past, output |-> read.output \o line.value,
           rest |-> line.rest] : line \in found}
  BY Zenon DEF ReadNext
<1> HIDE DEF fits
<1>15. found = ReadLine(format, d.rest, read.past, d.value)
  <2>1. UNION {ReadLine(format, n.rest, read.past, n.value) : n \in {d}}
          = ReadLine(format, d.rest, read.past, d.value)
    BY Zenon
  <2>2. QED
    BY <2>1, <1>13, Zenon
<1>16. PICK w : w = [value |-> record, rest |-> t]
  OBVIOUS
<1>17. w.value = record /\ w.rest = t
  BY <1>16
<1> HIDE DEF found
<1>18. found = {w}
  BY <1>1, <1>2, <1>6, <1>8, <1>11, <1>15, <1>16, Zenon
<1>19. ReadNext(reader, format, read, size) =
         {[past |-> <<w.value>> \o read.past, output |-> read.output \o w.value, rest |-> w.rest]}
  BY <1>14, <1>18, Zenon
<1>20. ReadNext(reader, format, read, size) =
         {[past |-> <<record>> \o past, output |-> o \o record, rest |-> t]}
  BY <1>11, <1>17, <1>19, Zenon
<1>21. QED
  BY <1>5, <1>10, <1>20, Zenon DEF NextIsRead, code

(* The line that was read last comes first among those before. *)
LEMMA PastSteps ==
  ASSUME NEW lines \in Seq(Seq(Byte)), NEW n \in 1..Len(lines)
  PROVE  /\ Past(lines, n) \in Seq(Seq(Byte))
         /\ <<lines[n]>> \o Past(lines, n) = Past(lines, n + 1)
<1>1. PICK L, list : L = Seq(Byte) /\ list = lines /\ list \in Seq(L)
  OBVIOUS
<1>2. PICK m \in Nat : m = n - 1 /\ n = m + 1 /\ m + 1 <= Len(list)
  <2>1. n - 1 \in Nat /\ n = (n - 1) + 1 /\ (n - 1) + 1 <= Len(list)
    BY <1>1
  <2>2. QED
    BY <2>1
<1> DEFINE p == [k \in 1..m |-> list[n - k]]
           q == [k \in 1..(m + 1) |-> list[(n + 1) - k]]
<1>3. Past(lines, n) = p
  BY <1>1, <1>2, Zenon DEF Past
<1>4. Past(lines, n + 1) = q
  <2>1. (n + 1) - 1 = m + 1
    BY <1>2
  <2>2. QED
    BY <2>1, <1>1, Zenon DEF Past
<1>5. \A k \in 1..m : p[k] = list[n - k] /\ p[k] \in L
  <2>1. ASSUME NEW k \in 1..m PROVE list[n - k] \in L
    <3>1. n - k \in 1..Len(list)
      BY <1>2
    <3>2. QED
      BY <3>1, <1>1, ElementOfSeq
  <2>2. QED
    BY <2>1
<1>6. \A k \in 1..(m + 1) : q[k] = list[(n + 1) - k] /\ q[k] \in L
  <2>1. ASSUME NEW k \in 1..(m + 1) PROVE list[(n + 1) - k] \in L
    <3>1. (n + 1) - k \in 1..Len(list)
      BY <1>2
    <3>2. QED
      BY <3>1, <1>1, ElementOfSeq
  <2>2. QED
    BY <2>1
<1>7. p \in Seq(L) /\ Len(p) = m
  <2>1. p \in [1..m -> L]
    BY <1>5
  <2> HIDE DEF p
  <2>2. QED
    BY <2>1
<1>8. q \in Seq(L) /\ Len(q) = m + 1
  <2>1. q \in [1..(m + 1) -> L]
    BY <1>6
  <2> HIDE DEF q
  <2>2. QED
    BY <2>1
<1> HIDE DEF p, q
<1>9. PICK x \in L : x = list[n]
  <2>1. n \in 1..Len(list)
    BY <1>2
  <2>2. QED
    BY <2>1, <1>1, ElementOfSeq
<1>10. <<x>> \in Seq(L) /\ Len(<<x>>) = 1 /\ <<x>>[1] = x
  OBVIOUS
<1>11. PICK s \in Seq(L) :
         /\ s = <<x>> \o p /\ Len(s) = m + 1
         /\ \A k \in 1..(m + 1) : s[k] = IF k <= 1 THEN x ELSE p[k - 1]
  <2>1. PICK y \in Seq(L) : y = <<x>> /\ Len(y) = 1 /\ y[1] = x
    BY <1>10
  <2>2. /\ y \o p \in Seq(L) /\ Len(y \o p) = 1 + m
        /\ \A k \in 1..(1 + m) : (y \o p)[k] = IF k <= 1 THEN y[k] ELSE p[k - 1]
    BY <2>1, <1>7, ConcatProperties
  <2>3. \A k \in 1..(m + 1) : k \in 1..(1 + m) /\ (k <= 1 => k = 1)
    OBVIOUS
  <2>4. PICK z : z = y \o p /\ z = <<x>> \o p
    BY <2>1
  <2>5. z \in Seq(L) /\ Len(z) = m + 1
    BY <2>2, <2>4
  <2>6. \A k \in 1..(m + 1) : z[k] = IF k <= 1 THEN x ELSE p[k - 1]
    BY <2>1, <2>2, <2>3, <2>4
  <2>7. QED
    BY <2>4, <2>5, <2>6, Zenon
<1>12. ASSUME NEW k \in 1..(m + 1) PROVE s[k] = q[k]
  <2>1. CASE k = 1
    <3>1. (n + 1) - k = n /\ k <= 1
      BY <2>1, <1>2
    <3>2. QED
      BY <3>1, <1>6, <1>9, <1>11
  <2>2. CASE k # 1
    <3>1. k - 1 \in 1..m /\ n - (k - 1) = (n + 1) - k /\ ~(k <= 1)
      BY <2>2, <1>2
    <3>2. QED
      BY <3>1, <1>5, <1>6, <1>11
  <2>3. QED
    BY <2>1, <2>2
<1>13. s = q
  BY <1>8, <1>11, <1>12, SeqEqual
<1>14. QED
  BY <1>1, <1>3, <1>4, <1>7, <1>9, <1>11, <1>13, Zenon

IsReading(f, reader, format, bytes, count, size) ==
  f = [n \in 0..count |->
         IF n = 0 THEN {[past |-> <<>>, output |-> <<>>, rest |-> bytes]}
         ELSE UNION {ReadNext(reader, format, some, size) : some \in f[n - 1]}]

(* LWX1 and LWX2 give back every source shorter than 2^64 bytes (and of    *)
(* fewer than 2^32 lines, beyond which they refuse it), and no reader      *)
(* makes anything else of its code: however many lines there are,          *)
(* whichever of them are coded by reference, and whatever the differences. *)
THEOREM LogsReadBack ==
  ASSUME BytesAssumption, LogAssumption, NEW reader, NEW format,
         NEW data \in Seq(Byte), Len(data) < Word
  PROVE  DecodeLines(reader, format, EncodeLines(format, data), Len(data)) = {data}
<1> DEFINE lines == Lines(data)
           codes == [n \in DOMAIN lines |-> LineCode(format, Past(lines, n), lines[n])]
<1>1. lines \in Seq(Seq(Byte)) /\ \E o : Grows(o, lines, data)
  <2>1. Byte \subseteq Nat
    BY DEF Byte
  <2>2. PICK B \in SUBSET Nat : B = Byte
    BY <2>1
  <2>3. Lines(data) \in Seq(Seq(B)) /\ \E o : Grows(o, Lines(data), data)
    BY <2>2, LinesMake
  <2>4. QED
    BY <2>2, <2>3, Zenon
<1> HIDE DEF lines
<1>2. PICK k \in Nat : k = Len(lines) /\ DOMAIN lines = 1..k
  BY <1>1
<1>3. PICK size \in Nat : size = Len(data) /\ size < Word
  OBVIOUS
<1>4. PICK o : Grows(o, lines, data)
  BY <1>1
<1>5. /\ o \in [0..k -> Seq(Nat)] /\ o[0] = <<>> /\ o[k] = data
      /\ \A n \in 1..k : /\ o[n] = o[n - 1] \o lines[n]
                         /\ Len(o[n - 1]) + Len(lines[n]) <= size
  BY <1>2, <1>3, <1>4, Zenon DEF Grows
<1>6. ASSUME NEW n \in 1..k
      PROVE  /\ Past(lines, n) \in Seq(Seq(Byte)) /\ lines[n] \in Seq(Byte)
             /\ <<lines[n]>> \o Past(lines, n) = Past(lines, n + 1)
             /\ o[n - 1] \in Seq(Nat) /\ n - 1 \in 0..k
             /\ Len(lines[n]) < Word /\ Len(o[n - 1]) + Len(lines[n]) <= size
  <2>1. n \in 1..Len(lines)
    BY <1>2
  <2>2. PICK record \in Seq(Byte) : record = lines[n]
    BY <2>1, <1>1, ElementOfSeq
  <2>3. PICK so \in Seq(Nat) : so = o[n - 1]
    BY <1>5
  <2>4. Len(so) + Len(record) <= size
    BY <2>2, <2>3, <1>5, Zenon
  <2>5. Len(so) \in Nat /\ Len(record) \in Nat
    OBVIOUS
  <2>6. Len(record) < Word
    <3>1. Word \in Nat
      BY DEF BytesAssumption
    <3>2. QED
      BY <3>1, <2>4, <2>5, <1>3
  <2>7. Past(lines, n) \in Seq(Seq(Byte)) /\ <<lines[n]>> \o Past(lines, n) = Past(lines, n + 1)
    BY <2>1, <1>1, PastSteps
  <2>8. n - 1 \in 0..k
    OBVIOUS
  <2>9. QED
    BY <2>2, <2>3, <2>4, <2>6, <2>7, <2>8, Zenon
<1>7. ASSUME NEW n \in 1..k, NEW t \in Seq(Nat)
      PROVE  NextIsRead(reader, format, Past(lines, n), lines[n], o[n - 1], size, t)
  <2>1. PICK past \in Seq(Seq(Byte)), record \in Seq(Byte), so \in Seq(Nat) :
          past = Past(lines, n) /\ record = lines[n] /\ so = o[n - 1]
    BY <1>6
  <2>2. Len(record) < Word /\ Len(so) + Len(record) <= size
    BY <2>1, <1>6, Zenon
  <2>3. NextIsRead(reader, format, past, record, so, size, t)
    BY <2>2, ReadsNext
  <2>4. QED
    BY <2>1, <2>3
<1>8. codes \in Seq(Seq(Nat)) /\ Len(codes) = k
  <2>1. \A n \in 1..k : LineCode(format, Past(lines, n), lines[n]) \in Seq(Nat)
    <3>1. <<>> \in Seq(Nat)
      BY EmptySeq
    <3>2. PICK t \in Seq(Nat) : t = <<>>
      BY <3>1
    <3>3. QED
      BY <1>7, Zenon DEF NextIsRead
  <2>2. codes = [n \in 1..k |-> LineCode(format, Past(lines, n), lines[n])]
    BY <1>2
  <2>3. PICK S : S = Seq(Nat)
    OBVIOUS
  <2>4. codes \in [1..k -> S]
    BY <2>1, <2>2, <2>3
  <2> HIDE DEF codes
  <2>5. codes \in Seq(S) /\ Len(codes) = k
    BY <2>4
  <2>6. QED
    BY <2>3, <2>5
<1>9. \A n \in 1..k : codes[n] = LineCode(format, Past(lines, n), lines[n])
  BY <1>2
<1>10. EncodeLines(format, data) = <<k>> \o FlattenSeq(codes)
  BY <1>2, Zenon DEF EncodeLines, lines
<1> HIDE DEF codes
<1>11. PICK r : Leaves(r, codes, FlattenSeq(codes))
  BY <1>8, FlatLeaves
<1>12. /\ r \in [0..k -> Seq(Nat)] /\ r[0] = FlattenSeq(codes) /\ r[k] = <<>>
       /\ \A n \in 1..k : r[n - 1] = codes[n] \o r[n]
  BY <1>8, <1>11, Zenon DEF Leaves
<1> DEFINE State(n) == [past |-> Past(lines, n + 1), output |-> o[n], rest |-> r[n]]
           bytes == FlattenSeq(codes)
           w == [n \in 0..k |-> {State(n)}]
           f == CHOOSE g : IsReading(g, reader, format, bytes, k, size)
<1>13. State(0) = [past |-> <<>>, output |-> <<>>, rest |-> bytes]
  <2>1. Past(lines, 0 + 1) = <<>>
    <3>1. (0 + 1) - 1 = 0 /\ 1..0 = {}
      OBVIOUS
    <3>2. Past(lines, 0 + 1) = [i \in 1..((0 + 1) - 1) |-> lines[(0 + 1) - i]]
      BY Zenon DEF Past
    <3>3. Past(lines, 0 + 1) = [i \in {} |-> lines[(0 + 1) - i]]
      BY <3>1, <3>2, Zenon
    <3>4. QED
      BY <3>3
  <2>2. QED
    BY <2>1, <1>5, <1>12, Zenon
<1>14. ASSUME NEW n \in 1..k
       PROVE  UNION {ReadNext(reader, format, some, size) : some \in {State(n - 1)}} = {State(n)}
  <2>1. PICK t \in Seq(Nat) : t = r[n] /\ r[n - 1] = codes[n] \o t
    <3>1. n \in 0..k
      OBVIOUS
    <3>2. r[n] \in Seq(Nat)
      BY <3>1, <1>12
    <3>3. r[n - 1] = codes[n] \o r[n]
      BY <1>12, Zenon
    <3>4. QED
      BY <3>2, <3>3, Zenon
  <2>2. NextIsRead(reader, format, Past(lines, n), lines[n], o[n - 1], size, t)
    BY <1>7
  <2>3. PICK some : some = [past |-> Past(lines, n), output |-> o[n - 1],
                            rest |-> LineCode(format, Past(lines, n), lines[n]) \o t]
    OBVIOUS
  <2>4. ReadNext(reader, format, some, size)
          = {[past |-> <<lines[n]>> \o Past(lines, n), output |-> o[n - 1] \o lines[n], rest |-> t]}
    BY <2>2, <2>3, Zenon DEF NextIsRead
  <2>5. State(n - 1) = some
    <3>1. (n - 1) + 1 = n
      OBVIOUS
    <3>2. r[n - 1] = LineCode(format, Past(lines, n), lines[n]) \o t
      BY <2>1, <1>9, Zenon
    <3>3. QED
      BY <3>1, <3>2, <2>3, Zenon
  <2>6. State(n) = [past |-> <<lines[n]>> \o Past(lines, n), output |-> o[n - 1] \o lines[n], rest |-> t]
    BY <2>1, <1>5, <1>6, Zenon
  <2> HIDE DEF State
  <2>7. UNION {ReadNext(reader, format, one, size) : one \in {some}} = ReadNext(reader, format, some, size)
    BY Zenon
  <2>8. QED
    BY <2>4, <2>5, <2>6, <2>7, Zenon
<1>15. State(k).rest = <<>> /\ State(k).output = data
  BY <1>5, <1>12
<1> HIDE DEF State
<1>16. IsReading(w, reader, format, bytes, k, size)
  <2>1. ASSUME NEW n \in 0..k
        PROVE  w[n] = IF n = 0 THEN {[past |-> <<>>, output |-> <<>>, rest |-> bytes]}
                      ELSE UNION {ReadNext(reader, format, some, size) : some \in w[n - 1]}
    <3>1. CASE n = 0
      BY <3>1, <1>13, Zenon
    <3>2. CASE n # 0
      <4>1. n \in 1..k /\ n - 1 \in 0..k
        BY <3>2
      <4>2. w[n] = {State(n)} /\ w[n - 1] = {State(n - 1)}
        BY <4>1, Zenon
      <4> HIDE DEF w
      <4>3. QED
        BY <4>1, <4>2, <3>2, <1>14, Zenon
    <3>3. QED
      BY <3>1, <3>2
  <2>2. w = [n \in 0..k |-> w[n]]
    BY Zenon
  <2> HIDE DEF w, bytes
  <2>3. QED
    BY <2>1, <2>2, Zenon DEF IsReading
<1>17. IsReading(f, reader, format, bytes, k, size)
  BY <1>16, Zenon
<1>18. ReadLines(reader, format, bytes, k, size)
         = {all.output : all \in {all \in f[k] : all.rest = <<>> /\ Len(all.output) = size}}
  BY Zenon DEF ReadLines, IsReading
<1> HIDE DEF f, w, bytes
<1>19. \A n \in 0..k : f[n] = IF n = 0 THEN {[past |-> <<>>, output |-> <<>>, rest |-> bytes]}
                       ELSE UNION {ReadNext(reader, format, some, size) : some \in f[n - 1]}
  BY <1>17, Zenon DEF IsReading
<1> DEFINE S == {n \in Nat : f[n] = {State(n)}}
<1>20. \A n \in 0..k : n \in S
  <2>1. 0 \in S
    <3>1. 0 \in 0..k
      OBVIOUS
    <3>2. f[0] = {[past |-> <<>>, output |-> <<>>, rest |-> bytes]}
      BY <3>1, <1>19, Zenon
    <3>3. QED
      BY <3>2, <1>13
  <2>2. ASSUME NEW n \in 0..(k - 1), n \in S PROVE n + 1 \in S
    <3>1. n + 1 \in 1..k /\ (n + 1) - 1 = n /\ n + 1 \in Nat /\ n + 1 \in 0..k /\ n + 1 # 0
      OBVIOUS
    <3>2. f[n] = {State(n)}
      BY <2>2
    <3>3. f[n + 1] = UNION {ReadNext(reader, format, some, size) : some \in f[n]}
      BY <3>1, <1>19, Zenon
    <3>4. f[n + 1] = {State(n + 1)}
      BY <3>1, <3>2, <3>3, <1>14, Zenon
    <3>5. QED
      BY <3>1, <3>4
  <2> HIDE DEF S
  <2>3. QED
    BY <2>1, <2>2, FiniteInduction
<1>21. f[k] = {State(k)}
  BY <1>20, k \in 0..k
<1>22. ReadLines(reader, format, bytes, k, size) = {data}
  <2>1. {all \in f[k] : all.rest = <<>> /\ Len(all.output) = size} = {State(k)}
    BY <1>3, <1>15, <1>21, Zenon
  <2>2. QED
    BY <2>1, <1>15, <1>18, Zenon
<1>23. bytes \in Seq(Nat)
  <2>1. 0 \in 0..k
    OBVIOUS
  <2>2. QED
    BY <2>1, <1>12 DEF bytes
<1>24. PICK d : d = [value |-> <<k>>, rest |-> bytes]
  OBVIOUS
<1>25. d.value[1] = k /\ d.rest = bytes
  BY <1>24
<1>26. Take(<<k>> \o bytes, 1) = {d}
  BY <1>23, <1>24, TakeByte
<1>27. UNION {ReadLines(reader, format, c.rest, c.value[1], size) : c \in {d}}
         = ReadLines(reader, format, d.rest, d.value[1], size)
  BY Zenon
<1>28. DecodeLines(reader, format, <<k>> \o bytes, size) = {data}
  BY <1>22, <1>25, <1>26, <1>27, Zenon DEF DecodeLines
<1>29. QED
  BY <1>3, <1>10, <1>28, Zenon DEF bytes
--------------------------------------------------------------------------------
(* Splices. *)

(* Two lines share their edges, which do not overlap in either of them.    *)
LEMMA CommonPrefixIs ==
  ASSUME NEW left \in Seq(Nat), NEW right \in Seq(Nat)
  PROVE  /\ CommonPrefix(left, right) \in 0..Len(left) /\ CommonPrefix(left, right) <= Len(right)
         /\ SubSeq(left, 1, CommonPrefix(left, right)) = SubSeq(right, 1, CommonPrefix(left, right))
<1> DEFINE S == {n \in 0..Len(left) : n <= Len(right) /\ SubSeq(left, 1, n) = SubSeq(right, 1, n)}
<1>1. 0 \in S
  <2>1. SubSeq(left, 1, 0) = <<>> /\ SubSeq(right, 1, 0) = <<>>
    OBVIOUS
  <2>2. 0 \in 0..Len(left) /\ 0 <= Len(right)
    OBVIOUS
  <2>3. QED
    BY <2>1, <2>2
<1>2. S \in SUBSET Nat /\ S # {} /\ \A n \in S : n <= Len(left)
  <2>1. \A n \in S : n \in Nat /\ n <= Len(left)
    OBVIOUS
  <2>2. QED
    BY <2>1, <1>1
<1>3. Max(S) \in S
  <2> HIDE DEF S
  <2>1. Len(left) \in Nat
    OBVIOUS
  <2>2. QED
    BY <1>2, <2>1, MaxIs
<1>4. CommonPrefix(left, right) = Max(S)
  BY Zenon DEF CommonPrefix
<1>5. QED
  BY <1>3, <1>4

(* The end that two lines share overlaps the beginning in neither. *)
LEMMA CommonSuffixIs ==
  ASSUME NEW previous \in Seq(Nat), NEW record \in Seq(Nat)
  PROVE  /\ CommonSuffix(previous, record) \in Nat
         /\ CommonSuffix(previous, record) + CommonPrefix(previous, record) <= Len(record)
         /\ CommonSuffix(previous, record) + CommonPrefix(previous, record) <= Len(previous)
         /\ Rest(previous, Len(previous) - CommonSuffix(previous, record))
              = Rest(record, Len(record) - CommonSuffix(previous, record))
<1>1. PICK p \in Nat : p = CommonPrefix(previous, record) /\ p <= Len(previous) /\ p <= Len(record)
  BY CommonPrefixIs
<1> DEFINE Same(n) == /\ n + p <= Len(record) /\ n + p <= Len(previous)
                      /\ Rest(previous, Len(previous) - n) = Rest(record, Len(record) - n)
           S == {n \in 0..Len(record) : Same(n)}
<1>2. 0 \in S
  <2>1. \A s \in Seq(Nat) : Rest(s, Len(s) - 0) = <<>>
    BY DEF Rest
  <2>2. Rest(previous, Len(previous) - 0) = Rest(record, Len(record) - 0)
    BY <2>1, Zenon
  <2>3. 0 \in 0..Len(record) /\ 0 + p <= Len(record) /\ 0 + p <= Len(previous)
    BY <1>1
  <2>4. QED
    BY <2>2, <2>3, Zenon
<1>3. \A n \in S : n \in Nat /\ n <= Len(record) /\ Same(n)
  <2> HIDE DEF Same
  <2>1. QED
    OBVIOUS
<1>4. Max(S) \in S
  <2> HIDE DEF S
  <2>1. S \in SUBSET Nat /\ S # {}
    BY <1>2, <1>3, Zenon
  <2>2. Len(record) \in Nat /\ \A n \in S : n <= Len(record)
    BY <1>3
  <2>3. QED
    BY <2>1, <2>2, MaxIs
<1>5. CommonSuffix(previous, record) = Max(S)
  BY <1>1, Zenon DEF CommonSuffix
<1>6. Max(S) \in Nat /\ Same(Max(S))
  <2> HIDE DEF S, Same
  <2>1. QED
    BY <1>3, <1>4, Zenon
<1> HIDE DEF S
<1>7. QED
  BY <1>1, <1>5, <1>6, Zenon

(* The part of a line between its edges. *)
Middle(previous, record) ==
  SubSeq(record, CommonPrefix(previous, record) + 1, Len(record) - CommonSuffix(previous, record))

(* A line is made of the edges of the one before and its own middle. *)
LEMMA EdgesMake ==
  ASSUME NEW previous \in Seq(Nat), NEW record \in Seq(Nat)
  PROVE  /\ Middle(previous, record) \in Seq(Nat)
         /\ CommonPrefix(previous, record) + CommonSuffix(previous, record)
              + Len(Middle(previous, record)) = Len(record)
         /\ SubSeq(previous, 1, CommonPrefix(previous, record)) \o Middle(previous, record)
              \o Rest(previous, Len(previous) - CommonSuffix(previous, record)) = record
<1>1. PICK p \in Nat : p = CommonPrefix(previous, record)
  BY CommonPrefixIs
<1>2. PICK q \in Nat : q = CommonSuffix(previous, record)
  BY CommonSuffixIs
<1>3. q + p <= Len(record) /\ SubSeq(previous, 1, p) = SubSeq(record, 1, p)
      /\ Rest(previous, Len(previous) - q) = Rest(record, Len(record) - q)
  BY <1>1, <1>2, CommonPrefixIs, CommonSuffixIs, Zenon
<1>4. PICK m \in 0..Len(record) : m = Len(record) - q
  BY <1>3
<1>5. p \in 0..Len(record) /\ p <= m /\ Len(record) \in 0..Len(record) /\ m <= Len(record)
  BY <1>3, <1>4
<1>6. /\ SubSeq(record, p + 1, m) \in Seq(Nat) /\ Len(SubSeq(record, p + 1, m)) = m - p
      /\ SubSeq(record, 1, p) \o SubSeq(record, p + 1, m) = SubSeq(record, 1, m)
  BY <1>5, Piece
<1>7. SubSeq(record, 1, m) \o SubSeq(record, m + 1, Len(record)) = SubSeq(record, 1, Len(record))
  BY <1>5, Piece
<1>8. SubSeq(record, 1, Len(record)) = record
  OBVIOUS
<1>9. Middle(previous, record) = SubSeq(record, p + 1, m)
  BY <1>1, <1>2, <1>4, Zenon DEF Middle
<1>10. p + q + (m - p) = Len(record)
  BY <1>4
<1>11. Rest(record, m) = SubSeq(record, m + 1, Len(record))
  BY Zenon DEF Rest
<1>12. SubSeq(previous, 1, p) \o Middle(previous, record) \o Rest(previous, Len(previous) - q) = record
  BY <1>3, <1>4, <1>6, <1>7, <1>8, <1>9, <1>11, Zenon
<1>13. p + q + Len(Middle(previous, record)) = Len(record)
  BY <1>6, <1>9, <1>10, Zenon
<1>14. QED
  BY <1>1, <1>2, <1>6, <1>9, <1>12, <1>13, Zenon

(* The code of a line against the one before, after its mode. *)
SpliceBody(previous, record) ==
  Varint(CommonPrefix(previous, record))
    \o (Varint(CommonSuffix(previous, record)) \o Sized(Middle(previous, record)))

SpliceIsRead(previous, record, t) ==
  /\ SpliceBody(previous, record) \in Seq(Nat)
  /\ Splice(previous, record) = <<Reference>> \o SpliceBody(previous, record)
  /\ ReadSplice(SpliceBody(previous, record) \o t, previous) = {[value |-> record, rest |-> t]}

(* What is read of a spliced line is the line that was spliced. *)
LEMMA ReadsSplice ==
  ASSUME BytesAssumption, LogAssumption, NEW previous \in Seq(Nat), NEW record \in Seq(Nat),
         Len(previous) <= SpliceLimit, Len(record) <= SpliceLimit, Len(record) < Word,
         NEW t \in Seq(Nat)
  PROVE  SpliceIsRead(previous, record, t)
<1>1. PICK p \in Nat : p = CommonPrefix(previous, record) /\ p <= Len(previous)
  BY CommonPrefixIs
<1>2. PICK q \in Nat : q = CommonSuffix(previous, record) /\ q + p <= Len(previous)
  BY <1>1, CommonSuffixIs
<1>3. PICK m \in Seq(Nat) : m = Middle(previous, record) /\ p + q + Len(m) = Len(record)
  BY <1>1, <1>2, EdgesMake
<1>4. SubSeq(previous, 1, p) \o m \o Rest(previous, Len(previous) - q) = record
  BY <1>1, <1>2, <1>3, EdgesMake, Zenon
<1>5. p < Word /\ q < Word /\ Len(m) < Word /\ p + q <= Len(previous) /\ p + q + Len(m) <= SpliceLimit
  <2>1. Len(m) \in Nat /\ Len(record) \in Nat /\ Len(previous) \in Nat /\ Word \in Nat /\ SpliceLimit \in Nat
    BY DEF BytesAssumption, LogAssumption
  <2>2. QED
    BY <2>1, <1>2, <1>3
<1>6. PICK a \in Seq(Nat), b \in Seq(Nat), c \in Seq(Nat) :
        a = Varint(p) /\ b = Varint(q) /\ c = Sized(m)
  <2>1. VarintBase \in Nat \ {0, 1}
    BY DEF BytesAssumption
  <2>2. Varint(p) \in Seq(Nat) /\ Varint(q) \in Seq(Nat)
    BY <2>1, VarintUnfolds
  <2>3. PICK k \in Nat : k = Len(m)
    OBVIOUS
  <2>4. PICK d \in Seq(Nat) : d = Varint(k)
    BY <2>1, VarintUnfolds
  <2>5. d \o m \in Seq(Nat)
    BY Regroup
  <2>6. Sized(m) \in Seq(Nat)
    BY <2>3, <2>4, <2>5, Zenon DEF Sized
  <2>7. QED
    BY <2>2, <2>6
<1>7. PICK body \in Seq(Nat) : body = a \o (b \o c)
  BY Regroup, Zenon
<1>8. SpliceBody(previous, record) = body
  BY <1>1, <1>2, <1>3, <1>6, <1>7, Zenon DEF SpliceBody
<1>9. Splice(previous, record) = <<Reference>> \o body
  <2>1. Splice(previous, record) = ((<<Reference>> \o a) \o b) \o c
    BY <1>1, <1>2, <1>3, <1>6, Zenon DEF Splice, Middle
  <2>2. PICK r \in Seq(Nat) : r = <<Reference>>
    <3>1. <<Reference>> \in Seq(Nat)
      BY DEF Reference
    <3>2. QED
      BY <3>1, Zenon
  <2>3. ((r \o a) \o b) \o c = r \o (a \o (b \o c))
    <3>1. PICK x \in Seq(Nat) : x = r \o a
      BY Regroup, Zenon
    <3>2. PICK y \in Seq(Nat) : y = b \o c
      BY Regroup, Zenon
    <3>3. (x \o b) \o c = x \o (b \o c)
      <4>1. Regrouped(x, b, c)
        BY IsRegrouped
      <4>2. QED
        BY <4>1, Zenon DEF Regrouped
    <3>4. (r \o a) \o y = r \o (a \o y)
      <4>1. Regrouped(r, a, y)
        BY IsRegrouped
      <4>2. QED
        BY <4>1, Zenon DEF Regrouped
    <3>5. QED
      BY <3>1, <3>2, <3>3, <3>4, Zenon
  <2>4. QED
    BY <2>1, <2>2, <2>3, <1>7, Zenon
<1>10. PICK s \in Seq(Nat) : s = m \o t
  BY Regroup
<1>11. PICK u \in Seq(Nat) : u = c \o t
  BY Regroup
<1>12. PICK v \in Seq(Nat) : v = b \o u
  BY Regroup
<1>13. body \o t = a \o v
  <2>1. PICK y \in Seq(Nat) : y = b \o c
    BY Regroup, Zenon
  <2>2. (a \o y) \o t = a \o (y \o t)
    <3>1. Regrouped(a, y, t)
      BY IsRegrouped
    <3>2. QED
      BY <3>1, Zenon DEF Regrouped
  <2>3. (b \o c) \o t = b \o (c \o t)
    <3>1. Regrouped(b, c, t)
      BY IsRegrouped
    <3>2. QED
      BY <3>1, Zenon DEF Regrouped
  <2>4. QED
    BY <2>1, <2>2, <2>3, <1>7, <1>11, <1>12, Zenon
<1>14. PICK dp : dp = [value |-> p, rest |-> v]
  OBVIOUS
<1>15. PICK dq : dq = [value |-> q, rest |-> u]
  OBVIOUS
<1>16. PICK dn : dn = [value |-> Len(m), rest |-> s]
  OBVIOUS
<1>17. PICK dm : dm = [value |-> m, rest |-> t]
  OBVIOUS
<1>18. /\ dp.value = p /\ dp.rest = v /\ dq.value = q /\ dq.rest = u
       /\ dn.value = Len(m) /\ dn.rest = s /\ dm.value = m /\ dm.rest = t
  BY <1>14, <1>15, <1>16, <1>17
<1>19. ReadVarint("python", body \o t) = {dp}
  BY <1>5, <1>6, <1>13, <1>14, ReadsVarint
<1>20. ReadVarint("python", dp.rest) = {dq}
  BY <1>5, <1>6, <1>12, <1>15, <1>18, ReadsVarint
<1>21. ReadVarint("python", dq.rest) = {dn}
  <2>1. PICK k \in Nat : k = Len(m) /\ k < Word
    BY <1>5
  <2>2. PICK d \in Seq(Nat) : d = Varint(k)
    <3>1. VarintBase \in Nat \ {0, 1}
      BY DEF BytesAssumption
    <3>2. QED
      BY <3>1, VarintUnfolds
  <2>3. c = d \o m
    BY <2>1, <2>2, <1>6, Zenon DEF Sized
  <2>4. u = d \o s
    <3>1. (d \o m) \o t = d \o (m \o t)
      <4>1. Regrouped(d, m, t)
        BY IsRegrouped
      <4>2. QED
        BY <4>1, Zenon DEF Regrouped
    <3>2. QED
      BY <3>1, <2>3, <1>10, <1>11, Zenon
  <2>5. ReadVarint("python", Varint(k) \o s) = {[value |-> k, rest |-> s]}
    BY <2>1, ReadsVarint
  <2>6. QED
    BY <2>1, <2>2, <2>4, <2>5, <1>16, <1>18, Zenon
<1>22. Take(dn.rest, dn.value) = {dm}
  BY <1>10, <1>17, <1>18, TakeFront
<1> DEFINE Fits(prefix, suffix, size) ==
             {n \in Take(size.rest, size.value) :
                prefix.value + suffix.value + Len(n.value) <= SpliceLimit}
           Found(prefix, suffix, size) ==
             {[value |-> SubSeq(previous, 1, prefix.value) \o n.value
                           \o Rest(previous, Len(previous) - suffix.value),
               rest |-> n.rest] : n \in Fits(prefix, suffix, size)}
           Sizes(prefix, suffix) == {n \in ReadVarint("python", suffix.rest) :
                                       prefix.value + suffix.value <= Len(previous)}
           After(prefix, suffix) ==
             UNION {Found(prefix, suffix, size) : size \in Sizes(prefix, suffix)}
           Read(prefix) ==
             UNION {After(prefix, suffix) : suffix \in ReadVarint("python", prefix.rest)}
           Begun == {n \in ReadVarint("python", body \o t) : Len(previous) <= SpliceLimit}
<1>23. ReadSplice(body \o t, previous) = UNION {Read(prefix) : prefix \in Begun}
  BY Zenon DEF ReadSplice
<1>24. Fits(dp, dq, dn) = {dm}
  BY <1>5, <1>18, <1>22, Zenon
<1>25. Found(dp, dq, dn) = {[value |-> record, rest |-> t]}
  <2> HIDE DEF Fits
  <2>1. Found(dp, dq, dn) =
          {[value |-> SubSeq(previous, 1, dp.value) \o dm.value
                        \o Rest(previous, Len(previous) - dq.value),
            rest |-> dm.rest]}
    BY <1>24, Zenon
  <2>2. QED
    BY <2>1, <1>4, <1>18, Zenon
<1> HIDE DEF Found
<1>26. Sizes(dp, dq) = {dn}
  BY <1>5, <1>18, <1>21, Zenon
<1> HIDE DEF Sizes
<1>27. After(dp, dq) = Found(dp, dq, dn)
  BY <1>26, Zenon
<1> HIDE DEF After
<1>28. Read(dp) = After(dp, dq)
  BY <1>20, Zenon
<1> HIDE DEF Read
<1>29. Begun = {dp}
  BY <1>19, Zenon
<1> HIDE DEF Begun
<1>30. ReadSplice(body \o t, previous) = Read(dp)
  BY <1>23, <1>29, Zenon
<1>31. QED
  BY <1>8, <1>9, <1>25, <1>27, <1>28, <1>30, Zenon DEF SpliceIsRead

NextSpliceIsRead(code, previous, record, o, size, t) ==
  /\ code \in Seq(Nat)
  /\ ReadNextSplice([previous |-> previous, output |-> o, rest |-> code \o t], size)
       = {[previous |-> <<record>>, output |-> o \o record, rest |-> t]}

(* What a mode's reader makes of a line's code is one line more. *)
LEMMA ReadsNextEdges ==
  ASSUME NEW mode \in Nat, NEW body \in Seq(Nat), NEW previous, NEW record \in Seq(Nat),
         NEW o \in Seq(Nat), NEW size \in Nat, Len(o) + Len(record) <= size, NEW t \in Seq(Nat),
         ReadEdges(mode, body \o t, previous) = {[value |-> record, rest |-> t]}
  PROVE  NextSpliceIsRead(<<mode>> \o body, previous, record, o, size, t)
<1>1. PICK code \in Seq(Nat) : code = <<mode>> \o body
  <2>1. <<mode>> \in Seq(Nat)
    OBVIOUS
  <2>2. PICK s \in Seq(Nat) : s = <<mode>>
    BY <2>1
  <2>3. s \o body \in Seq(Nat)
    BY Regroup
  <2>4. QED
    BY <2>2, <2>3
<1>2. PICK u \in Seq(Nat) : u = body \o t
  BY Regroup
<1>3. code \o t = <<mode>> \o u
  <2>1. <<mode>> \in Seq(Nat)
    OBVIOUS
  <2>2. PICK s \in Seq(Nat) : s = <<mode>>
    BY <2>1
  <2>3. Regrouped(s, body, t)
    BY IsRegrouped
  <2>4. QED
    BY <2>2, <2>3, <1>1, <1>2, Zenon DEF Regrouped
<1>4. PICK d : d = [value |-> <<mode>>, rest |-> u]
  OBVIOUS
<1>5. d.value[1] = mode /\ d.rest = u
  BY <1>4
<1>6. Take(code \o t, 1) = {d}
  BY <1>3, <1>4, TakeByte
<1>7. PICK read : read = [previous |-> previous, output |-> o, rest |-> code \o t]
  OBVIOUS
<1>8. read.previous = previous /\ read.output = o /\ read.rest = code \o t
  BY <1>7
<1>9. PICK w : w = [value |-> record, rest |-> t]
  OBVIOUS
<1>10. w.value = record /\ w.rest = t
  BY <1>9
<1> DEFINE Fits(m) == {l \in ReadEdges(m.value[1], m.rest, read.previous) :
                         Len(read.output) + Len(l.value) <= size}
           Found(m) == {[previous |-> <<line.value>>, output |-> read.output \o line.value,
                         rest |-> line.rest] : line \in Fits(m)}
<1>11. ReadNextSplice(read, size) = UNION {Found(m) : m \in Take(read.rest, 1)}
  BY Zenon DEF ReadNextSplice
<1>12. Fits(d) = {w}
  BY <1>2, <1>5, <1>8, <1>9, <1>10, Zenon
<1> HIDE DEF Fits
<1>13. Found(d) = {[previous |-> <<w.value>>, output |-> read.output \o w.value, rest |-> w.rest]}
  BY <1>12, Zenon
<1> HIDE DEF Found
<1>14. UNION {Found(m) : m \in {d}} = Found(d)
  BY Zenon
<1>15. ReadNextSplice(read, size) = Found(d)
  BY <1>6, <1>8, <1>11, <1>14, Zenon
<1>16. ReadNextSplice(read, size) = {[previous |-> <<record>>, output |-> o \o record, rest |-> t]}
  BY <1>8, <1>10, <1>13, <1>15, Zenon
<1>17. QED
  BY <1>1, <1>7, <1>16, Zenon DEF NextSpliceIsRead

(* A line that LWS1 leaves as it is. *)
LEMMA ReadsRaw ==
  ASSUME BytesAssumption, NEW previous, NEW record \in Seq(Nat), Len(record) < Word,
         NEW o \in Seq(Nat), NEW size \in Nat, Len(o) + Len(record) <= size, NEW t \in Seq(Nat)
  PROVE  NextSpliceIsRead(<<Raw>> \o Sized(record), previous, record, o, size, t)
<1>1. PICK raw \in Nat : raw = Raw /\ raw # Reference
  BY DEF Raw, Reference
<1>2. PICK body \in Seq(Nat) : body = Sized(record)
  <2>1. VarintBase \in Nat \ {0, 1}
    BY DEF BytesAssumption
  <2>2. PICK k \in Nat : k = Len(record)
    OBVIOUS
  <2>3. PICK d \in Seq(Nat) : d = Varint(k)
    BY <2>1, VarintUnfolds
  <2>4. d \o record \in Seq(Nat)
    BY Regroup
  <2>5. Sized(record) \in Seq(Nat)
    BY <2>2, <2>3, <2>4, Zenon DEF Sized
  <2>6. QED
    BY <2>5
<1>3. ReadSized("python", Sized(record) \o t) = {[value |-> record, rest |-> t]}
  BY ReadsSized
<1>4. ReadEdges(raw, body \o t, previous) = {[value |-> record, rest |-> t]}
  BY <1>1, <1>2, <1>3, Zenon DEF ReadEdges
<1>5. NextSpliceIsRead(<<raw>> \o body, previous, record, o, size, t)
  BY <1>4, ReadsNextEdges
<1>6. QED
  BY <1>1, <1>2, <1>5

(* A line that it splices. *)
LEMMA ReadsSpliced ==
  ASSUME BytesAssumption, LogAssumption, NEW before \in Seq(Nat), NEW record \in Seq(Nat),
         Len(before) <= SpliceLimit, Len(record) <= SpliceLimit, Len(record) < Word,
         NEW o \in Seq(Nat), NEW size \in Nat, Len(o) + Len(record) <= size, NEW t \in Seq(Nat)
  PROVE  NextSpliceIsRead(Splice(before, record), <<before>>, record, o, size, t)
<1>1. SpliceIsRead(before, record, t)
  BY ReadsSplice
<1>2. PICK body \in Seq(Nat) : body = SpliceBody(before, record)
  BY <1>1, Zenon DEF SpliceIsRead
<1>3. /\ Splice(before, record) = <<Reference>> \o body
      /\ ReadSplice(body \o t, before) = {[value |-> record, rest |-> t]}
  BY <1>1, <1>2, Zenon DEF SpliceIsRead
<1>4. PICK one \in Nat : one = Reference /\ one # Raw
  BY DEF Reference, Raw
<1>5. PICK previous : previous = <<before>>
  OBVIOUS
<1>6. DOMAIN previous = {1} /\ previous[1] = before
  BY <1>5
<1>7. ReadEdges(one, body \o t, previous)
        = UNION {ReadSplice(body \o t, previous[i]) : i \in DOMAIN previous}
  BY <1>4, Zenon DEF ReadEdges
<1>8. UNION {ReadSplice(body \o t, previous[i]) : i \in {1}} = ReadSplice(body \o t, previous[1])
  BY Zenon
<1>9. ReadEdges(one, body \o t, previous) = {[value |-> record, rest |-> t]}
  BY <1>3, <1>6, <1>7, <1>8, Zenon
<1>10. NextSpliceIsRead(<<one>> \o body, previous, record, o, size, t)
  BY <1>9, ReadsNextEdges
<1>11. QED
  BY <1>3, <1>4, <1>5, <1>10, Zenon

(* The code of line n among the others. *)
EdgeCode(lines, n) ==
  IF /\ n > 1 /\ Len(lines[n - 1]) <= SpliceLimit /\ Len(lines[n]) <= SpliceLimit
     /\ Len(Splice(lines[n - 1], lines[n])) < Len(<<Raw>> \o Sized(lines[n]))
  THEN Splice(lines[n - 1], lines[n]) ELSE <<Raw>> \o Sized(lines[n])

(* What the reader keeps of the lines it has read: the last one. *)
Before(lines, n) == IF n = 1 THEN <<>> ELSE <<lines[n - 1]>>

(* With the line before it read, the next line is, in the mode that the    *)
(* writer has chosen.                                                      *)
LEMMA ReadsNextOfLines ==
  ASSUME BytesAssumption, LogAssumption, NEW lines \in Seq(Seq(Nat)), NEW n \in 1..Len(lines),
         Len(lines[n]) < Word, NEW o \in Seq(Nat), NEW size \in Nat,
         Len(o) + Len(lines[n]) <= size, NEW t \in Seq(Nat)
  PROVE  NextSpliceIsRead(EdgeCode(lines, n), Before(lines, n), lines[n], o, size, t)
<1> DEFINE shorter == /\ n > 1 /\ Len(lines[n - 1]) <= SpliceLimit /\ Len(lines[n]) <= SpliceLimit
                      /\ Len(Splice(lines[n - 1], lines[n])) < Len(<<Raw>> \o Sized(lines[n]))
<1>1. PICK record \in Seq(Nat) : record = lines[n]
  BY ElementOfSeq
<1>2. CASE shorter
  <2>1. n - 1 \in 1..Len(lines) /\ n # 1
    BY <1>2
  <2>2. PICK before \in Seq(Nat) : before = lines[n - 1]
    BY <2>1, ElementOfSeq
  <2>3. Len(before) <= SpliceLimit /\ Len(record) <= SpliceLimit /\ Len(record) < Word
        /\ Len(o) + Len(record) <= size
    BY <1>1, <1>2, <2>2, Zenon
  <2>4. NextSpliceIsRead(Splice(before, record), <<before>>, record, o, size, t)
    BY <2>3, ReadsSpliced
  <2>5. EdgeCode(lines, n) = Splice(before, record) /\ Before(lines, n) = <<before>>
    BY <1>1, <1>2, <2>1, <2>2, Zenon DEF EdgeCode, Before
  <2>6. QED
    BY <1>1, <2>4, <2>5, Zenon
<1>3. CASE ~shorter
  <2>1. PICK previous : previous = Before(lines, n)
    OBVIOUS
  <2>2. Len(record) < Word /\ Len(o) + Len(record) <= size
    BY <1>1, Zenon
  <2>3. NextSpliceIsRead(<<Raw>> \o Sized(record), previous, record, o, size, t)
    BY <2>2, ReadsRaw
  <2>4. EdgeCode(lines, n) = <<Raw>> \o Sized(record)
    BY <1>1, <1>3, Zenon DEF EdgeCode
  <2>5. QED
    BY <1>1, <2>1, <2>3, <2>4, Zenon
<1>4. QED
  BY <1>2, <1>3

IsSplicing(f, bytes, count, size) ==
  f = [n \in 0..count |->
         IF n = 0 THEN {[previous |-> <<>>, output |-> <<>>, rest |-> bytes]}
         ELSE UNION {ReadNextSplice(some, size) : some \in f[n - 1]}]

(* So does LWS1: each line is made of its own middle and the edges of the  *)
(* line before, whatever the lines have in common.                         *)
THEOREM SplicesReadBack ==
  ASSUME BytesAssumption, LogAssumption, NEW data \in Seq(Byte), Len(data) < Word
  PROVE  DecodeSplices(EncodeSplices(data), Len(data)) = {data}
<1> DEFINE lines == Lines(data)
           codes == [n \in DOMAIN lines |-> EdgeCode(lines, n)]
<1>1. lines \in Seq(Seq(Nat)) /\ \E o : Grows(o, lines, data)
  <2>1. data \in Seq(Nat)
    BY ByteSeq
  <2>2. PICK B \in SUBSET Nat : B = Nat
    OBVIOUS
  <2>3. Lines(data) \in Seq(Seq(B)) /\ \E o : Grows(o, Lines(data), data)
    BY <2>1, <2>2, LinesMake
  <2>4. QED
    BY <2>2, <2>3, Zenon
<1> HIDE DEF lines
<1>2. PICK k \in Nat : k = Len(lines) /\ DOMAIN lines = 1..k
  BY <1>1
<1>3. PICK size \in Nat : size = Len(data) /\ size < Word
  OBVIOUS
<1>4. PICK o : Grows(o, lines, data)
  BY <1>1
<1>5. /\ o \in [0..k -> Seq(Nat)] /\ o[0] = <<>> /\ o[k] = data
      /\ \A n \in 1..k : /\ o[n] = o[n - 1] \o lines[n]
                         /\ Len(o[n - 1]) + Len(lines[n]) <= size
  BY <1>2, <1>3, <1>4, Zenon DEF Grows
<1>6. ASSUME NEW n \in 1..k, NEW t \in Seq(Nat)
      PROVE  NextSpliceIsRead(EdgeCode(lines, n), Before(lines, n), lines[n], o[n - 1], size, t)
  <2>1. n \in 1..Len(lines)
    BY <1>2
  <2>2. PICK record \in Seq(Nat) : record = lines[n]
    BY <2>1, <1>1, ElementOfSeq
  <2>3. PICK so \in Seq(Nat) : so = o[n - 1]
    BY <1>5
  <2>4. Len(so) + Len(record) <= size
    BY <2>2, <2>3, <1>5, Zenon
  <2>5. Len(record) < Word
    <3>1. Word \in Nat
      BY DEF BytesAssumption
    <3>2. Len(so) \in Nat /\ Len(record) \in Nat
      OBVIOUS
    <3>3. QED
      BY <3>1, <3>2, <2>4, <1>3
  <2>6. Len(lines[n]) < Word /\ Len(so) + Len(lines[n]) <= size
    BY <2>2, <2>4, <2>5, Zenon
  <2>7. NextSpliceIsRead(EdgeCode(lines, n), Before(lines, n), lines[n], so, size, t)
    BY <2>1, <2>6, <1>1, ReadsNextOfLines
  <2>8. QED
    BY <2>3, <2>7, Zenon
<1>7. codes \in Seq(Seq(Nat)) /\ Len(codes) = k
  <2>1. \A n \in 1..k : EdgeCode(lines, n) \in Seq(Nat)
    <3>1. <<>> \in Seq(Nat)
      BY EmptySeq
    <3>2. PICK t \in Seq(Nat) : t = <<>>
      BY <3>1
    <3>3. QED
      BY <1>6, Zenon DEF NextSpliceIsRead
  <2>2. codes = [n \in 1..k |-> EdgeCode(lines, n)]
    BY <1>2
  <2>3. PICK S : S = Seq(Nat)
    OBVIOUS
  <2>4. codes \in [1..k -> S]
    BY <2>1, <2>2, <2>3
  <2> HIDE DEF codes
  <2>5. codes \in Seq(S) /\ Len(codes) = k
    BY <2>4
  <2>6. QED
    BY <2>3, <2>5
<1>8. \A n \in 1..k : codes[n] = EdgeCode(lines, n)
  BY <1>2
<1>9. EncodeSplices(data) = <<k>> \o FlattenSeq(codes)
  BY <1>2, Zenon DEF EncodeSplices, EdgeCode, lines
<1> HIDE DEF codes
<1>10. PICK r : Leaves(r, codes, FlattenSeq(codes))
  BY <1>7, FlatLeaves
<1>11. /\ r \in [0..k -> Seq(Nat)] /\ r[0] = FlattenSeq(codes) /\ r[k] = <<>>
       /\ \A n \in 1..k : r[n - 1] = codes[n] \o r[n]
  BY <1>7, <1>10, Zenon DEF Leaves
<1> DEFINE State(n) == [previous |-> Before(lines, n + 1), output |-> o[n], rest |-> r[n]]
           bytes == FlattenSeq(codes)
           w == [n \in 0..k |-> {State(n)}]
           f == CHOOSE g : IsSplicing(g, bytes, k, size)
<1>12. State(0) = [previous |-> <<>>, output |-> <<>>, rest |-> bytes]
  <2>1. 0 + 1 = 1
    OBVIOUS
  <2>2. QED
    BY <2>1, <1>5, <1>11, Zenon DEF Before
<1>13. ASSUME NEW n \in 1..k
       PROVE  UNION {ReadNextSplice(some, size) : some \in {State(n - 1)}} = {State(n)}
  <2>1. PICK t \in Seq(Nat) : t = r[n] /\ r[n - 1] = codes[n] \o t
    <3>1. n \in 0..k
      OBVIOUS
    <3>2. r[n] \in Seq(Nat)
      BY <3>1, <1>11
    <3>3. r[n - 1] = codes[n] \o r[n]
      BY <1>11, Zenon
    <3>4. QED
      BY <3>2, <3>3, Zenon
  <2>2. NextSpliceIsRead(EdgeCode(lines, n), Before(lines, n), lines[n], o[n - 1], size, t)
    BY <1>6
  <2>3. PICK some : some = [previous |-> Before(lines, n), output |-> o[n - 1],
                            rest |-> EdgeCode(lines, n) \o t]
    OBVIOUS
  <2>4. ReadNextSplice(some, size)
          = {[previous |-> <<lines[n]>>, output |-> o[n - 1] \o lines[n], rest |-> t]}
    BY <2>2, <2>3, Zenon DEF NextSpliceIsRead
  <2>5. State(n - 1) = some
    <3>1. (n - 1) + 1 = n
      OBVIOUS
    <3>2. r[n - 1] = EdgeCode(lines, n) \o t
      BY <2>1, <1>8, Zenon
    <3>3. QED
      BY <3>1, <3>2, <2>3, Zenon
  <2>6. State(n) = [previous |-> <<lines[n]>>, output |-> o[n - 1] \o lines[n], rest |-> t]
    <3>1. n + 1 # 1 /\ (n + 1) - 1 = n
      OBVIOUS
    <3>2. Before(lines, n + 1) = <<lines[n]>>
      BY <3>1, Zenon DEF Before
    <3>3. QED
      BY <3>2, <2>1, <1>5, Zenon
  <2> HIDE DEF State
  <2>7. UNION {ReadNextSplice(one, size) : one \in {some}} = ReadNextSplice(some, size)
    BY Zenon
  <2>8. QED
    BY <2>4, <2>5, <2>6, <2>7, Zenon
<1>14. State(k).rest = <<>> /\ State(k).output = data
  BY <1>5, <1>11
<1> HIDE DEF State
<1>15. IsSplicing(w, bytes, k, size)
  <2>1. ASSUME NEW n \in 0..k
        PROVE  w[n] = IF n = 0 THEN {[previous |-> <<>>, output |-> <<>>, rest |-> bytes]}
                      ELSE UNION {ReadNextSplice(some, size) : some \in w[n - 1]}
    <3>1. CASE n = 0
      BY <3>1, <1>12, Zenon
    <3>2. CASE n # 0
      <4>1. n \in 1..k /\ n - 1 \in 0..k
        BY <3>2
      <4>2. w[n] = {State(n)} /\ w[n - 1] = {State(n - 1)}
        BY <4>1, Zenon
      <4> HIDE DEF w
      <4>3. QED
        BY <4>1, <4>2, <3>2, <1>13, Zenon
    <3>3. QED
      BY <3>1, <3>2
  <2>2. w = [n \in 0..k |-> w[n]]
    BY Zenon
  <2> HIDE DEF w, bytes
  <2>3. QED
    BY <2>1, <2>2, Zenon DEF IsSplicing
<1>16. IsSplicing(f, bytes, k, size)
  BY <1>15, Zenon
<1>17. ReadSplices(bytes, k, size)
         = {all.output : all \in {all \in f[k] : all.rest = <<>> /\ Len(all.output) = size}}
  BY Zenon DEF ReadSplices, IsSplicing
<1> HIDE DEF f, w, bytes
<1>18. \A n \in 0..k : f[n] = IF n = 0 THEN {[previous |-> <<>>, output |-> <<>>, rest |-> bytes]}
                       ELSE UNION {ReadNextSplice(some, size) : some \in f[n - 1]}
  BY <1>16, Zenon DEF IsSplicing
<1> DEFINE S == {n \in Nat : f[n] = {State(n)}}
<1>19. \A n \in 0..k : n \in S
  <2>1. 0 \in S
    <3>1. 0 \in 0..k
      OBVIOUS
    <3>2. f[0] = {[previous |-> <<>>, output |-> <<>>, rest |-> bytes]}
      BY <3>1, <1>18, Zenon
    <3>3. QED
      BY <3>2, <1>12
  <2>2. ASSUME NEW n \in 0..(k - 1), n \in S PROVE n + 1 \in S
    <3>1. n + 1 \in 1..k /\ (n + 1) - 1 = n /\ n + 1 \in Nat /\ n + 1 \in 0..k /\ n + 1 # 0
      OBVIOUS
    <3>2. f[n] = {State(n)}
      BY <2>2
    <3>3. f[n + 1] = UNION {ReadNextSplice(some, size) : some \in f[n]}
      BY <3>1, <1>18, Zenon
    <3>4. f[n + 1] = {State(n + 1)}
      BY <3>1, <3>2, <3>3, <1>13, Zenon
    <3>5. QED
      BY <3>1, <3>4
  <2> HIDE DEF S
  <2>3. QED
    BY <2>1, <2>2, FiniteInduction
<1>20. f[k] = {State(k)}
  BY <1>19, k \in 0..k
<1>21. ReadSplices(bytes, k, size) = {data}
  <2>1. {all \in f[k] : all.rest = <<>> /\ Len(all.output) = size} = {State(k)}
    BY <1>3, <1>14, <1>20, Zenon
  <2>2. QED
    BY <2>1, <1>14, <1>17, Zenon
<1>22. bytes \in Seq(Nat)
  <2>1. 0 \in 0..k
    OBVIOUS
  <2>2. QED
    BY <2>1, <1>11 DEF bytes
<1>23. PICK d : d = [value |-> <<k>>, rest |-> bytes]
  OBVIOUS
<1>24. d.value[1] = k /\ d.rest = bytes
  BY <1>23
<1>25. Take(<<k>> \o bytes, 1) = {d}
  BY <1>22, <1>23, TakeByte
<1>26. UNION {ReadSplices(c.rest, c.value[1], size) : c \in {d}}
         = ReadSplices(d.rest, d.value[1], size)
  BY Zenon
<1>27. DecodeSplices(<<k>> \o bytes, size) = {data}
  BY <1>21, <1>24, <1>25, <1>26, Zenon DEF DecodeSplices
<1>28. QED
  BY <1>3, <1>9, <1>27, Zenon DEF bytes
--------------------------------------------------------------------------------
(* Tables. *)

(* What is built up from the parts is the parts put together. *)
LEMMA FlatIsGrown ==
  ASSUME NEW list \in Seq(Seq(Nat)), NEW bytes \in Seq(Nat), \E o : Grows(o, list, bytes)
  PROVE  FlattenSeq(list) = bytes
<1>1. PICK k \in Nat : k = Len(list)
  OBVIOUS
<1>2. PICK o : Grows(o, list, bytes)
  OBVIOUS
<1>3. /\ o \in [0..k -> Seq(Nat)] /\ o[0] = <<>> /\ o[k] = bytes
      /\ \A n \in 1..k : o[n] = o[n - 1] \o list[n]
  BY <1>1, <1>2, Zenon DEF Grows
<1>4. PICK f : /\ f \in [0..k -> Seq(Nat)] /\ f[0] = <<>> /\ FlattenSeq(list) = f[k]
               /\ \A n \in 1..k : f[n] = f[n - 1] \o list[n]
  BY <1>1, FlatIsPrefixes
<1> DEFINE S == {n \in Nat : f[n] = o[n]}
<1>5. \A n \in 0..k : n \in S
  <2>1. 0 \in S
    BY <1>3, <1>4
  <2>2. ASSUME NEW n \in 0..(k - 1), n \in S PROVE n + 1 \in S
    <3>1. n + 1 \in 1..k /\ (n + 1) - 1 = n /\ n + 1 \in Nat
      OBVIOUS
    <3>2. f[n + 1] = f[(n + 1) - 1] \o list[n + 1] /\ o[n + 1] = o[(n + 1) - 1] \o list[n + 1]
      BY <3>1, <1>3, <1>4, Zenon
    <3>3. f[n] = o[n]
      BY <2>2
    <3>4. f[n + 1] = o[n + 1]
      BY <3>1, <3>2, <3>3, Zenon
    <3>5. QED
      BY <3>1, <3>4
  <2> HIDE DEF S
  <2>3. QED
    BY <2>1, <2>2, FiniteInduction
<1>6. k \in 0..k
  OBVIOUS
<1>7. QED
  BY <1>3, <1>4, <1>5, <1>6

(* No part is longer than all of them; if none is empty, the bytes are at  *)
(* least as many as the parts.                                             *)
LEMMA PartsFit ==
  ASSUME NEW list \in Seq(Seq(Nat))
  PROVE  /\ FlattenSeq(list) \in Seq(Nat)
         /\ \A n \in 1..Len(list) : Len(list[n]) <= Len(FlattenSeq(list))
         /\ Full(list) => Len(list) <= Len(FlattenSeq(list))
<1>1. PICK k \in Nat : k = Len(list)
  OBVIOUS
<1>2. PICK f : /\ f \in [0..k -> Seq(Nat)] /\ f[0] = <<>> /\ FlattenSeq(list) = f[k]
               /\ \A n \in 1..k : f[n] = f[n - 1] \o list[n]
  BY <1>1, FlatIsPrefixes
<1> DEFINE S == {n \in Nat : /\ \A i \in 1..n : Len(list[i]) <= Len(f[n])
                             /\ Full(list) => n <= Len(f[n])}
<1>3. \A n \in 0..k : n \in S
  <2>1. 0 \in S
    <3>1. Len(f[0]) = 0
      BY <1>2
    <3>2. QED
      BY <3>1
  <2>2. ASSUME NEW n \in 0..(k - 1), n \in S PROVE n + 1 \in S
    <3>1. n + 1 \in 1..k /\ (n + 1) - 1 = n /\ n + 1 \in Nat /\ n \in 0..k /\ n + 1 \in 1..Len(list)
      BY <1>1
    <3>2. PICK x, y \in Seq(Nat) : x = f[n] /\ y = list[n + 1]
      BY <3>1, <1>2, ElementOfSeq
    <3>3. f[n + 1] = x \o y
      BY <3>1, <3>2, <1>2, Zenon
    <3>4. Len(x \o y) = Len(x) + Len(y) /\ Len(x) \in Nat /\ Len(y) \in Nat
      BY ConcatProperties
    <3>5. \A i \in 1..n : Len(list[i]) <= Len(x)
      BY <2>2, <3>2
    <3>6. ASSUME NEW i \in 1..(n + 1) PROVE Len(list[i]) <= Len(f[n + 1])
      <4>1. CASE i = n + 1
        <5>1. Len(y) <= Len(x) + Len(y)
          BY <3>4
        <5>2. QED
          BY <4>1, <5>1, <3>2, <3>3, <3>4, Zenon
      <4>2. CASE i # n + 1
        <5>1. i \in 1..n /\ i \in 1..Len(list)
          BY <4>2, <3>1, <1>1
        <5>2. PICK z \in Seq(Nat) : z = list[i]
          BY <5>1, ElementOfSeq
        <5>3. Len(z) <= Len(x) /\ Len(z) \in Nat
          BY <5>1, <5>2, <3>5
        <5>4. Len(z) <= Len(x) + Len(y)
          BY <5>3, <3>4
        <5>5. QED
          BY <5>2, <5>4, <3>3, <3>4, Zenon
      <4>3. QED
        BY <4>1, <4>2
    <3>7. ASSUME Full(list) PROVE n + 1 <= Len(f[n + 1])
      <4>1. y # <<>>
        BY <3>1, <3>2, <3>7, Zenon DEF Full
      <4>2. Len(y) # 0
        BY <4>1, EmptySeq
      <4>3. n <= Len(x)
        BY <2>2, <3>2, <3>7
      <4>4. n + 1 <= Len(x) + Len(y)
        BY <4>2, <4>3, <3>4
      <4>5. QED
        BY <4>4, <3>3, <3>4, Zenon
    <3>8. QED
      BY <3>1, <3>6, <3>7
  <2> HIDE DEF S
  <2>3. QED
    BY <2>1, <2>2, FiniteInduction
<1>4. k \in 0..k
  OBVIOUS
<1>5. QED
  BY <1>1, <1>2, <1>3, <1>4
(* The code of a number has a byte at least. *)
LEMMA VarintIs ==
  ASSUME BytesAssumption, NEW v \in Nat
  PROVE  Varint(v) \in Seq(Nat) /\ Varint(v) # <<>>
<1>1. VarintBase \in Nat \ {0, 1}
  BY DEF BytesAssumption
<1>2. PICK s : s = Varint(v)
  OBVIOUS
<1>3. IsNumber(s, v)
  BY <1>1, <1>2, VarintIsNumber
<1>4. s \in Seq(Nat) /\ Len(s) >= 1
  BY <1>3 DEF IsNumber
<1>5. s # <<>>
  BY <1>4
<1>6. QED
  BY <1>2, <1>4, <1>5

NextVarints(reader, some) ==
  {[value |-> Append(some.value, next.value), rest |-> next.rest] :
     next \in ReadVarint(reader, some.rest)}

IsReadingVarints(f, reader, bytes, count) ==
  f = [n \in 0..count |->
         IF n = 0 THEN {[value |-> <<>>, rest |-> bytes]}
         ELSE UNION {NextVarints(reader, some) : some \in f[n - 1]}]

MoreIsRead(reader, read, v, t) ==
  NextVarints(reader, [value |-> read, rest |-> Varint(v) \o t])
    = {[value |-> Append(read, v), rest |-> t]}

(* One more number is read. *)
LEMMA ReadsOneMore ==
  ASSUME BytesAssumption, NEW reader, NEW read, NEW v \in Nat, v < Word, NEW t \in Seq(Nat)
  PROVE  MoreIsRead(reader, read, v, t)
<1>1. PICK n, from : n = [value |-> v, rest |-> t] /\ from = [value |-> read, rest |-> Varint(v) \o t]
  OBVIOUS
<1>2. n.value = v /\ n.rest = t /\ from.value = read /\ from.rest = Varint(v) \o t
  BY <1>1
<1>3. ReadVarint(reader, from.rest) = {n}
  BY <1>1, <1>2, ReadsVarint
<1>4. NextVarints(reader, from) = {[value |-> Append(read, v), rest |-> t]}
  BY <1>2, <1>3, Zenon DEF NextVarints
<1>5. QED
  BY <1>1, <1>4, Zenon DEF MoreIsRead

(* Numbers, one after the other, are read as these numbers, and what       *)
(* follows them is left.                                                   *)
LEMMA ReadsVarints ==
  ASSUME BytesAssumption, NEW reader, NEW values \in Seq(Nat), NEW t \in Seq(Nat),
         \A n \in 1..Len(values) : values[n] < Word
  PROVE  LET list == [n \in 1..Len(values) |-> Varint(values[n])]
         IN  /\ list \in Seq(Seq(Nat)) /\ Len(list) = Len(values) /\ Full(list)
             /\ ReadVarints(reader, FlattenSeq(list) \o t, Len(values)) = {[value |-> values, rest |-> t]}
<1>1. PICK k \in Nat : k = Len(values)
  OBVIOUS
<1> DEFINE list == [n \in 1..k |-> Varint(values[n])]
<1>2. \A n \in 1..k : values[n] \in Nat /\ values[n] < Word
  BY <1>1, ElementOfSeq
<1>3. \A v \in Nat : Varint(v) \in Seq(Nat) /\ Varint(v) # <<>>
  BY VarintIs
<1>4. list \in Seq(Seq(Nat)) /\ Len(list) = k
  <2>1. PICK S : S = Seq(Nat)
    OBVIOUS
  <2>2. list \in [1..k -> S]
    BY <2>1, <1>2, <1>3
  <2> HIDE DEF list
  <2>3. list \in Seq(S) /\ Len(list) = k
    BY <2>2
  <2>4. QED
    BY <2>1, <2>3
<1>5. \A n \in 1..k : list[n] = Varint(values[n])
  OBVIOUS
<1> HIDE DEF list
<1>6. Full(list)
  BY <1>2, <1>3, <1>4, <1>5, Zenon DEF Full
<1>7. PICK q : Leaves(q, list, FlattenSeq(list))
  BY <1>4, FlatLeaves
<1>8. /\ q \in [0..k -> Seq(Nat)] /\ q[0] = FlattenSeq(list) /\ q[k] = <<>>
      /\ \A n \in 1..k : q[n - 1] = list[n] \o q[n]
  BY <1>4, <1>7, Zenon DEF Leaves
<1> DEFINE State(n) == [value |-> SubSeq(values, 1, n), rest |-> q[n] \o t]
           bytes == FlattenSeq(list) \o t
           w == [n \in 0..k |-> {State(n)}]
           f == CHOOSE g : IsReadingVarints(g, reader, bytes, k)
<1>9. State(0) = [value |-> <<>>, rest |-> bytes]
  <2>1. SubSeq(values, 1, 0) = <<>>
    BY SubSeqEmpty
  <2>2. QED
    BY <2>1, <1>8, Zenon
<1>10. ASSUME NEW n \in 1..k
       PROVE  UNION {NextVarints(reader, some) : some \in {State(n - 1)}} = {State(n)}
  <2>1. PICK v \in Nat : v = values[n] /\ v < Word
    BY <1>2
  <2>2. PICK x, y \in Seq(Nat) : x = q[n] /\ y = Varint(v)
    <3>1. n \in 0..k
      OBVIOUS
    <3>2. q[n] \in Seq(Nat)
      BY <3>1, <1>8
    <3>3. Varint(v) \in Seq(Nat)
      BY <1>3
    <3>4. QED
      BY <3>2, <3>3, Zenon
  <2>3. q[n - 1] \o t = y \o (x \o t)
    <3>1. Regrouped(y, x, t)
      BY IsRegrouped
    <3>2. q[n - 1] = y \o x
      BY <2>1, <2>2, <1>5, <1>8, Zenon
    <3>3. QED
      BY <3>1, <3>2, Zenon DEF Regrouped
  <2>4. x \o t \in Seq(Nat)
    BY ConcatProperties
  <2>5. PICK z \in Seq(Nat) : z = x \o t
    BY <2>4
  <2>6. PICK read \in Seq(Nat) : read = SubSeq(values, 1, n - 1) /\ SubSeq(values, 1, n) = Append(read, v)
    <3>1. n - 1 \in Nat /\ n - 1 <= Len(values) /\ n \in 1..Len(values)
      BY <1>1
    <3>2. SubSeq(values, 1, n - 1) \in Seq(Nat)
      <4>1. \A i \in 1..(n - 1) : values[i] \in Nat
        BY <1>1, <1>2
      <4>2. QED
        BY <4>1, <3>1, SubSeqProperties
    <3>3. PICK read \in Seq(Nat) : read = SubSeq(values, 1, n - 1)
      BY <3>2
    <3>4. SubSeq(values, 1, n) = SubSeq(values, 1, n - 1) \o <<values[n]>>
      BY <3>1, SubSeqRecursiveSecond
    <3>5. Append(read, v) = read \o <<v>>
      BY Appended
    <3>6. QED
      BY <3>3, <3>4, <3>5, <2>1, Zenon
  <2>7. State(n - 1) = [value |-> read, rest |-> Varint(v) \o z]
    BY <2>2, <2>3, <2>5, <2>6, Zenon
  <2>8. State(n) = [value |-> Append(read, v), rest |-> z]
    BY <2>2, <2>5, <2>6, Zenon
  <2>9. MoreIsRead(reader, read, v, z)
    BY <2>1, ReadsOneMore
  <2> HIDE DEF State
  <2>10. QED
    BY <2>7, <2>8, <2>9, Zenon DEF MoreIsRead
<1>11. State(k) = [value |-> values, rest |-> t]
  <2>1. SubSeq(values, 1, k) = values
    BY <1>1, SubSeqFull
  <2>2. <<>> \o t = t
    BY ConcatEmptySeq
  <2>3. QED
    BY <2>1, <2>2, <1>8, Zenon
<1> HIDE DEF State
<1>12. IsReadingVarints(w, reader, bytes, k)
  <2>1. ASSUME NEW n \in 0..k
        PROVE  w[n] = IF n = 0 THEN {[value |-> <<>>, rest |-> bytes]}
                      ELSE UNION {NextVarints(reader, some) : some \in w[n - 1]}
    <3>1. CASE n = 0
      BY <3>1, <1>9, Zenon
    <3>2. CASE n # 0
      <4>1. n \in 1..k /\ n - 1 \in 0..k
        BY <3>2
      <4>2. w[n] = {State(n)} /\ w[n - 1] = {State(n - 1)}
        BY <4>1, Zenon
      <4> HIDE DEF w
      <4>3. QED
        BY <4>1, <4>2, <3>2, <1>10, Zenon
    <3>3. QED
      BY <3>1, <3>2
  <2>2. w = [n \in 0..k |-> w[n]]
    BY Zenon
  <2> HIDE DEF w, bytes
  <2>3. QED
    BY <2>1, <2>2, Zenon DEF IsReadingVarints
<1>13. IsReadingVarints(f, reader, bytes, k)
  BY <1>12, Zenon
<1>14. ReadVarints(reader, bytes, k) = f[k]
  BY Zenon DEF ReadVarints, IsReadingVarints, NextVarints
<1> HIDE DEF f, w, bytes
<1>15. \A n \in 0..k : f[n] = IF n = 0 THEN {[value |-> <<>>, rest |-> bytes]}
                       ELSE UNION {NextVarints(reader, some) : some \in f[n - 1]}
  BY <1>13, Zenon DEF IsReadingVarints
<1> DEFINE S == {n \in Nat : f[n] = {State(n)}}
<1>16. \A n \in 0..k : n \in S
  <2>1. 0 \in S
    <3>1. 0 \in 0..k
      OBVIOUS
    <3>2. f[0] = {[value |-> <<>>, rest |-> bytes]}
      BY <3>1, <1>15, Zenon
    <3>3. QED
      BY <3>2, <1>9
  <2>2. ASSUME NEW n \in 0..(k - 1), n \in S PROVE n + 1 \in S
    <3>1. n + 1 \in 1..k /\ (n + 1) - 1 = n /\ n + 1 \in Nat /\ n + 1 \in 0..k /\ n + 1 # 0
      OBVIOUS
    <3>2. f[n] = {State(n)}
      BY <2>2
    <3>3. f[n + 1] = UNION {NextVarints(reader, some) : some \in f[n]}
      BY <3>1, <1>15, Zenon
    <3>4. f[n + 1] = {State(n + 1)}
      BY <3>1, <3>2, <3>3, <1>10, Zenon
    <3>5. QED
      BY <3>1, <3>4
  <2> HIDE DEF S
  <2>3. QED
    BY <2>1, <2>2, FiniteInduction
<1>17. f[k] = {[value |-> values, rest |-> t]}
  <2>1. k \in S
    BY <1>16, k \in 0..k
  <2>2. QED
    BY <2>1, <1>11
<1>18. QED
  BY <1>1, <1>4, <1>6, <1>14, <1>17, Zenon DEF bytes, list

(* The code of a string has a byte at least, and all of the string. *)
LEMMA SizedIs ==
  ASSUME BytesAssumption, NEW s \in Seq(Nat)
  PROVE  Sized(s) \in Seq(Nat) /\ Sized(s) # <<>> /\ Len(s) <= Len(Sized(s))
<1>1. PICK k \in Nat : k = Len(s)
  OBVIOUS
<1>2. Varint(k) \in Seq(Nat) /\ Varint(k) # <<>>
  BY VarintIs
<1>3. PICK x \in Seq(Nat) : x = Varint(k) /\ x # <<>>
  BY <1>2
<1>4. x \o s \in Seq(Nat) /\ Len(x \o s) = Len(x) + Len(s) /\ Len(x) \in Nat /\ Len(x) # 0
  BY <1>3, ConcatProperties, EmptySeq
<1>5. x \o s # <<>> /\ Len(s) <= Len(x \o s)
  BY <1>1, <1>4
<1>6. QED
  BY <1>1, <1>3, <1>4, <1>5, Zenon DEF Sized

NextSized(reader, some) ==
  {[value |-> Append(some.value, next.value), rest |-> next.rest] :
     next \in ReadSized(reader, some.rest)}

IsReadingSized(f, reader, bytes, count) ==
  f = [n \in 0..count |->
         IF n = 0 THEN {[value |-> <<>>, rest |-> bytes]}
         ELSE UNION {NextSized(reader, some) : some \in f[n - 1]}]

MoreSizedIsRead(reader, read, v, t) ==
  NextSized(reader, [value |-> read, rest |-> Sized(v) \o t])
    = {[value |-> Append(read, v), rest |-> t]}

(* One more string is read. *)
LEMMA ReadsOneMoreSized ==
  ASSUME BytesAssumption, NEW reader, NEW read, NEW v \in Seq(Nat), Len(v) < Word, NEW t \in Seq(Nat)
  PROVE  MoreSizedIsRead(reader, read, v, t)
<1>1. PICK n, from : n = [value |-> v, rest |-> t] /\ from = [value |-> read, rest |-> Sized(v) \o t]
  OBVIOUS
<1>2. n.value = v /\ n.rest = t /\ from.value = read /\ from.rest = Sized(v) \o t
  BY <1>1
<1>3. ReadSized(reader, from.rest) = {n}
  BY <1>1, <1>2, ReadsSized
<1>4. NextSized(reader, from) = {[value |-> Append(read, v), rest |-> t]}
  BY <1>2, <1>3, Zenon DEF NextSized
<1>5. QED
  BY <1>1, <1>4, Zenon DEF MoreSizedIsRead

(* So are strings with their sizes in front. *)
LEMMA ReadsAllSized ==
  ASSUME BytesAssumption, NEW reader, NEW values \in Seq(Seq(Nat)), NEW t \in Seq(Nat),
         \A n \in 1..Len(values) : Len(values[n]) < Word
  PROVE  LET list == [n \in 1..Len(values) |-> Sized(values[n])]
         IN  /\ list \in Seq(Seq(Nat)) /\ Len(list) = Len(values) /\ Full(list)
             /\ ReadAllSized(reader, FlattenSeq(list) \o t, Len(values)) = {[value |-> values, rest |-> t]}
<1>1. PICK k \in Nat : k = Len(values)
  OBVIOUS
<1> DEFINE list == [n \in 1..k |-> Sized(values[n])]
<1>2. \A n \in 1..k : values[n] \in Seq(Nat) /\ Len(values[n]) < Word
  BY <1>1, ElementOfSeq
<1>3. \A v \in Seq(Nat) : Sized(v) \in Seq(Nat) /\ Sized(v) # <<>>
  BY SizedIs
<1>4. list \in Seq(Seq(Nat)) /\ Len(list) = k
  <2>1. PICK S : S = Seq(Nat)
    OBVIOUS
  <2>2. list \in [1..k -> S]
    BY <2>1, <1>2, <1>3
  <2> HIDE DEF list
  <2>3. list \in Seq(S) /\ Len(list) = k
    BY <2>2
  <2>4. QED
    BY <2>1, <2>3
<1>5. \A n \in 1..k : list[n] = Sized(values[n])
  OBVIOUS
<1> HIDE DEF list
<1>6. Full(list)
  BY <1>2, <1>3, <1>4, <1>5, Zenon DEF Full
<1>7. PICK q : Leaves(q, list, FlattenSeq(list))
  BY <1>4, FlatLeaves
<1>8. /\ q \in [0..k -> Seq(Nat)] /\ q[0] = FlattenSeq(list) /\ q[k] = <<>>
      /\ \A n \in 1..k : q[n - 1] = list[n] \o q[n]
  BY <1>4, <1>7, Zenon DEF Leaves
<1> DEFINE State(n) == [value |-> SubSeq(values, 1, n), rest |-> q[n] \o t]
           bytes == FlattenSeq(list) \o t
           w == [n \in 0..k |-> {State(n)}]
           f == CHOOSE g : IsReadingSized(g, reader, bytes, k)
<1>9. State(0) = [value |-> <<>>, rest |-> bytes]
  <2>1. SubSeq(values, 1, 0) = <<>>
    BY SubSeqEmpty
  <2>2. QED
    BY <2>1, <1>8, Zenon
<1>10. ASSUME NEW n \in 1..k
       PROVE  UNION {NextSized(reader, some) : some \in {State(n - 1)}} = {State(n)}
  <2>1. PICK v \in Seq(Nat) : v = values[n] /\ Len(v) < Word
    BY <1>2
  <2>2. PICK x, y \in Seq(Nat) : x = q[n] /\ y = Sized(v)
    <3>1. n \in 0..k
      OBVIOUS
    <3>2. q[n] \in Seq(Nat)
      BY <3>1, <1>8
    <3>3. Sized(v) \in Seq(Nat)
      BY <1>3
    <3>4. QED
      BY <3>2, <3>3, Zenon
  <2>3. q[n - 1] \o t = y \o (x \o t)
    <3>1. Regrouped(y, x, t)
      BY IsRegrouped
    <3>2. q[n - 1] = y \o x
      BY <2>1, <2>2, <1>5, <1>8, Zenon
    <3>3. QED
      BY <3>1, <3>2, Zenon DEF Regrouped
  <2>4. x \o t \in Seq(Nat)
    BY ConcatProperties
  <2>5. PICK z \in Seq(Nat) : z = x \o t
    BY <2>4
  <2>6. PICK read : read = SubSeq(values, 1, n - 1) /\ SubSeq(values, 1, n) = Append(read, v)
    <3>1. n - 1 \in Nat /\ n - 1 <= Len(values) /\ n \in 1..Len(values)
      BY <1>1
    <3>2. PICK L : L = Seq(Nat)
      OBVIOUS
    <3>3. values \in Seq(L) /\ v \in L
      BY <3>2
    <3>4. SubSeq(values, 1, n - 1) \in Seq(L)
      <4>1. \A i \in 1..(n - 1) : values[i] \in L
        BY <3>2, <1>1, <1>2
      <4>2. QED
        BY <4>1, <3>1, <3>3, SubSeqProperties
    <3>5. PICK read \in Seq(L) : read = SubSeq(values, 1, n - 1)
      BY <3>4
    <3>6. SubSeq(values, 1, n) = SubSeq(values, 1, n - 1) \o <<values[n]>>
      BY <3>1, <3>3, SubSeqRecursiveSecond
    <3>7. Append(read, v) = read \o <<v>>
      BY <3>3, Appended
    <3>8. QED
      BY <3>5, <3>6, <3>7, <2>1, Zenon
  <2>7. State(n - 1) = [value |-> read, rest |-> Sized(v) \o z]
    BY <2>2, <2>3, <2>5, <2>6, Zenon
  <2>8. State(n) = [value |-> Append(read, v), rest |-> z]
    BY <2>2, <2>5, <2>6, Zenon
  <2>9. MoreSizedIsRead(reader, read, v, z)
    BY <2>1, ReadsOneMoreSized
  <2> HIDE DEF State
  <2>10. QED
    BY <2>7, <2>8, <2>9, Zenon DEF MoreSizedIsRead
<1>11. State(k) = [value |-> values, rest |-> t]
  <2>1. SubSeq(values, 1, k) = values
    BY <1>1, SubSeqFull
  <2>2. <<>> \o t = t
    BY ConcatEmptySeq
  <2>3. QED
    BY <2>1, <2>2, <1>8, Zenon
<1> HIDE DEF State
<1>12. IsReadingSized(w, reader, bytes, k)
  <2>1. ASSUME NEW n \in 0..k
        PROVE  w[n] = IF n = 0 THEN {[value |-> <<>>, rest |-> bytes]}
                      ELSE UNION {NextSized(reader, some) : some \in w[n - 1]}
    <3>1. CASE n = 0
      BY <3>1, <1>9, Zenon
    <3>2. CASE n # 0
      <4>1. n \in 1..k /\ n - 1 \in 0..k
        BY <3>2
      <4>2. w[n] = {State(n)} /\ w[n - 1] = {State(n - 1)}
        BY <4>1, Zenon
      <4> HIDE DEF w
      <4>3. QED
        BY <4>1, <4>2, <3>2, <1>10, Zenon
    <3>3. QED
      BY <3>1, <3>2
  <2>2. w = [n \in 0..k |-> w[n]]
    BY Zenon
  <2> HIDE DEF w, bytes
  <2>3. QED
    BY <2>1, <2>2, Zenon DEF IsReadingSized
<1>13. IsReadingSized(f, reader, bytes, k)
  BY <1>12, Zenon
<1>14. ReadAllSized(reader, bytes, k) = f[k]
  BY Zenon DEF ReadAllSized, IsReadingSized, NextSized
<1> HIDE DEF f, w, bytes
<1>15. \A n \in 0..k : f[n] = IF n = 0 THEN {[value |-> <<>>, rest |-> bytes]}
                       ELSE UNION {NextSized(reader, some) : some \in f[n - 1]}
  BY <1>13, Zenon DEF IsReadingSized
<1> DEFINE S == {n \in Nat : f[n] = {State(n)}}
<1>16. \A n \in 0..k : n \in S
  <2>1. 0 \in S
    <3>1. 0 \in 0..k
      OBVIOUS
    <3>2. f[0] = {[value |-> <<>>, rest |-> bytes]}
      BY <3>1, <1>15, Zenon
    <3>3. QED
      BY <3>2, <1>9
  <2>2. ASSUME NEW n \in 0..(k - 1), n \in S PROVE n + 1 \in S
    <3>1. n + 1 \in 1..k /\ (n + 1) - 1 = n /\ n + 1 \in Nat /\ n + 1 \in 0..k /\ n + 1 # 0
      OBVIOUS
    <3>2. f[n] = {State(n)}
      BY <2>2
    <3>3. f[n + 1] = UNION {NextSized(reader, some) : some \in f[n]}
      BY <3>1, <1>15, Zenon
    <3>4. f[n + 1] = {State(n + 1)}
      BY <3>1, <3>2, <3>3, <1>10, Zenon
    <3>5. QED
      BY <3>1, <3>4
  <2> HIDE DEF S
  <2>3. QED
    BY <2>1, <2>2, FiniteInduction
<1>17. f[k] = {[value |-> values, rest |-> t]}
  <2>1. k \in S
    BY <1>16, k \in 0..k
  <2>2. QED
    BY <2>1, <1>11
<1>18. QED
  BY <1>1, <1>4, <1>6, <1>14, <1>17, Zenon DEF bytes, list

(* What a row writes for each of its fields. *)
Separated(list) ==
  [c \in 1..Len(list) |-> IF c = 1 THEN list[c] ELSE <<Delimiter>> \o list[c]]

(* These are strings again, as many as there are fields. *)
LEMMA SeparatedIs ==
  ASSUME TableAssumption, NEW list \in Seq(Seq(Nat))
  PROVE  /\ Separated(list) \in Seq(Seq(Nat)) /\ Len(Separated(list)) = Len(list)
         /\ \A c \in 1..Len(list) :
              Separated(list)[c] = IF c = 1 THEN list[c] ELSE <<Delimiter>> \o list[c]
<1>1. PICK k \in Nat : k = Len(list)
  OBVIOUS
<1>2. PICK L, s : L = Seq(Nat) /\ s = Separated(list)
  OBVIOUS
<1>3. s = [c \in 1..k |-> IF c = 1 THEN list[c] ELSE <<Delimiter>> \o list[c]]
  BY <1>1, <1>2, Zenon DEF Separated
<1>4. ASSUME NEW c \in 1..k PROVE (IF c = 1 THEN list[c] ELSE <<Delimiter>> \o list[c]) \in L
  <2>1. <<Delimiter>> \in Seq(Nat)
    BY DEF TableAssumption
  <2>2. PICK d \in Seq(Nat) : d = <<Delimiter>>
    BY <2>1
  <2>3. PICK x \in Seq(Nat) : x = list[c]
    BY <1>1, ElementOfSeq
  <2>4. d \o x \in Seq(Nat)
    BY ConcatProperties
  <2>5. QED
    BY <2>2, <2>3, <2>4, <1>2, Zenon
<1>5. s \in [1..k -> L]
  BY <1>3, <1>4, Zenon
<1>6. s \in Seq(L) /\ Len(s) = k
  BY <1>5
<1>7. QED
  BY <1>1, <1>2, <1>3, <1>6, Zenon

(* A row with one more byte: its fields, and what it writes for them. *)
FieldsExtended(list, new, b) ==
  /\ new \in Seq(Seq(Nat)) /\ Len(list) <= Len(new) /\ Len(new) <= Len(list) + 1
  /\ Separated(list) \in Seq(Seq(Nat)) /\ Separated(new) \in Seq(Seq(Nat))
  /\ Extended(Separated(list), Separated(new), b)

(* One more byte ends a field or makes the last one longer; either way     *)
(* what is written for them has this byte more.                            *)
LEMMA WithFieldByteIs ==
  ASSUME TableAssumption, NEW list \in Seq(Seq(Nat)), Len(list) >= 1, NEW b \in Nat
  PROVE  FieldsExtended(list, WithFieldByte(list, b), b)
<1>1. PICK k \in Nat : k = Len(list) /\ k >= 1
  OBVIOUS
<1>2. PICK L : L = Seq(Nat)
  OBVIOUS
<1>3. list \in Seq(L) /\ <<>> \in L
  BY <1>2, EmptySeq
<1>4. PICK d \in L : d = <<b>> /\ Len(d) = 1
  <2>1. <<b>> \in Seq(Nat) /\ Len(<<b>>) = 1
    OBVIOUS
  <2>2. QED
    BY <2>1, <1>2
<1>5. PICK s \in Seq(L) : /\ s = Separated(list) /\ Len(s) = k
                          /\ \A c \in 1..k : s[c] = IF c = 1 THEN list[c] ELSE <<Delimiter>> \o list[c]
  BY <1>1, <1>2, SeparatedIs
<1>6. CASE b = Delimiter
  <2>1. PICK e \in L : e = <<>>
    BY <1>3
  <2>2. PICK new \in Seq(L) : /\ new = Append(list, e) /\ Len(new) = k + 1 /\ new[k + 1] = e
                              /\ \A c \in 1..k : new[c] = list[c]
    <3>1. /\ Append(list, e) \in Seq(L) /\ Len(Append(list, e)) = Len(list) + 1
          /\ Append(list, e)[Len(list) + 1] = e
          /\ \A i \in 1..Len(list) : Append(list, e)[i] = list[i]
      BY <1>3, Appended
    <3>2. QED
      BY <3>1, <1>1, Zenon
  <2>3. WithFieldByte(list, b) = new
    BY <2>1, <2>2, <1>6, Zenon DEF WithFieldByte
  <2>4. PICK q \in Seq(L) : /\ q = Separated(new) /\ Len(q) = k + 1
                            /\ \A c \in 1..(k + 1) : q[c] = IF c = 1 THEN new[c] ELSE <<Delimiter>> \o new[c]
    <3>1. new \in Seq(Seq(Nat))
      BY <1>2
    <3>2. /\ Separated(new) \in Seq(Seq(Nat)) /\ Len(Separated(new)) = Len(new)
          /\ \A c \in 1..Len(new) :
               Separated(new)[c] = IF c = 1 THEN new[c] ELSE <<Delimiter>> \o new[c]
      BY <3>1, SeparatedIs
    <3>3. QED
      BY <3>2, <2>2, <1>2, Zenon
  <2>5. PICK p \in Seq(L) : /\ p = Append(s, d) /\ Len(p) = k + 1 /\ p[k + 1] = d
                            /\ \A c \in 1..k : p[c] = s[c]
    <3>1. /\ Append(s, d) \in Seq(L) /\ Len(Append(s, d)) = Len(s) + 1
          /\ Append(s, d)[Len(s) + 1] = d
          /\ \A i \in 1..Len(s) : Append(s, d)[i] = s[i]
      BY Appended
    <3>2. QED
      BY <3>1, <1>5, Zenon
  <2>6. ASSUME NEW c \in 1..(k + 1) PROVE q[c] = p[c]
    <3>1. CASE c = k + 1
      <4>1. c # 1 /\ c \in 1..(k + 1)
        BY <3>1, <1>1
      <4>2. q[c] = <<Delimiter>> \o new[c]
        BY <4>1, <2>4, Zenon
      <4>3. d \o <<>> = d
        BY <1>2, ConcatEmptySeq
      <4>4. QED
        BY <4>2, <4>3, <3>1, <2>1, <2>2, <2>5, <1>4, <1>6, Zenon
    <3>2. CASE c # k + 1
      <4>1. c \in 1..k /\ c \in 1..(k + 1)
        BY <3>2
      <4>2. new[c] = list[c] /\ p[c] = s[c]
        BY <4>1, <2>2, <2>5, Zenon
      <4>3. CASE c = 1
        BY <4>1, <4>2, <4>3, <2>4, <1>5, Zenon
      <4>4. CASE c # 1
        <5>1. q[c] = <<Delimiter>> \o new[c]
          BY <4>1, <4>4, <2>4, Zenon
        <5>2. s[c] = <<Delimiter>> \o list[c]
          BY <4>1, <4>4, <1>5, Zenon
        <5>3. QED
          BY <4>2, <5>1, <5>2, Zenon
      <4>5. QED
        BY <4>3, <4>4
    <3>3. QED
      BY <3>1, <3>2
  <2>7. q = p
    BY <2>4, <2>5, <2>6, SeqEqual
  <2>8. Extended(s, q, b)
    BY <2>5, <2>7, <1>4, Zenon DEF Extended
  <2>9. Len(list) <= Len(new) /\ Len(new) <= Len(list) + 1
    BY <2>2, <1>1
  <2>10. QED
    BY <2>2, <2>3, <2>4, <2>8, <2>9, <1>2, <1>5, Zenon DEF FieldsExtended
<1>7. CASE b # Delimiter
  <2>1. k \in 1..Len(list)
    BY <1>1
  <2>2. PICK last \in Seq(Nat) : last = list[k] /\ last = Last(list)
    BY <2>1, <1>1, ElementOfSeq DEF Last
  <2>3. PICK x \in Seq(Nat) : x = Append(last, b) /\ x = last \o d
    BY <1>4, Appended
  <2>4. PICK m \in Nat : m = k - 1 /\ k = m + 1
    <3>1. k - 1 \in Nat /\ k = (k - 1) + 1
      BY <1>1
    <3>2. QED
      BY <3>1
  <2>5. PICK front \in Seq(L) : front = Front(list) /\ Len(front) = m /\ \A c \in 1..m : front[c] = list[c]
    <3>1. \A i \in 1..m : list[i] \in L
      BY <1>1, <1>3, <2>4, ElementOfSeq
    <3>2. /\ SubSeq(list, 1, m) \in Seq(L) /\ Len(SubSeq(list, 1, m)) = m
          /\ \A n \in 1..m : SubSeq(list, 1, m)[n] = list[n]
      BY <1>1, <1>3, <2>4
    <3>3. Front(list) = SubSeq(list, 1, m)
      BY <1>1, <2>4, Zenon DEF Front
    <3>4. QED
      BY <3>2, <3>3, Zenon
  <2>6. PICK new \in Seq(L) : /\ new = Append(front, x) /\ Len(new) = k /\ new[k] = x
                              /\ \A c \in 1..m : new[c] = front[c]
    <3>1. x \in L
      BY <1>2
    <3>2. /\ Append(front, x) \in Seq(L) /\ Len(Append(front, x)) = Len(front) + 1
          /\ Append(front, x)[Len(front) + 1] = x
          /\ \A i \in 1..Len(front) : Append(front, x)[i] = front[i]
      BY <3>1, Appended
    <3>3. QED
      BY <3>2, <2>4, <2>5, Zenon
  <2>7. WithFieldByte(list, b) = new
    BY <2>2, <2>3, <2>5, <2>6, <1>7, Zenon DEF WithFieldByte
  <2>8. PICK q \in Seq(L) : /\ q = Separated(new) /\ Len(q) = k
                            /\ \A c \in 1..k : q[c] = IF c = 1 THEN new[c] ELSE <<Delimiter>> \o new[c]
    <3>1. new \in Seq(Seq(Nat))
      BY <1>2
    <3>2. /\ Separated(new) \in Seq(Seq(Nat)) /\ Len(Separated(new)) = Len(new)
          /\ \A c \in 1..Len(new) :
               Separated(new)[c] = IF c = 1 THEN new[c] ELSE <<Delimiter>> \o new[c]
      BY <3>1, SeparatedIs
    <3>3. QED
      BY <3>2, <2>6, <1>2, Zenon
  <2>9. q[k] = s[k] \o d
    <3>1. k \in 1..k
      BY <1>1
    <3>2. CASE k = 1
      BY <3>1, <3>2, <2>2, <2>3, <2>6, <2>8, <1>5, Zenon
    <3>3. CASE k # 1
      <4>1. PICK e \in Seq(Nat) : e = <<Delimiter>>
        <5>1. <<Delimiter>> \in Seq(Nat)
          BY DEF TableAssumption
        <5>2. QED
          BY <5>1
      <4>2. PICK y \in Seq(Nat) : y = d
        BY <1>2
      <4>3. Regrouped(e, last, y)
        BY IsRegrouped
      <4>4. q[k] = e \o x /\ s[k] = e \o last
        BY <3>1, <3>3, <4>1, <2>2, <2>6, <2>8, <1>5, Zenon
      <4>5. QED
        BY <4>2, <4>3, <4>4, <2>3, Zenon DEF Regrouped
    <3>4. QED
      BY <3>2, <3>3
  <2>10. ASSUME NEW c \in 1..(k - 1) PROVE q[c] = s[c]
    <3>1. c \in 1..k /\ c \in 1..m
      BY <2>4
    <3>2. new[c] = list[c]
      BY <3>1, <2>5, <2>6, Zenon
    <3>3. CASE c = 1
      BY <3>1, <3>2, <3>3, <2>8, <1>5, Zenon
    <3>4. CASE c # 1
      BY <3>1, <3>2, <3>4, <2>8, <1>5, Zenon
    <3>5. QED
      BY <3>3, <3>4
  <2>11. Extended(s, q, b)
    BY <2>8, <2>9, <2>10, <1>1, <1>4, <1>5, Zenon DEF Extended
  <2>12. Len(list) <= Len(new) /\ Len(new) <= Len(list) + 1
    BY <2>6, <1>1
  <2>13. QED
    BY <2>6, <2>7, <2>8, <2>11, <2>12, <1>2, <1>5, Zenon DEF FieldsExtended
<1>8. QED
  BY <1>6, <1>7

IsFields(f, row) ==
  f = [n \in 0..Len(row) |->
         IF n = 0 THEN << <<>> >> ELSE WithFieldByte(f[n - 1], row[n])]

(* The fields of a row, with the delimiters between them, are the row; it  *)
(* has one field at least and no more than one for each of its bytes and   *)
(* another.                                                                *)
LEMMA FieldsMake ==
  ASSUME TableAssumption, NEW row \in Seq(Nat)
  PROVE  /\ Fields(row) \in Seq(Seq(Nat)) /\ 1 <= Len(Fields(row)) /\ Len(Fields(row)) <= Len(row) + 1
         /\ FlattenSeq(Separated(Fields(row))) = row
<1> DEFINE k == Len(row)
           V == {list \in Seq(Seq(Nat)) : Len(list) >= 1}
           step == [pair \in (1..k) \X V |-> WithFieldByte(pair[2], row[pair[1]])]
           f == CHOOSE g : IsFields(g, row)
<1>1. k \in Nat
  OBVIOUS
<1>2. \A n \in 1..k : row[n] \in Nat
  BY ElementOfSeq
<1>3. \A n \in 1..k : \A v \in V : step[<<n, v>>] = WithFieldByte(v, row[n])
  <2> HIDE DEF V
  <2>1. QED
    OBVIOUS
<1> HIDE DEF step, k
<1>4. ASSUME NEW n \in 1..k, NEW v \in V
      PROVE  /\ FieldsExtended(v, WithFieldByte(v, row[n]), row[n])
             /\ WithFieldByte(v, row[n]) \in V
  <2>1. PICK list \in Seq(Seq(Nat)), b \in Nat : list = v /\ b = row[n] /\ Len(list) >= 1
    BY <1>2
  <2>2. PICK new : new = WithFieldByte(list, b)
    OBVIOUS
  <2>3. FieldsExtended(list, new, b)
    BY <2>1, <2>2, WithFieldByteIs
  <2>4. new \in Seq(Seq(Nat)) /\ Len(list) <= Len(new)
    BY <2>3, Zenon DEF FieldsExtended
  <2>5. Len(new) >= 1
    BY <2>1, <2>4
  <2>6. new \in V
    BY <2>4, <2>5
  <2> HIDE DEF V
  <2>7. QED
    BY <2>1, <2>2, <2>3, <2>6, Zenon
<1>5. PICK one : one = << <<>> >>
  OBVIOUS
<1>6. one \in V /\ Len(one) = 1 /\ one[1] = <<>>
  <2>1. PICK L, e : L = Seq(Nat) /\ e = <<>>
    OBVIOUS
  <2>2. e \in L
    BY <2>1, EmptySeq
  <2>3. <<e>> \in Seq(L) /\ Len(<<e>>) = 1 /\ <<e>>[1] = e
    BY <2>2
  <2>4. one = <<e>>
    BY <1>5, <2>1, Zenon
  <2>5. one \in Seq(Seq(Nat)) /\ Len(one) = 1 /\ Len(one) >= 1
    <3>1. one \in Seq(Seq(Nat)) /\ Len(one) = 1
      BY <2>1, <2>3, <2>4, Zenon
    <3>2. 1 >= 1
      OBVIOUS
    <3>3. QED
      BY <3>1, <3>2, Zenon
  <2>6. one \in V
    BY <2>5, Zenon
  <2> HIDE DEF V
  <2>7. QED
    BY <2>1, <2>3, <2>4, <2>5, <2>6, Zenon
<1>7. ASSUME NEW list \in V PROVE list \in Seq(Seq(Nat)) /\ Len(list) >= 1
  OBVIOUS
<1> HIDE DEF V
<1>8. \E g : Iterates(g, V, one, k, step)
  <2>1. \A n \in 1..k : \A v \in V : step[<<n, v>>] \in V
    BY <1>3, <1>4, Zenon
  <2>2. QED
    BY <2>1, <1>1, <1>6, FiniteRecursion
<1>9. PICK g : /\ g \in [0..k -> V] /\ g[0] = one
               /\ \A n \in 1..k : g[n] = step[<<n, g[n - 1]>>]
  BY <1>8, Zenon DEF Iterates
<1>10. IsFields(g, row)
  <2>1. ASSUME NEW n \in 0..k
        PROVE  g[n] = IF n = 0 THEN << <<>> >> ELSE WithFieldByte(g[n - 1], row[n])
    <3>1. CASE n = 0
      BY <3>1, <1>5, <1>9, Zenon
    <3>2. CASE n # 0
      <4>1. n \in 1..k /\ n - 1 \in 0..k
        BY <3>2, <1>1
      <4>2. g[n - 1] \in V
        BY <4>1, <1>9
      <4>3. g[n] = WithFieldByte(g[n - 1], row[n])
        BY <4>1, <4>2, <1>3, <1>9, Zenon
      <4>4. QED
        BY <4>3, <3>2, Zenon
    <3>3. QED
      BY <3>1, <3>2
  <2>2. g = [n \in 0..k |-> g[n]]
    BY <1>9
  <2>3. QED
    BY <2>1, <2>2, Zenon DEF IsFields, k
<1>11. IsFields(f, row)
  BY <1>10, Zenon
<1>12. Fields(row) = f[k]
  BY Zenon DEF Fields, IsFields, k
<1> HIDE DEF f
<1>13. \A n \in 0..k : f[n] = IF n = 0 THEN one ELSE WithFieldByte(f[n - 1], row[n])
  BY <1>5, <1>11, Zenon DEF IsFields, k
<1> DEFINE Grown(list, bytes) == \E o : Grows(o, Separated(list), bytes)
           S == {n \in Nat : /\ f[n] \in V /\ Len(f[n]) <= n + 1
                             /\ Grown(f[n], SubSeq(row, 1, n))}
<1>14. 0 \in S
  <2>1. 0 \in 0..k
    BY <1>1
  <2>2. f[0] = one
    BY <2>1, <1>13
  <2>3. Grown(one, <<>>)
    <3>1. PICK s, d : s = Separated(one) /\ d = <<>>
      OBVIOUS
    <3>2. d \in Seq(Nat) /\ Len(d) = 0 /\ d \o d = d
      <4>1. d \in Seq(Nat)
        BY <3>1, EmptySeq
      <4>2. QED
        BY <4>1, <3>1, ConcatEmptySeq
    <3>3. Len(s) = 1 /\ s[1] = d
      <4>1. one \in Seq(Seq(Nat)) /\ 1 \in 1..Len(one) /\ 1 \in 1..1
        BY <1>6, <1>7
      <4>2. /\ Len(Separated(one)) = Len(one)
            /\ \A c \in 1..Len(one) :
                 Separated(one)[c] = IF c = 1 THEN one[c] ELSE <<Delimiter>> \o one[c]
        BY <4>1, SeparatedIs
      <4>3. QED
        BY <4>1, <4>2, <3>1, <1>6, Zenon
    <3> DEFINE o == [n \in 0..1 |-> d]
    <3>4. o \in [0..1 -> Seq(Nat)] /\ o[0] = d /\ o[1] = d
      BY <3>2
    <3> HIDE DEF o
    <3>5. \A n \in 1..1 : o[n] = o[n - 1] \o s[n] /\ Len(o[n - 1]) + Len(s[n]) <= Len(d)
      <4>1. \A n \in 1..1 : n = 1 /\ n - 1 = 0
        OBVIOUS
      <4>2. o[1] = o[0] \o s[1] /\ Len(o[0]) + Len(s[1]) <= Len(d)
        BY <3>2, <3>3, <3>4
      <4>3. QED
        BY <4>1, <4>2, Zenon
    <3>6. Grows(o, s, d)
      BY <3>1, <3>3, <3>4, <3>5, Zenon DEF Grows
    <3>7. QED
      BY <3>1, <3>6, Zenon
  <2>4. SubSeq(row, 1, 0) = <<>>
    BY SubSeqEmpty
  <2> HIDE DEF Grown
  <2>5. Len(one) <= 0 + 1
    BY <1>6
  <2>6. QED
    BY <2>2, <2>3, <2>4, <2>5, <1>6
<1>15. ASSUME NEW n \in 0..(k - 1), n \in S PROVE n + 1 \in S
  <2>1. n + 1 \in 1..k /\ n + 1 \in 0..k /\ n + 1 # 0 /\ (n + 1) - 1 = n /\ n \in Nat /\ n + 1 \in Nat
    BY <1>1
  <2>2. PICK list \in V, b \in Nat : list = f[n] /\ b = row[n + 1]
    BY <2>1, <1>2, <1>15
  <2> DEFINE d == SubSeq(row, 1, n)
  <2>3. Len(list) <= n + 1 /\ Grown(list, d)
    BY <2>2, <1>15, Zenon
  <2>4. PICK new : new = WithFieldByte(list, b)
    OBVIOUS
  <2>5. FieldsExtended(list, new, b) /\ new \in V
    BY <2>1, <2>2, <2>4, <1>4, Zenon
  <2>6. f[n + 1] = new
    BY <2>1, <2>2, <2>4, <1>13, Zenon
  <2>7. d \in Seq(Nat)
    <3>1. \A i \in 1..n : row[i] \in Nat
      BY <2>1, <1>1, <1>2
    <3>2. n <= Len(row)
      BY <1>1 DEF k
    <3>3. QED
      BY <3>1, <3>2, <2>1, SubSeqProperties
  <2> HIDE DEF d
  <2>8. SubSeq(row, 1, n + 1) = d \o <<b>>
    <3>1. SubSeq(row, 1, n + 1) = SubSeq(row, 1, (n + 1) - 1) \o <<row[n + 1]>>
      BY <2>1, SubSeqRecursiveSecond DEF k
    <3>2. QED
      BY <3>1, <2>1, <2>2 DEF d
  <2>9. Grown(new, d \o <<b>>)
    <3>1. PICK s, t : s = Separated(list) /\ t = Separated(new)
      OBVIOUS
    <3>2. s \in Seq(Seq(Nat)) /\ t \in Seq(Seq(Nat)) /\ Extended(s, t, b)
      BY <2>5, <3>1, Zenon DEF FieldsExtended
    <3>3. \E o : Grows(o, s, d)
      BY <2>3, <3>1, Zenon
    <3>4. PICK B \in SUBSET Nat : B = Nat
      OBVIOUS
    <3>5. \E o : Grows(o, t, d \o <<b>>)
      BY <3>2, <3>3, <3>4, <2>2, <2>7, OneMoreGrows
    <3>6. QED
      BY <3>1, <3>5, Zenon
  <2> HIDE DEF Grown
  <2>10. Len(new) <= (n + 1) + 1
    <3>1. Len(new) <= Len(list) + 1
      BY <2>5, Zenon DEF FieldsExtended
    <3>2. list \in Seq(Seq(Nat)) /\ new \in Seq(Seq(Nat))
      BY <2>5, <1>7
    <3>3. Len(list) \in Nat /\ Len(new) \in Nat
      BY <3>2
    <3>4. QED
      BY <3>1, <3>3, <2>1, <2>3
  <2>11. QED
    BY <2>1, <2>5, <2>6, <2>8, <2>9, <2>10
<1> HIDE DEF S
<1>16. k \in S
  <2>1. \A n \in 0..k : n \in S
    BY <1>1, <1>14, <1>15, FiniteInduction
  <2>2. QED
    BY <2>1, <1>1
<1>17. PICK list \in V : list = Fields(row) /\ Len(list) <= k + 1 /\ Grown(list, row)
  <2>1. SubSeq(row, 1, k) = row
    BY SubSeqFull DEF k
  <2> HIDE DEF Grown
  <2>2. QED
    BY <2>1, <1>12, <1>16 DEF S
<1>18. list \in Seq(Seq(Nat)) /\ Len(list) >= 1
  BY <1>7
<1>19. FlattenSeq(Separated(list)) = row
  <2>1. Separated(list) \in Seq(Seq(Nat))
    BY <1>18, SeparatedIs
  <2>2. PICK s \in Seq(Seq(Nat)) : s = Separated(list)
    BY <2>1
  <2>3. \E o : Grows(o, s, row)
    BY <2>2, <1>17, Zenon
  <2>4. FlattenSeq(s) = row
    BY <2>3, FlatIsGrown
  <2>5. QED
    BY <2>2, <2>4
<1>20. QED
  <2> HIDE DEF Grown
  <2>1. QED
    BY <1>17, <1>18, <1>19 DEF k

(* A line without its end, the fields of that, and what the first column   *)
(* of the table says of the line.                                          *)
Ended(line) == Last(line) = LineEnd

FieldsOf(line) == Fields(IF Ended(line) THEN Front(line) ELSE line)

RowCode(line) == 2 * Len(FieldsOf(line)) + IF Ended(line) THEN 1 ELSE 0

RowIsMade(line, fields) ==
  /\ fields \in Seq(Seq(Nat)) /\ 1 <= Len(fields) /\ Len(fields) <= Len(line) + 1
  /\ FlattenSeq(Separated(fields)) \o (IF Ended(line) THEN <<LineEnd>> ELSE <<>>) = line

(* The fields of a line, the delimiters and the line end are the line. *)
LEMMA FieldsOfLine ==
  ASSUME TableAssumption, BytesAssumption, NEW line \in Seq(Nat), line # <<>>
  PROVE  RowIsMade(line, FieldsOf(line))
<1>1. PICK k \in Nat : k = Len(line) /\ k >= 1
  BY EmptySeq
<1>2. PICK row, end \in Seq(Nat) :
        /\ row = (IF Ended(line) THEN Front(line) ELSE line) /\ Len(row) <= k
        /\ end = (IF Ended(line) THEN <<LineEnd>> ELSE <<>>) /\ row \o end = line
  <2>1. CASE Ended(line)
    <3>1. k \in 1..k /\ k - 1 \in 0..k /\ (k - 1) <= k /\ k - 1 \in Nat /\ k \in 1..Len(line)
      BY <1>1
    <3>2. Front(line) = SubSeq(line, 1, k - 1)
      BY <1>1, Zenon DEF Front
    <3>3. SubSeq(line, 1, k - 1) \in Seq(Nat) /\ Len(SubSeq(line, 1, k - 1)) = k - 1
      <4>1. \A i \in 1..(k - 1) : line[i] \in Nat
        BY <1>1, ElementOfSeq
      <4>2. QED
        BY <4>1, <3>1, <1>1, SubSeqProperties
    <3>4. line[k] = LineEnd
      BY <2>1, <1>1, Zenon DEF Ended, Last
    <3>5. <<line[k]>> \in Seq(Nat)
      BY <3>1, ElementOfSeq
    <3>6. SubSeq(line, 1, k) = SubSeq(line, 1, k - 1) \o <<line[k]>>
      BY <3>1, <1>1, SubSeqRecursiveSecond
    <3>7. SubSeq(line, 1, k) = line
      BY <1>1, SubSeqFull
    <3>8. Len(SubSeq(line, 1, k - 1)) <= k
      BY <3>1, <3>3
    <3>9. PICK row \in Seq(Nat) : row = SubSeq(line, 1, k - 1)
      BY <3>3
    <3>10. PICK end \in Seq(Nat) : end = <<line[k]>>
      BY <3>5
    <3>11. row = (IF Ended(line) THEN Front(line) ELSE line)
      BY <2>1, <3>2, <3>9
    <3>12. end = (IF Ended(line) THEN <<LineEnd>> ELSE <<>>)
      BY <2>1, <3>4, <3>10
    <3>13. row \o end = line
      BY <3>6, <3>7, <3>9, <3>10
    <3>14. QED
      BY <3>8, <3>9, <3>11, <3>12, <3>13, Zenon
  <2>2. CASE ~Ended(line)
    <3>1. PICK end \in Seq(Nat) : end = <<>>
      BY EmptySeq
    <3>2. line \o end = line
      BY <3>1, ConcatEmptySeq
    <3>3. end = (IF Ended(line) THEN <<LineEnd>> ELSE <<>>) /\ line = (IF Ended(line) THEN Front(line) ELSE line)
      BY <2>2, <3>1
    <3>4. Len(line) <= k
      BY <1>1
    <3>5. QED
      BY <3>2, <3>3, <3>4, Zenon
  <2>3. QED
    BY <2>1, <2>2
<1>3. /\ Fields(row) \in Seq(Seq(Nat)) /\ 1 <= Len(Fields(row)) /\ Len(Fields(row)) <= Len(row) + 1
      /\ FlattenSeq(Separated(Fields(row))) = row
  BY FieldsMake
<1>4. PICK fields \in Seq(Seq(Nat)) :
        /\ fields = Fields(row) /\ 1 <= Len(fields) /\ Len(fields) <= Len(row) + 1
        /\ FlattenSeq(Separated(fields)) = row
  BY <1>3, Zenon
<1>5. Len(fields) <= k + 1
  BY <1>2, <1>4
<1>6. FieldsOf(line) = fields
  BY <1>2, <1>4, Zenon DEF FieldsOf
<1>7. FlattenSeq(Separated(fields)) \o (IF Ended(line) THEN <<LineEnd>> ELSE <<>>) = line
  BY <1>2, <1>4
<1>8. QED
  BY <1>1, <1>4, <1>5, <1>6, <1>7, Zenon DEF RowIsMade

(* What the first column says of a line can be taken apart. *)
LEMMA RowCodeIs ==
  ASSUME NEW n \in Nat, NEW end \in BOOLEAN, NEW code, code = 2 * n + IF end THEN 1 ELSE 0
  PROVE  code \in Nat /\ code \div 2 = n /\ (code % 2 = 1 <=> end)
<1>1. CASE end
  <2>1. code = 2 * n + 1
    BY <1>1
  <2>2. (2 * n + 1) \div 2 = n /\ (2 * n + 1) % 2 = 1
    OBVIOUS
  <2>3. QED
    BY <1>1, <2>1, <2>2
<1>2. CASE ~end
  <2>1. code = 2 * n
    BY <1>2
  <2>2. (2 * n) \div 2 = n /\ (2 * n) % 2 = 0
    OBVIOUS
  <2>3. QED
    BY <1>2, <2>1, <2>2
<1>3. QED
  BY <1>1, <1>2

(* The line is read, and this is left of the columns. *)
RowIsRead(reader, columns, line, rests) ==
  ReadRow(reader, columns, RowCode(line)) = {[value |-> line, columns |-> rests]}

(* Of columns that begin with the fields of a line, the line is read, and  *)
(* the columns behind the fields are left.                                 *)
LEMMA ReadsRow ==
  ASSUME BytesAssumption, NEW reader, NEW w \in Nat, NEW line, NEW fields, fields = FieldsOf(line),
         RowIsMade(line, fields), Len(fields) <= w,
         NEW columns \in [1..w -> Seq(Nat)], NEW rests \in [1..w -> Seq(Nat)],
         \A c \in 1..Len(fields) : Len(fields[c]) < Word /\ columns[c] = Sized(fields[c]) \o rests[c],
         \A c \in 1..w : c > Len(fields) => columns[c] = rests[c]
  PROVE  RowIsRead(reader, columns, line, rests)
<1>1. /\ fields \in Seq(Seq(Nat)) /\ 1 <= Len(fields)
      /\ FlattenSeq(Separated(fields)) \o (IF Ended(line) THEN <<LineEnd>> ELSE <<>>) = line
  BY Zenon DEF RowIsMade
<1>2. PICK k \in Nat : k = Len(fields) /\ k <= w
  BY <1>1
<1>3. PICK code : code = RowCode(line)
  OBVIOUS
<1> DEFINE arity == code \div 2
<1>4. arity = k /\ (code % 2 = 1 <=> Ended(line))
  <2>1. PICK end \in BOOLEAN : end = Ended(line)
    BY DEF Ended
  <2>2. code = 2 * k + IF end THEN 1 ELSE 0
    BY <2>1, <1>2, <1>3, Zenon DEF RowCode
  <2>3. code \div 2 = k /\ (code % 2 = 1 <=> end)
    BY <2>2, RowCodeIs
  <2>4. QED
    BY <2>1, <2>3
<1> DEFINE parts == [c \in 1..arity |-> ReadSized(reader, columns[c])]
           field(c) == CHOOSE f \in parts[c] : TRUE
           part(c) == IF c = 1 THEN field(c).value ELSE <<Delimiter>> \o field(c).value
           left(c) == IF c <= arity THEN field(c).rest ELSE columns[c]
<1>5. (~ \E c \in 1..arity : parts[c] = {}) =>
         ReadRow(reader, columns, code)
           = {[value |-> FlattenSeq([c \in 1..arity |-> part(c)])
                           \o (IF code % 2 = 1 THEN <<LineEnd>> ELSE <<>>),
               columns |-> [c \in DOMAIN columns |-> left(c)]]}
  BY Zenon DEF ReadRow
<1> HIDE DEF arity
<1>6. ASSUME NEW c \in 1..arity
      PROVE  parts[c] # {} /\ field(c).value = fields[c] /\ field(c).rest = rests[c]
  <2>1. c \in 1..w /\ c \in 1..Len(fields)
    BY <1>2, <1>4
  <2>2. PICK s, t \in Seq(Nat) : s = fields[c] /\ t = rests[c]
    BY <2>1, <1>1, ElementOfSeq
  <2>3. Len(s) < Word /\ columns[c] = Sized(s) \o t
    BY <2>1, <2>2
  <2>4. PICK one : one = [value |-> s, rest |-> t]
    OBVIOUS
  <2>5. ReadSized(reader, Sized(s) \o t) = {one}
    BY <2>3, <2>4, ReadsSized
  <2>6. parts[c] = {one}
    <3>1. parts[c] = ReadSized(reader, columns[c])
      BY Zenon
    <3>2. QED
      BY <3>1, <2>3, <2>5, Zenon
  <2> HIDE DEF parts
  <2>7. field(c) = one /\ parts[c] # {}
    BY <2>6
  <2>8. one.value = s /\ one.rest = t
    BY <2>4
  <2> HIDE DEF field
  <2>9. QED
    BY <2>2, <2>7, <2>8, Zenon
<1> HIDE DEF parts, field
<1>7. ASSUME NEW c \in 1..arity
      PROVE  part(c) = IF c = 1 THEN fields[c] ELSE <<Delimiter>> \o fields[c]
  <2>1. CASE c = 1
    BY <2>1, <1>6, Zenon
  <2>2. CASE c # 1
    BY <2>2, <1>6, Zenon
  <2>3. QED
    BY <2>1, <2>2, Zenon
<1>8. ASSUME NEW c \in 1..w PROVE left(c) = rests[c]
  <2>1. CASE c <= arity
    <3>1. c \in 1..arity
      BY <2>1, <1>2, <1>4
    <3>2. QED
      BY <3>1, <2>1, <1>6, Zenon
  <2>2. CASE ~(c <= arity)
    <3>1. c > Len(fields)
      BY <2>2, <1>2, <1>4
    <3>2. columns[c] = rests[c]
      BY <3>1
    <3>3. QED
      BY <3>2, <2>2, Zenon
  <2>3. QED
    BY <2>1, <2>2
<1> HIDE DEF part, left
<1>9. [c \in 1..arity |-> part(c)] = Separated(fields)
  <2>1. Separated(fields) = [c \in 1..arity |-> IF c = 1 THEN fields[c] ELSE <<Delimiter>> \o fields[c]]
    BY <1>2, <1>4, Zenon DEF Separated
  <2>2. QED
    BY <2>1, <1>7, Zenon
<1>10. [c \in DOMAIN columns |-> left(c)] = rests
  <2>1. DOMAIN columns = 1..w
    OBVIOUS
  <2>2. rests = [c \in 1..w |-> rests[c]]
    OBVIOUS
  <2>3. QED
    BY <2>1, <2>2, <1>8, Zenon
<1>11. (IF code % 2 = 1 THEN <<LineEnd>> ELSE <<>>) = (IF Ended(line) THEN <<LineEnd>> ELSE <<>>)
  BY <1>4, Zenon
<1>12. QED
  BY <1>1, <1>3, <1>6, <1>9, <1>10, <1>5, <1>11, Zenon DEF RowIsRead

(* The rows of a table of so many columns, and what each column holds of   *)
(* each row.                                                               *)
RowsAreMade(lines, fields, w) ==
  /\ lines \in Seq(Seq(Nat))
  /\ \A n \in 1..Len(lines) : /\ fields[n] = FieldsOf(lines[n])
                              /\ RowIsMade(lines[n], fields[n])
                              /\ Len(fields[n]) <= w
                              /\ \A c \in 1..Len(fields[n]) : Len(fields[n][c]) < Word

Cells(fields, k, c) ==
  [n \in 1..k |-> IF c \in DOMAIN fields[n] THEN Sized(fields[n][c]) ELSE <<>>]

(* The parts of a column are strings, one for each row. *)
LEMMA CellsAre ==
  ASSUME BytesAssumption, NEW k \in Nat, NEW fields, \A n \in 1..k : fields[n] \in Seq(Seq(Nat)),
         NEW c \in Nat \ {0}
  PROVE  /\ Cells(fields, k, c) \in Seq(Seq(Nat)) /\ Len(Cells(fields, k, c)) = k
         /\ \A n \in 1..k : Cells(fields, k, c)[n] = IF c <= Len(fields[n]) THEN Sized(fields[n][c]) ELSE <<>>
<1>1. PICK L, cells : L = Seq(Nat) /\ cells = Cells(fields, k, c)
  OBVIOUS
<1>2. cells = [n \in 1..k |-> IF c \in DOMAIN fields[n] THEN Sized(fields[n][c]) ELSE <<>>]
  BY <1>1, Zenon DEF Cells
<1>3. ASSUME NEW n \in 1..k
      PROVE  /\ (c \in DOMAIN fields[n] <=> c <= Len(fields[n]))
             /\ (IF c \in DOMAIN fields[n] THEN Sized(fields[n][c]) ELSE <<>>) \in L
  <2>1. PICK list \in Seq(Seq(Nat)) : list = fields[n]
    OBVIOUS
  <2>2. c \in DOMAIN list <=> c <= Len(list)
    OBVIOUS
  <2>3. CASE c \in DOMAIN list
    <3>1. PICK s \in Seq(Nat) : s = list[c]
      BY <2>3, ElementOfSeq
    <3>2. Sized(s) \in L
      BY <1>1, SizedIs
    <3>3. QED
      BY <2>1, <2>2, <2>3, <3>1, <3>2, Zenon
  <2>4. CASE ~(c \in DOMAIN list)
    <3>1. <<>> \in L
      BY <1>1, EmptySeq
    <3>2. QED
      BY <2>1, <2>2, <2>4, <3>1, Zenon
  <2>5. QED
    BY <2>3, <2>4
<1>4. cells \in [1..k -> L]
  BY <1>2, <1>3, Zenon
<1>5. cells \in Seq(L) /\ Len(cells) = k
  BY <1>4
<1>6. ASSUME NEW n \in 1..k
      PROVE  cells[n] = IF c <= Len(fields[n]) THEN Sized(fields[n][c]) ELSE <<>>
  <2>1. cells[n] = IF c \in DOMAIN fields[n] THEN Sized(fields[n][c]) ELSE <<>>
    BY <1>2, Zenon
  <2>2. CASE c <= Len(fields[n])
    BY <2>1, <2>2, <1>3, Zenon
  <2>3. CASE ~(c <= Len(fields[n]))
    BY <2>1, <2>3, <1>3, Zenon
  <2>4. QED
    BY <2>2, <2>3
<1>7. QED
  BY <1>1, <1>5, <1>6, Zenon

NextRowIsRead(reader, columns, line, rests, so, size) ==
  ReadNextRow(reader, RowCode(line), [columns |-> columns, output |-> so], size)
    = {[columns |-> rests, output |-> so \o line]}

(* One more row is read. *)
LEMMA ReadsNextRow ==
  ASSUME NEW reader, NEW columns, NEW line, NEW rests, NEW so, NEW size,
         RowIsRead(reader, columns, line, rests), Len(so) + Len(line) <= size
  PROVE  NextRowIsRead(reader, columns, line, rests, so, size)
<1>1. PICK read, row : read = [columns |-> columns, output |-> so] /\ row = [value |-> line, columns |-> rests]
  OBVIOUS
<1>2. read.columns = columns /\ read.output = so /\ row.value = line /\ row.columns = rests
  BY <1>1
<1>3. ReadRow(reader, read.columns, RowCode(line)) = {row}
  BY <1>1, <1>2, Zenon DEF RowIsRead
<1>4. {r \in ReadRow(reader, read.columns, RowCode(line)) :
         Len(read.output) + Len(r.value) <= size} = {row}
  BY <1>2, <1>3, Zenon
<1>5. ReadNextRow(reader, RowCode(line), read, size)
        = {[columns |-> next.columns, output |-> read.output \o next.value] : next \in {row}}
  BY <1>4, Zenon DEF ReadNextRow
<1>6. ReadNextRow(reader, RowCode(line), read, size)
        = {[columns |-> row.columns, output |-> read.output \o row.value]}
  BY <1>5, Zenon
<1>7. QED
  BY <1>1, <1>2, <1>6, Zenon DEF NextRowIsRead

IsReadingRows(f, reader, rows, columns, size) ==
  f = [n \in 0..Len(rows) |->
         IF n = 0 THEN {[columns |-> columns, output |-> <<>>]}
         ELSE UNION {ReadNextRow(reader, rows[n], some, size) : some \in f[n - 1]}]

RowsAreRead(reader, rows, w, fields, lines, data) ==
  ReadRows(reader, rows, [c \in 1..w |-> FlattenSeq(Cells(fields, Len(lines), c))], Len(data)) = {data}

(* Row by row, the columns of a table give the lines back, until nothing   *)
(* is left of them.                                                        *)
LEMMA ReadsRows ==
  ASSUME BytesAssumption, NEW reader, NEW w \in Nat, NEW lines, NEW fields,
         RowsAreMade(lines, fields, w), NEW data \in Seq(Nat), \E o : Grows(o, lines, data),
         NEW rows, Len(rows) = Len(lines), \A n \in 1..Len(lines) : rows[n] = RowCode(lines[n])
  PROVE  RowsAreRead(reader, rows, w, fields, lines, data)
<1>1. PICK k \in Nat : k = Len(lines)
  BY DEF RowsAreMade
<1>2. ASSUME NEW n \in 1..k
      PROVE  /\ fields[n] = FieldsOf(lines[n]) /\ RowIsMade(lines[n], fields[n]) /\ Len(fields[n]) <= w
             /\ \A c \in 1..Len(fields[n]) : Len(fields[n][c]) < Word
             /\ lines[n] \in Seq(Nat) /\ fields[n] \in Seq(Seq(Nat)) /\ rows[n] = RowCode(lines[n])
  <2>1. /\ lines \in Seq(Seq(Nat))
        /\ fields[n] = FieldsOf(lines[n]) /\ RowIsMade(lines[n], fields[n]) /\ Len(fields[n]) <= w
        /\ \A c \in 1..Len(fields[n]) : Len(fields[n][c]) < Word
    BY <1>1, Zenon DEF RowsAreMade
  <2>2. lines[n] \in Seq(Nat)
    BY <2>1, <1>1, ElementOfSeq
  <2>3. fields[n] \in Seq(Seq(Nat))
    BY <2>1, Zenon DEF RowIsMade
  <2>4. rows[n] = RowCode(lines[n])
    BY <1>1, Zenon
  <2>5. QED
    BY <2>1, <2>2, <2>3, <2>4, Zenon
<1>3. PICK size \in Nat : size = Len(data)
  OBVIOUS
<1>4. PICK o : Grows(o, lines, data)
  OBVIOUS
<1>5. /\ o \in [0..k -> Seq(Nat)] /\ o[0] = <<>> /\ o[k] = data
      /\ \A n \in 1..k : o[n] = o[n - 1] \o lines[n] /\ Len(o[n - 1]) + Len(lines[n]) <= size
  BY <1>1, <1>3, <1>4, Zenon DEF Grows
<1> DEFINE cells(c) == Cells(fields, k, c)
           q == [c \in 1..w |-> CHOOSE r : Leaves(r, cells(c), FlattenSeq(cells(c)))]
<1>6. ASSUME NEW c \in 1..w
      PROVE  /\ q[c] \in [0..k -> Seq(Nat)] /\ q[c][0] = FlattenSeq(cells(c)) /\ q[c][k] = <<>>
             /\ \A n \in 1..k :
                  q[c][n - 1] = (IF c <= Len(fields[n]) THEN Sized(fields[n][c]) ELSE <<>>) \o q[c][n]
  <2>1. c \in Nat \ {0} /\ \A n \in 1..k : fields[n] \in Seq(Seq(Nat))
    BY <1>2
  <2>2. /\ cells(c) \in Seq(Seq(Nat)) /\ Len(cells(c)) = k
        /\ \A n \in 1..k : cells(c)[n] = IF c <= Len(fields[n]) THEN Sized(fields[n][c]) ELSE <<>>
    BY <2>1, CellsAre
  <2> HIDE DEF cells
  <2>3. \E r : Leaves(r, cells(c), FlattenSeq(cells(c)))
    BY <2>2, FlatLeaves
  <2>4. Leaves(q[c], cells(c), FlattenSeq(cells(c)))
    BY <2>3, Zenon
  <2> HIDE DEF q
  <2>5. /\ q[c] \in [0..k -> Seq(Nat)] /\ q[c][0] = FlattenSeq(cells(c)) /\ q[c][k] = <<>>
        /\ \A n \in 1..k : q[c][n - 1] = cells(c)[n] \o q[c][n]
    BY <2>2, <2>4, Zenon DEF Leaves
  <2>6. QED
    BY <2>2, <2>5, Zenon
<1> HIDE DEF q
<1> DEFINE left(n) == [c \in 1..w |-> q[c][n]]
           State(n) == [columns |-> left(n), output |-> o[n]]
           columns == [c \in 1..w |-> FlattenSeq(cells(c))]
           v == [n \in 0..k |-> {State(n)}]
           f == CHOOSE g : IsReadingRows(g, reader, rows, columns, size)
<1>7. State(0) = [columns |-> columns, output |-> <<>>]
  <2>1. left(0) = columns
    BY <1>6, Zenon
  <2>2. QED
    BY <2>1, <1>5, Zenon
<1>8. \A n \in 0..k : left(n) \in [1..w -> Seq(Nat)]
  BY <1>6
<1>9. ASSUME NEW n \in 1..k
      PROVE  UNION {ReadNextRow(reader, rows[n], some, size) : some \in {State(n - 1)}} = {State(n)}
  <2>1. n \in 0..k /\ n - 1 \in 0..k
    OBVIOUS
  <2>2. PICK front, rests \in [1..w -> Seq(Nat)] : front = left(n - 1) /\ rests = left(n)
    BY <2>1, <1>8
  <2>3. PICK line, list : line = lines[n] /\ list = fields[n]
    OBVIOUS
  <2>4. list \in Seq(Seq(Nat)) /\ RowIsMade(line, list) /\ list = FieldsOf(line) /\ Len(list) <= w
    BY <2>3, <1>2, Zenon
  <2>5. ASSUME NEW c \in 1..w
        PROVE  /\ c <= Len(list) => front[c] = Sized(list[c]) \o rests[c]
               /\ c > Len(list) => front[c] = rests[c]
    <3>1. front[c] = q[c][n - 1] /\ rests[c] = q[c][n]
      BY <2>2, Zenon
    <3>2. front[c] = (IF c <= Len(list) THEN Sized(list[c]) ELSE <<>>) \o rests[c]
      BY <3>1, <2>3, <1>6, Zenon
    <3>3. <<>> \o rests[c] = rests[c]
      <4>1. rests[c] \in Seq(Nat)
        OBVIOUS
      <4>2. QED
        BY <4>1, ConcatEmptySeq
    <3>4. ~(c > Len(list)) \/ ~(c <= Len(list))
      BY <2>4
    <3>5. QED
      BY <3>2, <3>3, <3>4, Zenon
  <2>6. \A c \in 1..Len(list) : Len(list[c]) < Word /\ front[c] = Sized(list[c]) \o rests[c]
    <3>1. \A c \in 1..Len(list) : Len(list[c]) < Word
      BY <2>3, <1>2, Zenon
    <3>2. \A c \in 1..Len(list) : c \in 1..w /\ c <= Len(list)
      BY <2>4
    <3>3. QED
      BY <3>1, <3>2, <2>5, Zenon
  <2>7. \A c \in 1..w : c > Len(list) => front[c] = rests[c]
    BY <2>5, Zenon
  <2>8. RowIsRead(reader, front, line, rests)
    BY <2>4, <2>6, <2>7, ReadsRow
  <2>9. Len(o[n - 1]) + Len(line) <= size
    BY <2>3, <1>5, Zenon
  <2>10. NextRowIsRead(reader, front, line, rests, o[n - 1], size)
    BY <2>8, <2>9, ReadsNextRow, Zenon
  <2>11. ReadNextRow(reader, rows[n], State(n - 1), size) = {State(n)}
    <3>1. State(n - 1) = [columns |-> front, output |-> o[n - 1]]
      BY <2>2, Zenon
    <3>2. State(n) = [columns |-> rests, output |-> o[n - 1] \o line]
      BY <2>2, <2>3, <1>5, Zenon
    <3>3. rows[n] = RowCode(line)
      BY <2>3, <1>2, Zenon
    <3> HIDE DEF State
    <3>4. QED
      BY <3>1, <3>2, <3>3, <2>10, Zenon DEF NextRowIsRead
  <2> HIDE DEF State
  <2>12. QED
    BY <2>11, Zenon
<1>10. State(k).output = data /\ \A c \in DOMAIN State(k).columns : State(k).columns[c] = <<>>
  <2>1. DOMAIN left(k) = 1..w /\ \A c \in 1..w : left(k)[c] = <<>>
    BY <1>6
  <2> HIDE DEF left
  <2>2. State(k).output = data /\ State(k).columns = left(k)
    BY <1>5
  <2> HIDE DEF State
  <2>3. QED
    BY <2>1, <2>2, Zenon
<1> HIDE DEF State
<1>11. IsReadingRows(v, reader, rows, columns, size)
  <2>1. ASSUME NEW n \in 0..k
        PROVE  v[n] = IF n = 0 THEN {[columns |-> columns, output |-> <<>>]}
                      ELSE UNION {ReadNextRow(reader, rows[n], some, size) : some \in v[n - 1]}
    <3> HIDE DEF columns
    <3>1. CASE n = 0
      BY <3>1, <1>7, Zenon
    <3>2. CASE n # 0
      <4>1. n \in 1..k /\ n - 1 \in 0..k
        BY <3>2
      <4>2. v[n] = {State(n)} /\ v[n - 1] = {State(n - 1)}
        BY <4>1, Zenon
      <4> HIDE DEF v
      <4>3. QED
        BY <4>1, <4>2, <3>2, <1>9, Zenon
    <3>3. QED
      BY <3>1, <3>2
  <2>2. v = [n \in 0..k |-> v[n]]
    BY Zenon
  <2>3. Len(rows) = k
    BY <1>1
  <2> HIDE DEF v, columns
  <2>4. QED
    BY <2>1, <2>2, <2>3, Zenon DEF IsReadingRows
<1> HIDE DEF columns
<1>12. IsReadingRows(f, reader, rows, columns, size)
  BY <1>11, Zenon
<1>13. ReadRows(reader, rows, columns, size)
         = {all.output : all \in {all \in f[Len(rows)] :
                                    /\ Len(all.output) = size
                                    /\ \A c \in DOMAIN all.columns : all.columns[c] = <<>>}}
  BY Zenon DEF ReadRows, IsReadingRows
<1> HIDE DEF f, v
<1>14. \A n \in 0..k : f[n] = IF n = 0 THEN {[columns |-> columns, output |-> <<>>]}
                       ELSE UNION {ReadNextRow(reader, rows[n], some, size) : some \in f[n - 1]}
  BY <1>1, <1>12, Zenon DEF IsReadingRows
<1> DEFINE S == {n \in Nat : f[n] = {State(n)}}
<1>15. \A n \in 0..k : n \in S
  <2>1. 0 \in S
    <3>1. 0 \in 0..k
      OBVIOUS
    <3>2. f[0] = {[columns |-> columns, output |-> <<>>]}
      BY <3>1, <1>14, Zenon
    <3>3. QED
      BY <3>2, <1>7
  <2>2. ASSUME NEW n \in 0..(k - 1), n \in S PROVE n + 1 \in S
    <3>1. n + 1 \in 1..k /\ (n + 1) - 1 = n /\ n + 1 \in Nat /\ n + 1 \in 0..k /\ n + 1 # 0
      OBVIOUS
    <3>2. f[n] = {State(n)}
      BY <2>2
    <3>3. f[n + 1] = UNION {ReadNextRow(reader, rows[n + 1], some, size) : some \in f[n]}
      BY <3>1, <1>14, Zenon
    <3>4. f[n + 1] = {State(n + 1)}
      BY <3>1, <3>2, <3>3, <1>9, Zenon
    <3>5. QED
      BY <3>1, <3>4
  <2> HIDE DEF S
  <2>3. QED
    BY <2>1, <2>2, FiniteInduction
<1>16. f[Len(rows)] = {State(k)}
  <2>1. k \in S
    BY <1>15, k \in 0..k
  <2>2. QED
    BY <2>1, <1>1
<1>17. {all \in f[Len(rows)] : /\ Len(all.output) = size
                               /\ \A c \in DOMAIN all.columns : all.columns[c] = <<>>} = {State(k)}
  BY <1>3, <1>10, <1>16, Zenon
<1>18. ReadRows(reader, rows, columns, size) = {data}
  BY <1>10, <1>13, <1>17, Zenon
<1>19. QED
  BY <1>1, <1>3, <1>18, Zenon DEF columns, RowsAreRead

IsTotal(f, rows) ==
  f = [n \in 0..Len(rows) |-> IF n = 0 THEN 0 ELSE f[n - 1] + (rows[n] \div 2)]

(* The rows of a table pass the bound on the number of their fields: each  *)
(* has one more field than delimiters, and each delimiter is a byte.       *)
LEMMA RowsFit ==
  ASSUME NEW rows \in Seq(Nat), NEW w \in Nat, \A n \in 1..Len(rows) : rows[n] \div 2 \in 1..w,
         NEW o \in [0..Len(rows) -> Nat], o[0] = 0,
         \A n \in 1..Len(rows) : o[n - 1] + (rows[n] \div 2) <= o[n] + 1
  PROVE  FieldsFit(rows, w, o[Len(rows)])
<1> DEFINE k == Len(rows)
           step == [pair \in (1..k) \X Nat |-> pair[2] + (rows[pair[1]] \div 2)]
           f == CHOOSE g : IsTotal(g, rows)
<1>1. k \in Nat
  OBVIOUS
<1>2. \A n \in 1..k : \A v \in Nat : step[<<n, v>>] = v + (rows[n] \div 2)
  OBVIOUS
<1>3. \A n \in 1..k : rows[n] \div 2 \in Nat
  OBVIOUS
<1> HIDE DEF step, k
<1>4. PICK g : /\ g \in [0..k -> Nat] /\ g[0] = 0
               /\ \A n \in 1..k : g[n] = step[<<n, g[n - 1]>>]
  <2>1. ASSUME NEW n \in 1..k, NEW v \in Nat PROVE step[<<n, v>>] \in Nat
    <3>1. PICK h \in Nat : h = rows[n] \div 2
      BY <1>3
    <3>2. v + h \in Nat
      OBVIOUS
    <3>3. QED
      BY <3>1, <3>2, <1>2, Zenon
  <2>2. \E g : Iterates(g, Nat, 0, k, step)
    BY <2>1, <1>1, FiniteRecursion
  <2>3. QED
    BY <2>2, Zenon DEF Iterates
<1>5. \A n \in 1..k : g[n] = g[n - 1] + (rows[n] \div 2)
  <2>1. ASSUME NEW n \in 1..k PROVE g[n - 1] \in Nat
    <3>1. n - 1 \in 0..k
      BY <1>1
    <3>2. QED
      BY <3>1, <1>4
  <2>2. QED
    BY <2>1, <1>2, <1>4, Zenon
<1>6. IsTotal(g, rows)
  <2>1. ASSUME NEW n \in 0..k
        PROVE  g[n] = IF n = 0 THEN 0 ELSE g[n - 1] + (rows[n] \div 2)
    <3>1. CASE n = 0
      BY <3>1, <1>4, Zenon
    <3>2. CASE n # 0
      <4>1. n \in 1..k
        BY <3>2, <1>1
      <4>2. QED
        BY <4>1, <3>2, <1>5, Zenon
    <3>3. QED
      BY <3>1, <3>2
  <2>2. g = [n \in 0..k |-> g[n]]
    BY <1>4
  <2>3. QED
    BY <2>1, <2>2, Zenon DEF IsTotal, k
<1>7. IsTotal(f, rows)
  BY <1>6, Zenon
<1>8. FieldsFit(rows, w, o[k])
        <=> (\A n \in DOMAIN rows : rows[n] \div 2 \in 1..w) /\ f[k] <= o[k] + k + 1
  BY Zenon DEF FieldsFit, IsTotal, k
<1> HIDE DEF f
<1>9. \A n \in 0..k : f[n] = IF n = 0 THEN 0 ELSE f[n - 1] + (rows[n] \div 2)
  BY <1>7, Zenon DEF IsTotal, k
<1> DEFINE S == {n \in Nat : f[n] \in Nat /\ f[n] <= o[n] + n}
<1>10. \A n \in 0..k : n \in S
  <2>1. 0 \in S
    <3>1. 0 \in 0..k
      BY <1>1
    <3>2. f[0] = 0
      BY <3>1, <1>9, Zenon
    <3>3. QED
      BY <3>2
  <2>2. ASSUME NEW n \in 0..(k - 1), n \in S PROVE n + 1 \in S
    <3>1. n + 1 \in 1..k /\ n + 1 \in 0..k /\ n + 1 # 0 /\ (n + 1) - 1 = n /\ n \in 0..k
      BY <1>1
    <3>2. PICK h \in Nat : h = rows[n + 1] \div 2
      BY <3>1, <1>3
    <3>3. f[n + 1] = f[n] + h
      BY <3>1, <3>2, <1>9, Zenon
    <3>4. PICK a, b \in Nat : a = o[n] /\ b = o[n + 1]
      BY <3>1 DEF k
    <3>5. a + h <= b + 1
      <4>1. o[(n + 1) - 1] + (rows[n + 1] \div 2) <= o[n + 1] + 1
        BY <3>1, Zenon DEF k
      <4>2. QED
        BY <4>1, <3>1, <3>2, <3>4, Zenon
    <3>6. f[n] \in Nat /\ f[n] <= a + n
      BY <2>2, <3>4
    <3>7. f[n] + h \in Nat /\ f[n] + h <= b + (n + 1)
      BY <3>5, <3>6
    <3>8. QED
      BY <3>3, <3>4, <3>7, n + 1 \in Nat
  <2> HIDE DEF S
  <2>3. QED
    BY <1>1, <2>1, <2>2, FiniteInduction
<1>11. f[k] <= o[k] + k + 1
  <2>1. k \in S /\ k \in 0..k
    BY <1>1, <1>10
  <2>2. o[k] \in Nat /\ f[k] \in Nat /\ f[k] <= o[k] + k
    BY <2>1 DEF k
  <2>3. QED
    BY <2>2, <1>1
<1>12. DOMAIN rows = 1..k
  BY DEF k
<1>13. QED
  BY <1>8, <1>11, <1>12, Zenon DEF k

(* The widest row, and what the table is made of. *)
TableWidth(fields) == Max({0} \cup {Len(fields[i]) : i \in DOMAIN fields})

TableCode(k, w, rows, columns) ==
  Varint(k) \o Varint(w) \o Sized(FlattenSeq(rows)) \o FlattenSeq(columns)

(* What the writer makes, in these words. *)
LEMMA TableIs ==
  ASSUME NEW data, NEW lines, lines = Lines(data),
         NEW fields, fields = [n \in DOMAIN lines |-> FieldsOf(lines[n])],
         NEW k, DOMAIN lines = 1..k, Len(lines) = k
  PROVE  EncodeTable(data) =
           TableCode(k, TableWidth(fields), [n \in 1..k |-> Varint(RowCode(lines[n]))],
                     [c \in 1..TableWidth(fields) |-> Sized(FlattenSeq(Cells(fields, k, c)))])
<1>1. EncodeTable(data) =
        TableCode(k, TableWidth(fields),
                  [n \in 1..k |-> Varint(2 * Len(fields[n]) + IF Ended(lines[n]) THEN 1 ELSE 0)],
                  [c \in 1..TableWidth(fields) |-> Sized(FlattenSeq(Cells(fields, k, c)))])
  BY Zenon DEF EncodeTable, TableCode, TableWidth, Cells, FieldsOf, Ended
<1>2. \A n \in 1..k : 2 * Len(fields[n]) + (IF Ended(lines[n]) THEN 1 ELSE 0) = RowCode(lines[n])
  <2>1. \A n \in 1..k : fields[n] = FieldsOf(lines[n])
    BY Zenon
  <2>2. QED
    BY <2>1, Zenon DEF RowCode
<1>3. [n \in 1..k |-> Varint(2 * Len(fields[n]) + IF Ended(lines[n]) THEN 1 ELSE 0)]
        = [n \in 1..k |-> Varint(RowCode(lines[n]))]
  BY <1>2, Zenon
<1>4. QED
  BY <1>1, <1>3, Zenon

(* What maps 1..k to strings is a sequence of strings. *)
LEMMA PartsAre ==
  ASSUME NEW k \in Nat, NEW list, list \in [1..k -> Seq(Nat)]
  PROVE  list \in Seq(Seq(Nat)) /\ Len(list) = k
<1>1. PICK L : L = Seq(Nat)
  OBVIOUS
<1>2. list \in [1..k -> L]
  BY <1>1
<1>3. list \in Seq(L) /\ Len(list) = k
  BY <1>2
<1>4. QED
  BY <1>1, <1>3

HeadIsRead(reader, k, w, t) ==
  ReadVarints(reader, Varint(k) \o (Varint(w) \o t), 2) = {[value |-> <<k, w>>, rest |-> t]}

(* The numbers of rows and of columns are read from the front of a table. *)
LEMMA ReadsHead ==
  ASSUME BytesAssumption, NEW reader, NEW k \in Nat, k < Word, NEW w \in Nat, w < Word, NEW t \in Seq(Nat)
  PROVE  HeadIsRead(reader, k, w, t)
<1>1. PICK values \in Seq(Nat) : values = <<k, w>> /\ Len(values) = 2 /\ values[1] = k /\ values[2] = w
  <2>1. <<k, w>> \in Seq(Nat) /\ Len(<<k, w>>) = 2 /\ <<k, w>>[1] = k /\ <<k, w>>[2] = w
    OBVIOUS
  <2>2. QED
    BY <2>1, Zenon
<1>2. \A n \in 1..Len(values) : values[n] < Word
  <2>1. \A n \in 1..2 : n = 1 \/ n = 2
    OBVIOUS
  <2>2. QED
    BY <2>1, <1>1
<1> DEFINE list == [n \in 1..Len(values) |-> Varint(values[n])]
<1>3. /\ list \in Seq(Seq(Nat)) /\ Len(list) = Len(values)
      /\ ReadVarints(reader, FlattenSeq(list) \o t, Len(values)) = {[value |-> values, rest |-> t]}
  BY <1>2, ReadsVarints
<1>4. list[1] = Varint(k) /\ list[2] = Varint(w)
  <2>1. 1 \in 1..2 /\ 2 \in 1..2
    OBVIOUS
  <2>2. QED
    BY <2>1, <1>1, Zenon
<1> HIDE DEF list
<1>5. PICK x, y \in Seq(Nat) : x = Varint(k) /\ y = Varint(w)
  BY VarintIs
<1>6. PICK f : /\ f \in [0..2 -> Seq(Nat)] /\ f[0] = <<>> /\ FlattenSeq(list) = f[2]
               /\ \A n \in 1..2 : f[n] = f[n - 1] \o list[n]
  <2>1. Len(list) = 2
    BY <1>1, <1>3, Zenon
  <2>2. \E f : /\ f \in [0..Len(list) -> Seq(Nat)] /\ f[0] = <<>> /\ FlattenSeq(list) = f[Len(list)]
               /\ \A n \in 1..Len(list) : f[n] = f[n - 1] \o list[n]
    BY <1>3, FlatIsPrefixes
  <2>3. QED
    BY <2>1, <2>2, Zenon
<1>7. FlattenSeq(list) = x \o y
  <2>1. 1 \in 1..2 /\ 2 \in 1..2 /\ 1 - 1 = 0 /\ 2 - 1 = 1
    OBVIOUS
  <2>2. f[1] = f[0] \o list[1] /\ f[2] = f[1] \o list[2]
    BY <2>1, <1>6, Zenon
  <2>3. <<>> \o x = x
    BY ConcatEmptySeq
  <2>4. QED
    BY <2>2, <2>3, <1>4, <1>5, <1>6, Zenon
<1>8. Regrouped(x, y, t)
  BY IsRegrouped
<1>9. FlattenSeq(list) \o t = Varint(k) \o (Varint(w) \o t)
  BY <1>5, <1>7, <1>8, Zenon DEF Regrouped
<1>10. QED
  BY <1>1, <1>3, <1>9, Zenon DEF HeadIsRead

(* The parts of a table, and that none of them is longer than the table.   *)
TableIsJoined(k, w, metadata, rest, code) ==
  /\ code = Varint(k) \o (Varint(w) \o (Sized(metadata) \o rest))
  /\ Sized(metadata) \o rest \in Seq(Nat) /\ code \in Seq(Nat)
  /\ Len(rest) + 1 <= Len(code) /\ Len(metadata) <= Len(code)

(* The code of a table begins with its two numbers and has all its parts. *)
LEMMA TableJoins ==
  ASSUME BytesAssumption, NEW k \in Nat, NEW w \in Nat, NEW metadata \in Seq(Nat), NEW rest \in Seq(Nat),
         NEW code, code = Varint(k) \o Varint(w) \o Sized(metadata) \o rest
  PROVE  TableIsJoined(k, w, metadata, rest, code)
<1>1. PICK x, y, z \in Seq(Nat) : /\ x = Varint(k) /\ y = Varint(w) /\ z = Sized(metadata)
                                  /\ x # <<>> /\ Len(metadata) <= Len(z)
  <2>1. Varint(k) \in Seq(Nat) /\ Varint(k) # <<>> /\ Varint(w) \in Seq(Nat)
    BY VarintIs
  <2>2. Sized(metadata) \in Seq(Nat) /\ Len(metadata) <= Len(Sized(metadata))
    BY SizedIs
  <2>3. QED
    BY <2>1, <2>2, Zenon
<1>2. code = ((x \o y) \o z) \o rest
  BY <1>1, Zenon
<1>3. PICK a \in Seq(Nat) : a = x \o y /\ Len(a) = Len(x) + Len(y)
  <2>1. x \o y \in Seq(Nat) /\ Len(x \o y) = Len(x) + Len(y)
    BY ConcatProperties
  <2>2. QED
    BY <2>1
<1>4. PICK b \in Seq(Nat) : b = z \o rest /\ Len(b) = Len(z) + Len(rest)
  <2>1. z \o rest \in Seq(Nat) /\ Len(z \o rest) = Len(z) + Len(rest)
    BY ConcatProperties
  <2>2. QED
    BY <2>1
<1>5. code = a \o b
  <2>1. Regrouped(a, z, rest)
    BY IsRegrouped
  <2>2. QED
    BY <2>1, <1>2, <1>3, <1>4, Zenon DEF Regrouped
<1>6. a \o b = x \o (y \o b)
  <2>1. Regrouped(x, y, b)
    BY IsRegrouped
  <2>2. QED
    BY <2>1, <1>3, Zenon DEF Regrouped
<1>7. a \o b \in Seq(Nat) /\ Len(a \o b) = Len(a) + Len(b)
  BY ConcatProperties
<1>8. Len(x) \in Nat /\ Len(x) # 0
  BY <1>1, EmptySeq
<1>9. /\ Len(y) \in Nat /\ Len(z) \in Nat /\ Len(rest) \in Nat /\ Len(metadata) \in Nat
      /\ Len(a) \in Nat /\ Len(b) \in Nat
  OBVIOUS
<1>10. Len(rest) + 1 <= Len(a) + Len(b) /\ Len(metadata) <= Len(a) + Len(b)
  BY <1>1, <1>3, <1>4, <1>8, <1>9
<1>11. Len(rest) + 1 <= Len(code) /\ Len(metadata) <= Len(code)
  BY <1>5, <1>7, <1>10, Zenon
<1>12. QED
  BY <1>1, <1>4, <1>5, <1>6, <1>7, <1>11, Zenon DEF TableIsJoined

(* The rows of a table, of any bytes: each line has its fields, no row is  *)
(* wider than the table, and there are no more rows and columns than the   *)
(* bytes allow.                                                            *)
TableIsSplit(data, lines, fields, w) ==
  /\ lines \in Seq(Seq(Nat)) /\ Len(lines) <= Len(data) /\ \E o : Grows(o, lines, data)
  /\ w \in Nat /\ w <= Len(data) + 1
  /\ \A n \in 1..Len(lines) : /\ fields[n] = FieldsOf(lines[n])
                              /\ RowIsMade(lines[n], fields[n])
                              /\ Len(fields[n]) <= w

(* There are no more lines than bytes, and no more columns than one more.  *)
LEMMA TableSplits ==
  ASSUME BytesAssumption, TableAssumption, NEW data \in Seq(Nat),
         NEW lines, lines = Lines(data),
         NEW fields, fields = [n \in DOMAIN lines |-> FieldsOf(lines[n])]
  PROVE  TableIsSplit(data, lines, fields, TableWidth(fields))
<1>1. PICK B \in SUBSET Nat : B = Nat
  OBVIOUS
<1>2. lines \in Seq(Seq(Nat)) /\ (\E o : Grows(o, lines, data)) /\ Full(lines)
  <2>1. Lines(data) \in Seq(Seq(B)) /\ (\E o : Grows(o, Lines(data), data)) /\ Full(Lines(data))
    BY <1>1, LinesMake
  <2>2. QED
    BY <2>1, <1>1, Zenon
<1>3. FlattenSeq(lines) = data
  BY <1>2, FlatIsGrown
<1>4. PICK k, size \in Nat : k = Len(lines) /\ DOMAIN lines = 1..k /\ size = Len(data)
  BY <1>2
<1>5. k <= size /\ \A n \in 1..k : Len(lines[n]) <= size
  <2>1. /\ \A n \in 1..Len(lines) : Len(lines[n]) <= Len(FlattenSeq(lines))
        /\ Full(lines) => Len(lines) <= Len(FlattenSeq(lines))
    BY <1>2, PartsFit
  <2>2. QED
    BY <2>1, <1>2, <1>3, <1>4, Zenon
<1>6. DOMAIN fields = 1..k /\ \A n \in 1..k : fields[n] = FieldsOf(lines[n])
  BY <1>4, Zenon
<1>7. ASSUME NEW n \in 1..k
      PROVE  RowIsMade(lines[n], fields[n]) /\ Len(fields[n]) \in Nat /\ Len(fields[n]) <= size + 1
  <2>1. n \in 1..Len(lines)
    BY <1>4
  <2>2. PICK line \in Seq(Nat) : line = lines[n] /\ line # <<>>
    <3>1. lines[n] \in Seq(Nat)
      BY <2>1, <1>2, ElementOfSeq
    <3>2. lines[n] # <<>>
      BY <2>1, <1>2, Zenon DEF Full
    <3>3. QED
      BY <3>1, <3>2
  <2>3. RowIsMade(line, FieldsOf(line))
    BY <2>2, FieldsOfLine
  <2>4. PICK list \in Seq(Seq(Nat)) : list = FieldsOf(line) /\ Len(list) <= Len(line) + 1
    BY <2>3, Zenon DEF RowIsMade
  <2>5. list = fields[n]
    BY <2>2, <2>4, <1>6, Zenon
  <2>6. Len(line) <= size /\ Len(line) \in Nat /\ Len(list) \in Nat
    <3>1. Len(line) <= size
      BY <2>2, <1>5
    <3>2. Len(line) \in Nat
      OBVIOUS
    <3>3. Len(list) \in Nat
      OBVIOUS
    <3>4. QED
      BY <3>1, <3>2, <3>3
  <2>7. Len(list) <= size + 1
    BY <2>4, <2>6
  <2>8. QED
    BY <2>2, <2>3, <2>4, <2>5, <2>6, <2>7, Zenon
<1>8. PICK w : w = TableWidth(fields)
  OBVIOUS
<1> DEFINE S == {0} \cup {Len(fields[i]) : i \in DOMAIN fields}
<1>9. w = Max(S)
  BY <1>8, Zenon DEF TableWidth
<1>10. S \in SUBSET Nat /\ S # {} /\ size + 1 \in Nat /\ \A n \in S : n <= size + 1
  BY <1>6, <1>7
<1>11. \A n \in 1..k : Len(fields[n]) \in S
  BY <1>6
<1> HIDE DEF S
<1>12. Max(S) \in S /\ \A n \in S : n <= Max(S)
  BY <1>10, MaxIs
<1>13. w \in Nat /\ w <= size + 1 /\ \A n \in 1..k : Len(fields[n]) <= w
  BY <1>9, <1>10, <1>11, <1>12
<1>14. QED
  BY <1>2, <1>4, <1>5, <1>6, <1>7, <1>8, <1>13, Zenon DEF TableIsSplit

(* The parts of the code of a table, each shorter than a number may be.    *)
TableIsMade(data, k, w, lines, fields, codes, parts, columns) ==
  /\ RowsAreMade(lines, fields, w) /\ (\E o : Grows(o, lines, data))
  /\ k = Len(lines) /\ k \in Nat /\ w \in Nat /\ k < Word /\ w < Word
  /\ k <= Len(data) + 1 /\ w <= Len(data) + 1
  /\ codes \in Seq(Nat) /\ Len(codes) = k
  /\ \A n \in 1..k : codes[n] = RowCode(lines[n]) /\ codes[n] < Word
  /\ parts = [n \in 1..k |-> Varint(codes[n])]
  /\ columns = [c \in 1..w |-> FlattenSeq(Cells(fields, k, c))]
  /\ columns \in Seq(Seq(Nat)) /\ Len(columns) = w
  /\ \A c \in 1..w : Len(columns[c]) < Word
  /\ FlattenSeq(parts) \in Seq(Nat) /\ Len(FlattenSeq(parts)) < Word
  /\ FieldsFit(codes, w, Len(data)) /\ k <= Len(FlattenSeq(parts))

TableIsJoinedOf(data, k, w, parts, columns) ==
  LET rest == FlattenSeq([c \in 1..w |-> Sized(columns[c])])
  IN  /\ TableIsJoined(k, w, FlattenSeq(parts), rest, EncodeTable(data))
      /\ rest \in Seq(Nat) /\ w <= Len(rest)

(* Every file makes such a table. *)
LEMMA TableMakes ==
  ASSUME BytesAssumption, TableAssumption, NEW data \in Seq(Nat), 2 * Len(EncodeTable(data)) < Word
  PROVE  \E k, w, lines, fields, codes, parts, columns :
           /\ TableIsMade(data, k, w, lines, fields, codes, parts, columns)
           /\ TableIsJoinedOf(data, k, w, parts, columns)
<1>1. PICK lines : lines = Lines(data)
  OBVIOUS
<1>2. PICK fields : fields = [n \in DOMAIN lines |-> FieldsOf(lines[n])]
  OBVIOUS
<1>3. PICK w : w = TableWidth(fields)
  OBVIOUS
<1>4. TableIsSplit(data, lines, fields, w)
  BY <1>1, <1>2, <1>3, TableSplits
<1>5. PICK size \in Nat : size = Len(data)
  OBVIOUS
<1>6. /\ lines \in Seq(Seq(Nat)) /\ Len(lines) <= size /\ (\E o : Grows(o, lines, data))
      /\ w \in Nat /\ w <= size + 1
      /\ \A n \in 1..Len(lines) : /\ fields[n] = FieldsOf(lines[n])
                                  /\ RowIsMade(lines[n], fields[n])
                                  /\ Len(fields[n]) <= w
  BY <1>4, <1>5, Zenon DEF TableIsSplit
<1>7. PICK k \in Nat : k = Len(lines) /\ DOMAIN lines = 1..k /\ k <= size
  BY <1>6
<1>8. ASSUME NEW n \in 1..k
      PROVE  /\ fields[n] = FieldsOf(lines[n]) /\ RowIsMade(lines[n], fields[n])
             /\ lines[n] \in Seq(Nat) /\ fields[n] \in Seq(Seq(Nat))
             /\ Len(fields[n]) \in 1..w /\ Len(fields[n]) <= Len(lines[n]) + 1
  <2>1. fields[n] = FieldsOf(lines[n]) /\ RowIsMade(lines[n], fields[n]) /\ Len(fields[n]) <= w
    BY <1>6, <1>7, Zenon
  <2>2. fields[n] \in Seq(Seq(Nat)) /\ 1 <= Len(fields[n]) /\ Len(fields[n]) <= Len(lines[n]) + 1
    BY <2>1, Zenon DEF RowIsMade
  <2>3. Len(fields[n]) \in 1..w
    BY <2>1, <2>2, <1>6
  <2>4. lines[n] \in Seq(Nat)
    BY <1>6, <1>7, ElementOfSeq
  <2>5. QED
    BY <2>1, <2>2, <2>3, <2>4, Zenon
<1> DEFINE codes == [n \in 1..k |-> RowCode(lines[n])]
           parts == [n \in 1..k |-> Varint(codes[n])]
           columns == [c \in 1..w |-> FlattenSeq(Cells(fields, k, c))]
           sized == [c \in 1..w |-> Sized(columns[c])]
<1>9. ASSUME NEW n \in 1..k
      PROVE  /\ codes[n] = RowCode(lines[n]) /\ codes[n] \in Nat /\ codes[n] <= 2 * w + 1
             /\ codes[n] \div 2 = Len(fields[n])
  <2>1. PICK m \in 1..w : m = Len(fields[n])
    BY <1>8
  <2>2. PICK end \in BOOLEAN : end = Ended(lines[n])
    BY DEF Ended
  <2>3. PICK code : code = codes[n] /\ code = RowCode(lines[n])
    BY Zenon
  <2>4. code = 2 * m + IF end THEN 1 ELSE 0
    BY <2>1, <2>2, <2>3, <1>8, Zenon DEF RowCode
  <2>5. m \in Nat
    OBVIOUS
  <2>6. code \in Nat /\ code \div 2 = m
    BY <2>4, <2>5, RowCodeIs
  <2>7. code <= 2 * w + 1
    BY <2>4, <1>6
  <2> HIDE DEF codes
  <2>8. QED
    BY <2>1, <2>3, <2>6, <2>7, Zenon
<1>10. codes \in Seq(Nat) /\ Len(codes) = k
  <2>1. codes \in [1..k -> Nat]
    BY <1>9
  <2> HIDE DEF codes
  <2>2. QED
    BY <2>1
<1>11. [n \in 1..k |-> Varint(RowCode(lines[n]))] = parts
  BY <1>9, Zenon
<1> HIDE DEF codes
<1>12. parts \in Seq(Seq(Nat)) /\ Len(parts) = k /\ Full(parts)
  <2>1. \A n \in 1..k : parts[n] = Varint(codes[n]) /\ parts[n] \in Seq(Nat) /\ parts[n] # <<>>
    BY <1>9, VarintIs
  <2>2. parts \in [1..k -> Seq(Nat)]
    BY <2>1
  <2> HIDE DEF parts
  <2>3. parts \in Seq(Seq(Nat)) /\ Len(parts) = k
    BY <2>2, PartsAre
  <2>4. QED
    BY <2>1, <2>3, Zenon DEF Full
<1>13. ASSUME NEW c \in 1..w
       PROVE  /\ Cells(fields, k, c) \in Seq(Seq(Nat)) /\ Len(Cells(fields, k, c)) = k
              /\ \A n \in 1..k : Cells(fields, k, c)[n] = IF c <= Len(fields[n]) THEN Sized(fields[n][c]) ELSE <<>>
              /\ FlattenSeq(Cells(fields, k, c)) \in Seq(Nat)
              /\ \A n \in 1..k : Len(Cells(fields, k, c)[n]) <= Len(FlattenSeq(Cells(fields, k, c)))
  <2>1. c \in Nat \ {0} /\ \A n \in 1..k : fields[n] \in Seq(Seq(Nat))
    BY <1>6, <1>8
  <2>2. /\ Cells(fields, k, c) \in Seq(Seq(Nat)) /\ Len(Cells(fields, k, c)) = k
        /\ \A n \in 1..k : Cells(fields, k, c)[n] = IF c <= Len(fields[n]) THEN Sized(fields[n][c]) ELSE <<>>
    BY <2>1, CellsAre
  <2>3. PICK cells \in Seq(Seq(Nat)) : cells = Cells(fields, k, c) /\ Len(cells) = k
    BY <2>2
  <2>4. FlattenSeq(cells) \in Seq(Nat) /\ \A n \in 1..Len(cells) : Len(cells[n]) <= Len(FlattenSeq(cells))
    BY PartsFit
  <2>5. QED
    BY <2>2, <2>3, <2>4, Zenon
<1>14. columns \in Seq(Seq(Nat)) /\ Len(columns) = w /\ \A c \in 1..w : columns[c] = FlattenSeq(Cells(fields, k, c))
  <2>1. \A c \in 1..w : columns[c] = FlattenSeq(Cells(fields, k, c))
    BY Zenon
  <2>2. columns \in [1..w -> Seq(Nat)]
    BY <1>13
  <2> HIDE DEF columns
  <2>3. QED
    BY <2>1, <2>2, <1>6, PartsAre
<1>15. [c \in 1..w |-> Sized(FlattenSeq(Cells(fields, k, c)))] = sized
  BY <1>14, Zenon
<1> HIDE DEF columns
<1>16. sized \in Seq(Seq(Nat)) /\ Len(sized) = w /\ Full(sized)
       /\ \A c \in 1..w : sized[c] = Sized(columns[c]) /\ Len(columns[c]) <= Len(sized[c])
  <2>1. ASSUME NEW c \in 1..w
        PROVE  /\ sized[c] = Sized(columns[c]) /\ sized[c] \in Seq(Nat) /\ sized[c] # <<>>
               /\ Len(columns[c]) <= Len(sized[c])
    <3>1. PICK s \in Seq(Nat) : s = columns[c]
      BY <1>14, ElementOfSeq
    <3>2. Sized(s) \in Seq(Nat) /\ Sized(s) # <<>> /\ Len(s) <= Len(Sized(s))
      BY SizedIs
    <3>3. sized[c] = Sized(columns[c])
      BY Zenon
    <3>4. QED
      BY <3>1, <3>2, <3>3, Zenon
  <2>2. sized \in [1..w -> Seq(Nat)]
    BY <2>1
  <2> HIDE DEF sized
  <2>3. sized \in Seq(Seq(Nat)) /\ Len(sized) = w
    BY <2>2, <1>6, PartsAre
  <2>4. QED
    BY <2>1, <2>3, Zenon DEF Full
<1>17. EncodeTable(data) = TableCode(k, w, parts, sized)
  <2>1. EncodeTable(data) =
          TableCode(k, w, [n \in 1..k |-> Varint(RowCode(lines[n]))],
                    [c \in 1..w |-> Sized(FlattenSeq(Cells(fields, k, c)))])
    BY <1>1, <1>2, <1>3, <1>7, TableIs, Zenon
  <2>2. QED
    BY <2>1, <1>11, <1>15, Zenon
<1>18. PICK metadata, rest \in Seq(Nat) :
         /\ metadata = FlattenSeq(parts) /\ rest = FlattenSeq(sized) /\ k <= Len(metadata) /\ w <= Len(rest)
         /\ \A c \in 1..w : Len(sized[c]) <= Len(rest)
  <2> HIDE DEF parts, sized
  <2>1. FlattenSeq(parts) \in Seq(Nat) /\ k <= Len(FlattenSeq(parts))
    BY <1>12, PartsFit
  <2>2. /\ FlattenSeq(sized) \in Seq(Nat) /\ w <= Len(FlattenSeq(sized))
        /\ \A c \in 1..w : Len(sized[c]) <= Len(FlattenSeq(sized))
    <3>1. /\ FlattenSeq(sized) \in Seq(Nat)
          /\ Full(sized) => Len(sized) <= Len(FlattenSeq(sized))
          /\ \A c \in 1..Len(sized) : Len(sized[c]) <= Len(FlattenSeq(sized))
      BY <1>16, PartsFit
    <3>2. QED
      BY <3>1, <1>16, Zenon
  <2>3. QED
    BY <2>1, <2>2, Zenon
<1>19. PICK code : code = EncodeTable(data)
  OBVIOUS
<1>20. TableIsJoined(k, w, metadata, rest, code)
  <2>1. code = Varint(k) \o Varint(w) \o Sized(metadata) \o rest
    BY <1>17, <1>18, <1>19, Zenon DEF TableCode
  <2>2. QED
    BY <2>1, <1>6, TableJoins
<1>21. /\ Len(rest) + 1 <= Len(code) /\ Len(metadata) <= Len(code)
       /\ Len(code) \in Nat /\ Len(rest) \in Nat /\ Len(metadata) \in Nat /\ Word \in Nat /\ 2 * Len(code) < Word
  <2>1. Len(rest) + 1 <= Len(code) /\ Len(metadata) <= Len(code) /\ code \in Seq(Nat)
    BY <1>20, Zenon DEF TableIsJoined
  <2>2. Len(code) \in Nat /\ Len(rest) \in Nat /\ Len(metadata) \in Nat
    BY <2>1
  <2>3. Word \in Nat
    BY DEF BytesAssumption
  <2>4. 2 * Len(code) < Word
    BY <1>19
  <2>5. QED
    BY <2>1, <2>2, <2>3, <2>4
<1>22. k < Word /\ w < Word /\ 2 * w + 1 < Word /\ Len(metadata) < Word /\ Len(rest) < Word
  BY <1>6, <1>18, <1>21
<1>23. \A n \in 1..k : codes[n] < Word
  BY <1>6, <1>9, <1>21, <1>22
<1>24. \A c \in 1..w : Len(columns[c]) < Word
  <2>1. ASSUME NEW c \in 1..w PROVE Len(columns[c]) < Word
    <3>1. Len(columns[c]) <= Len(sized[c]) /\ Len(sized[c]) <= Len(rest)
      BY <1>16, <1>18
    <3>2. Len(columns[c]) \in Nat /\ Len(sized[c]) \in Nat
      <4> HIDE DEF sized
      <4>1. columns[c] \in Seq(Nat) /\ sized[c] \in Seq(Nat)
        BY <1>14, <1>16, ElementOfSeq
      <4>2. QED
        BY <4>1
    <3> HIDE DEF sized
    <3>3. QED
      BY <3>1, <3>2, <1>21, <1>22
  <2>2. QED
    BY <2>1
<1>25. RowsAreMade(lines, fields, w)
  <2>1. ASSUME NEW n \in 1..k, NEW c \in 1..Len(fields[n]) PROVE Len(fields[n][c]) < Word
    <3>1. c \in 1..w /\ c <= Len(fields[n])
      BY <1>6, <1>8
    <3>2. PICK s \in Seq(Nat) : s = fields[n][c]
      <4>1. PICK list \in Seq(Seq(Nat)) : list = fields[n]
        BY <1>8
      <4>2. list[c] \in Seq(Nat)
        BY <4>1, ElementOfSeq
      <4>3. QED
        BY <4>1, <4>2
    <3>3. PICK z \in Seq(Nat) : z = Sized(s) /\ Len(s) <= Len(z)
      BY SizedIs
    <3>4. Cells(fields, k, c)[n] = z
      BY <3>1, <3>2, <3>3, <1>13, Zenon
    <3>5. Len(z) <= Len(columns[c])
      BY <3>1, <3>4, <1>13, <1>14, Zenon
    <3>6. PICK column \in Seq(Nat) : column = columns[c] /\ Len(column) < Word
      BY <3>1, <1>14, <1>24, ElementOfSeq
    <3>7. Len(s) \in Nat /\ Len(z) \in Nat /\ Len(column) \in Nat
      OBVIOUS
    <3>8. Len(s) < Word
      <4>1. PICK l1, l2, l3 \in Nat : l1 = Len(s) /\ l2 = Len(z) /\ l3 = Len(column)
        BY <3>7, Zenon
      <4>2. l1 <= l2 /\ l2 <= l3 /\ l3 < Word
        BY <4>1, <3>3, <3>5, <3>6, Zenon
      <4>3. l1 < Word
        BY <4>2, <1>21
      <4>4. QED
        BY <4>1, <4>3, Zenon
    <3>9. QED
      BY <3>2, <3>8
  <2>2. QED
    BY <2>1, <1>6, <1>7, Zenon DEF RowsAreMade
<1>26. FieldsFit(codes, w, size)
  <2>1. PICK o : Grows(o, lines, data)
    BY <1>6
  <2>2. /\ o \in [0..k -> Seq(Nat)] /\ o[0] = <<>> /\ o[k] = data
        /\ \A n \in 1..k : o[n] = o[n - 1] \o lines[n]
    BY <2>1, <1>7, Zenon DEF Grows
  <2> DEFINE h == [n \in 0..k |-> Len(o[n])]
  <2>3. h \in [0..k -> Nat] /\ h[0] = 0 /\ h[k] = size
    <3>1. Len(<<>>) = 0 /\ 0 \in 0..k /\ k \in 0..k
      OBVIOUS
    <3>2. \A n \in 0..k : o[n] \in Seq(Nat) /\ Len(o[n]) \in Nat
      BY <2>2
    <3>3. QED
      BY <3>1, <3>2, <2>2, <1>5
  <2>4. ASSUME NEW n \in 1..k PROVE h[n - 1] + (codes[n] \div 2) <= h[n] + 1
    <3>1. n \in 0..k /\ n - 1 \in 0..k
      OBVIOUS
    <3>2. PICK x, y \in Seq(Nat) : x = o[n - 1] /\ y = lines[n]
      BY <3>1, <2>2, <1>8
    <3>3. o[n] = x \o y
      BY <3>2, <2>2, Zenon
    <3>4. Len(x \o y) = Len(x) + Len(y) /\ Len(x) \in Nat /\ Len(y) \in Nat
      BY ConcatProperties
    <3>5. PICK m \in 1..w : m = Len(fields[n]) /\ m <= Len(y) + 1
      <4>1. Len(fields[n]) \in 1..w /\ Len(fields[n]) <= Len(lines[n]) + 1
        BY <1>8
      <4>2. QED
        BY <4>1, <3>2, Zenon
    <3>6. codes[n] \div 2 = m
      BY <3>5, <1>9, Zenon
    <3>7. h[n - 1] = Len(x) /\ h[n] = Len(x) + Len(y)
      BY <3>1, <3>2, <3>3, <3>4, Zenon
    <3> HIDE DEF h
    <3>8. m \in Nat
      OBVIOUS
    <3>9. QED
      BY <3>4, <3>5, <3>6, <3>7, <3>8
  <2>5. \A n \in 1..k : codes[n] \div 2 \in 1..w
    BY <1>8, <1>9
  <2> HIDE DEF h
  <2>6. PICK g \in [0..Len(codes) -> Nat] : g = h
    BY <2>3, <1>10
  <2>7. FieldsFit(codes, w, g[Len(codes)])
    BY <2>3, <2>4, <2>5, <2>6, <1>6, <1>10, RowsFit
  <2>8. QED
    BY <2>3, <2>6, <2>7, <1>10, Zenon
<1>27. columns = [c \in 1..w |-> FlattenSeq(Cells(fields, k, c))]
  BY Zenon DEF columns
<1>28. TableIsMade(data, k, w, lines, fields, codes, parts, columns)
  <2>1. k <= size + 1
    BY <1>7
  <2>2. parts = [n \in 1..k |-> Varint(codes[n])]
    OBVIOUS
  <2>3. \A n \in 1..k : codes[n] = RowCode(lines[n])
    BY <1>9
  <2> HIDE DEF parts
  <2>4. QED
    BY <2>1, <2>2, <2>3, <1>5, <1>6, <1>7, <1>10, <1>14, <1>18, <1>22, <1>23, <1>24, <1>25, <1>26, <1>27,
       Zenon DEF TableIsMade
<1>29. TableIsJoinedOf(data, k, w, parts, columns)
  <2>1. FlattenSeq([c \in 1..w |-> Sized(columns[c])]) = rest
    BY <1>18
  <2> HIDE DEF parts, sized
  <2>2. QED
    BY <2>1, <1>18, <1>19, <1>20, Zenon DEF TableIsJoinedOf
<1>30. QED
  <2> HIDE DEF parts
  <2>1. QED
    BY <1>28, <1>29, Zenon

(* TBL1's transform gives back every file, whatever its delimiters and      *)
(* line ends, and no reader makes anything else of its code: each line is  *)
(* its fields with the delimiters between them, and the readers take the   *)
(* fields from the columns in the order in which they were put there, with *)
(* nothing left over.  No buffer of the program is of 2^63 bytes.          *)
THEOREM TablesReadBack ==
  ASSUME BytesAssumption, TableAssumption, NEW reader,
         NEW data \in Seq(Nat), 2 * Len(EncodeTable(data)) < Word
  PROVE  DecodeTable(reader, EncodeTable(data), Len(data)) = {data}
<1>1. PICK k, w, lines, fields, codes, parts, columns :
        /\ TableIsMade(data, k, w, lines, fields, codes, parts, columns)
        /\ TableIsJoinedOf(data, k, w, parts, columns)
  BY TableMakes
<1>2. PICK size \in Nat : size = Len(data)
  OBVIOUS
<1>3. /\ RowsAreMade(lines, fields, w) /\ (\E o : Grows(o, lines, data))
      /\ k = Len(lines) /\ k \in Nat /\ w \in Nat /\ k < Word /\ w < Word
      /\ k <= size + 1 /\ w <= size + 1
      /\ codes \in Seq(Nat) /\ Len(codes) = k
      /\ \A n \in 1..k : codes[n] = RowCode(lines[n]) /\ codes[n] < Word
      /\ parts = [n \in 1..k |-> Varint(codes[n])]
      /\ columns = [c \in 1..w |-> FlattenSeq(Cells(fields, k, c))]
      /\ columns \in Seq(Seq(Nat)) /\ Len(columns) = w
      /\ \A c \in 1..w : Len(columns[c]) < Word
      /\ FlattenSeq(parts) \in Seq(Nat) /\ Len(FlattenSeq(parts)) < Word
      /\ FieldsFit(codes, w, size) /\ k <= Len(FlattenSeq(parts))
  BY <1>1, <1>2, Zenon DEF TableIsMade
<1>4. PICK code, metadata, rest :
        /\ code = EncodeTable(data) /\ metadata = FlattenSeq(parts)
        /\ rest = FlattenSeq([c \in 1..w |-> Sized(columns[c])])
        /\ TableIsJoined(k, w, metadata, rest, code) /\ rest \in Seq(Nat) /\ w <= Len(rest)
  BY <1>1, Zenon DEF TableIsJoinedOf
<1>5. metadata \in Seq(Nat) /\ Len(metadata) < Word /\ k <= Len(metadata)
  BY <1>3, <1>4, Zenon
<1>6. PICK empty \in Seq(Nat) : empty = <<>>
  BY EmptySeq
<1>7. PICK body \in Seq(Nat) : body = Sized(metadata) \o rest /\ code = Varint(k) \o (Varint(w) \o body)
  BY <1>4, Zenon DEF TableIsJoined
<1>8. PICK head : head = [value |-> <<k, w>>, rest |-> body]
  OBVIOUS
<1>9. head.value[1] = k /\ head.value[2] = w /\ head.rest = body
  BY <1>8
<1>10. ReadVarints(reader, code, 2) = {head}
  <2>1. HeadIsRead(reader, k, w, body)
    BY <1>3, ReadsHead
  <2>2. QED
    BY <2>1, <1>7, <1>8, Zenon DEF HeadIsRead
<1>11. PICK meta : meta = [value |-> metadata, rest |-> rest]
  OBVIOUS
<1>12. meta.value = metadata /\ meta.rest = rest
  BY <1>11
<1>13. ReadSized(reader, body) = {meta}
  <2>1. ReadSized(reader, Sized(metadata) \o rest) = {[value |-> metadata, rest |-> rest]}
    BY <1>4, <1>5, ReadsSized
  <2>2. QED
    BY <2>1, <1>7, <1>11, Zenon
<1>14. Plausible(reader, k, w, metadata, rest)
  BY <1>4, <1>5, Zenon DEF Plausible
<1>15. PICK rows : rows = [value |-> codes, rest |-> empty]
  OBVIOUS
<1>16. rows.value = codes /\ rows.rest = <<>>
  BY <1>6, <1>15
<1>17. ReadVarints(reader, metadata, k) = {rows}
  <2>1. \A n \in 1..Len(codes) : codes[n] < Word
    BY <1>3, Zenon
  <2>2. ReadVarints(reader, FlattenSeq([n \in 1..Len(codes) |-> Varint(codes[n])]) \o empty, Len(codes))
          = {[value |-> codes, rest |-> empty]}
    BY <2>1, <1>3, ReadsVarints
  <2>3. metadata \o empty = metadata
    BY <1>5, <1>6, ConcatEmptySeq
  <2>4. QED
    BY <2>2, <2>3, <1>3, <1>4, <1>15, Zenon
<1>18. PICK cols : cols = [value |-> columns, rest |-> empty]
  OBVIOUS
<1>19. cols.value = columns /\ cols.rest = <<>>
  BY <1>6, <1>18
<1>20. ReadAllSized(reader, rest, w) = {cols}
  <2>1. \A c \in 1..Len(columns) : Len(columns[c]) < Word
    BY <1>3, Zenon
  <2>2. ReadAllSized(reader, FlattenSeq([c \in 1..Len(columns) |-> Sized(columns[c])]) \o empty, Len(columns))
          = {[value |-> columns, rest |-> empty]}
    BY <2>1, <1>3, ReadsAllSized
  <2>3. rest \o empty = rest
    BY <1>4, <1>6, ConcatEmptySeq
  <2>4. QED
    BY <2>2, <2>3, <1>3, <1>4, <1>18, Zenon
<1>21. ReadRows(reader, codes, columns, size) = {data}
  <2>1. /\ Len(codes) = Len(lines) /\ (\A n \in 1..Len(lines) : codes[n] = RowCode(lines[n]))
        /\ w \in Nat /\ RowsAreMade(lines, fields, w) /\ (\E o : Grows(o, lines, data))
    BY <1>3, Zenon
  <2>2. RowsAreRead(reader, codes, w, fields, lines, data)
    BY <2>1, ReadsRows
  <2>3. QED
    BY <2>2, <1>2, <1>3, Zenon DEF RowsAreRead
<1> DEFINE OfColumns(h, r, c) == ReadRows(reader, r.value, c.value, size)
           OfRows(h, m, r) ==
             UNION {OfColumns(h, r, c) :
                      c \in {c \in ReadAllSized(reader, m.rest, h.value[2]) : c.rest = <<>>}}
           OfMetadata(h, m) ==
             UNION {OfRows(h, m, r) :
                      r \in {r \in ReadVarints(reader, m.value, h.value[1]) :
                               r.rest = <<>> /\ FieldsFit(r.value, h.value[2], size)}}
           OfHead(h) ==
             UNION {OfMetadata(h, m) :
                      m \in {m \in ReadSized(reader, h.rest) :
                               Plausible(reader, h.value[1], h.value[2], m.value, m.rest)}}
<1>22. DecodeTable(reader, code, size) =
         UNION {OfHead(h) : h \in {h \in ReadVarints(reader, code, 2) :
                                     h.value[1] <= size + 1 /\ h.value[2] <= size + 1}}
  BY Zenon DEF DecodeTable
<1>23. OfColumns(head, rows, cols) = {data}
  BY <1>16, <1>19, <1>21, Zenon
<1> HIDE DEF OfColumns
<1>24. OfRows(head, meta, rows) = {data}
  <2>1. {c \in ReadAllSized(reader, meta.rest, head.value[2]) : c.rest = <<>>} = {cols}
    BY <1>9, <1>12, <1>19, <1>20, Zenon
  <2>2. UNION {OfColumns(head, rows, c) : c \in {cols}} = OfColumns(head, rows, cols)
    BY Zenon
  <2>3. QED
    BY <2>1, <2>2, <1>23, Zenon
<1> HIDE DEF OfRows
<1>25. OfMetadata(head, meta) = {data}
  <2>1. {r \in ReadVarints(reader, meta.value, head.value[1]) :
           r.rest = <<>> /\ FieldsFit(r.value, head.value[2], size)} = {rows}
    BY <1>3, <1>9, <1>12, <1>16, <1>17, Zenon
  <2>2. UNION {OfRows(head, meta, r) : r \in {rows}} = OfRows(head, meta, rows)
    BY Zenon
  <2>3. QED
    BY <2>1, <2>2, <1>24, Zenon
<1> HIDE DEF OfMetadata
<1>26. OfHead(head) = {data}
  <2>1. {m \in ReadSized(reader, head.rest) :
           Plausible(reader, head.value[1], head.value[2], m.value, m.rest)} = {meta}
    BY <1>9, <1>12, <1>13, <1>14, Zenon
  <2>2. UNION {OfMetadata(head, m) : m \in {meta}} = OfMetadata(head, meta)
    BY Zenon
  <2>3. QED
    BY <2>1, <2>2, <1>25, Zenon
<1> HIDE DEF OfHead
<1>27. {h \in ReadVarints(reader, code, 2) : h.value[1] <= size + 1 /\ h.value[2] <= size + 1} = {head}
  BY <1>3, <1>9, <1>10, Zenon
<1>28. UNION {OfHead(h) : h \in {head}} = OfHead(head)
  BY Zenon
<1>29. QED
  BY <1>2, <1>4, <1>22, <1>26, <1>27, <1>28, Zenon
--------------------------------------------------------------------------------
(* JSON columns. *)

(* What two lists make, one after the other. *)
LEMMA FlatJoins ==
  ASSUME NEW a \in Seq(Seq(Nat)), NEW b \in Seq(Seq(Nat))
  PROVE  /\ a \o b \in Seq(Seq(Nat))
         /\ FlattenSeq(a \o b) = FlattenSeq(a) \o FlattenSeq(b)
<1>1. PICK j, k \in Nat : j = Len(a) /\ k = Len(b)
  OBVIOUS
<1>2. PICK L, ab : L = Seq(Nat) /\ ab = a \o b
  OBVIOUS
<1>3. a \in Seq(L) /\ b \in Seq(L)
  BY <1>2
<1>4. /\ ab \in Seq(L) /\ Len(ab) = j + k
      /\ \A i \in 1..(j + k) : ab[i] = IF i <= j THEN a[i] ELSE b[i - j]
  BY <1>1, <1>2, <1>3, ConcatProperties
<1>5. ab \in Seq(Seq(Nat))
  BY <1>2, <1>4, Zenon
<1>6. PICK f : /\ f \in [0..j -> Seq(Nat)] /\ f[0] = <<>> /\ FlattenSeq(a) = f[j]
               /\ \A n \in 1..j : f[n] = f[n - 1] \o a[n]
  BY <1>1, FlatIsPrefixes
<1>7. PICK g : /\ g \in [0..k -> Seq(Nat)] /\ g[0] = <<>> /\ FlattenSeq(b) = g[k]
               /\ \A n \in 1..k : g[n] = g[n - 1] \o b[n]
  BY <1>1, FlatIsPrefixes
<1>8. PICK h : /\ h \in [0..(j + k) -> Seq(Nat)] /\ h[0] = <<>> /\ FlattenSeq(ab) = h[j + k]
               /\ \A n \in 1..(j + k) : h[n] = h[n - 1] \o ab[n]
  BY <1>4, <1>5, FlatIsPrefixes
<1> DEFINE S == {n \in Nat : h[n] = f[n]}
           T == {n \in Nat : h[j + n] = f[j] \o g[n]}
<1>9. \A n \in 0..j : n \in S
  <2>1. 0 \in S
    BY <1>6, <1>8
  <2>2. ASSUME NEW n \in 0..(j - 1), n \in S PROVE n + 1 \in S
    <3>1. n + 1 \in 1..j /\ n + 1 \in 1..(j + k) /\ (n + 1) - 1 = n /\ n + 1 \in Nat /\ n + 1 <= j
      OBVIOUS
    <3>2. h[n + 1] = h[(n + 1) - 1] \o ab[n + 1] /\ f[n + 1] = f[(n + 1) - 1] \o a[n + 1]
      BY <3>1, <1>6, <1>8, Zenon
    <3>3. ab[n + 1] = a[n + 1]
      BY <3>1, <1>4, Zenon
    <3>4. h[n] = f[n]
      BY <2>2
    <3>5. h[n + 1] = f[n + 1]
      BY <3>1, <3>2, <3>3, <3>4, Zenon
    <3>6. QED
      BY <3>1, <3>5
  <2> HIDE DEF S
  <2>3. QED
    BY <2>1, <2>2, FiniteInduction
<1>10. PICK x \in Seq(Nat) : x = f[j] /\ h[j] = x
  <2>1. j \in 0..j
    OBVIOUS
  <2>2. QED
    BY <2>1, <1>6, <1>9
<1>11. \A n \in 0..k : n \in T
  <2>1. 0 \in T
    <3>1. x \o <<>> = x
      BY ConcatEmptySeq
    <3>2. j + 0 = j
      OBVIOUS
    <3>3. QED
      BY <3>1, <3>2, <1>7, <1>10
  <2>2. ASSUME NEW n \in 0..(k - 1), n \in T PROVE n + 1 \in T
    <3>1. /\ n + 1 \in 1..k /\ (n + 1) - 1 = n /\ n + 1 \in Nat /\ n \in 0..k
          /\ j + (n + 1) \in 1..(j + k) /\ (j + (n + 1)) - 1 = j + n /\ (j + (n + 1)) - j = n + 1
          /\ ~(j + (n + 1) <= j) /\ n + 1 \in 1..Len(b)
      BY <1>1
    <3>2. h[j + (n + 1)] = h[(j + (n + 1)) - 1] \o ab[j + (n + 1)] /\ g[n + 1] = g[(n + 1) - 1] \o b[n + 1]
      BY <3>1, <1>7, <1>8, Zenon
    <3>3. ab[j + (n + 1)] = b[(j + (n + 1)) - j]
      BY <3>1, <1>4, Zenon
    <3>4. h[j + n] = x \o g[n]
      BY <2>2, <1>10
    <3>5. PICK y, z \in Seq(Nat) : y = g[n] /\ z = b[n + 1]
      BY <3>1, <1>7, ElementOfSeq
    <3>6. Regrouped(x, y, z)
      BY IsRegrouped
    <3>7. h[j + (n + 1)] = x \o g[n + 1]
      BY <3>1, <3>2, <3>3, <3>4, <3>5, <3>6, Zenon DEF Regrouped
    <3>8. QED
      BY <3>1, <3>7, <1>10
  <2> HIDE DEF T
  <2>3. QED
    BY <2>1, <2>2, FiniteInduction
<1>12. h[j + k] = f[j] \o g[k]
  BY <1>11, k \in 0..k
<1>13. QED
  BY <1>2, <1>5, <1>6, <1>7, <1>8, <1>12, Zenon

(* Nothing makes nothing. *)
LEMMA FlatOfNone ==
  ASSUME NEW list \in Seq(Seq(Nat)), \A n \in 1..Len(list) : list[n] = <<>>
  PROVE  FlattenSeq(list) = <<>>
<1>1. PICK k \in Nat : k = Len(list)
  OBVIOUS
<1>2. PICK f : /\ f \in [0..k -> Seq(Nat)] /\ f[0] = <<>> /\ FlattenSeq(list) = f[k]
               /\ \A n \in 1..k : f[n] = f[n - 1] \o list[n]
  BY <1>1, FlatIsPrefixes
<1> DEFINE S == {n \in Nat : f[n] = <<>>}
<1>3. <<>> \o <<>> = <<>>
  BY EmptySeq, ConcatEmptySeq
<1>4. \A n \in 0..k : n \in S
  <2>1. 0 \in S
    BY <1>2
  <2>2. ASSUME NEW n \in 0..(k - 1), n \in S PROVE n + 1 \in S
    <3>1. n + 1 \in 1..k /\ (n + 1) - 1 = n /\ n + 1 \in Nat
      OBVIOUS
    <3>2. f[n + 1] = f[(n + 1) - 1] \o list[n + 1] /\ list[n + 1] = <<>>
      BY <3>1, <1>1, <1>2, Zenon
    <3>3. f[n] = <<>>
      BY <2>2
    <3>4. f[n + 1] = <<>>
      BY <3>1, <3>2, <3>3, <1>3, Zenon
    <3>5. QED
      BY <3>1, <3>4
  <2> HIDE DEF S
  <2>3. QED
    BY <2>1, <2>2, FiniteInduction
<1>5. QED
  BY <1>2, <1>4, k \in 0..k

(* One part makes itself. *)
LEMMA FlatOfOne ==
  ASSUME NEW s \in Seq(Nat)
  PROVE  <<s>> \in Seq(Seq(Nat)) /\ FlattenSeq(<<s>>) = s
<1>1. <<s>> \in Seq(Seq(Nat)) /\ Len(<<s>>) = 1 /\ <<s>>[1] = s
  OBVIOUS
<1>2. PICK list \in Seq(Seq(Nat)) : list = <<s>> /\ Len(list) = 1 /\ list[1] = s
  BY <1>1
<1>3. PICK f : /\ f \in [0..1 -> Seq(Nat)] /\ f[0] = <<>> /\ FlattenSeq(list) = f[1]
               /\ \A n \in 1..1 : f[n] = f[n - 1] \o list[n]
  <2>1. PICK k : k = Len(list)
    OBVIOUS
  <2>2. \E f : /\ f \in [0..k -> Seq(Nat)] /\ f[0] = <<>> /\ FlattenSeq(list) = f[k]
               /\ \A n \in 1..k : f[n] = f[n - 1] \o list[n]
    BY <2>1, FlatIsPrefixes
  <2>3. k = 1
    BY <2>1, <1>2
  <2>4. QED
    BY <2>2, <2>3
<1>4. 1 \in 1..1 /\ 1 - 1 = 0
  OBVIOUS
<1>5. f[1] = f[1 - 1] \o list[1]
  BY <1>3, <1>4
<1>6. <<>> \o s = s
  BY ConcatEmptySeq
<1>7. QED
  BY <1>1, <1>2, <1>3, <1>4, <1>5, <1>6

(* Bytes are made of the parts that they are. *)
LEMMA FlatOfBytes ==
  ASSUME NEW s \in Seq(Nat)
  PROVE  FlattenSeq([i \in 1..Len(s) |-> <<s[i]>>]) = s
<1>1. PICK k \in Nat : k = Len(s)
  OBVIOUS
<1>2. PICK L : L = Seq(Nat)
  OBVIOUS
<1>3. PICK list : list = [i \in 1..k |-> <<s[i]>>]
  OBVIOUS
<1>4. \A i \in 1..k : list[i] = <<s[i]>> /\ s[i] \in Nat
  BY <1>1, <1>3, ElementOfSeq
<1>5. \A b \in Nat : <<b>> \in Seq(Nat)
  OBVIOUS
<1>6. list \in [1..k -> L]
  BY <1>2, <1>3, <1>4, <1>5, Zenon
<1>7. list \in Seq(L) /\ Len(list) = k
  BY <1>6
<1>8. list \in Seq(Seq(Nat))
  BY <1>2, <1>7, Zenon
<1>9. PICK f : /\ f \in [0..k -> Seq(Nat)] /\ f[0] = <<>> /\ FlattenSeq(list) = f[k]
               /\ \A n \in 1..k : f[n] = f[n - 1] \o list[n]
  BY <1>7, <1>8, FlatIsPrefixes
<1> DEFINE S == {n \in Nat : f[n] = SubSeq(s, 1, n)}
<1>10. \A n \in 0..k : n \in S
  <2>1. 0 \in S
    <3>1. SubSeq(s, 1, 0) = <<>>
      BY SubSeqEmpty
    <3>2. QED
      BY <3>1, <1>9
  <2>2. ASSUME NEW n \in 0..(k - 1), n \in S PROVE n + 1 \in S
    <3>1. n + 1 \in 1..k /\ (n + 1) - 1 = n /\ n + 1 \in Nat /\ n + 1 \in 1..Len(s) /\ 1 \in 1..Len(s)
      BY <1>1
    <3>2. f[n + 1] = f[(n + 1) - 1] \o list[n + 1]
      BY <3>1, <1>9, Zenon
    <3>3. SubSeq(s, 1, n + 1) = SubSeq(s, 1, (n + 1) - 1) \o <<s[n + 1]>>
      BY <3>1, SubSeqRecursiveSecond
    <3>4. f[n] = SubSeq(s, 1, n)
      BY <2>2
    <3>5. f[n + 1] = SubSeq(s, 1, n + 1)
      BY <3>1, <3>2, <3>3, <3>4, <1>4, Zenon
    <3>6. QED
      BY <3>1, <3>5
  <2> HIDE DEF S
  <2>3. QED
    BY <2>1, <2>2, FiniteInduction
<1>11. f[k] = SubSeq(s, 1, k)
  BY <1>10, k \in 0..k
<1>12. SubSeq(s, 1, k) = s
  BY <1>1, SubSeqFull
<1>13. QED
  BY <1>1, <1>3, <1>9, <1>11, <1>12, Zenon

(* A record is laid out in parts: a byte that is none of a value (of no    *)
(* channel), or a value of a channel.  Each part adds to strands: to the   *)
(* record itself (-1), to the skeleton (0) and to its channel.             *)
PartsOf(w) ==
  {p \in [channel : 0..w, value : Seq(Nat)] : p.channel = 0 => Len(p.value) = 1}

ByteCode(b) == IF b = Marker THEN <<Marker, EscapedMarker>> ELSE <<b>>

PartCode(p) ==
  IF p.channel = 0 THEN ByteCode(p.value[1])
  ELSE <<Marker, MarkerChannel>> \o Varint(p.channel - 1)

Laid(p, c) ==
  IF c = -1 THEN p.value
  ELSE IF c = 0 THEN PartCode(p)
  ELSE IF p.channel = c THEN Sized(p.value) ELSE <<>>

Strand(parts, c) == [n \in 1..Len(parts) |-> Laid(parts[n], c)]

LaidOut(parts, w, data, skeleton, channels) ==
  /\ parts \in Seq(PartsOf(w))
  /\ data = FlattenSeq(Strand(parts, -1)) /\ skeleton = FlattenSeq(Strand(parts, 0))
  /\ channels = [c \in 1..w |-> FlattenSeq(Strand(parts, c))]

IsLaidOut(w, data, skeleton, channels) ==
  \E parts : LaidOut(parts, w, data, skeleton, channels)

(* The code of a byte is one or two bytes. *)
LEMMA ByteCodeIs ==
  ASSUME NEW b \in Nat
  PROVE  ByteCode(b) \in Seq(Nat) /\ ByteCode(b) # <<>>
<1>1. Marker \in Nat /\ EscapedMarker \in Nat
  BY DEF Marker, EscapedMarker
<1>2. \A x, y \in Nat : <<x, y>> \in Seq(Nat) /\ <<x, y>> # <<>> /\ <<x>> \in Seq(Nat) /\ <<x>> # <<>>
  OBVIOUS
<1>3. QED
  BY <1>1, <1>2, Zenon DEF ByteCode

(* What a part adds are bytes, and it adds to the skeleton. *)
LEMMA LaidIs ==
  ASSUME BytesAssumption, NEW w \in Nat, NEW p \in PartsOf(w), NEW c \in Int
  PROVE  /\ Laid(p, c) \in Seq(Nat) /\ PartCode(p) # <<>>
         /\ c \in 1..w /\ p.channel # c => Laid(p, c) = <<>>
         /\ c > w => Laid(p, c) = <<>>
<1>1. /\ p.channel \in 0..w /\ p.value \in Seq(Nat)
      /\ (p.channel = 0 => Len(p.value) = 1)
  BY DEF PartsOf
<1>2. PICK h \in 0..w, v \in Seq(Nat) : h = p.channel /\ v = p.value
  BY <1>1
<1>3. PartCode(p) \in Seq(Nat) /\ PartCode(p) # <<>>
  <2>1. CASE h = 0
    <3>1. 1 \in 1..Len(v)
      BY <2>1, <1>1, <1>2
    <3>2. v[1] \in Nat
      BY <3>1, ElementOfSeq
    <3>3. PICK b \in Nat : b = v[1]
      BY <3>2
    <3>4. PartCode(p) = ByteCode(b)
      BY <2>1, <3>3, <1>2, Zenon DEF PartCode
    <3>5. QED
      BY <3>4, ByteCodeIs, Zenon
  <2>2. CASE h # 0
    <3>1. h - 1 \in Nat
      BY <2>2
    <3>2. PICK s \in Seq(Nat) : s = Varint(h - 1)
      BY <3>1, VarintIs
    <3>3. Marker \in Nat /\ MarkerChannel \in Nat
      BY DEF Marker, MarkerChannel
    <3>4. \A x, y \in Nat : <<x, y>> \in Seq(Nat) /\ Len(<<x, y>>) = 2
      OBVIOUS
    <3>5. PICK m \in Seq(Nat) : m = <<Marker, MarkerChannel>> /\ Len(m) = 2
      BY <3>3, <3>4
    <3>6. m \o s \in Seq(Nat) /\ Len(m \o s) = 2 + Len(s) /\ Len(s) \in Nat
      BY <3>5, ConcatProperties
    <3>7. m \o s # <<>>
      BY <3>6, EmptySeq
    <3>8. PartCode(p) = m \o s
      BY <2>2, <3>2, <3>5, <1>2, Zenon DEF PartCode
    <3>9. QED
      BY <3>6, <3>7, <3>8, Zenon
  <2>3. QED
    BY <2>1, <2>2
<1>4. Sized(v) \in Seq(Nat) /\ <<>> \in Seq(Nat)
  BY SizedIs, EmptySeq
<1>5. Laid(p, c) \in Seq(Nat)
  BY <1>2, <1>3, <1>4, Zenon DEF Laid
<1>6. ASSUME c \in 1..w, p.channel # c PROVE Laid(p, c) = <<>>
  <2>1. c # -1 /\ c # 0
    BY <1>6
  <2>2. QED
    BY <2>1, <1>6, Zenon DEF Laid
<1>7. ASSUME c > w PROVE Laid(p, c) = <<>>
  <2>1. c # -1 /\ c # 0 /\ h # c
    BY <1>7
  <2>2. QED
    BY <2>1, <1>2, Zenon DEF Laid
<1>8. QED
  BY <1>3, <1>5, <1>6, <1>7

(* A strand is what the parts add, one after the other. *)
LEMMA StrandIs ==
  ASSUME BytesAssumption, NEW w \in Nat, NEW parts \in Seq(PartsOf(w)), NEW c \in Int
  PROVE  /\ Strand(parts, c) \in Seq(Seq(Nat)) /\ Len(Strand(parts, c)) = Len(parts)
         /\ \A n \in 1..Len(parts) : Strand(parts, c)[n] = Laid(parts[n], c)
         /\ FlattenSeq(Strand(parts, c)) \in Seq(Nat)
<1>1. PICK k \in Nat : k = Len(parts)
  OBVIOUS
<1>2. PICK L, list : L = Seq(Nat) /\ list = [n \in 1..k |-> Laid(parts[n], c)]
  OBVIOUS
<1>3. list = Strand(parts, c)
  BY <1>1, <1>2, Zenon DEF Strand
<1>4. \A n \in 1..k : Laid(parts[n], c) \in L
  <2>1. TAKE n \in 1..k
  <2>2. parts[n] \in PartsOf(w)
    BY <1>1, ElementOfSeq
  <2>3. QED
    BY <2>2, <1>2, LaidIs
<1>5. list \in [1..k -> L] /\ \A n \in 1..k : list[n] = Laid(parts[n], c)
  BY <1>2, <1>4, Zenon
<1>6. list \in Seq(L) /\ Len(list) = k
  BY <1>5
<1>7. list \in Seq(Seq(Nat))
  BY <1>2, <1>6, Zenon
<1>8. FlattenSeq(list) \in Seq(Nat)
  BY <1>7, PartsFit
<1>9. QED
  BY <1>1, <1>2, <1>3, <1>5, <1>6, <1>7, <1>8, Zenon

(* What more parts add comes behind what others did. *)
LEMMA StrandJoins ==
  ASSUME BytesAssumption, NEW w \in Nat, NEW a \in Seq(PartsOf(w)), NEW b \in Seq(PartsOf(w)),
         NEW c \in Int
  PROVE  /\ a \o b \in Seq(PartsOf(w))
         /\ FlattenSeq(Strand(a \o b, c)) = FlattenSeq(Strand(a, c)) \o FlattenSeq(Strand(b, c))
<1>1. PICK j, k \in Nat : j = Len(a) /\ k = Len(b)
  OBVIOUS
<1>2. PICK ab \in Seq(PartsOf(w)) :
        /\ ab = a \o b /\ Len(ab) = j + k
        /\ \A i \in 1..(j + k) : ab[i] = IF i <= j THEN a[i] ELSE b[i - j]
  <2>1. PICK P, x, y : P = PartsOf(w) /\ x = a /\ y = b
    OBVIOUS
  <2>2. Len(x) = j /\ Len(y) = k /\ x \in Seq(P) /\ y \in Seq(P)
    BY <2>1, <1>1
  <2>3. /\ x \o y \in Seq(P) /\ Len(x \o y) = j + k
        /\ \A i \in 1..(j + k) : (x \o y)[i] = IF i <= j THEN x[i] ELSE y[i - j]
    BY ONLY <2>2, ConcatProperties
  <2>4. QED
    BY <2>1, <2>3, Zenon
<1>3. PICK s, t, u : s = Strand(a, c) /\ t = Strand(b, c) /\ u = Strand(ab, c)
  OBVIOUS
<1>4. /\ s \in Seq(Seq(Nat)) /\ Len(s) = j /\ \A n \in 1..j : s[n] = Laid(a[n], c)
      /\ t \in Seq(Seq(Nat)) /\ Len(t) = k /\ \A n \in 1..k : t[n] = Laid(b[n], c)
      /\ u \in Seq(Seq(Nat)) /\ Len(u) = j + k /\ \A n \in 1..(j + k) : u[n] = Laid(ab[n], c)
  <2>1. s \in Seq(Seq(Nat)) /\ Len(s) = j /\ \A n \in 1..j : s[n] = Laid(a[n], c)
    BY <1>1, <1>3, StrandIs
  <2>2. t \in Seq(Seq(Nat)) /\ Len(t) = k /\ \A n \in 1..k : t[n] = Laid(b[n], c)
    BY <1>1, <1>3, StrandIs
  <2>3. u \in Seq(Seq(Nat)) /\ Len(u) = j + k /\ \A n \in 1..(j + k) : u[n] = Laid(ab[n], c)
    BY <1>2, <1>3, StrandIs
  <2>4. QED
    BY <2>1, <2>2, <2>3
<1>5. PICK L : L = Seq(Nat)
  OBVIOUS
<1>6. s \in Seq(L) /\ t \in Seq(L) /\ u \in Seq(L)
  BY <1>4, <1>5, Zenon
<1>7. PICK v \in Seq(L) : /\ v = s \o t /\ Len(v) = j + k
                          /\ \A i \in 1..(j + k) : v[i] = IF i <= j THEN s[i] ELSE t[i - j]
  <2>1. PICK x, y : x = s /\ y = t
    OBVIOUS
  <2>2. Len(x) = j /\ Len(y) = k /\ x \in Seq(L) /\ y \in Seq(L)
    BY <2>1, <1>4, <1>6
  <2>3. /\ x \o y \in Seq(L) /\ Len(x \o y) = j + k
        /\ \A i \in 1..(j + k) : (x \o y)[i] = IF i <= j THEN x[i] ELSE y[i - j]
    BY ONLY <2>2, ConcatProperties
  <2>4. QED
    BY <2>1, <2>3, Zenon
<1>8. ASSUME NEW i \in 1..(j + k) PROVE u[i] = v[i]
  <2>1. CASE i <= j
    <3>1. i \in 1..j
      BY <2>1
    <3>2. QED
      BY <3>1, <2>1, <1>2, <1>4, <1>7, Zenon
  <2>2. CASE ~(i <= j)
    <3>1. i - j \in 1..k
      BY <2>2
    <3>2. QED
      BY <3>1, <2>2, <1>2, <1>4, <1>7, Zenon
  <2>3. QED
    BY <2>1, <2>2
<1>9. u = v
  <2>1. Len(u) = Len(v) /\ \A i \in 1..Len(u) : u[i] = v[i]
    BY <1>4, <1>7, <1>8
  <2>2. QED
    BY <2>1, <1>6, SeqEqual
<1>10. FlattenSeq(s \o t) = FlattenSeq(s) \o FlattenSeq(t)
  BY <1>4, FlatJoins
<1>11. QED
  BY <1>2, <1>3, <1>7, <1>9, <1>10, Zenon

(* What is laid out behind something else is laid out with it. *)
LEMMA LaidOutJoins ==
  ASSUME BytesAssumption, NEW w \in Nat, NEW d, NEW s, NEW C, NEW e, NEW t, NEW D,
         IsLaidOut(w, d, s, C), IsLaidOut(w, e, t, D)
  PROVE  IsLaidOut(w, d \o e, s \o t, [c \in 1..w |-> C[c] \o D[c]])
<1>1. PICK a : LaidOut(a, w, d, s, C)
  BY Zenon DEF IsLaidOut
<1>2. PICK b : LaidOut(b, w, e, t, D)
  BY Zenon DEF IsLaidOut
<1>3. a \in Seq(PartsOf(w)) /\ b \in Seq(PartsOf(w))
  BY <1>1, <1>2, Zenon DEF LaidOut
<1>4. PICK ab \in Seq(PartsOf(w)) :
        /\ ab = a \o b
        /\ \A c \in Int : FlattenSeq(Strand(ab, c)) = FlattenSeq(Strand(a, c)) \o FlattenSeq(Strand(b, c))
  <2>1. 0 \in Int
    OBVIOUS
  <2>2. a \o b \in Seq(PartsOf(w))
    BY <2>1, <1>3, StrandJoins
  <2>3. \A c \in Int : FlattenSeq(Strand(a \o b, c)) = FlattenSeq(Strand(a, c)) \o FlattenSeq(Strand(b, c))
    BY <1>3, StrandJoins
  <2>4. QED
    BY <2>2, <2>3
<1>5. d \o e = FlattenSeq(Strand(ab, -1))
  <2>1. -1 \in Int
    OBVIOUS
  <2>2. QED
    BY <2>1, <1>1, <1>2, <1>4, Zenon DEF LaidOut
<1>6. s \o t = FlattenSeq(Strand(ab, 0))
  <2>1. 0 \in Int
    OBVIOUS
  <2>2. QED
    BY <2>1, <1>1, <1>2, <1>4, Zenon DEF LaidOut
<1>7. ASSUME NEW c \in 1..w PROVE C[c] \o D[c] = FlattenSeq(Strand(ab, c))
  <2>1. c \in Int
    OBVIOUS
  <2>2. C[c] = FlattenSeq(Strand(a, c)) /\ D[c] = FlattenSeq(Strand(b, c))
    BY <1>1, <1>2, Zenon DEF LaidOut
  <2>3. QED
    BY <2>1, <2>2, <1>4, Zenon
<1>8. [c \in 1..w |-> C[c] \o D[c]] = [c \in 1..w |-> FlattenSeq(Strand(ab, c))]
  BY <1>7, Zenon
<1>9. LaidOut(ab, w, d \o e, s \o t, [c \in 1..w |-> C[c] \o D[c]])
  BY <1>4, <1>5, <1>6, <1>8, Zenon DEF LaidOut
<1>10. QED
  BY <1>9, Zenon DEF IsLaidOut

(* Bytes of no value are escaped into the skeleton. *)
LEMMA BytesAreLaidOut ==
  ASSUME BytesAssumption, NEW w \in Nat, NEW bytes \in Seq(Nat)
  PROVE  IsLaidOut(w, bytes, Escaped(bytes), [c \in 1..w |-> <<>>])
<1>1. PICK k \in Nat : k = Len(bytes)
  OBVIOUS
<1>2. PICK P, part : P = PartsOf(w) /\ part = [n \in 1..k |-> [channel |-> 0, value |-> <<bytes[n]>>]]
  OBVIOUS
<1>3. ASSUME NEW n \in 1..k
      PROVE  /\ part[n] \in P /\ part[n].channel = 0 /\ part[n].value = <<bytes[n]>>
             /\ PartCode(part[n]) = ByteCode(bytes[n])
  <2>1. PICK b \in Nat : b = bytes[n]
    BY <1>1, ElementOfSeq
  <2>2. part[n] = [channel |-> 0, value |-> <<b>>]
    BY <1>2, <2>1, Zenon
  <2>3. PICK p : p = [channel |-> 0, value |-> <<b>>]
    OBVIOUS
  <2>4. p \in [channel : 0..w, value : Seq(Nat)] /\ p.channel = 0 /\ p.value = <<b>> /\ Len(<<b>>) = 1
        /\ <<b>>[1] = b
    BY <2>3
  <2>5. p \in PartsOf(w)
    BY <2>4, Zenon DEF PartsOf
  <2>6. PartCode(p) = ByteCode(b)
    BY <2>4, Zenon DEF PartCode
  <2>7. QED
    BY <1>2, <2>1, <2>2, <2>3, <2>4, <2>5, <2>6, Zenon
<1>4. part \in [1..k -> P]
  <2>1. part = [n \in 1..k |-> part[n]]
    BY <1>2
  <2>2. QED
    BY <2>1, <1>3, Zenon
<1>5. part \in Seq(P) /\ Len(part) = k
  BY <1>4
<1>6. part \in Seq(PartsOf(w))
  BY <1>2, <1>5, Zenon
<1>7. ASSUME NEW c \in Int
      PROVE  Strand(part, c) = [n \in 1..k |-> Laid(part[n], c)]
  BY <1>5, Zenon DEF Strand
<1>8. bytes = FlattenSeq(Strand(part, -1))
  <2>1. \A n \in 1..k : Laid(part[n], -1) = <<bytes[n]>>
    BY <1>3, Zenon DEF Laid
  <2>2. -1 \in Int
    OBVIOUS
  <2>3. Strand(part, -1) = [n \in 1..k |-> <<bytes[n]>>]
    BY <2>1, <2>2, <1>7, Zenon
  <2>4. FlattenSeq([n \in 1..Len(bytes) |-> <<bytes[n]>>]) = bytes
    BY FlatOfBytes
  <2>5. QED
    BY <2>3, <2>4, <1>1, Zenon
<1>9. Escaped(bytes) = FlattenSeq(Strand(part, 0))
  <2>1. 0 \in Int /\ 0 # -1
    OBVIOUS
  <2>2. \A n \in 1..k : Laid(part[n], 0) = ByteCode(bytes[n])
    BY <2>1, <1>3, Zenon DEF Laid
  <2>3. Strand(part, 0) = [n \in 1..k |-> ByteCode(bytes[n])]
    BY <2>1, <2>2, <1>7, Zenon
  <2>4. DOMAIN bytes = 1..k
    BY <1>1
  <2>5. Escaped(bytes) = FlattenSeq([n \in 1..k |-> ByteCode(bytes[n])])
    BY <2>4, Zenon DEF Escaped, ByteCode
  <2>6. QED
    BY <2>3, <2>5, Zenon
<1>10. ASSUME NEW c \in 1..w PROVE <<>> = FlattenSeq(Strand(part, c))
  <2>1. c \in Int /\ c # 0
    OBVIOUS
  <2>2. PICK list \in Seq(Seq(Nat)) :
          list = Strand(part, c) /\ Len(list) = k /\ \A n \in 1..k : list[n] = Laid(part[n], c)
    BY <2>1, <1>5, <1>6, StrandIs
  <2>3. \A n \in 1..k : Laid(part[n], c) = <<>>
    <3>1. TAKE n \in 1..k
    <3>2. part[n] \in PartsOf(w) /\ part[n].channel # c
      BY <1>2, <1>3, <2>1
    <3>3. QED
      BY <3>2, <2>1, LaidIs
  <2>4. FlattenSeq(list) = <<>>
    BY <2>2, <2>3, FlatOfNone
  <2>5. QED
    BY <2>2, <2>4, Zenon
<1>11. [c \in 1..w |-> <<>>] = [c \in 1..w |-> FlattenSeq(Strand(part, c))]
  BY <1>10, Zenon
<1>12. LaidOut(part, w, bytes, Escaped(bytes), [c \in 1..w |-> <<>>])
  BY <1>6, <1>8, <1>9, <1>11, Zenon DEF LaidOut
<1>13. QED
  BY <1>12, Zenon DEF IsLaidOut

(* A value is in its channel, and the skeleton has its place. *)
LEMMA ValueIsLaidOut ==
  ASSUME BytesAssumption, NEW w \in Nat, NEW h \in 1..w, NEW v \in Seq(Nat)
  PROVE  IsLaidOut(w, v, <<Marker, MarkerChannel>> \o Varint(h - 1),
                   [c \in 1..w |-> IF c = h THEN Sized(v) ELSE <<>>])
<1>1. PICK p, parts : p = [channel |-> h, value |-> v] /\ parts = <<p>>
  OBVIOUS
<1>2. p.channel = h /\ p.value = v /\ h # 0 /\ p \in [channel : 0..w, value : Seq(Nat)]
  BY <1>1
<1>3. p \in PartsOf(w)
  BY <1>2, Zenon DEF PartsOf
<1>4. parts \in Seq(PartsOf(w)) /\ Len(parts) = 1 /\ parts[1] = p
  BY <1>1, <1>3
<1>5. ASSUME NEW c \in Int PROVE FlattenSeq(Strand(parts, c)) = Laid(p, c)
  <2>1. PICK s \in Seq(Nat) : s = Laid(p, c)
    BY <1>3, LaidIs
  <2>2. Strand(parts, c) = [n \in 1..1 |-> Laid(parts[n], c)]
    BY <1>4, Zenon DEF Strand
  <2>3. [n \in 1..1 |-> Laid(parts[n], c)] = [n \in 1..1 |-> s]
    <3>1. \A n \in 1..1 : n = 1
      OBVIOUS
    <3>2. \A n \in 1..1 : Laid(parts[n], c) = s
      BY <3>1, <2>1, <1>4, Zenon
    <3>3. QED
      BY <3>2, Zenon
  <2>4. [n \in 1..1 |-> s] = <<s>>
    OBVIOUS
  <2>5. FlattenSeq(<<s>>) = s
    BY FlatOfOne
  <2>6. QED
    BY <2>1, <2>2, <2>3, <2>4, <2>5, Zenon
<1>6. v = FlattenSeq(Strand(parts, -1))
  <2>1. -1 \in Int
    OBVIOUS
  <2>2. QED
    BY <2>1, <1>2, <1>5, Zenon DEF Laid
<1>7. <<Marker, MarkerChannel>> \o Varint(h - 1) = FlattenSeq(Strand(parts, 0))
  <2>1. 0 \in Int /\ 0 # -1
    OBVIOUS
  <2>2. QED
    BY <2>1, <1>2, <1>5, Zenon DEF Laid, PartCode
<1>8. ASSUME NEW c \in 1..w
      PROVE  (IF c = h THEN Sized(v) ELSE <<>>) = FlattenSeq(Strand(parts, c))
  <2>1. c \in Int /\ c # 0 /\ c # -1
    OBVIOUS
  <2>2. Laid(p, c) = IF c = h THEN Sized(v) ELSE <<>>
    BY <2>1, <1>2, Zenon DEF Laid
  <2>3. QED
    BY <2>1, <2>2, <1>5, Zenon
<1>9. [c \in 1..w |-> IF c = h THEN Sized(v) ELSE <<>>] = [c \in 1..w |-> FlattenSeq(Strand(parts, c))]
  BY <1>8, Zenon
<1>10. LaidOut(parts, w, v, <<Marker, MarkerChannel>> \o Varint(h - 1),
               [c \in 1..w |-> IF c = h THEN Sized(v) ELSE <<>>])
  BY <1>4, <1>6, <1>7, <1>9, Zenon DEF LaidOut
<1>11. QED
  BY <1>10, Zenon DEF IsLaidOut

(* New channels are empty. *)
LEMMA WiderIsLaidOut ==
  ASSUME BytesAssumption, NEW w \in Nat, NEW v \in Nat, w <= v, NEW d, NEW s, NEW C,
         IsLaidOut(w, d, s, C)
  PROVE  IsLaidOut(v, d, s, [c \in 1..v |-> IF c \in 1..w THEN C[c] ELSE <<>>])
<1>1. PICK parts : LaidOut(parts, w, d, s, C)
  BY Zenon DEF IsLaidOut
<1>2. parts \in Seq(PartsOf(w))
  BY <1>1, Zenon DEF LaidOut
<1>3. parts \in Seq(PartsOf(v))
  <2>1. ASSUME NEW p \in PartsOf(w) PROVE p \in PartsOf(v)
    <3>1. p \in [channel : 0..w, value : Seq(Nat)] /\ (p.channel = 0 => Len(p.value) = 1)
      BY Zenon DEF PartsOf
    <3>2. p \in [channel : 0..v, value : Seq(Nat)]
      BY <3>1
    <3>3. QED
      BY <3>1, <3>2, Zenon DEF PartsOf
  <2>2. PICK P, Q : P = PartsOf(w) /\ Q = PartsOf(v)
    OBVIOUS
  <2>3. P \subseteq Q
    BY <2>1, <2>2
  <2>4. parts \in Seq(Q)
    <3>1. parts \in Seq(P)
      BY <1>2, <2>2
    <3>2. QED
      BY <3>1, <2>3, SeqMonotonic
  <2>5. QED
    BY <2>2, <2>4
<1>4. ASSUME NEW c \in 1..v
      PROVE  (IF c \in 1..w THEN C[c] ELSE <<>>) = FlattenSeq(Strand(parts, c))
  <2>1. CASE c \in 1..w
    BY <2>1, <1>1, Zenon DEF LaidOut
  <2>2. CASE ~(c \in 1..w)
    <3>1. c \in Int /\ c > w
      BY <2>2
    <3>2. PICK list \in Seq(Seq(Nat)) :
            list = Strand(parts, c) /\ Len(list) = Len(parts) /\ \A n \in 1..Len(parts) : list[n] = Laid(parts[n], c)
      BY <3>1, <1>2, StrandIs
    <3>3. \A n \in 1..Len(parts) : Laid(parts[n], c) = <<>>
      <4>1. TAKE n \in 1..Len(parts)
      <4>2. parts[n] \in PartsOf(w)
        BY <1>2, ElementOfSeq
      <4>3. QED
        BY <4>2, <3>1, LaidIs
    <3>4. FlattenSeq(list) = <<>>
      BY <3>2, <3>3, FlatOfNone
    <3>5. QED
      BY <2>2, <3>2, <3>4, Zenon
  <2>3. QED
    BY <2>1, <2>2
<1>5. [c \in 1..v |-> IF c \in 1..w THEN C[c] ELSE <<>>] = [c \in 1..v |-> FlattenSeq(Strand(parts, c))]
  BY <1>4, Zenon
<1>6. d = FlattenSeq(Strand(parts, -1)) /\ s = FlattenSeq(Strand(parts, 0))
  BY <1>1, Zenon DEF LaidOut
<1>7. LaidOut(parts, v, d, s, [c \in 1..v |-> IF c \in 1..w THEN C[c] ELSE <<>>])
  BY <1>3, <1>5, <1>6, Zenon DEF LaidOut
<1>8. QED
  BY <1>7, Zenon DEF IsLaidOut

(* What is laid out are bytes. *)
LEMMA LaidOutIs ==
  ASSUME BytesAssumption, NEW w \in Nat, NEW d, NEW s, NEW C, IsLaidOut(w, d, s, C)
  PROVE  /\ d \in Seq(Nat) /\ s \in Seq(Nat)
         /\ C \in Seq(Seq(Nat)) /\ Len(C) = w /\ DOMAIN C = 1..w
         /\ \A c \in 1..w : C[c] \in Seq(Nat)
<1>1. PICK parts : LaidOut(parts, w, d, s, C)
  BY Zenon DEF IsLaidOut
<1>2. parts \in Seq(PartsOf(w))
  BY <1>1, Zenon DEF LaidOut
<1>3. \A c \in Int : FlattenSeq(Strand(parts, c)) \in Seq(Nat)
  BY <1>2, StrandIs
<1>4. d \in Seq(Nat)
  <2>1. -1 \in Int
    OBVIOUS
  <2>2. QED
    BY <2>1, <1>1, <1>3, Zenon DEF LaidOut
<1>5. s \in Seq(Nat)
  <2>1. 0 \in Int
    OBVIOUS
  <2>2. QED
    BY <2>1, <1>1, <1>3, Zenon DEF LaidOut
<1>6. PICK L : L = Seq(Nat)
  OBVIOUS
<1>7. C = [c \in 1..w |-> FlattenSeq(Strand(parts, c))]
  BY <1>1, Zenon DEF LaidOut
<1>8. \A c \in 1..w : FlattenSeq(Strand(parts, c)) \in L
  <2>1. TAKE c \in 1..w
  <2>2. c \in Int
    OBVIOUS
  <2>3. QED
    BY <2>2, <1>3, <1>6, Zenon
<1>9. C \in [1..w -> L] /\ \A c \in 1..w : C[c] \in L
  BY <1>7, <1>8, Zenon
<1>10. C \in Seq(L) /\ Len(C) = w /\ DOMAIN C = 1..w
  BY <1>9
<1>11. QED
  BY <1>4, <1>5, <1>6, <1>9, <1>10, Zenon

(* Bytes of no value come to the skeleton, *)
LEMMA MoreBytes ==
  ASSUME BytesAssumption, NEW w \in Nat, NEW d, NEW s, NEW C, IsLaidOut(w, d, s, C),
         NEW bytes \in Seq(Nat)
  PROVE  IsLaidOut(w, d \o bytes, s \o Escaped(bytes), C)
<1>1. PICK D : D = [c \in 1..w |-> <<>>]
  OBVIOUS
<1>2. IsLaidOut(w, bytes, Escaped(bytes), D)
  BY <1>1, BytesAreLaidOut
<1>3. IsLaidOut(w, d \o bytes, s \o Escaped(bytes), [c \in 1..w |-> C[c] \o D[c]])
  BY <1>2, LaidOutJoins
<1>4. [c \in 1..w |-> C[c] \o D[c]] = C
  <2>1. C = [c \in 1..w |-> C[c]] /\ \A c \in 1..w : C[c] \in Seq(Nat)
    <3>1. C \in Seq(Seq(Nat)) /\ Len(C) = w /\ \A c \in 1..w : C[c] \in Seq(Nat)
      BY LaidOutIs
    <3>2. PICK L : L = Seq(Nat)
      OBVIOUS
    <3>3. C \in Seq(L) /\ Len(C) = w
      BY <3>1, <3>2
    <3>4. C = [c \in 1..w |-> C[c]]
      BY <3>3
    <3>5. QED
      BY <3>1, <3>4
  <2>2. \A c \in 1..w : C[c] \o D[c] = C[c]
    <3>1. TAKE c \in 1..w
    <3>2. PICK x \in Seq(Nat) : x = C[c]
      BY <2>1
    <3>3. x \o <<>> = x
      BY ConcatEmptySeq
    <3>4. D[c] = <<>>
      BY <1>1
    <3>5. QED
      BY <3>2, <3>3, <3>4, Zenon
  <2>3. [c \in 1..w |-> C[c] \o D[c]] = [c \in 1..w |-> C[c]]
    BY <2>2, Zenon
  <2>4. QED
    BY <2>1, <2>3, Zenon
<1>5. QED
  BY <1>3, <1>4, Zenon

(* and values to their channels. *)
LEMMA MoreOfValue ==
  ASSUME BytesAssumption, NEW w \in Nat, NEW d, NEW s, NEW C, IsLaidOut(w, d, s, C),
         NEW h \in 1..w, NEW v \in Seq(Nat)
  PROVE  IsLaidOut(w, d \o v, s \o (<<Marker, MarkerChannel>> \o Varint(h - 1)),
                   [C EXCEPT ![h] = C[h] \o Sized(v)])
<1>1. PICK D : D = [c \in 1..w |-> IF c = h THEN Sized(v) ELSE <<>>]
  OBVIOUS
<1>2. IsLaidOut(w, v, <<Marker, MarkerChannel>> \o Varint(h - 1), D)
  BY <1>1, ValueIsLaidOut
<1>3. IsLaidOut(w, d \o v, s \o (<<Marker, MarkerChannel>> \o Varint(h - 1)), [c \in 1..w |-> C[c] \o D[c]])
  BY <1>2, LaidOutJoins
<1>4. [c \in 1..w |-> C[c] \o D[c]] = [C EXCEPT ![h] = C[h] \o Sized(v)]
  <2>1. DOMAIN C = 1..w /\ \A c \in 1..w : C[c] \in Seq(Nat)
    BY LaidOutIs
  <2>2. \A c \in 1..w : C[c] \o D[c] = IF c = h THEN C[h] \o Sized(v) ELSE C[c]
    <3>1. TAKE c \in 1..w
    <3>2. CASE c = h
      BY <3>2, <1>1, Zenon
    <3>3. CASE c # h
      <4>1. PICK x \in Seq(Nat) : x = C[c]
        BY <2>1
      <4>2. x \o <<>> = x
        BY ConcatEmptySeq
      <4>3. D[c] = <<>>
        BY <1>1, <3>3
      <4>4. QED
        BY <3>3, <4>1, <4>2, <4>3, Zenon
    <3>4. QED
      BY <3>2, <3>3
  <2>3. PICK y : y = C[h] \o Sized(v)
    OBVIOUS
  <2>4. [C EXCEPT ![h] = y] = [c \in 1..w |-> IF c = h THEN y ELSE C[c]]
    BY <2>1
  <2>5. [c \in 1..w |-> C[c] \o D[c]] = [c \in 1..w |-> IF c = h THEN y ELSE C[c]]
    BY <2>2, <2>3, Zenon
  <2>6. QED
    BY <2>3, <2>4, <2>5, Zenon
<1>5. QED
  BY <1>3, <1>4, Zenon

(* What the parser makes of a record, whatever the keys are. *)
JsonField(K) == [key : K, before : Seq(Nat), value : Seq(Nat)]
JsonRecord(K) == [json : BOOLEAN, fields : Seq(JsonField(K)), after : Seq(Nat)]

(* These columns are what the writer has made of these bytes. *)
HasMade(K, columns, d) ==
  /\ columns = [keys |-> columns.keys, skeleton |-> columns.skeleton, channels |-> columns.channels]
  /\ columns.keys \in Seq(K)
  /\ IsLaidOut(Len(columns.keys), d, columns.skeleton, columns.channels)

Columns(K) == [keys : Seq(K), skeleton : Seq(Nat), channels : Seq(Seq(Nat))]

(* What the writer has made are bytes. *)
LEMMA MadeAre ==
  ASSUME BytesAssumption, NEW K, NEW columns, NEW d, HasMade(K, columns, d)
  PROVE  columns \in Columns(K)
<1>1. PICK k, s, C : k = columns.keys /\ s = columns.skeleton /\ C = columns.channels
  OBVIOUS
<1>2. columns = [keys |-> k, skeleton |-> s, channels |-> C] /\ k \in Seq(K) /\ IsLaidOut(Len(k), d, s, C)
  BY <1>1, Zenon DEF HasMade
<1>3. Len(k) \in Nat
  BY <1>2
<1>4. s \in Seq(Nat) /\ C \in Seq(Seq(Nat))
  BY <1>2, <1>3, LaidOutIs
<1>5. PICK M : M = Seq(Seq(Nat))
  OBVIOUS
<1>6. columns \in [keys : Seq(K), skeleton : Seq(Nat), channels : M]
  BY <1>2, <1>4, <1>5
<1>7. QED
  BY <1>5, <1>6, Zenon DEF Columns

(* One more field changes the skeleton and the channel of its key. *)
LEMMA WithFieldIs ==
  ASSUME NEW k, NEW s, NEW C, NEW field
  PROVE  WithField([keys |-> k, skeleton |-> s, channels |-> C], field)
           = [keys |-> k,
              skeleton |-> s \o Escaped(field.before) \o <<Marker, MarkerChannel>>
                             \o Varint(Position(k, field.key) - 1),
              channels |-> [C EXCEPT ![Position(k, field.key)]
                                       = C[Position(k, field.key)] \o Sized(field.value)]]
<1>1. PICK columns : columns = [keys |-> k, skeleton |-> s, channels |-> C]
  OBVIOUS
<1>2. columns.keys = k /\ columns.skeleton = s /\ columns.channels = C
  BY <1>1
<1>3. PICK h : h = Position(k, field.key)
  OBVIOUS
<1>4. PICK t, v : t = s \o Escaped(field.before) \o <<Marker, MarkerChannel>> \o Varint(h - 1)
                  /\ v = C[h] \o Sized(field.value)
  OBVIOUS
<1>5. WithField(columns, field) = [columns EXCEPT !.skeleton = t, !.channels[h] = v]
  BY <1>2, <1>3, <1>4, Zenon DEF WithField
<1>6. PICK D : D = [C EXCEPT ![h] = v]
  OBVIOUS
<1>7. PICK more : more = [columns EXCEPT !.skeleton = t, !.channels[h] = v]
  OBVIOUS
<1>8. more.keys = k /\ more.skeleton = t /\ more.channels = [C EXCEPT ![h] = v]
  BY <1>1, <1>7
<1>9. more.channels = D
  BY <1>6, <1>8, Zenon
<1>10. more = [keys |-> k, skeleton |-> t, channels |-> D]
  BY <1>1, <1>7, <1>8, <1>9
<1>11. QED
  BY <1>1, <1>3, <1>4, <1>5, <1>6, <1>7, <1>10, Zenon

(* One more field, whose key has a channel. *)
LEMMA AddsField ==
  ASSUME BytesAssumption, NEW K, NEW columns, NEW d, HasMade(K, columns, d),
         NEW field \in JsonField(K), Contains(columns.keys, field.key)
  PROVE  /\ HasMade(K, WithField(columns, field), d \o FieldData(field))
         /\ WithField(columns, field).keys = columns.keys
<1>1. PICK k, s, C : k = columns.keys /\ s = columns.skeleton /\ C = columns.channels
  OBVIOUS
<1>2. columns = [keys |-> k, skeleton |-> s, channels |-> C] /\ k \in Seq(K) /\ IsLaidOut(Len(k), d, s, C)
  BY <1>1, Zenon DEF HasMade
<1>3. PICK w \in Nat : w = Len(k)
  BY <1>2
<1>4. field.before \in Seq(Nat) /\ field.value \in Seq(Nat)
  BY DEF JsonField
<1>5. PICK before, value \in Seq(Nat) : before = field.before /\ value = field.value
  BY <1>4
<1>6. PICK h \in 1..w : h = Position(k, field.key)
  <2>1. \E i \in DOMAIN k : k[i] = field.key
    <3>1. \E i \in 1..Len(k) : k[i] = field.key
      BY <1>1, Zenon DEF Contains
    <3>2. DOMAIN k = 1..Len(k)
      BY <1>2
    <3>3. QED
      BY <3>1, <3>2, Zenon
  <2>2. Position(k, field.key) \in DOMAIN k
    BY <2>1, Zenon DEF Position
  <2>3. DOMAIN k = 1..w
    BY <1>2, <1>3
  <2>4. QED
    BY <2>2, <2>3, Zenon
<1>7. /\ d \in Seq(Nat) /\ s \in Seq(Nat)
  BY <1>2, <1>3, LaidOutIs
<1>8. IsLaidOut(w, d \o before, s \o Escaped(before), C)
  BY <1>2, <1>3, MoreBytes
<1>9. PICK e, t \in Seq(Nat) : e = d \o before /\ t = s \o Escaped(before)
  <2>1. d \o before \in Seq(Nat) /\ s \o Escaped(before) \in Seq(Nat)
    BY <1>3, <1>8, LaidOutIs
  <2>2. QED
    BY <2>1
<1>10. PICK D : D = [C EXCEPT ![h] = C[h] \o Sized(value)]
  OBVIOUS
<1>11. IsLaidOut(w, e \o value, t \o (<<Marker, MarkerChannel>> \o Varint(h - 1)), D)
  BY <1>8, <1>9, <1>10, MoreOfValue
<1>12. PICK u : u = t \o <<Marker, MarkerChannel>> \o Varint(h - 1)
  OBVIOUS
<1>13. u = t \o (<<Marker, MarkerChannel>> \o Varint(h - 1))
  <2>1. h - 1 \in Nat /\ Marker \in Nat /\ MarkerChannel \in Nat
    BY DEF Marker, MarkerChannel
  <2>2. PICK x \in Seq(Nat) : x = Varint(h - 1)
    BY <2>1, VarintIs
  <2>3. PICK y \in Seq(Nat) : y = <<Marker, MarkerChannel>>
    <3>1. \A a, b \in Nat : <<a, b>> \in Seq(Nat)
      OBVIOUS
    <3>2. QED
      BY <2>1, <3>1, Zenon
  <2>4. Regrouped(t, y, x)
    BY IsRegrouped
  <2>5. QED
    BY <1>12, <2>2, <2>3, <2>4, Zenon DEF Regrouped
<1>14. e \o value = d \o FieldData(field)
  <2>1. Regrouped(d, before, value)
    BY <1>7, IsRegrouped
  <2>2. QED
    BY <2>1, <1>5, <1>9, Zenon DEF FieldData, Regrouped
<1>15. WithField(columns, field) = [keys |-> k, skeleton |-> u, channels |-> D]
  <2>1. WithField([keys |-> k, skeleton |-> s, channels |-> C], field)
           = [keys |-> k,
              skeleton |-> s \o Escaped(field.before) \o <<Marker, MarkerChannel>>
                             \o Varint(Position(k, field.key) - 1),
              channels |-> [C EXCEPT ![Position(k, field.key)]
                                       = C[Position(k, field.key)] \o Sized(field.value)]]
    BY WithFieldIs
  <2>2. QED
    BY <2>1, <1>2, <1>5, <1>6, <1>9, <1>10, <1>12, Zenon
<1>16. PICK more : more = [keys |-> k, skeleton |-> u, channels |-> D]
  OBVIOUS
<1>17. more.keys = k /\ more.skeleton = u /\ more.channels = D
  BY <1>16
<1>18. HasMade(K, more, d \o FieldData(field))
  <2>1. IsLaidOut(w, d \o FieldData(field), u, D)
    BY <1>11, <1>13, <1>14, Zenon
  <2>2. QED
    BY <2>1, <1>2, <1>3, <1>16, <1>17, Zenon DEF HasMade
<1>19. QED
  BY <1>1, <1>15, <1>16, <1>17, <1>18, Zenon

IsFilling(f, columns, fields) ==
  f = [n \in 0..Len(fields) |-> IF n = 0 THEN columns ELSE WithField(f[n - 1], fields[n])]

HasFilled(K, columns, d, fields) ==
  /\ HasMade(K, WithFields(columns, fields),
             d \o FlattenSeq([n \in DOMAIN fields |-> FieldData(fields[n])]))
  /\ WithFields(columns, fields).keys = columns.keys

(* The fields of a record are laid out one after the other. *)
LEMMA FillsFields ==
  ASSUME BytesAssumption, NEW K, NEW columns, NEW d, HasMade(K, columns, d),
         NEW fields \in Seq(JsonField(K)),
         \A n \in 1..Len(fields) : Contains(columns.keys, fields[n].key)
  PROVE  HasFilled(K, columns, d, fields)
<1>1. PICK k \in Nat : k = Len(fields)
  OBVIOUS
<1>2. PICK keys : keys = columns.keys
  OBVIOUS
<1>3. PICK L, list : L = Seq(Nat) /\ list = [n \in 1..k |-> FieldData(fields[n])]
  OBVIOUS
<1>4. ASSUME NEW n \in 1..k
      PROVE  fields[n] \in JsonField(K) /\ FieldData(fields[n]) \in L
  <2>1. fields[n] \in JsonField(K)
    BY <1>1, <1>2, ElementOfSeq
  <2>2. PICK field \in JsonField(K) : field = fields[n]
    BY <2>1
  <2>3. field.before \in Seq(Nat) /\ field.value \in Seq(Nat)
    BY DEF JsonField
  <2>4. field.before \o field.value \in Seq(Nat)
    BY <2>3, ConcatProperties
  <2>5. QED
    BY <1>3, <2>2, <2>4, Zenon DEF FieldData
<1>5. list \in [1..k -> L] /\ \A n \in 1..k : list[n] = FieldData(fields[n])
  BY <1>3, <1>4, Zenon
<1>6. list \in Seq(L) /\ Len(list) = k
  BY <1>5
<1>7. list \in Seq(Seq(Nat))
  BY <1>3, <1>6, Zenon
<1>8. PICK o : /\ o \in [0..k -> Seq(Nat)] /\ o[0] = <<>> /\ FlattenSeq(list) = o[k]
               /\ \A n \in 1..k : o[n] = o[n - 1] \o list[n]
  BY <1>6, <1>7, FlatIsPrefixes
<1> DEFINE V == {c \in Columns(K) : c.keys = keys /\ \E e : HasMade(K, c, e)}
           step == [pair \in (1..k) \X V |-> WithField(pair[2], fields[pair[1]])]
           f == CHOOSE g : IsFilling(g, columns, fields)
<1>9. columns \in V
  <2>1. columns \in Columns(K)
    BY MadeAre
  <2>2. QED
    BY <2>1, <1>1, <1>2
<1>10. ASSUME NEW n \in 1..k, NEW v \in V PROVE step[<<n, v>>] \in V /\ step[<<n, v>>] = WithField(v, fields[n])
  <2>1. step[<<n, v>>] = WithField(v, fields[n])
    BY Zenon
  <2>2. PICK e : HasMade(K, v, e)
    BY Zenon
  <2>3. v.keys = keys
    BY Zenon
  <2>4. Contains(v.keys, fields[n].key)
    BY <2>3, <1>1, <1>2
  <2>5. PICK field \in JsonField(K) : field = fields[n]
    BY <1>4
  <2>6. PICK more : more = WithField(v, field)
    OBVIOUS
  <2> HIDE DEF V, step
  <2>7. HasMade(K, more, e \o FieldData(field)) /\ more.keys = keys
    BY <2>2, <2>3, <2>4, <2>5, <2>6, AddsField
  <2>8. more \in Columns(K)
    BY <2>7, MadeAre
  <2>9. more \in V
    BY <2>7, <2>8, Zenon DEF V
  <2>10. QED
    BY <2>1, <2>5, <2>6, <2>9, Zenon
<1> HIDE DEF V, step
<1>11. PICK g : Iterates(g, V, columns, k, step)
  BY <1>9, <1>10, FiniteRecursion
<1>12. /\ g \in [0..k -> V] /\ g[0] = columns
       /\ \A n \in 1..k : g[n] = step[<<n, g[n - 1]>>]
  BY <1>11, Zenon DEF Iterates
<1>13. ASSUME NEW n \in 1..k PROVE n - 1 \in 0..k /\ g[n] = WithField(g[n - 1], fields[n])
  <2>1. n - 1 \in 0..k
    OBVIOUS
  <2>2. g[n - 1] \in V
    BY <2>1, <1>12
  <2>3. QED
    BY <2>1, <2>2, <1>10, <1>12, Zenon
<1>14. IsFilling(g, columns, fields)
  <2>1. ASSUME NEW n \in 0..k
        PROVE  g[n] = IF n = 0 THEN columns ELSE WithField(g[n - 1], fields[n])
    <3>1. CASE n = 0
      BY <3>1, <1>12
    <3>2. CASE n # 0
      <4>1. n \in 1..k
        BY <3>2
      <4>2. QED
        BY <4>1, <3>2, <1>13, Zenon
    <3>3. QED
      BY <3>1, <3>2
  <2>2. g = [n \in 0..k |-> g[n]]
    BY <1>12
  <2>3. QED
    BY <2>1, <2>2, <1>1, <1>2, Zenon DEF IsFilling
<1>15. IsFilling(f, columns, fields)
  BY <1>14, Zenon
<1>16. WithFields(columns, fields) = f[k]
  BY <1>1, <1>2, Zenon DEF WithFields, IsFilling
<1> HIDE DEF f
<1>17. f[0] = columns /\ \A n \in 1..k : f[n] = WithField(f[n - 1], fields[n])
  <2>1. \A n \in 0..k : f[n] = IF n = 0 THEN columns ELSE WithField(f[n - 1], fields[n])
    BY <1>1, <1>2, <1>15, Zenon DEF IsFilling
  <2>2. 0 \in 0..k /\ \A n \in 1..k : n \in 0..k /\ n # 0
    OBVIOUS
  <2>3. QED
    BY <2>1, <2>2, Zenon
<1>18. d \in Seq(Nat)
  <2>1. columns.keys \in Seq(K) /\ IsLaidOut(Len(columns.keys), d, columns.skeleton, columns.channels)
    BY Zenon DEF HasMade
  <2>2. Len(columns.keys) \in Nat
    BY <2>1
  <2>3. QED
    BY <2>1, <2>2, LaidOutIs
<1> DEFINE S == {n \in Nat : HasMade(K, f[n], d \o o[n]) /\ f[n].keys = keys}
<1>19. \A n \in 0..k : n \in S
  <2>1. 0 \in S
    <3>1. d \o <<>> = d
      BY <1>18, ConcatEmptySeq
    <3>2. HasMade(K, f[0], d \o o[0]) /\ f[0].keys = keys
      BY <3>1, <1>1, <1>2, <1>8, <1>17
    <3>3. QED
      BY <3>2
  <2>2. ASSUME NEW n \in 0..(k - 1), n \in S PROVE n + 1 \in S
    <3>1. n + 1 \in 1..k /\ (n + 1) - 1 = n /\ n + 1 \in Nat /\ n \in 0..k
      OBVIOUS
    <3>2. PICK now : now = f[n]
      OBVIOUS
    <3>3. PICK field \in JsonField(K) : now = f[n] /\ field = fields[n + 1]
      BY <3>2, <3>1, <1>4
    <3>4. HasMade(K, now, d \o o[n]) /\ now.keys = keys
      BY <2>2, <3>3
    <3>5. Contains(now.keys, field.key)
      BY <3>1, <3>3, <3>4, <1>1, <1>2, Zenon
    <3>6. HasMade(K, WithField(now, field), (d \o o[n]) \o FieldData(field)) /\ WithField(now, field).keys = keys
      BY <3>4, <3>5, AddsField
    <3>7. f[n + 1] = WithField(now, field) /\ o[n + 1] = o[n] \o FieldData(field)
      BY <3>1, <3>3, <1>5, <1>8, <1>17, Zenon
    <3>8. PICK x, y \in Seq(Nat) : x = o[n] /\ y = FieldData(field)
      <4>1. o[n] \in Seq(Nat)
        BY <3>1, <1>8
      <4>2. FieldData(field) \in Seq(Nat)
        BY <3>1, <3>3, <1>3, <1>4, Zenon
      <4>3. QED
        BY <4>1, <4>2
    <3>9. (d \o o[n]) \o FieldData(field) = d \o o[n + 1]
      <4>1. Regrouped(d, x, y)
        BY <1>18, IsRegrouped
      <4>2. QED
        BY <4>1, <3>7, <3>8, Zenon DEF Regrouped
    <3>10. HasMade(K, f[n + 1], d \o o[n + 1]) /\ f[n + 1].keys = keys
      BY <3>6, <3>7, <3>9, Zenon
    <3>11. QED
      BY <3>1, <3>10
  <2> HIDE DEF S
  <2>3. QED
    BY <2>1, <2>2, FiniteInduction
<1>20. HasMade(K, f[k], d \o o[k]) /\ f[k].keys = keys
  BY <1>19, k \in 0..k
<1>21. DOMAIN fields = 1..k
  BY <1>1, <1>2
<1>22. QED
  BY <1>1, <1>2, <1>3, <1>8, <1>16, <1>20, <1>21, Zenon DEF HasFilled

IsKnowing(f, keys, fields) ==
  f = [n \in 0..Len(fields) |-> IF n = 0 THEN keys ELSE WithKey(f[n - 1], fields[n])]

(* Every key that was known stays known, and this one becomes known. *)
LEMMA WithKeyKnows ==
  ASSUME NEW K, NEW keys \in Seq(K), NEW field \in JsonField(K)
  PROVE  /\ WithKey(keys, field) \in Seq(K) /\ Len(keys) <= Len(WithKey(keys, field))
         /\ Contains(WithKey(keys, field), field.key)
         /\ \A e : Contains(keys, e) => Contains(WithKey(keys, field), e)
<1>1. CASE Contains(keys, field.key)
  BY <1>1 DEF WithKey
<1>2. CASE ~Contains(keys, field.key)
  <2>1. PICK key \in K : key = field.key
    BY DEF JsonField
  <2>2. PICK more : more = Append(keys, key) /\ key = field.key
    BY <2>1
  <2>3. WithKey(keys, field) = more
    BY <1>2, <2>2, Zenon DEF WithKey
  <2>4. /\ more \in Seq(K) /\ Len(more) = Len(keys) + 1 /\ more[Len(keys) + 1] = key
        /\ \A i \in 1..Len(keys) : more[i] = keys[i]
    BY <2>2
  <2>5. Contains(more, key)
    <3>1. Len(keys) + 1 \in 1..Len(more)
      BY <2>4
    <3>2. QED
      BY <3>1, <2>4, Zenon DEF Contains
  <2>6. ASSUME NEW e, Contains(keys, e) PROVE Contains(more, e)
    <3>1. PICK i \in 1..Len(keys) : keys[i] = e
      BY <2>6, Zenon DEF Contains
    <3>2. i \in 1..Len(more)
      BY <2>4
    <3>3. QED
      BY <3>1, <3>2, <2>4, Zenon DEF Contains
  <2>7. Len(keys) <= Len(more)
    BY <2>4
  <2>8. QED
    BY <2>2, <2>3, <2>4, <2>5, <2>6, <2>7, Zenon
<1>3. QED
  BY <1>1, <1>2

KnowsAll(K, keys, fields) ==
  /\ KeysWith(keys, fields) \in Seq(K) /\ Len(keys) <= Len(KeysWith(keys, fields))
  /\ \A n \in 1..Len(fields) : Contains(KeysWith(keys, fields), fields[n].key)

(* The keys of all fields of a record become known. *)
LEMMA KeysAreKnown ==
  ASSUME NEW K, NEW keys \in Seq(K), NEW fields \in Seq(JsonField(K))
  PROVE  KnowsAll(K, keys, fields)
<1>1. PICK k \in Nat : k = Len(fields)
  OBVIOUS
<1>2. \A n \in 1..k : fields[n] \in JsonField(K)
  BY <1>1, ElementOfSeq
<1> DEFINE step == [pair \in (1..k) \X Seq(K) |-> WithKey(pair[2], fields[pair[1]])]
           f == CHOOSE g : IsKnowing(g, keys, fields)
<1>3. ASSUME NEW n \in 1..k, NEW v \in Seq(K) PROVE step[<<n, v>>] \in Seq(K) /\ step[<<n, v>>] = WithKey(v, fields[n])
  <2>1. step[<<n, v>>] = WithKey(v, fields[n])
    BY Zenon
  <2>2. PICK field \in JsonField(K) : field = fields[n]
    BY <1>2
  <2>3. WithKey(v, field) \in Seq(K)
    BY WithKeyKnows
  <2> HIDE DEF step
  <2>4. QED
    BY <2>1, <2>2, <2>3, Zenon
<1> HIDE DEF step
<1>4. PICK g : Iterates(g, Seq(K), keys, k, step)
  <2>1. PICK V : V = Seq(K)
    OBVIOUS
  <2>2. keys \in V /\ \A n \in 1..k : \A v \in V : step[<<n, v>>] \in V
    BY <2>1, <1>3
  <2>3. \E g : Iterates(g, V, keys, k, step)
    BY <2>2, FiniteRecursion
  <2>4. QED
    BY <2>1, <2>3
<1>5. /\ g \in [0..k -> Seq(K)] /\ g[0] = keys
      /\ \A n \in 1..k : g[n] = step[<<n, g[n - 1]>>]
  BY <1>4, Zenon DEF Iterates
<1>6. ASSUME NEW n \in 1..k PROVE n - 1 \in 0..k /\ g[n] = WithKey(g[n - 1], fields[n])
  <2>1. n - 1 \in 0..k
    OBVIOUS
  <2>2. g[n - 1] \in Seq(K)
    BY <2>1, <1>5
  <2>3. QED
    BY <2>1, <2>2, <1>3, <1>5, Zenon
<1>7. IsKnowing(g, keys, fields)
  <2>1. ASSUME NEW n \in 0..k
        PROVE  g[n] = IF n = 0 THEN keys ELSE WithKey(g[n - 1], fields[n])
    <3>1. CASE n = 0
      BY <3>1, <1>5
    <3>2. CASE n # 0
      <4>1. n \in 1..k
        BY <3>2
      <4>2. QED
        BY <4>1, <3>2, <1>6, Zenon
    <3>3. QED
      BY <3>1, <3>2
  <2>2. g = [n \in 0..k |-> g[n]]
    BY <1>5
  <2>3. QED
    BY <2>1, <2>2, <1>1, Zenon DEF IsKnowing
<1>8. IsKnowing(f, keys, fields)
  BY <1>7, Zenon
<1>9. KeysWith(keys, fields) = f[k]
  BY <1>1, Zenon DEF KeysWith, IsKnowing
<1> HIDE DEF f
<1>10. f[0] = keys /\ \A n \in 1..k : f[n] = WithKey(f[n - 1], fields[n])
  <2>1. \A n \in 0..k : f[n] = IF n = 0 THEN keys ELSE WithKey(f[n - 1], fields[n])
    BY <1>1, <1>8, Zenon DEF IsKnowing
  <2>2. 0 \in 0..k /\ \A n \in 1..k : n \in 0..k /\ n # 0
    OBVIOUS
  <2>3. QED
    BY <2>1, <2>2, Zenon
<1> DEFINE S == {n \in Nat : /\ f[n] \in Seq(K) /\ Len(keys) <= Len(f[n])
                             /\ \A i \in 1..n : Contains(f[n], fields[i].key)}
<1>11. \A n \in 0..k : n \in S
  <2>1. 0 \in S
    BY <1>10
  <2>2. ASSUME NEW n \in 0..(k - 1), n \in S PROVE n + 1 \in S
    <3>1. n + 1 \in 1..k /\ (n + 1) - 1 = n /\ n + 1 \in Nat
      OBVIOUS
    <3>2. PICK now : now = f[n]
      OBVIOUS
    <3>3. PICK field \in JsonField(K) : now = f[n] /\ field = fields[n + 1]
      BY <3>2, <3>1, <1>2
    <3>4. now \in Seq(K) /\ Len(keys) <= Len(now) /\ \A i \in 1..n : Contains(now, fields[i].key)
      BY <2>2, <3>3
    <3>5. PICK more : more = WithKey(now, field)
      OBVIOUS
    <3>6. /\ more \in Seq(K) /\ Len(now) <= Len(more) /\ Contains(more, field.key)
          /\ \A e : Contains(now, e) => Contains(more, e)
      BY <3>4, <3>5, WithKeyKnows
    <3>7. f[n + 1] = more
      BY <3>1, <3>3, <3>5, <1>10, Zenon
    <3>8. Len(keys) <= Len(more)
      BY <3>4, <3>6
    <3>9. \A i \in 1..(n + 1) : i \in 1..n \/ i = n + 1
      OBVIOUS
    <3>10. \A i \in 1..(n + 1) : Contains(more, fields[i].key)
      BY <3>3, <3>4, <3>6, <3>9, Zenon
    <3>11. QED
      BY <3>1, <3>6, <3>7, <3>8, <3>10
  <2> HIDE DEF S
  <2>3. QED
    BY <2>1, <2>2, FiniteInduction
<1>12. k \in S
  BY <1>11, k \in 0..k
<1>13. QED
  BY <1>1, <1>9, <1>12 DEF KnowsAll

(* Only the keys change, and the channels to as many. *)
LEMMA WidenedIs ==
  ASSUME NEW k, NEW s, NEW C, NEW keys
  PROVE  Widened([keys |-> k, skeleton |-> s, channels |-> C], keys)
           = [keys |-> keys, skeleton |-> s,
              channels |-> [c \in DOMAIN keys |-> IF c \in DOMAIN C THEN C[c] ELSE <<>>]]
<1>1. PICK columns : columns = [keys |-> k, skeleton |-> s, channels |-> C]
  OBVIOUS
<1>2. columns.keys = k /\ columns.skeleton = s /\ columns.channels = C
  BY <1>1
<1>3. PICK D : D = [c \in DOMAIN keys |-> IF c \in DOMAIN C THEN C[c] ELSE <<>>]
  OBVIOUS
<1>4. PICK more : more = [columns EXCEPT !.keys = keys, !.channels = D]
  OBVIOUS
<1>5. more.keys = keys /\ more.skeleton = s /\ more.channels = D
  BY <1>1, <1>4
<1>6. more = [keys |-> keys, skeleton |-> s, channels |-> D]
  BY <1>1, <1>4, <1>5
<1>7. Widened(columns, keys) = more
  BY <1>2, <1>3, <1>4, Zenon DEF Widened
<1>8. QED
  BY <1>1, <1>3, <1>6, <1>7, Zenon

(* The data of the fields of a record, and of the record. *)
LEMMA RecordDataIs ==
  ASSUME NEW K, NEW record \in JsonRecord(K)
  PROVE  LET all == FlattenSeq([n \in DOMAIN record.fields |-> FieldData(record.fields[n])])
         IN  /\ all \in Seq(Nat) /\ record.after \in Seq(Nat)
             /\ RecordData(record) = all \o record.after /\ RecordData(record) \in Seq(Nat)
<1>1. record.fields \in Seq(JsonField(K)) /\ record.after \in Seq(Nat)
  BY DEF JsonRecord
<1>2. PICK fields \in Seq(JsonField(K)), after \in Seq(Nat) : fields = record.fields /\ after = record.after
  BY <1>1
<1>3. PICK k \in Nat : k = Len(fields) /\ DOMAIN fields = 1..k
  OBVIOUS
<1>4. PICK L, list : L = Seq(Nat) /\ list = [n \in 1..k |-> FieldData(fields[n])]
  OBVIOUS
<1>5. \A n \in 1..k : FieldData(fields[n]) \in L
  <2>1. TAKE n \in 1..k
  <2>2. PICK field \in JsonField(K) : field = fields[n]
    BY <1>3, ElementOfSeq
  <2>3. field.before \in Seq(Nat) /\ field.value \in Seq(Nat)
    BY DEF JsonField
  <2>4. field.before \o field.value \in Seq(Nat)
    BY <2>3, ConcatProperties
  <2>5. QED
    BY <1>4, <2>2, <2>4, Zenon DEF FieldData
<1>6. list \in [1..k -> L]
  BY <1>4, <1>5, Zenon
<1>7. list \in Seq(L)
  BY <1>6
<1>8. list \in Seq(Seq(Nat))
  BY <1>4, <1>7, Zenon
<1>9. PICK all \in Seq(Nat) : all = FlattenSeq(list)
  BY <1>8, PartsFit
<1>10. all \o after \in Seq(Nat)
  BY ConcatProperties
<1>11. FlattenSeq([n \in DOMAIN record.fields |-> FieldData(record.fields[n])]) = all
  BY <1>2, <1>3, <1>4, <1>9, Zenon
<1>12. RecordData(record) = all \o after
  BY <1>2, <1>11, Zenon DEF RecordData
<1>13. QED
  BY <1>2, <1>10, <1>11, <1>12, Zenon

HasAdded(K, columns, record, d) ==
  /\ HasMade(K, WithRecord(columns, record), d \o RecordData(record))
  /\ Len(WithRecord(columns, record).keys) <= MaxChannels

(* One more record, as its fields or as bytes. *)
LEMMA AddsRecord ==
  ASSUME BytesAssumption, ColumnsAssumption, NEW K, NEW columns, NEW d, HasMade(K, columns, d),
         Len(columns.keys) <= MaxChannels, NEW record \in JsonRecord(K)
  PROVE  HasAdded(K, columns, record, d)
<1>1. PICK k, s, C : k = columns.keys /\ s = columns.skeleton /\ C = columns.channels
  OBVIOUS
<1>2. columns = [keys |-> k, skeleton |-> s, channels |-> C] /\ k \in Seq(K) /\ IsLaidOut(Len(k), d, s, C)
  BY <1>1, Zenon DEF HasMade
<1>3. PICK w \in Nat : w = Len(k)
  BY <1>2
<1>4. d \in Seq(Nat) /\ s \in Seq(Nat) /\ DOMAIN C = 1..w
  BY <1>2, <1>3, LaidOutIs
<1>5. PICK all, after \in Seq(Nat) :
        /\ all = FlattenSeq([n \in DOMAIN record.fields |-> FieldData(record.fields[n])])
        /\ after = record.after /\ RecordData(record) = all \o after
        /\ RecordData(record) \in Seq(Nat)
  <2>1. PICK all : all = FlattenSeq([n \in DOMAIN record.fields |-> FieldData(record.fields[n])])
    OBVIOUS
  <2>2. /\ all \in Seq(Nat) /\ record.after \in Seq(Nat) /\ RecordData(record) = all \o record.after
        /\ RecordData(record) \in Seq(Nat)
    BY <2>1, RecordDataIs, Zenon
  <2>3. QED
    BY <2>1, <2>2
<1>6. PICK fields \in Seq(JsonField(K)) : fields = record.fields
  BY DEF JsonRecord
<1>7. PICK keys : keys = KeysWith(k, fields)
  OBVIOUS
<1>8. /\ keys \in Seq(K) /\ w <= Len(keys)
      /\ \A n \in 1..Len(fields) : Contains(keys, fields[n].key)
  BY <1>2, <1>3, <1>7, KeysAreKnown, Zenon DEF KnowsAll
<1>9. PICK v \in Nat : v = Len(keys) /\ DOMAIN keys = 1..v
  BY <1>8
<1>10. CASE ~record.json \/ v > MaxChannels
  <2>1. PICK bytes \in Seq(Nat) : bytes = RecordData(record)
    BY <1>5
  <2>2. IsLaidOut(w, d \o bytes, s \o Escaped(bytes), C)
    BY <1>2, <1>3, MoreBytes
  <2>3. PICK t : t = s \o Escaped(bytes)
    OBVIOUS
  <2>4. PICK more : more = [columns EXCEPT !.skeleton = t]
    OBVIOUS
  <2>5. more = [keys |-> k, skeleton |-> t, channels |-> C]
    BY <1>2, <2>4
  <2>6. more.keys = k /\ more.skeleton = t /\ more.channels = C
    BY <2>5
  <2>7. WithRecord(columns, record) = more
    BY <1>1, <1>6, <1>7, <1>9, <1>10, <2>1, <2>3, <2>4, Zenon DEF WithRecord
  <2>8. HasMade(K, more, d \o bytes)
    BY <1>2, <1>3, <2>2, <2>3, <2>5, <2>6, Zenon DEF HasMade
  <2>9. Len(more.keys) <= MaxChannels
    BY <1>1, <2>6
  <2>10. QED
    BY <2>1, <2>7, <2>8, <2>9, Zenon DEF HasAdded
<1>11. CASE ~(~record.json \/ v > MaxChannels)
  <2>1. PICK D : D = [c \in 1..v |-> IF c \in 1..w THEN C[c] ELSE <<>>]
    OBVIOUS
  <2>2. IsLaidOut(v, d, s, D)
    <3>1. w <= v
      BY <1>8, <1>9
    <3>2. QED
      BY <3>1, <1>2, <1>3, <2>1, WiderIsLaidOut
  <2>3. PICK wider : wider = [keys |-> keys, skeleton |-> s, channels |-> D]
    OBVIOUS
  <2>4. wider.keys = keys /\ wider.skeleton = s /\ wider.channels = D
    BY <2>3
  <2>5. Widened(columns, keys) = wider
    <3>1. Widened([keys |-> k, skeleton |-> s, channels |-> C], keys)
           = [keys |-> keys, skeleton |-> s,
              channels |-> [c \in DOMAIN keys |-> IF c \in DOMAIN C THEN C[c] ELSE <<>>]]
      BY WidenedIs
    <3>2. QED
      BY <3>1, <1>2, <1>4, <1>9, <2>1, <2>3, Zenon
  <2>6. HasMade(K, wider, d)
    BY <1>8, <1>9, <2>2, <2>3, <2>4, Zenon DEF HasMade
  <2>7. PICK filled : filled = WithFields(wider, fields)
    OBVIOUS
  <2>8. HasMade(K, filled, d \o all) /\ filled.keys = keys
    <3>1. \A n \in 1..Len(fields) : Contains(wider.keys, fields[n].key)
      BY <1>8, <2>4
    <3>2. HasFilled(K, wider, d, fields)
      BY <2>6, <3>1, FillsFields
    <3>3. QED
      BY <3>2, <1>5, <1>6, <2>4, <2>7, Zenon DEF HasFilled
  <2>9. PICK t, F : t = filled.skeleton /\ F = filled.channels
    OBVIOUS
  <2>10. filled = [keys |-> keys, skeleton |-> t, channels |-> F] /\ IsLaidOut(v, d \o all, t, F)
    BY <1>9, <2>8, <2>9, Zenon DEF HasMade
  <2>11. IsLaidOut(v, (d \o all) \o after, t \o Escaped(after), F)
    BY <2>10, MoreBytes
  <2>12. (d \o all) \o after = d \o RecordData(record)
    <3>1. Regrouped(d, all, after)
      BY <1>4, IsRegrouped
    <3>2. QED
      BY <3>1, <1>5, Zenon DEF Regrouped
  <2>13. PICK u : u = t \o Escaped(after)
    OBVIOUS
  <2>14. PICK more : more = [filled EXCEPT !.skeleton = u]
    OBVIOUS
  <2>15. more = [keys |-> keys, skeleton |-> u, channels |-> F]
    BY <2>10, <2>14
  <2>16. more.keys = keys /\ more.skeleton = u /\ more.channels = F
    BY <2>15
  <2>17. WithRecord(columns, record) = more
    BY <1>1, <1>5, <1>6, <1>7, <1>9, <1>11, <2>5, <2>7, <2>9, <2>13, <2>14, Zenon DEF WithRecord
  <2>18. HasMade(K, more, d \o RecordData(record))
    BY <1>8, <1>9, <2>11, <2>12, <2>13, <2>15, <2>16, Zenon DEF HasMade
  <2>19. Len(more.keys) <= MaxChannels
    BY <1>9, <1>11, <2>16 DEF ColumnsAssumption
  <2>20. QED
    BY <2>17, <2>18, <2>19, Zenon DEF HasAdded
<1>12. QED
  BY <1>10, <1>11

IsColumning(f, records) ==
  f = [n \in 0..Len(records) |->
         IF n = 0 THEN [keys |-> <<>>, skeleton |-> <<>>, channels |-> <<>>]
         ELSE WithRecord(f[n - 1], records[n])]

HasWritten(K, records) ==
  /\ HasMade(K, JsonColumns(records), JsonData(records))
  /\ Len(JsonColumns(records).keys) <= MaxChannels

(* The writer lays out all records. *)
LEMMA WritesRecords ==
  ASSUME BytesAssumption, ColumnsAssumption, NEW K, NEW records \in Seq(JsonRecord(K))
  PROVE  HasWritten(K, records)
<1>1. PICK k \in Nat : k = Len(records)
  OBVIOUS
<1>2. PICK none : none = [keys |-> <<>>, skeleton |-> <<>>, channels |-> <<>>]
  OBVIOUS
<1>3. HasMade(K, none, <<>>) /\ Len(none.keys) <= MaxChannels
  <2>1. none.keys = <<>> /\ none.skeleton = <<>> /\ none.channels = <<>>
    BY <1>2
  <2>2. <<>> \in Seq(K) /\ Len(<<>>) = 0
    BY EmptySeq
  <2>3. IsLaidOut(0, <<>>, <<>>, <<>>)
    <3>1. PICK parts : parts = <<>>
      OBVIOUS
    <3>2. parts \in Seq(PartsOf(0)) /\ Len(parts) = 0
      BY <3>1, EmptySeq
    <3>3. ASSUME NEW c \in Int PROVE FlattenSeq(Strand(parts, c)) = <<>>
      <4>1. PICK w \in Nat : w = 0
        OBVIOUS
      <4>2. parts \in Seq(PartsOf(w))
        BY <4>1, <3>2, Zenon
      <4>3. PICK list \in Seq(Seq(Nat)) : list = Strand(parts, c) /\ Len(list) = 0
        BY <4>2, <3>2, StrandIs
      <4>4. \A n \in 1..Len(list) : list[n] = <<>>
        BY <4>3
      <4>5. FlattenSeq(list) = <<>>
        BY <4>4, FlatOfNone
      <4>6. QED
        BY <4>3, <4>5, Zenon
    <3>4. -1 \in Int /\ 0 \in Int
      OBVIOUS
    <3>5. [c \in 1..0 |-> FlattenSeq(Strand(parts, c))] = <<>>
      OBVIOUS
    <3>6. LaidOut(parts, 0, <<>>, <<>>, <<>>)
      BY <3>2, <3>3, <3>4, <3>5, Zenon DEF LaidOut
    <3>7. QED
      BY <3>6, Zenon DEF IsLaidOut
  <2>4. HasMade(K, none, <<>>)
    BY <1>2, <2>1, <2>2, <2>3, Zenon DEF HasMade
  <2>5. 0 <= MaxChannels
    BY DEF ColumnsAssumption
  <2>6. QED
    BY <2>1, <2>2, <2>4, <2>5, Zenon
<1>4. \A n \in 1..k : records[n] \in JsonRecord(K)
  BY <1>1, ElementOfSeq
<1>5. PICK L, list : L = Seq(Nat) /\ list = [n \in 1..k |-> RecordData(records[n])]
  OBVIOUS
<1>6. \A n \in 1..k : RecordData(records[n]) \in L
  <2>1. TAKE n \in 1..k
  <2>2. PICK record \in JsonRecord(K) : record = records[n]
    BY <1>4
  <2>3. RecordData(record) \in Seq(Nat)
    BY RecordDataIs, Zenon
  <2>4. QED
    BY <1>5, <2>2, <2>3, Zenon
<1>7. list \in [1..k -> L] /\ \A n \in 1..k : list[n] = RecordData(records[n])
  BY <1>5, <1>6, Zenon
<1>8. list \in Seq(L) /\ Len(list) = k
  BY <1>7
<1>9. list \in Seq(Seq(Nat))
  BY <1>5, <1>8, Zenon
<1>10. PICK o : /\ o \in [0..k -> Seq(Nat)] /\ o[0] = <<>> /\ FlattenSeq(list) = o[k]
                /\ \A n \in 1..k : o[n] = o[n - 1] \o list[n]
  BY <1>8, <1>9, FlatIsPrefixes
<1> DEFINE V == {c \in Columns(K) : Len(c.keys) <= MaxChannels /\ \E e : HasMade(K, c, e)}
           step == [pair \in (1..k) \X V |-> WithRecord(pair[2], records[pair[1]])]
           f == CHOOSE g : IsColumning(g, records)
<1>11. none \in V
  <2>1. none \in Columns(K)
    BY <1>3, MadeAre
  <2>2. QED
    BY <2>1, <1>3
<1>12. ASSUME NEW n \in 1..k, NEW v \in V
       PROVE  step[<<n, v>>] \in V /\ step[<<n, v>>] = WithRecord(v, records[n])
  <2>1. step[<<n, v>>] = WithRecord(v, records[n])
    BY Zenon
  <2>2. PICK e : HasMade(K, v, e)
    BY Zenon
  <2>3. Len(v.keys) <= MaxChannels
    BY Zenon
  <2>4. PICK record \in JsonRecord(K) : record = records[n]
    BY <1>4
  <2>5. PICK more : more = WithRecord(v, record)
    OBVIOUS
  <2> HIDE DEF V, step
  <2>6. HasMade(K, more, e \o RecordData(record)) /\ Len(more.keys) <= MaxChannels
    BY <2>2, <2>3, <2>5, AddsRecord, Zenon DEF HasAdded
  <2>7. more \in Columns(K)
    BY <2>6, MadeAre
  <2>8. more \in V
    BY <2>6, <2>7, Zenon DEF V
  <2>9. QED
    BY <2>1, <2>4, <2>5, <2>8, Zenon
<1> HIDE DEF V, step
<1>13. PICK g : Iterates(g, V, none, k, step)
  BY <1>11, <1>12, FiniteRecursion
<1>14. /\ g \in [0..k -> V] /\ g[0] = none
       /\ \A n \in 1..k : g[n] = step[<<n, g[n - 1]>>]
  BY <1>13, Zenon DEF Iterates
<1>15. ASSUME NEW n \in 1..k PROVE n - 1 \in 0..k /\ g[n] = WithRecord(g[n - 1], records[n])
  <2>1. n - 1 \in 0..k
    OBVIOUS
  <2>2. g[n - 1] \in V
    BY <2>1, <1>14
  <2>3. QED
    BY <2>1, <2>2, <1>12, <1>14, Zenon
<1>16. IsColumning(g, records)
  <2>1. ASSUME NEW n \in 0..k
        PROVE  g[n] = IF n = 0 THEN none ELSE WithRecord(g[n - 1], records[n])
    <3>1. CASE n = 0
      BY <3>1, <1>14
    <3>2. CASE n # 0
      <4>1. n \in 1..k
        BY <3>2
      <4>2. QED
        BY <4>1, <3>2, <1>15, Zenon
    <3>3. QED
      BY <3>1, <3>2
  <2>2. g = [n \in 0..k |-> g[n]]
    BY <1>14
  <2>3. QED
    BY <2>1, <2>2, <1>1, <1>2, Zenon DEF IsColumning
<1>17. IsColumning(f, records)
  BY <1>16, Zenon
<1>18. JsonColumns(records) = f[k]
  BY <1>1, Zenon DEF JsonColumns, IsColumning
<1> HIDE DEF f
<1>19. f[0] = none /\ \A n \in 1..k : f[n] = WithRecord(f[n - 1], records[n])
  <2>1. \A n \in 0..k : f[n] = IF n = 0 THEN none ELSE WithRecord(f[n - 1], records[n])
    BY <1>1, <1>2, <1>17, Zenon DEF IsColumning
  <2>2. 0 \in 0..k /\ \A n \in 1..k : n \in 0..k /\ n # 0
    OBVIOUS
  <2>3. QED
    BY <2>1, <2>2, Zenon
<1> DEFINE S == {n \in Nat : HasMade(K, f[n], o[n]) /\ Len(f[n].keys) <= MaxChannels}
<1>20. \A n \in 0..k : n \in S
  <2>1. 0 \in S
    BY <1>3, <1>10, <1>19
  <2>2. ASSUME NEW n \in 0..(k - 1), n \in S PROVE n + 1 \in S
    <3>1. n + 1 \in 1..k /\ (n + 1) - 1 = n /\ n + 1 \in Nat
      OBVIOUS
    <3>2. PICK now : now = f[n]
      OBVIOUS
    <3>3. PICK record \in JsonRecord(K) : record = records[n + 1]
      BY <3>1, <1>4
    <3>4. HasMade(K, now, o[n]) /\ Len(now.keys) <= MaxChannels
      BY <2>2, <3>2
    <3>5. HasAdded(K, now, record, o[n])
      BY <3>4, AddsRecord
    <3>6. f[n + 1] = WithRecord(now, record) /\ o[n + 1] = o[n] \o RecordData(record)
      BY <3>1, <3>2, <3>3, <1>7, <1>10, <1>19, Zenon
    <3>7. HasMade(K, f[n + 1], o[n + 1]) /\ Len(f[n + 1].keys) <= MaxChannels
      BY <3>5, <3>6, Zenon DEF HasAdded
    <3>8. QED
      BY <3>1, <3>7
  <2> HIDE DEF S
  <2>3. QED
    BY <2>1, <2>2, FiniteInduction
<1>21. HasMade(K, f[k], o[k]) /\ Len(f[k].keys) <= MaxChannels
  BY <1>20, k \in 0..k
<1>22. JsonData(records) = o[k]
  <2>1. DOMAIN records = 1..k
    BY <1>1
  <2>2. QED
    BY <2>1, <1>5, <1>10, Zenon DEF JsonData
<1>23. QED
  BY <1>18, <1>21, <1>22, Zenon DEF HasWritten

(* What two pieces make, byte by byte. *)
IsJoin(x, a, b) ==
  /\ x = a \o b /\ Len(x) = Len(a) + Len(b)
  /\ \A i \in 1..(Len(a) + Len(b)) : x[i] = IF i <= Len(a) THEN a[i] ELSE b[i - Len(a)]

(* All this is said of them by one name. *)
LEMMA JoinIs ==
  ASSUME NEW a \in Seq(Nat), NEW b \in Seq(Nat)
  PROVE  \E x \in Seq(Nat) : IsJoin(x, a, b)
<1>1. /\ a \o b \in Seq(Nat) /\ Len(a \o b) = Len(a) + Len(b)
      /\ \A i \in 1..(Len(a) + Len(b)) : (a \o b)[i] = IF i <= Len(a) THEN a[i] ELSE b[i - Len(a)]
  BY ConcatProperties
<1>2. QED
  BY <1>1, Zenon DEF IsJoin

(* What is between others is found by their lengths. *)
LEMMA MiddleIs ==
  ASSUME NEW a \in Seq(Nat), NEW b \in Seq(Nat), NEW c \in Seq(Nat)
  PROVE  SubSeq(a \o (b \o c), Len(a) + 1, Len(a) + Len(b)) = b
<1>1. PICK x \in Seq(Nat) : /\ x = b \o c /\ Len(x) = Len(b) + Len(c)
                            /\ \A i \in 1..(Len(b) + Len(c)) : x[i] = IF i <= Len(b) THEN b[i] ELSE c[i - Len(b)]
  BY JoinIs, Zenon DEF IsJoin
<1>2. PICK y \in Seq(Nat) : /\ y = a \o x /\ Len(y) = Len(a) + Len(x)
                            /\ \A i \in 1..(Len(a) + Len(x)) : y[i] = IF i <= Len(a) THEN a[i] ELSE x[i - Len(a)]
  BY JoinIs, Zenon DEF IsJoin
<1>3. PICK j, k, m \in Nat : j = Len(a) /\ k = Len(b) /\ m = Len(c)
  OBVIOUS
<1>4. ASSUME NEW i \in 1..k PROVE y[j + i] = b[i] /\ j + i \in 1..Len(y)
  <2>1. j + i \in 1..(Len(a) + Len(x)) /\ ~(j + i <= Len(a)) /\ (j + i) - Len(a) = i
    BY <1>1, <1>3
  <2>2. y[j + i] = x[i]
    BY <2>1, <1>2
  <2>3. i \in 1..(Len(b) + Len(c)) /\ i <= Len(b)
    BY <1>3
  <2>4. x[i] = b[i]
    BY <2>3, <1>1
  <2>5. QED
    BY <2>1, <2>2, <2>4, <1>2
<1>5. \A i \in (j + 1)..(j + k) : y[i] \in Nat
  <2>1. TAKE i \in (j + 1)..(j + k)
  <2>2. i \in 1..Len(y)
    BY <1>1, <1>2, <1>3
  <2>3. QED
    BY <2>2, ElementOfSeq
<1>6. PICK s \in Seq(Nat) : /\ s = SubSeq(y, j + 1, j + k)
                            /\ Len(s) = k
                            /\ \A i \in 1..k : s[i] = y[j + i]
  <2>1. j + 1 \in Int /\ j + k \in Int /\ (j + k) - (j + 1) + 1 = k
    OBVIOUS
  <2>2. /\ SubSeq(y, j + 1, j + k) \in Seq(Nat)
        /\ Len(SubSeq(y, j + 1, j + k)) = IF j + 1 <= j + k THEN (j + k) - (j + 1) + 1 ELSE 0
        /\ \A i \in 1..((j + k) - (j + 1) + 1) : SubSeq(y, j + 1, j + k)[i] = y[(j + 1) + i - 1]
    BY <2>1, <1>5, SubSeqProperties
  <2>3. PICK s \in Seq(Nat) : s = SubSeq(y, j + 1, j + k)
    BY <2>2
  <2>4. Len(s) = k
    BY <2>1, <2>2, <2>3
  <2>5. \A i \in 1..k : (j + 1) + i - 1 = j + i /\ i \in 1..((j + k) - (j + 1) + 1)
    OBVIOUS
  <2>6. \A i \in 1..k : s[i] = y[j + i]
    BY <2>2, <2>3, <2>5
  <2>7. QED
    BY <2>3, <2>4, <2>6
<1>7. s = b
  <2>1. Len(s) = Len(b) /\ \A i \in 1..Len(s) : s[i] = b[i]
    BY <1>3, <1>4, <1>6
  <2>2. QED
    BY <2>1, SeqEqual
<1>8. QED
  BY <1>1, <1>2, <1>3, <1>6, <1>7, Zenon

(* What there is of a list before and after each part are all its bytes. *)
Splits(f, r, list) ==
  /\ f \in [0..Len(list) -> Seq(Nat)] /\ r \in [0..Len(list) -> Seq(Nat)]
  /\ f[0] = <<>> /\ f[Len(list)] = FlattenSeq(list)
  /\ \A n \in 1..Len(list) : /\ f[n] = f[n - 1] \o list[n]
                             /\ FlattenSeq(list) = f[n - 1] \o (list[n] \o r[n])

(* Every list has such parts before and after each of its own. *)
LEMMA FlatSplits ==
  ASSUME NEW list \in Seq(Seq(Nat))
  PROVE  \E f, r : Splits(f, r, list)
<1>1. PICK k \in Nat : k = Len(list)
  OBVIOUS
<1>2. PICK f : /\ f \in [0..k -> Seq(Nat)] /\ f[0] = <<>> /\ FlattenSeq(list) = f[k]
               /\ \A n \in 1..k : f[n] = f[n - 1] \o list[n]
  BY <1>1, FlatIsPrefixes
<1>3. PICK r : Leaves(r, list, FlattenSeq(list))
  BY FlatLeaves
<1>4. /\ r \in [0..k -> Seq(Nat)] /\ r[0] = FlattenSeq(list) /\ r[k] = <<>>
      /\ \A n \in 1..k : r[n - 1] = list[n] \o r[n]
  BY <1>1, <1>3, Zenon DEF Leaves
<1> DEFINE S == {n \in Nat : f[n] \o r[n] = FlattenSeq(list)}
<1>5. \A n \in 0..k : n \in S
  <2>1. 0 \in S
    <3>1. 0 \in 0..k
      OBVIOUS
    <3>2. PICK x \in Seq(Nat) : x = r[0]
      BY <3>1, <1>4
    <3>3. <<>> \o x = x
      BY ConcatEmptySeq
    <3>4. f[0] \o r[0] = FlattenSeq(list)
      BY <3>2, <3>3, <1>2, <1>4, Zenon
    <3>5. QED
      BY <3>4
  <2>2. ASSUME NEW n \in 0..(k - 1), n \in S PROVE n + 1 \in S
    <3>1. n + 1 \in 1..k /\ (n + 1) - 1 = n /\ n + 1 \in Nat /\ n \in 0..k /\ n + 1 \in 0..k /\ n + 1 \in 1..Len(list)
      BY <1>1
    <3>2. PICK x, y, z \in Seq(Nat) : x = f[n] /\ y = list[n + 1] /\ z = r[n + 1]
      BY <3>1, <1>2, <1>4, ElementOfSeq
    <3>3. f[n + 1] = x \o y /\ r[n] = y \o z
      BY <3>1, <3>2, <1>2, <1>4, Zenon
    <3>4. Regrouped(x, y, z)
      BY IsRegrouped
    <3>5. f[n] \o r[n] = FlattenSeq(list)
      BY <2>2
    <3>6. f[n + 1] \o r[n + 1] = FlattenSeq(list)
      BY <3>2, <3>3, <3>4, <3>5, Zenon DEF Regrouped
    <3>7. QED
      BY <3>1, <3>6
  <2> HIDE DEF S
  <2>3. QED
    BY <2>1, <2>2, FiniteInduction
<1>6. ASSUME NEW n \in 1..k PROVE FlattenSeq(list) = f[n - 1] \o (list[n] \o r[n])
  <2>1. n - 1 \in 0..k
    OBVIOUS
  <2>2. f[n - 1] \o r[n - 1] = FlattenSeq(list)
    BY <2>1, <1>5
  <2>3. QED
    BY <2>2, <1>4, Zenon
<1>7. /\ f \in [0..k -> Seq(Nat)] /\ r \in [0..k -> Seq(Nat)]
      /\ f[0] = <<>> /\ f[k] = FlattenSeq(list)
      /\ \A n \in 1..k : /\ f[n] = f[n - 1] \o list[n]
                         /\ FlattenSeq(list) = f[n - 1] \o (list[n] \o r[n])
  BY <1>2, <1>4, <1>6, Zenon
<1>8. Splits(f, r, list)
  BY <1>1, <1>7, Zenon DEF Splits
<1>9. QED
  BY <1>8, Zenon

IsEnding(e, first, sizes) ==
  e = [i \in 0..Len(sizes) |-> IF i = 0 THEN first ELSE e[i - 1] + sizes[i]]

(* The parts are taken from behind the header by the sizes in it. *)
LEMMA Unpacks ==
  ASSUME ColumnsAssumption, NEW parts \in Seq(Seq(Nat)), 1 <= Len(parts), Len(parts) <= MaxChannels + 1
  PROVE  UnpackParts(PackParts(parts)) = {parts}
<1>1. PICK k \in Nat : k = Len(parts) /\ k >= 1 /\ DOMAIN parts = 1..k
  OBVIOUS
<1>2. PICK head \in Seq(Nat) : head = <<ColumnMagic, k - 1>> /\ Len(head) = 2 /\ head[1] = ColumnMagic /\ head[2] = k - 1
  <2>1. ColumnMagic \in Nat /\ k - 1 \in Nat
    BY <1>1 DEF ColumnMagic
  <2>2. PICK x, y \in Nat : x = ColumnMagic /\ y = k - 1
    BY <2>1
  <2>3. <<x, y>> \in Seq(Nat) /\ Len(<<x, y>>) = 2 /\ <<x, y>>[1] = x /\ <<x, y>>[2] = y
    OBVIOUS
  <2>4. QED
    BY <2>2, <2>3, Zenon
<1>3. \A i \in 1..k : parts[i] \in Seq(Nat) /\ Len(parts[i]) \in Nat
  <2>1. TAKE i \in 1..k
  <2>2. PICK s \in Seq(Nat) : s = parts[i]
    BY <1>1, ElementOfSeq
  <2>3. Len(s) \in Nat
    OBVIOUS
  <2>4. QED
    BY <2>2, <2>3
<1>4. PICK lens : lens = [i \in 1..k |-> Len(parts[i])]
  OBVIOUS
<1>5. lens \in Seq(Nat) /\ Len(lens) = k /\ \A i \in 1..k : lens[i] = Len(parts[i])
  BY <1>3, <1>4
<1>6. PICK f, r : /\ f \in [0..k -> Seq(Nat)] /\ r \in [0..k -> Seq(Nat)]
                  /\ f[0] = <<>> /\ f[k] = FlattenSeq(parts)
                  /\ \A n \in 1..k : /\ f[n] = f[n - 1] \o parts[n]
                                     /\ FlattenSeq(parts) = f[n - 1] \o (parts[n] \o r[n])
  <2>1. PICK f, r : Splits(f, r, parts)
    BY FlatSplits
  <2>2. QED
    BY <2>1, <1>1, Zenon DEF Splits
<1>7. PICK flat \in Seq(Nat) : flat = FlattenSeq(parts)
  BY PartsFit
<1>8. PICK x \in Seq(Nat) : /\ x = head \o lens /\ Len(x) = 2 + k
                            /\ \A i \in 1..(2 + k) : x[i] = IF i <= 2 THEN head[i] ELSE lens[i - 2]
  <2>1. PICK y \in Seq(Nat) : y = lens
    BY <1>5
  <2>2. PICK x \in Seq(Nat) : IsJoin(x, head, y)
    BY JoinIs
  <2>3. Len(head) = 2 /\ Len(y) = k
    BY <2>1, <1>2, <1>5
  <2>4. /\ x = head \o y /\ Len(x) = Len(head) + Len(y)
        /\ \A i \in 1..(Len(head) + Len(y)) : x[i] = IF i <= Len(head) THEN head[i] ELSE y[i - Len(head)]
    BY <2>2, Zenon DEF IsJoin
  <2>5. /\ x = head \o y /\ Len(x) = 2 + k
        /\ \A i \in 1..(2 + k) : x[i] = IF i <= 2 THEN head[i] ELSE y[i - 2]
    BY ONLY <2>3, <2>4, Zenon
  <2>6. QED
    BY ONLY <2>1, <2>5, Zenon
<1>9. PICK m \in Nat : m = Len(flat)
  OBVIOUS
<1>10. PICK code \in Seq(Nat) : /\ code = x \o flat /\ Len(code) = 2 + k + m
                                /\ \A i \in 1..(2 + k + m) : code[i] = IF i <= 2 + k THEN x[i] ELSE flat[i - (2 + k)]
  <2>1. PICK y \in Seq(Nat) : IsJoin(y, x, flat)
    BY JoinIs
  <2>2. Len(x) = 2 + k /\ Len(flat) = m
    BY <1>8, <1>9
  <2>3. QED
    BY <2>1, <2>2, Zenon DEF IsJoin
<1>11. PackParts(parts) = code
  BY <1>1, <1>2, <1>4, <1>7, <1>8, <1>10, Zenon DEF PackParts
<1>12. code[1] = ColumnMagic /\ code[2] = k - 1 /\ \A i \in 1..k : code[2 + i] = lens[i] /\ code[2 + i] \in Nat
  <2>1. 1 \in 1..(2 + k + m) /\ 1 \in 1..(2 + k) /\ 2 \in 1..(2 + k + m) /\ 2 \in 1..(2 + k)
        /\ 1 <= 2 + k /\ 2 <= 2 + k /\ 1 <= 2 /\ 2 <= 2
    OBVIOUS
  <2>2. code[1] = head[1] /\ code[2] = head[2]
    BY <2>1, <1>8, <1>10
  <2>3. ASSUME NEW i \in 1..k PROVE code[2 + i] = lens[i] /\ code[2 + i] \in Nat
    <3>1. 2 + i \in 1..(2 + k + m) /\ 2 + i \in 1..(2 + k) /\ 2 + i <= 2 + k /\ ~(2 + i <= 2) /\ (2 + i) - 2 = i
      OBVIOUS
    <3>2. code[2 + i] = x[2 + i] /\ x[2 + i] = lens[i]
      BY <3>1, <1>8, <1>10
    <3>3. lens[i] \in Nat
      BY <1>3, <1>5
    <3>4. QED
      BY <3>2, <3>3
  <2>4. QED
    BY <2>2, <2>3, <1>2
<1>13. SubSeq(code, 3, 3 + code[2]) = lens
  <2>1. 3 + code[2] = k + 2
    BY <1>12
  <2>2. \A i \in 3..(k + 2) : code[i] \in Nat
    <3>1. TAKE i \in 3..(k + 2)
    <3>2. i \in 1..Len(code)
      BY <1>10
    <3>3. QED
      BY <3>2, ElementOfSeq
  <2>3. /\ SubSeq(code, 3, k + 2) \in Seq(Nat)
        /\ Len(SubSeq(code, 3, k + 2)) = IF 3 <= k + 2 THEN (k + 2) - 3 + 1 ELSE 0
        /\ \A i \in 1..((k + 2) - 3 + 1) : SubSeq(code, 3, k + 2)[i] = code[3 + i - 1]
    <3>1. 3 \in Int /\ k + 2 \in Int
      OBVIOUS
    <3>2. QED
      BY <3>1, <2>2, SubSeqProperties
  <2>4. PICK s \in Seq(Nat) : s = SubSeq(code, 3, k + 2)
    BY <2>3
  <2>5. Len(s) = k
    BY <2>3, <2>4, <1>1
  <2>6. \A i \in 1..k : i \in 1..((k + 2) - 3 + 1) /\ 3 + i - 1 = 2 + i
    OBVIOUS
  <2>7. \A i \in 1..k : s[i] = lens[i]
    BY <2>3, <2>4, <2>6, <1>12
  <2>8. s = lens
    BY <2>5, <2>7, <1>5, SeqEqual
  <2>9. QED
    BY <2>1, <2>4, <2>8, Zenon
<1> DEFINE ends == [i \in 0..k |-> (2 + k) + Len(f[i])]
           e == CHOOSE g : IsEnding(g, 3 + code[2], lens)
<1>14. ASSUME NEW i \in 0..k PROVE f[i] \in Seq(Nat) /\ Len(f[i]) \in Nat
  <2>1. PICK s \in Seq(Nat) : s = f[i]
    BY <1>6
  <2>2. Len(s) \in Nat
    OBVIOUS
  <2>3. QED
    BY <2>1, <2>2
<1>15. ASSUME NEW i \in 1..k
       PROVE  /\ i - 1 \in 0..k /\ i \in 0..k
              /\ (2 + k) + Len(f[i]) = ((2 + k) + Len(f[i - 1])) + lens[i]
  <2>1. i - 1 \in 0..k /\ i \in 0..k
    OBVIOUS
  <2>2. PICK s, t \in Seq(Nat) : s = f[i - 1] /\ t = parts[i]
    BY <2>1, <1>3, <1>14
  <2>3. Len(s \o t) = Len(s) + Len(t) /\ Len(s) \in Nat /\ Len(t) \in Nat
    BY ConcatProperties
  <2>4. f[i] = s \o t /\ lens[i] = Len(t)
    BY <2>2, <1>5, <1>6, Zenon
  <2>5. (2 + k) + Len(s \o t) = ((2 + k) + Len(s)) + Len(t)
    BY <2>3
  <2>6. QED
    BY <2>1, <2>2, <2>4, <2>5, Zenon
<1>16. 3 + code[2] = 2 + k
  BY <1>12
<1>17. IsEnding(ends, 3 + code[2], lens)
  <2>1. ASSUME NEW i \in 0..k
        PROVE  ends[i] = IF i = 0 THEN 3 + code[2] ELSE ends[i - 1] + lens[i]
    <3>1. CASE i = 0
      <4>1. Len(f[0]) = 0 /\ 0 \in 0..k
        BY <1>6
      <4>2. ends[0] = (2 + k) + Len(f[0])
        BY <4>1, Zenon
      <4> HIDE DEF ends
      <4>3. ends[0] = 2 + k
        BY <4>1, <4>2
      <4>4. QED
        BY <3>1, <4>3, <1>16, Zenon
    <3>2. CASE i # 0
      <4>1. i \in 1..k
        BY <3>2
      <4>2. i - 1 \in 0..k /\ (2 + k) + Len(f[i]) = ((2 + k) + Len(f[i - 1])) + lens[i]
        BY <4>1, <1>15
      <4>3. ends[i] = (2 + k) + Len(f[i]) /\ ends[i - 1] = (2 + k) + Len(f[i - 1])
        BY <4>2, Zenon
      <4> HIDE DEF ends
      <4>4. QED
        BY <3>2, <4>2, <4>3, Zenon
    <3>3. QED
      BY <3>1, <3>2
  <2>2. ends = [i \in 0..k |-> ends[i]]
    BY Zenon
  <2> HIDE DEF ends
  <2>3. QED
    BY <2>1, <2>2, <1>5, Zenon DEF IsEnding
<1>18. IsEnding(e, 3 + code[2], lens)
  BY <1>17, Zenon
<1>19. UnpackParts(code) =
         IF Len(code) < 3 \/ code[1] # ColumnMagic \/ code[2] > MaxChannels THEN {}
         ELSE IF Len(code) < 3 + code[2] THEN {}
         ELSE IF e[Len(lens)] # Len(code) THEN {}
         ELSE {[i \in DOMAIN lens |-> SubSeq(code, e[i - 1] + 1, e[i])]}
  <2>1. EndsOf(3 + code[2], lens) = e
    BY Zenon DEF EndsOf, IsEnding
  <2> HIDE DEF e
  <2>2. QED
    BY <2>1, <1>13, Zenon DEF UnpackParts
<1> HIDE DEF e, ends
<1>20. \A i \in 0..k : e[i] = IF i = 0 THEN 3 + code[2] ELSE e[i - 1] + lens[i]
  BY <1>5, <1>18, Zenon DEF IsEnding
<1> DEFINE S == {n \in Nat : e[n] = (2 + k) + Len(f[n])}
<1>21. \A n \in 0..k : n \in S
  <2>1. 0 \in S
    <3>1. 0 \in 0..k
      OBVIOUS
    <3>2. e[0] = 2 + k
      BY <3>1, <1>16, <1>20, Zenon
    <3>3. Len(f[0]) = 0
      BY <1>6
    <3>4. PICK j \in Nat : j = 2 + k
      OBVIOUS
    <3>5. j + 0 = j
      OBVIOUS
    <3>6. 0 \in Nat /\ e[0] = (2 + k) + Len(f[0])
      BY <3>2, <3>3, <3>4, <3>5, Zenon
    <3>7. QED
      BY <3>6, Zenon
  <2>2. ASSUME NEW n \in 0..(k - 1), n \in S PROVE n + 1 \in S
    <3>1. n + 1 \in 1..k /\ (n + 1) - 1 = n /\ n + 1 \in Nat /\ n + 1 \in 0..k /\ n + 1 # 0
      OBVIOUS
    <3>2. e[n] = (2 + k) + Len(f[n])
      BY <2>2
    <3>3. e[n + 1] = e[(n + 1) - 1] + lens[n + 1]
      BY <3>1, <1>20, Zenon
    <3>4. (2 + k) + Len(f[n + 1]) = ((2 + k) + Len(f[(n + 1) - 1])) + lens[n + 1]
      BY <3>1, <1>15
    <3>5. e[n + 1] = (2 + k) + Len(f[n + 1])
      BY <3>1, <3>2, <3>3, <3>4, Zenon
    <3>6. QED
      BY <3>1, <3>5
  <2> HIDE DEF S
  <2>3. QED
    BY <2>1, <2>2, FiniteInduction
<1>22. \A n \in 0..k : e[n] = (2 + k) + Len(f[n])
  BY <1>21
<1>23. e[Len(lens)] = Len(code)
  <2>1. k \in 0..k
    OBVIOUS
  <2>2. e[k] = (2 + k) + m
    BY <2>1, <1>6, <1>7, <1>9, <1>22
  <2>3. QED
    BY <2>2, <1>5, <1>10
<1>24. ASSUME NEW i \in 1..k PROVE SubSeq(code, e[i - 1] + 1, e[i]) = parts[i]
  <2>1. i - 1 \in 0..k /\ i \in 0..k
    OBVIOUS
  <2>2. PICK a, b, c \in Seq(Nat) : a = f[i - 1] /\ b = parts[i] /\ c = r[i]
    BY <2>1, <1>3, <1>6
  <2>3. flat = a \o (b \o c)
    BY <2>2, <1>6, <1>7, Zenon
  <2>4. PICK y, z \in Seq(Nat) : y = x \o a /\ z = b \o c /\ Len(y) = Len(x) + Len(a)
    BY ConcatProperties
  <2>5. Regrouped(x, a, z)
    BY IsRegrouped
  <2>6. code = y \o (b \o c)
    BY <2>3, <2>4, <2>5, <1>10, Zenon DEF Regrouped
  <2>7. SubSeq(y \o (b \o c), Len(y) + 1, Len(y) + Len(b)) = b
    BY MiddleIs
  <2>8. e[i - 1] = Len(y) /\ e[i] = Len(y) + Len(b)
    <3>1. e[i - 1] = (2 + k) + Len(a)
      BY <2>1, <2>2, <1>22
    <3>2. e[i] = ((2 + k) + Len(a)) + Len(b)
      <4>1. e[i] = (2 + k) + Len(f[i])
        BY <2>1, <1>22
      <4>2. QED
        BY <4>1, <2>2, <1>5, <1>15
    <3>3. QED
      BY <3>1, <3>2, <2>4, <1>8
  <2>9. QED
    BY <2>2, <2>6, <2>7, <2>8, Zenon
<1>25. [i \in DOMAIN lens |-> SubSeq(code, e[i - 1] + 1, e[i])] = parts
  <2>1. DOMAIN lens = 1..k
    BY <1>4
  <2>2. parts = [i \in 1..k |-> parts[i]]
    BY <1>1
  <2>3. QED
    BY <2>1, <2>2, <1>24, Zenon
<1>26. ~(Len(code) < 3 \/ code[1] # ColumnMagic \/ code[2] > MaxChannels) /\ ~(Len(code) < 3 + code[2])
  <2>1. PICK c \in Nat : c = MaxChannels /\ k <= c + 1
    BY <1>1 DEF ColumnsAssumption
  <2>2. PICK j \in Nat : j = k - 1
    <3>1. k \in Nat /\ k >= 1
      BY <1>1
    <3>2. k - 1 \in Nat
      BY ONLY <3>1
    <3>3. QED
      BY ONLY <3>2, Zenon
  <2>3. j <= c /\ ~(2 + k + m < 3) /\ ~(2 + k + m < 3 + j)
    BY <2>1, <2>2, <1>1
  <2>4. Len(code) = 2 + k + m /\ code[1] = ColumnMagic /\ code[2] = j
    BY <2>2, <1>10, <1>12
  <2>5. ~(j > c)
    BY <2>3
  <2>6. QED
    BY <2>1, <2>3, <2>4, <2>5, Zenon
<1>27. QED
  BY <1>11, <1>19, <1>23, <1>25, <1>26, Zenon

(* The first of several parts, and the others. *)
LEMMA FirstPart ==
  ASSUME NEW S, NEW s \in S, NEW C \in Seq(S)
  PROVE  /\ <<s>> \o C \in Seq(S) /\ Len(<<s>> \o C) = 1 + Len(C)
         /\ (<<s>> \o C)[1] = s /\ Tail(<<s>> \o C) = C
<1>1. PICK x \in Seq(S) : x = <<s>> /\ Len(x) = 1 /\ x[1] = s
  <2>1. <<s>> \in Seq(S) /\ Len(<<s>>) = 1 /\ <<s>>[1] = s
    OBVIOUS
  <2>2. QED
    BY <2>1, Zenon
<1>2. PICK k \in Nat : k = Len(C)
  OBVIOUS
<1>3. PICK y \in Seq(S) : /\ y = x \o C /\ Len(y) = Len(x) + Len(C)
                          /\ \A i \in 1..(Len(x) + Len(C)) : y[i] = IF i <= Len(x) THEN x[i] ELSE C[i - Len(x)]
  <2>1. /\ x \o C \in Seq(S) /\ Len(x \o C) = Len(x) + Len(C)
        /\ \A i \in 1..(Len(x) + Len(C)) : (x \o C)[i] = IF i <= Len(x) THEN x[i] ELSE C[i - Len(x)]
    BY ConcatProperties
  <2>2. QED
    BY <2>1, Zenon
<1>4. Len(y) = 1 + k /\ y # <<>>
  BY <1>1, <1>2, <1>3
<1>5. y[1] = s
  BY <1>1, <1>2, <1>3
<1>6. \A i \in 1..k : y[i + 1] = C[i]
  <2>1. TAKE i \in 1..k
  <2>2. i + 1 \in 1..(Len(x) + Len(C)) /\ ~(i + 1 <= Len(x)) /\ (i + 1) - Len(x) = i
    BY <1>1, <1>2
  <2>3. QED
    BY <2>2, <1>3
<1>7. PICK z \in Seq(S) : z = Tail(y) /\ Len(z) = k /\ \A i \in 1..k : z[i] = y[i + 1]
  <2>1. Tail(y) \in Seq(S) /\ Len(Tail(y)) = k /\ \A i \in 1..k : Tail(y)[i] = y[i + 1]
    BY <1>4
  <2>2. QED
    BY <2>1, Zenon
<1>8. z = C
  BY <1>2, <1>6, <1>7, SeqEqual
<1>9. QED
  BY <1>1, <1>2, <1>3, <1>4, <1>5, <1>7, <1>8, Zenon

(* What follows the first byte. *)
LEMMA FirstIs ==
  ASSUME NEW b \in Nat, NEW t \in Seq(Nat)
  PROVE  /\ <<b>> \o t \in Seq(Nat) /\ <<b>> \o t # <<>>
         /\ (<<b>> \o t)[1] = b /\ Tail(<<b>> \o t) = t
<1>1. /\ <<b>> \o t \in Seq(Nat) /\ Len(<<b>> \o t) = 1 + Len(t)
      /\ (<<b>> \o t)[1] = b /\ Tail(<<b>> \o t) = t
  BY FirstPart
<1>2. PICK x \in Seq(Nat) : x = <<b>> \o t /\ Len(x) = 1 + Len(t)
  BY <1>1, Zenon
<1>3. x # <<>>
  <2>1. Len(t) \in Nat
    OBVIOUS
  <2>2. QED
    BY <2>1, <1>2
<1>4. QED
  BY <1>1, <1>2, <1>3, Zenon

(* Two bytes are one and another. *)
LEMMA OneByOne ==
  ASSUME NEW a \in Nat, NEW b \in Nat, NEW t \in Seq(Nat)
  PROVE  <<a, b>> \o t = <<a>> \o (<<b>> \o t)
<1>1. /\ <<a>> \in Seq(Nat) /\ Len(<<a>>) = 1 /\ <<a>>[1] = a
      /\ <<b>> \in Seq(Nat) /\ Len(<<b>>) = 1 /\ <<b>>[1] = b
      /\ <<a, b>> \in Seq(Nat) /\ Len(<<a, b>>) = 2 /\ <<a, b>>[1] = a /\ <<a, b>>[2] = b
  OBVIOUS
<1>2. PICK x, y, z \in Seq(Nat) : /\ x = <<a>> /\ Len(x) = 1 /\ x[1] = a
                                 /\ y = <<b>> /\ Len(y) = 1 /\ y[1] = b
                                 /\ z = <<a, b>> /\ Len(z) = 2 /\ z[1] = a /\ z[2] = b
  BY <1>1, Zenon
<1>3. PICK q \in Seq(Nat) : /\ q = x \o y /\ Len(q) = Len(x) + Len(y)
                            /\ \A i \in 1..(Len(x) + Len(y)) : q[i] = IF i <= Len(x) THEN x[i] ELSE y[i - Len(x)]
  BY JoinIs, Zenon DEF IsJoin
<1>4. q = z
  <2>1. Len(q) = 2 /\ q[1] = a /\ q[2] = b
    BY ONLY <1>2, <1>3
  <2>2. Len(q) = Len(z) /\ \A i \in 1..Len(q) : q[i] = z[i]
    BY ONLY <2>1, <1>2
  <2>3. QED
    BY <2>2, SeqEqual
<1>5. Regrouped(x, y, t)
  BY IsRegrouped
<1>6. QED
  BY <1>2, <1>3, <1>4, <1>5, Zenon DEF Regrouped

(* What was read, before and behind a part. *)
Reading(skeleton, channels, unconsumed, output) ==
  [skeleton |-> skeleton, channels |-> channels, unconsumed |-> unconsumed, output |-> output]

(* One more byte comes to the output. *)
LEMMA LiteralIs ==
  ASSUME NEW s, NEW C, NEW u, NEW o \in Seq(Nat), NEW b, NEW rest, NEW size \in Nat, Len(o) < size
  PROVE  WithLiteral(Reading(s, C, u, o), b, rest, size) = {Reading(rest, C, u, Append(o, b))}
<1>1. PICK r : r = [skeleton |-> s, channels |-> C, unconsumed |-> u, output |-> o]
  OBVIOUS
<1>2. r.output = o
  BY <1>1
<1>3. ~(Len(r.output) >= size)
  BY <1>2
<1>4. PICK more : more = [r EXCEPT !.skeleton = rest, !.output = Append(o, b)]
  OBVIOUS
<1>5. more = [skeleton |-> rest, channels |-> C, unconsumed |-> u, output |-> Append(o, b)]
  BY <1>1, <1>4
<1>6. WithLiteral(r, b, rest, size) = {more}
  BY <1>2, <1>3, <1>4 DEF WithLiteral
<1>7. QED
  BY <1>1, <1>5, <1>6, Zenon DEF Reading

(* A byte of no value is read from its code. *)
LEMMA ReadsLiteral ==
  ASSUME NEW reader, NEW C, NEW u, NEW o \in Seq(Nat), NEW b \in Nat, NEW rest \in Seq(Nat),
         NEW size \in Nat, Len(o) < size
  PROVE  ReadPart(reader, Reading(ByteCode(b) \o rest, C, u, o), size)
           = {Reading(rest, C, u, Append(o, b))}
<1>1. PICK s : s = ByteCode(b) \o rest
  OBVIOUS
<1>2. PICK r : r = Reading(s, C, u, o)
  OBVIOUS
<1>3. r.skeleton = s
  BY <1>2 DEF Reading
<1>4. Marker \in Nat /\ EscapedMarker \in Nat
  BY DEF Marker, EscapedMarker
<1>5. CASE b # Marker
  <2>1. s = <<b>> \o rest
    BY <1>1, <1>5, Zenon DEF ByteCode
  <2>2. s # <<>> /\ s[1] = b /\ Tail(s) = rest
    BY <2>1, FirstIs, Zenon
  <2>3. ReadPart(reader, r, size) = WithLiteral(r, b, rest, size)
    BY <2>2, <1>3, <1>5, Zenon DEF ReadPart
  <2>4. WithLiteral(Reading(s, C, u, o), b, rest, size) = {Reading(rest, C, u, Append(o, b))}
    BY LiteralIs
  <2>5. QED
    BY <2>3, <2>4, <1>1, <1>2, Zenon
<1>6. CASE b = Marker
  <2>1. PICK x \in Seq(Nat) : x = <<EscapedMarker>> \o rest
    BY <1>4, FirstIs
  <2>2. s = <<Marker>> \o x
    <3>1. <<Marker, EscapedMarker>> \o rest = <<Marker>> \o (<<EscapedMarker>> \o rest)
      BY <1>4, OneByOne
    <3>2. ByteCode(b) = <<Marker, EscapedMarker>>
      BY <1>6, Zenon DEF ByteCode
    <3>3. QED
      BY <3>1, <3>2, <2>1, <1>1, Zenon
  <2>3. s # <<>> /\ s[1] = Marker /\ Tail(s) = x
    BY <2>2, <1>4, FirstIs, Zenon
  <2>4. PICK tag : tag = [value |-> <<EscapedMarker>>, rest |-> rest]
    OBVIOUS
  <2>5. Take(x, 1) = {tag}
    BY <2>1, <2>4, <1>4, TakeByte, Zenon
  <2>6. ReadPart(reader, r, size) = UNION {ReadTagged(reader, r, g, size) : g \in {tag}}
    BY <2>3, <2>5, <1>3, Zenon DEF ReadPart
  <2>7. UNION {ReadTagged(reader, r, g, size) : g \in {tag}} = ReadTagged(reader, r, tag, size)
    BY Zenon
  <2>8. tag.value[1] = EscapedMarker /\ tag.rest = rest
    BY <2>4
  <2>9. EscapedMarker # MarkerChannel
    BY DEF EscapedMarker, MarkerChannel
  <2>10. ReadTagged(reader, r, tag, size) = WithLiteral(r, b, rest, size)
    BY <2>8, <2>9, <1>6, Zenon DEF ReadTagged
  <2>11. WithLiteral(Reading(s, C, u, o), b, rest, size) = {Reading(rest, C, u, Append(o, b))}
    BY LiteralIs
  <2>12. QED
    BY <2>6, <2>7, <2>10, <2>11, <1>1, <1>2, Zenon
<1>7. QED
  BY <1>5, <1>6

ValueLeads(reader, s, B, u, o, h, rest, v, t, size) ==
  WithValue(reader, Reading(s, B, u, o), h, rest, size)
    = {Reading(rest, [B EXCEPT ![h] = t], u - IF t = <<>> THEN 1 ELSE 0, o \o v)}

(* One more value comes to the output, from the front of its channel. *)
LEMMA ValueIs ==
  ASSUME BytesAssumption, NEW reader, NEW s, NEW B, NEW u, NEW o \in Seq(Nat), NEW h, NEW rest,
         NEW v \in Seq(Nat), Len(v) < Word, NEW size \in Nat, Len(v) <= size - Len(o),
         NEW t \in Seq(Nat), B[h] = Sized(v) \o t
  PROVE  ValueLeads(reader, s, B, u, o, h, rest, v, t, size)
<1>1. PICK r : r = [skeleton |-> s, channels |-> B, unconsumed |-> u, output |-> o]
  OBVIOUS
<1>2. r.output = o /\ r.channels = B /\ r.unconsumed = u
  BY <1>1
<1>3. PICK w : w = [value |-> v, rest |-> t]
  OBVIOUS
<1>4. w.value = v /\ w.rest = t
  BY <1>3
<1>5. ReadSized(reader, B[h]) = {w}
  <2>1. ReadSized(reader, Sized(v) \o t) = {[value |-> v, rest |-> t]}
    BY ReadsSized
  <2>2. QED
    BY <2>1, <1>3, Zenon
<1>6. {x \in ReadSized(reader, r.channels[h]) : Len(x.value) <= size - Len(r.output)} = {w}
  BY <1>2, <1>4, <1>5, Zenon
<1> DEFINE Made(x) == [skeleton |-> rest, channels |-> [r.channels EXCEPT ![h] = x.rest],
                       unconsumed |-> r.unconsumed - IF x.rest = <<>> THEN 1 ELSE 0,
                       output |-> r.output \o x.value]
<1>7. WithValue(reader, r, h, rest, size) = {Made(x) : x \in {w}}
  BY <1>6, Zenon DEF WithValue
<1>8. Made(w) = Reading(rest, [B EXCEPT ![h] = t], u - IF t = <<>> THEN 1 ELSE 0, o \o v)
  BY <1>2, <1>4, Zenon DEF Reading
<1> HIDE DEF Made
<1>9. {Made(x) : x \in {w}} = {Made(w)}
  BY Zenon
<1>10. QED
  BY <1>1, <1>7, <1>8, <1>9, Zenon DEF Reading, ValueLeads

(* A value is read from its channel, at its place in the skeleton. *)
ValueComes(reader, B, u, o, h, rest, v, t, size) ==
  ReadPart(reader, Reading((<<Marker, MarkerChannel>> \o Varint(h - 1)) \o rest, B, u, o), size)
    = {Reading(rest, [B EXCEPT ![h] = t], u - IF t = <<>> THEN 1 ELSE 0, o \o v)}

(* The marker and the number of the channel lead to it. *)
LEMMA ReadsValue ==
  ASSUME BytesAssumption, NEW reader, NEW w \in Nat, NEW B, Len(B) = w, NEW u, NEW o \in Seq(Nat),
         NEW h \in 1..w, h - 1 < Word, NEW rest \in Seq(Nat),
         NEW v \in Seq(Nat), Len(v) < Word, NEW size \in Nat, Len(v) <= size - Len(o),
         NEW t \in Seq(Nat), B[h] = Sized(v) \o t
  PROVE  ValueComes(reader, B, u, o, h, rest, v, t, size)
<1>1. PICK g \in Nat : g = h - 1 /\ g + 1 = h /\ g < Len(B) /\ g < Word
  <2>1. h - 1 \in Nat /\ (h - 1) + 1 = h /\ h - 1 < Len(B)
    OBVIOUS
  <2>2. QED
    BY <2>1, Zenon
<1>2. Marker \in Nat /\ MarkerChannel \in Nat /\ EscapedMarker # MarkerChannel
  BY DEF Marker, MarkerChannel, EscapedMarker
<1>3. PICK n \in Seq(Nat) : n = Varint(g)
  BY VarintIs
<1>4. PICK m \in Seq(Nat) : m = n \o rest /\ ReadVarint(reader, m) = {[value |-> g, rest |-> rest]}
  <2>1. /\ ReadVarint(reader, Varint(g) \o rest) = {[value |-> g, rest |-> rest]}
        /\ Varint(g) \o rest \in Seq(Nat)
    <3>1. PICK z \in Seq(Nat) : z = rest
      OBVIOUS
    <3>2. PICK k \in Nat : k = g /\ k < Word
      BY <1>1
    <3>3. ReadVarint(reader, Varint(k) \o z) = {[value |-> k, rest |-> z]}
      BY ONLY BytesAssumption, <3>2, ReadsVarint
    <3>4. ReadVarint(reader, Varint(g) \o z) = {[value |-> g, rest |-> z]}
      BY <3>2, <3>3, Zenon
    <3>5. ReadVarint(reader, Varint(g) \o rest) = {[value |-> g, rest |-> rest]}
      BY <3>1, <3>4, Zenon
    <3>6. n \o rest \in Seq(Nat)
      BY ConcatProperties
    <3>7. QED
      BY <3>5, <3>6, <1>3, Zenon
  <2>2. QED
    BY <2>1, <1>3, Zenon
<1>5. PICK x \in Seq(Nat) : x = <<MarkerChannel>> \o m
  BY <1>2, FirstIs
<1>6. PICK s : s = (<<Marker, MarkerChannel>> \o Varint(h - 1)) \o rest
  OBVIOUS
<1>7. s = <<Marker>> \o x
  <2>1. PICK a \in Seq(Nat) : a = <<Marker, MarkerChannel>>
    <3>1. <<Marker, MarkerChannel>> \in Seq(Nat)
      BY <1>2
    <3>2. QED
      BY <3>1, Zenon
  <2>2. Regrouped(a, n, rest)
    BY IsRegrouped
  <2>3. <<Marker, MarkerChannel>> \o m = <<Marker>> \o (<<MarkerChannel>> \o m)
    BY <1>2, OneByOne
  <2>4. QED
    BY <2>1, <2>2, <2>3, <1>1, <1>3, <1>4, <1>5, <1>6, Zenon DEF Regrouped
<1>8. s # <<>> /\ s[1] = Marker /\ Tail(s) = x
  BY <1>2, <1>7, FirstIs, Zenon
<1>9. PICK r : r = [skeleton |-> s, channels |-> B, unconsumed |-> u, output |-> o]
  OBVIOUS
<1>10. r.skeleton = s /\ r.channels = B
  BY <1>9
<1>11. PICK tag : tag = [value |-> <<MarkerChannel>>, rest |-> m]
  OBVIOUS
<1>12. tag.value[1] = MarkerChannel /\ tag.rest = m
  BY <1>11
<1>13. Take(x, 1) = {tag}
  BY <1>2, <1>5, <1>11, TakeByte, Zenon
<1>14. ReadPart(reader, r, size) = UNION {ReadTagged(reader, r, y, size) : y \in {tag}}
  BY <1>8, <1>10, <1>13, Zenon DEF ReadPart
<1>15. UNION {ReadTagged(reader, r, y, size) : y \in {tag}} = ReadTagged(reader, r, tag, size)
  BY Zenon
<1>16. ReadTagged(reader, r, tag, size)
         = UNION {WithValue(reader, r, id.value + 1, id.rest, size) :
                    id \in {id \in ReadVarint(reader, tag.rest) : id.value < Len(r.channels)}}
  BY <1>2, <1>12, Zenon DEF ReadTagged
<1>17. PICK id : id = [value |-> g, rest |-> rest]
  OBVIOUS
<1>18. id.value = g /\ id.rest = rest
  BY <1>17
<1>19. {y \in ReadVarint(reader, tag.rest) : y.value < Len(r.channels)} = {id}
  BY <1>1, <1>4, <1>10, <1>12, <1>17, <1>18, Zenon
<1>20. UNION {WithValue(reader, r, y.value + 1, y.rest, size) : y \in {id}}
         = WithValue(reader, r, id.value + 1, id.rest, size)
  BY Zenon
<1>21. WithValue(reader, r, id.value + 1, id.rest, size) = WithValue(reader, Reading(s, B, u, o), h, rest, size)
  BY <1>1, <1>9, <1>18, Zenon DEF Reading
<1>22. WithValue(reader, Reading(s, B, u, o), h, rest, size)
         = {Reading(rest, [B EXCEPT ![h] = t], u - IF t = <<>> THEN 1 ELSE 0, o \o v)}
  <2>1. /\ o \in Seq(Nat) /\ v \in Seq(Nat) /\ Len(v) < Word /\ size \in Nat /\ Len(v) <= size - Len(o)
        /\ t \in Seq(Nat) /\ B[h] = Sized(v) \o t
    OBVIOUS
  <2>2. ValueLeads(reader, s, B, u, o, h, rest, v, t, size)
    BY <2>1, ValueIs
  <2>3. QED
    BY <2>2, Zenon DEF ValueLeads
<1>23. QED
  BY <1>6, <1>9, <1>14, <1>15, <1>16, <1>19, <1>20, <1>21, <1>22, Zenon DEF Reading, ValueComes

(* The channels that are not at their end. *)
Unread(C) == Cardinality({c \in DOMAIN C : C[c] # <<>>})

CountsOne(B, C, h) == Unread(B) - (IF C[h] = <<>> THEN 1 ELSE 0) = Unread(C)

(* Whether there is one channel less that is not at its end, when a value *)
(* is taken from one of them.                                             *)
LEMMA OneIsRead ==
  ASSUME NEW w \in Nat, NEW B, NEW C, DOMAIN B = 1..w, DOMAIN C = 1..w, NEW h \in 1..w,
         B[h] # <<>>, \A c \in 1..w : c # h => B[c] = C[c]
  PROVE  CountsOne(B, C, h)
<1>1. PICK P : P = {c \in 1..w : B[c] # <<>>}
  OBVIOUS
<1>2. PICK Q : Q = {c \in 1..w : C[c] # <<>>}
  OBVIOUS
<1>3. Unread(B) = Cardinality(P) /\ Unread(C) = Cardinality(Q)
  BY <1>1, <1>2, Zenon DEF Unread
<1>4. IsFiniteSet(1..w)
  BY FS_Interval
<1>5. IsFiniteSet(Q) /\ Cardinality(Q) \in Nat
  BY <1>2, <1>4, FS_Subset, FS_CardinalityType
<1>6. CASE C[h] = <<>>
  <2>1. P = Q \cup {h} /\ h \notin Q
    BY <1>1, <1>2, <1>6, Zenon
  <2>2. Cardinality(P) = Cardinality(Q) + 1
    BY <2>1, <1>5, FS_AddElement
  <2>3. Cardinality(P) - 1 = Cardinality(Q)
    BY <2>2, <1>5
  <2>4. QED
    BY <2>3, <1>3, <1>6, Zenon DEF CountsOne
<1>7. CASE C[h] # <<>>
  <2>1. P = Q
    BY <1>1, <1>2, <1>7, Zenon
  <2>2. Cardinality(Q) - 0 = Cardinality(Q)
    BY <1>5
  <2>3. QED
    BY <2>1, <2>2, <1>3, <1>7, Zenon DEF CountsOne
<1>8. QED
  BY <1>6, <1>7

(* One part is read from what was laid out: nothing else can come of it. *)
PartIsRead(reader, p, B, C, o, rest, size) ==
  ReadPart(reader, Reading(PartCode(p) \o rest, B, Unread(B), o), size)
    = {Reading(rest, C, Unread(C), o \o p.value)}

BeforePart(p, w, B, C) ==
  /\ DOMAIN B = 1..w /\ Len(B) = w /\ B = [c \in 1..w |-> B[c]]
  /\ DOMAIN C = 1..w /\ C = [c \in 1..w |-> C[c]]
  /\ \A c \in 1..w : C[c] \in Seq(Nat) /\ B[c] = Laid(p, c) \o C[c]

(* A byte or a value: what was laid out for it is taken from each strand. *)
LEMMA ReadsOne ==
  ASSUME BytesAssumption, NEW reader, NEW w \in Nat, w <= Word, NEW p \in PartsOf(w),
         NEW B, NEW C, BeforePart(p, w, B, C),
         NEW o \in Seq(Nat), NEW rest \in Seq(Nat), NEW size \in Nat,
         Len(p.value) < Word, Len(o) + Len(p.value) <= size
  PROVE  PartIsRead(reader, p, B, C, o, rest, size)
<1>1. p.channel \in 0..w /\ p.value \in Seq(Nat) /\ (p.channel = 0 => Len(p.value) = 1)
  BY DEF PartsOf
<1>2. PICK v \in Seq(Nat) : v = p.value
  BY <1>1
<1>3. PICK j, k \in Nat : j = Len(o) /\ k = Len(v)
  OBVIOUS
<1>4. k < Word /\ j + k <= size
  BY <1>2, <1>3
<1>5. \A s \in Seq(Nat) : <<>> \o s = s
  BY ConcatEmptySeq
<1>6. /\ DOMAIN B = 1..w /\ DOMAIN C = 1..w /\ Len(B) = w
      /\ \A c \in 1..w : C[c] \in Seq(Nat) /\ B[c] = Laid(p, c) \o C[c]
  BY Zenon DEF BeforePart
<1>7. B = [c \in 1..w |-> B[c]] /\ C = [c \in 1..w |-> C[c]]
  BY Zenon DEF BeforePart
<1>8. CASE p.channel = 0
  <2>1. PICK b \in Nat : b = v[1] /\ v = <<b>> /\ k = 1
    <3>1. Len(v) = 1
      BY <1>1, <1>2, <1>8, Zenon
    <3>2. 1 \in 1..Len(v)
      BY <3>1
    <3>3. PICK b \in Nat : b = v[1]
      BY <3>2, ElementOfSeq
    <3>4. <<b>> \in Seq(Nat) /\ Len(<<b>>) = 1 /\ <<b>>[1] = b
      OBVIOUS
    <3>5. PICK x \in Seq(Nat) : x = <<b>> /\ Len(x) = 1 /\ x[1] = b
      BY <3>4, Zenon
    <3>6. Len(v) = Len(x) /\ \A i \in 1..Len(v) : v[i] = x[i]
      BY ONLY <3>1, <3>3, <3>5
    <3>7. v = x
      BY <3>6, SeqEqual
    <3>8. QED
      BY <3>1, <3>3, <3>5, <3>7, <1>3, Zenon
  <2>2. PartCode(p) = ByteCode(b)
    BY <2>1, <1>2, <1>8, Zenon DEF PartCode
  <2>3. ASSUME NEW c \in 1..w PROVE B[c] = C[c]
    <3>1. c # 0 /\ c # -1
      OBVIOUS
    <3>2. Laid(p, c) = <<>>
      BY <3>1, <1>8, Zenon DEF Laid
    <3>3. C[c] \in Seq(Nat) /\ B[c] = Laid(p, c) \o C[c]
      BY <1>6, Zenon
    <3>4. QED
      BY <3>2, <3>3, <1>5, Zenon
  <2>4. B = C
    BY <2>3, <1>7, Zenon
  <2>5. j < size
    BY <2>1, <1>4
  <2>6. Append(o, b) = o \o <<b>>
    BY Appended
  <2>7. PICK u : u = Unread(B)
    OBVIOUS
  <2>8. ReadPart(reader, Reading(ByteCode(b) \o rest, B, u, o), size)
          = {Reading(rest, B, u, Append(o, b))}
    BY <2>5, <1>3, ReadsLiteral
  <2>9. QED
    BY <2>1, <2>2, <2>4, <2>6, <2>7, <2>8, <1>2, Zenon DEF PartIsRead
<1>9. CASE p.channel # 0
  <2>1. PICK h \in 1..w : h = p.channel
    BY <1>1, <1>9
  <2>2. PartCode(p) = <<Marker, MarkerChannel>> \o Varint(h - 1)
    BY <2>1, <1>9, Zenon DEF PartCode
  <2>3. ASSUME NEW c \in 1..w PROVE Laid(p, c) = IF c = h THEN Sized(v) ELSE <<>>
    <3>1. c # 0 /\ c # -1
      OBVIOUS
    <3>2. QED
      BY <3>1, <2>1, <1>2, Zenon DEF Laid
  <2>4. PICK t \in Seq(Nat) : t = C[h]
    BY <1>6, Zenon
  <2>5. B[h] = Sized(v) \o t
    BY <2>3, <2>4, <1>6, Zenon
  <2>6. ASSUME NEW c \in 1..w, c # h PROVE B[c] = C[c]
    <3>1. Laid(p, c) = <<>>
      BY <2>3, <2>6, Zenon
    <3>2. C[c] \in Seq(Nat) /\ B[c] = Laid(p, c) \o C[c]
      BY <1>6, Zenon
    <3>3. QED
      BY <3>1, <3>2, <1>5, Zenon
  <2>7. [B EXCEPT ![h] = t] = C
    <3>1. [B EXCEPT ![h] = t] = [c \in 1..w |-> IF c = h THEN t ELSE B[c]]
      BY <1>6, Zenon
    <3>2. \A c \in 1..w : (IF c = h THEN t ELSE B[c]) = C[c]
      BY <2>4, <2>6, Zenon
    <3>3. QED
      BY <3>1, <3>2, <1>7, Zenon
  <2>8. B[h] # <<>>
    <3>1. PICK s \in Seq(Nat) : s = Sized(v) /\ s # <<>>
      BY SizedIs
    <3>2. s \o t # <<>>
      BY <3>1, ConcatEmptySeq
    <3>3. QED
      BY <3>1, <3>2, <2>5, Zenon
  <2>9. PICK u : u = Unread(B)
    OBVIOUS
  <2>10. u - (IF t = <<>> THEN 1 ELSE 0) = Unread(C)
    <3>1. CountsOne(B, C, h)
      BY <2>6, <2>8, <1>6, OneIsRead, Zenon
    <3>2. QED
      BY <3>1, <2>4, <2>9, Zenon DEF CountsOne
  <2>11. h - 1 < Word
    <3>1. PICK x \in Nat : x = Word /\ w <= x
      BY DEF BytesAssumption
    <3>2. h - 1 < x
      BY <3>1
    <3>3. QED
      BY <3>1, <3>2
  <2>12. k <= size - j
    BY <1>4
  <2>13. ReadPart(reader, Reading((<<Marker, MarkerChannel>> \o Varint(h - 1)) \o rest, B, u, o), size)
           = {Reading(rest, [B EXCEPT ![h] = t], u - IF t = <<>> THEN 1 ELSE 0, o \o v)}
    <3>1. h - 1 < Word /\ Len(v) < Word /\ Len(v) <= size - Len(o) /\ Len(B) = w
      BY <2>11, <2>12, <1>3, <1>4, <1>6, Zenon
    <3>2. ValueComes(reader, B, u, o, h, rest, v, t, size)
      BY <3>1, <2>5, ReadsValue
    <3>3. QED
      BY <3>2, Zenon DEF ValueComes
  <2>14. QED
    BY <2>2, <2>7, <2>9, <2>10, <2>13, <1>2, Zenon DEF PartIsRead
<1>10. QED
  BY <1>8, <1>9

(* All bytes of a list are built up part by part. *)
LEMMA FlatGrows ==
  ASSUME NEW list \in Seq(Seq(Nat))
  PROVE  \E o : Grows(o, list, FlattenSeq(list))
<1>1. PICK k \in Nat : k = Len(list)
  OBVIOUS
<1>2. PICK f, r : Splits(f, r, list)
  BY FlatSplits
<1>3. /\ f \in [0..k -> Seq(Nat)] /\ r \in [0..k -> Seq(Nat)]
      /\ f[0] = <<>> /\ f[k] = FlattenSeq(list)
      /\ \A n \in 1..k : /\ f[n] = f[n - 1] \o list[n]
                         /\ FlattenSeq(list) = f[n - 1] \o (list[n] \o r[n])
  BY <1>1, <1>2, Zenon DEF Splits
<1>4. ASSUME NEW n \in 1..k PROVE Len(f[n - 1]) + Len(list[n]) <= Len(FlattenSeq(list))
  <2>1. n - 1 \in 0..k /\ n \in 0..k /\ n \in 1..Len(list)
    BY <1>1
  <2>2. PICK x, y, z \in Seq(Nat) : x = f[n - 1] /\ y = list[n] /\ z = r[n]
    BY <2>1, <1>3, ElementOfSeq
  <2>3. y \o z \in Seq(Nat) /\ Len(y \o z) = Len(y) + Len(z)
    BY ConcatProperties
  <2>4. PICK u \in Seq(Nat) : u = y \o z /\ Len(u) = Len(y) + Len(z)
    BY <2>3, Zenon
  <2>5. Len(x \o u) = Len(x) + Len(u)
    BY ConcatProperties
  <2>6. Len(x) \in Nat /\ Len(y) \in Nat /\ Len(z) \in Nat
    OBVIOUS
  <2>7. Len(x) + Len(y) <= Len(x \o u)
    BY <2>4, <2>5, <2>6
  <2>8. FlattenSeq(list) = x \o u
    BY <2>2, <2>4, <1>3, Zenon
  <2>9. QED
    BY <2>2, <2>7, <2>8, Zenon
<1>5. Grows(f, list, FlattenSeq(list))
  BY <1>1, <1>3, <1>4, Zenon DEF Grows
<1>6. QED
  BY <1>5, Zenon

(* What a reader makes of what it is given, one part after the other. *)
IsPath(path, k, reader, s, C, d) ==
  /\ path[0] = Reading(s, C, Unread(C), <<>>)
  /\ \A n \in 1..k : ReadPart(reader, path[n - 1], Len(d)) = {path[n]}
  /\ path[k] = Reading(<<>>, [c \in DOMAIN C |-> <<>>], 0, d)

IsReadingParts(f, reader, s, C, u, size) ==
  f = [n \in 0..Len(s) |->
         IF n = 0 THEN {[skeleton |-> s, channels |-> C, unconsumed |-> u, output |-> <<>>]}
         ELSE UNION {ReadPart(reader, some, size) : some \in f[n - 1]}]

(* A path that ends with all data is all that the reader can come to. *)
LEMMA PathIsRead ==
  ASSUME NEW reader, NEW s \in Seq(Nat), NEW C, NEW d \in Seq(Nat),
         NEW k \in Nat, k <= Len(s), NEW path, IsPath(path, k, reader, s, C, d)
  PROVE  ReadSkeleton(reader, s, C, Unread(C), Len(d)) = {d}
<1>1. PICK m, size \in Nat : m = Len(s) /\ size = Len(d) /\ k <= m
  <2>1. Len(s) \in Nat /\ Len(d) \in Nat
    OBVIOUS
  <2>2. QED
    BY <2>1, Zenon
<1>2. PICK u : u = Unread(C)
  OBVIOUS
<1>3. /\ path[0] = [skeleton |-> s, channels |-> C, unconsumed |-> u, output |-> <<>>]
      /\ \A n \in 1..k : ReadPart(reader, path[n - 1], size) = {path[n]}
      /\ path[k] = [skeleton |-> <<>>, channels |-> [c \in DOMAIN C |-> <<>>], unconsumed |-> 0, output |-> d]
  BY <1>1, <1>2, Zenon DEF IsPath, Reading
<1>4. PICK end : end = [skeleton |-> <<>>, channels |-> [c \in DOMAIN C |-> <<>>], unconsumed |-> 0, output |-> d]
  OBVIOUS
<1>5. /\ end.skeleton = <<>> /\ end.unconsumed = 0 /\ end.output = d
      /\ \A c \in DOMAIN end.channels : end.channels[c] = <<>>
  BY <1>4
<1>6. ReadPart(reader, end, size) = {end}
  BY <1>5, Zenon DEF ReadPart
<1> DEFINE State(n) == IF n <= k THEN path[n] ELSE end
           v == [n \in 0..m |-> {State(n)}]
           f == CHOOSE g : IsReadingParts(g, reader, s, C, u, size)
<1>7. path[k] = end
  BY <1>3, <1>4, Zenon
<1>8. ASSUME NEW n \in 1..m
      PROVE  UNION {ReadPart(reader, some, size) : some \in {State(n - 1)}} = {State(n)}
  <2>1. ReadPart(reader, State(n - 1), size) = {State(n)}
    <3>1. CASE n <= k
      <4>1. n - 1 <= k /\ n \in 1..k
        BY <3>1
      <4>2. QED
        BY <4>1, <3>1, <1>3, Zenon
    <3>2. CASE ~(n <= k) /\ n - 1 <= k
      <4>1. n - 1 = k
        BY <3>2
      <4>2. QED
        BY <4>1, <3>2, <1>6, <1>7, Zenon
    <3>3. CASE ~(n <= k) /\ ~(n - 1 <= k)
      BY <3>3, <1>6, Zenon
    <3> HIDE DEF State
    <3>4. QED
      BY <3>1, <3>2, <3>3, Zenon
  <2> HIDE DEF State
  <2>2. QED
    BY <2>1, Zenon
<1>9. State(0) = [skeleton |-> s, channels |-> C, unconsumed |-> u, output |-> <<>>]
  <2>1. 0 <= k
    OBVIOUS
  <2>2. QED
    BY <2>1, <1>3, Zenon
<1>10. State(m) = end
  <2>1. m <= k => m = k
    BY <1>1
  <2>2. QED
    BY <2>1, <1>7, Zenon
<1> HIDE DEF State
<1>11. IsReadingParts(v, reader, s, C, u, size)
  <2>1. ASSUME NEW n \in 0..m
        PROVE  v[n] = IF n = 0 THEN {[skeleton |-> s, channels |-> C, unconsumed |-> u, output |-> <<>>]}
                      ELSE UNION {ReadPart(reader, some, size) : some \in v[n - 1]}
    <3>1. CASE n = 0
      BY <3>1, <1>9, Zenon
    <3>2. CASE n # 0
      <4>1. n \in 1..m /\ n - 1 \in 0..m
        BY <3>2
      <4>2. v[n] = {State(n)} /\ v[n - 1] = {State(n - 1)}
        BY <4>1, Zenon
      <4> HIDE DEF v
      <4>3. QED
        BY <4>1, <4>2, <3>2, <1>8, Zenon
    <3>3. QED
      BY <3>1, <3>2
  <2>2. v = [n \in 0..m |-> v[n]]
    BY Zenon
  <2> HIDE DEF v
  <2>3. QED
    BY <2>1, <2>2, <1>1, Zenon DEF IsReadingParts
<1>12. IsReadingParts(f, reader, s, C, u, size)
  BY <1>11, Zenon
<1> DEFINE finished(all) ==
             /\ Len(all.output) = size
             /\ IF reader = "jls2" THEN all.unconsumed = 0
                ELSE \A c \in DOMAIN all.channels : all.channels[c] = <<>>
<1>13. ReadSkeleton(reader, s, C, u, size) = {all.output : all \in {all \in f[m] : finished(all)}}
  BY <1>1, Zenon DEF ReadSkeleton, IsReadingParts
<1> HIDE DEF f, v
<1>14. \A n \in 0..m : f[n] = IF n = 0 THEN {[skeleton |-> s, channels |-> C, unconsumed |-> u, output |-> <<>>]}
                       ELSE UNION {ReadPart(reader, some, size) : some \in f[n - 1]}
  BY <1>1, <1>12, Zenon DEF IsReadingParts
<1> DEFINE S == {n \in Nat : f[n] = {State(n)}}
<1>15. \A n \in 0..m : n \in S
  <2>1. 0 \in S
    <3>1. 0 \in 0..m
      OBVIOUS
    <3>2. f[0] = {[skeleton |-> s, channels |-> C, unconsumed |-> u, output |-> <<>>]}
      BY <3>1, <1>14, Zenon
    <3>3. QED
      BY <3>2, <1>9
  <2>2. ASSUME NEW n \in 0..(m - 1), n \in S PROVE n + 1 \in S
    <3>1. n + 1 \in 1..m /\ (n + 1) - 1 = n /\ n + 1 \in Nat /\ n + 1 \in 0..m /\ n + 1 # 0
      OBVIOUS
    <3>2. f[n] = {State(n)}
      BY <2>2
    <3>3. f[n + 1] = UNION {ReadPart(reader, some, size) : some \in f[n]}
      BY <3>1, <1>14, Zenon
    <3>4. f[n + 1] = {State(n + 1)}
      BY <3>1, <3>2, <3>3, <1>8, Zenon
    <3>5. QED
      BY <3>1, <3>4
  <2> HIDE DEF S
  <2>3. QED
    BY <2>1, <2>2, FiniteInduction
<1>16. f[m] = {end}
  <2>1. m \in S
    BY <1>15, m \in 0..m
  <2>2. QED
    BY <2>1, <1>10
<1>17. finished(end)
  BY <1>1, <1>5, Zenon
<1> HIDE DEF finished
<1>18. {all \in f[m] : finished(all)} = {end}
  BY <1>16, <1>17, Zenon
<1>19. {all.output : all \in {end}} = {d}
  BY <1>5, Zenon
<1>20. QED
  BY <1>1, <1>2, <1>13, <1>18, <1>19, Zenon

(* Of what was laid out there is such a path. *)
LEMMA PathIsThere ==
  ASSUME BytesAssumption, NEW reader, NEW w \in Nat, w <= Word, NEW d, NEW s, NEW C,
         IsLaidOut(w, d, s, C), Len(d) < Word
  PROVE  \E k \in Nat : k <= Len(s) /\ \E path : IsPath(path, k, reader, s, C, d)
<1>1. PICK parts : LaidOut(parts, w, d, s, C)
  BY Zenon DEF IsLaidOut
<1>2. /\ parts \in Seq(PartsOf(w))
      /\ d = FlattenSeq(Strand(parts, -1)) /\ s = FlattenSeq(Strand(parts, 0))
      /\ C = [c \in 1..w |-> FlattenSeq(Strand(parts, c))]
  BY <1>1, Zenon DEF LaidOut
<1>3. PICK k \in Nat : k = Len(parts)
  BY <1>2
<1>4. ASSUME NEW n \in 1..k PROVE parts[n] \in PartsOf(w)
  <2>1. PICK P : P = PartsOf(w)
    OBVIOUS
  <2>2. parts \in Seq(P)
    BY <2>1, <1>2
  <2>3. QED
    BY <2>1, <2>2, <1>3, ElementOfSeq
<1>5. ASSUME NEW c \in Int
      PROVE  /\ Strand(parts, c) \in Seq(Seq(Nat)) /\ Len(Strand(parts, c)) = k
             /\ \A n \in 1..k : Strand(parts, c)[n] = Laid(parts[n], c)
             /\ FlattenSeq(Strand(parts, c)) \in Seq(Nat)
  BY <1>2, <1>3, StrandIs, Zenon
<1>6. PICK data \in Seq(Nat) : data = d
  <2>1. -1 \in Int
    OBVIOUS
  <2>2. QED
    BY <2>1, <1>2, <1>5, Zenon
<1>7. PICK skeleton \in Seq(Nat) : skeleton = s
  <2>1. 0 \in Int
    OBVIOUS
  <2>2. QED
    BY <2>1, <1>2, <1>5, Zenon
<1>8. PICK size \in Nat : size = Len(data) /\ size < Word
  BY <1>6
<1>9. PICK o : /\ o \in [0..k -> Seq(Nat)] /\ o[0] = <<>> /\ o[k] = data
               /\ \A n \in 1..k : o[n] = o[n - 1] \o parts[n].value /\ Len(o[n - 1]) + Len(parts[n].value) <= size
  <2>1. PICK list : list = Strand(parts, -1)
    OBVIOUS
  <2>2. -1 \in Int
    OBVIOUS
  <2>3. list \in Seq(Seq(Nat)) /\ Len(list) = k /\ \A n \in 1..k : list[n] = parts[n].value
    BY <2>1, <2>2, <1>5, Zenon DEF Laid
  <2>4. PICK o : Grows(o, list, FlattenSeq(list))
    BY <2>3, FlatGrows
  <2>5. FlattenSeq(list) = data
    BY <2>1, <1>2, <1>6, Zenon
  <2>6. /\ o \in [0..k -> Seq(Nat)] /\ o[0] = <<>> /\ o[k] = data
        /\ \A n \in 1..k : o[n] = o[n - 1] \o list[n] /\ Len(o[n - 1]) + Len(list[n]) <= size
    BY <2>3, <2>4, <2>5, <1>8, Zenon DEF Grows
  <2>7. QED
    BY <2>3, <2>6, Zenon
<1>10. PICK q : /\ q \in [0..k -> Seq(Nat)] /\ q[0] = skeleton /\ q[k] = <<>>
                /\ \A n \in 1..k : q[n - 1] = PartCode(parts[n]) \o q[n]
  <2>1. PICK list : list = Strand(parts, 0)
    OBVIOUS
  <2>2. 0 \in Int /\ 0 # -1
    OBVIOUS
  <2>3. list \in Seq(Seq(Nat)) /\ Len(list) = k /\ \A n \in 1..k : list[n] = PartCode(parts[n])
    BY <2>1, <2>2, <1>5, Zenon DEF Laid
  <2>4. PICK q : Leaves(q, list, FlattenSeq(list))
    BY <2>3, FlatLeaves
  <2>5. QED
    BY <2>1, <2>3, <2>4, <1>2, <1>7, Zenon DEF Leaves
<1>11. k <= Len(s)
  <2>1. PICK list : list = Strand(parts, 0)
    OBVIOUS
  <2>2. 0 \in Int /\ 0 # -1
    OBVIOUS
  <2>3. list \in Seq(Seq(Nat)) /\ Len(list) = k /\ \A n \in 1..k : list[n] = PartCode(parts[n])
    BY <2>1, <2>2, <1>5, Zenon DEF Laid
  <2>4. \A n \in 1..k : PartCode(parts[n]) # <<>>
    BY <2>2, <1>4, LaidIs, Zenon
  <2>5. Full(list)
    BY <2>3, <2>4, Zenon DEF Full
  <2>6. Len(list) <= Len(FlattenSeq(list))
    BY <2>3, <2>5, PartsFit
  <2>7. QED
    BY <2>1, <2>3, <2>6, <1>2, Zenon
<1> DEFINE l == [c \in 1..w |-> CHOOSE r : Leaves(r, Strand(parts, c), FlattenSeq(Strand(parts, c)))]
<1>12. ASSUME NEW c \in 1..w
       PROVE  /\ l[c] \in [0..k -> Seq(Nat)] /\ l[c][0] = C[c] /\ l[c][k] = <<>>
              /\ \A n \in 1..k : l[c][n - 1] = Laid(parts[n], c) \o l[c][n]
  <2>1. PICK list : list = Strand(parts, c)
    OBVIOUS
  <2>2. c \in Int
    OBVIOUS
  <2>3. list \in Seq(Seq(Nat)) /\ Len(list) = k /\ \A n \in 1..k : list[n] = Laid(parts[n], c)
    BY <2>1, <2>2, <1>5, Zenon
  <2>4. \E r : Leaves(r, list, FlattenSeq(list))
    BY <2>3, FlatLeaves
  <2>5. Leaves(l[c], list, FlattenSeq(list))
    BY <2>1, <2>4, Zenon
  <2> HIDE DEF l
  <2>6. FlattenSeq(list) = C[c]
    BY <2>1, <1>2, Zenon
  <2>7. QED
    BY <2>3, <2>5, <2>6, Zenon DEF Leaves
<1> HIDE DEF l
<1> DEFINE left(n) == [c \in 1..w |-> l[c][n]]
           path == [n \in 0..k |-> Reading(q[n], left(n), Unread(left(n)), o[n])]
<1>13. ASSUME NEW n \in 0..k
       PROVE  /\ left(n) \in Seq(Seq(Nat)) /\ Len(left(n)) = w /\ DOMAIN left(n) = 1..w
              /\ \A c \in 1..w : left(n)[c] = l[c][n] /\ left(n)[c] \in Seq(Nat)
  <2>1. PICK L : L = Seq(Nat)
    OBVIOUS
  <2>2. \A c \in 1..w : l[c][n] \in L
    BY <2>1, <1>12
  <2>3. left(n) \in [1..w -> L]
    BY <2>2
  <2> HIDE DEF left
  <2>4. left(n) \in Seq(L) /\ Len(left(n)) = w /\ DOMAIN left(n) = 1..w
    BY <2>3
  <2>5. \A c \in 1..w : left(n)[c] = l[c][n]
    BY Zenon DEF left
  <2>6. QED
    BY <2>1, <2>2, <2>4, <2>5, Zenon
<1>14. left(0) = C
  <2>1. \A c \in 1..w : l[c][0] = FlattenSeq(Strand(parts, c))
    BY <1>2, <1>12, Zenon
  <2>2. QED
    BY <2>1, <1>2, Zenon
<1>15. left(k) = [c \in 1..w |-> <<>>]
  BY <1>12, Zenon
<1>16. ASSUME NEW n \in 1..k PROVE BeforePart(parts[n], w, left(n - 1), left(n))
  <2>1. n - 1 \in 0..k /\ n \in 0..k
    OBVIOUS
  <2>2. left(n - 1) = [c \in 1..w |-> left(n - 1)[c]] /\ left(n) = [c \in 1..w |-> left(n)[c]]
    BY Zenon
  <2> HIDE DEF left
  <2>3. /\ DOMAIN left(n - 1) = 1..w /\ Len(left(n - 1)) = w /\ DOMAIN left(n) = 1..w
        /\ \A c \in 1..w : /\ left(n - 1)[c] = l[c][n - 1] /\ left(n)[c] = l[c][n] /\ left(n)[c] \in Seq(Nat)
    BY <2>1, <1>13, Zenon
  <2>4. \A c \in 1..w : l[c][n - 1] = Laid(parts[n], c) \o l[c][n]
    BY <1>12, Zenon
  <2>5. QED
    BY <2>2, <2>3, <2>4, Zenon DEF BeforePart
<1>17. Unread(left(k)) = 0
  <2>1. {c \in DOMAIN left(k) : left(k)[c] # <<>>} = {}
    BY <1>15, Zenon
  <2>2. Cardinality({}) = 0
    BY FS_EmptySet
  <2>3. QED
    BY <2>1, <2>2, Zenon DEF Unread
<1> HIDE DEF left
<1>18. ASSUME NEW n \in 1..k PROVE ReadPart(reader, path[n - 1], size) = {path[n]}
  <2>1. n - 1 \in 0..k /\ n \in 0..k
    OBVIOUS
  <2>2. PICK p \in PartsOf(w) : p = parts[n]
    BY <1>4
  <2>3. PICK x, y \in Seq(Nat) : x = o[n - 1] /\ y = q[n]
    BY <2>1, <1>9, <1>10
  <2>4. PICK value \in Seq(Nat) : value = p.value
    BY <2>2 DEF PartsOf
  <2>5. Len(x) + Len(value) <= size
    BY <2>2, <2>3, <2>4, <1>9, Zenon
  <2>6. Len(value) < Word
    <3>1. Len(x) \in Nat /\ Len(value) \in Nat /\ Word \in Nat
      BY DEF BytesAssumption
    <3>2. QED
      BY ONLY <3>1, <2>5, <1>8
  <2>7. PartIsRead(reader, p, left(n - 1), left(n), x, y, size)
    <3>1. PICK B, E : B = left(n - 1) /\ E = left(n)
      OBVIOUS
    <3>2. BeforePart(p, w, B, E)
      BY <3>1, <2>2, <1>16, Zenon
    <3>3. PartIsRead(reader, p, B, E, x, y, size)
      BY <3>2, <2>4, <2>5, <2>6, ReadsOne
    <3>4. QED
      BY <3>1, <3>3, Zenon
  <2>8. path[n - 1] = Reading(PartCode(p) \o y, left(n - 1), Unread(left(n - 1)), x)
    BY <2>1, <2>2, <2>3, <1>10, Zenon
  <2>9. path[n] = Reading(y, left(n), Unread(left(n)), x \o p.value)
    BY <2>1, <2>2, <2>3, <1>9, Zenon
  <2>10. QED
    BY <2>7, <2>8, <2>9, Zenon DEF PartIsRead
<1>19. path[0] = Reading(s, C, Unread(C), <<>>)
  BY 0 \in 0..k, <1>7, <1>9, <1>10, <1>14, Zenon
<1>20. path[k] = Reading(<<>>, [c \in DOMAIN C |-> <<>>], 0, d)
  <2>1. k \in 0..k
    OBVIOUS
  <2>2. DOMAIN C = 1..w
    BY <1>2, Zenon
  <2>3. QED
    BY <2>1, <2>2, <1>6, <1>9, <1>10, <1>15, <1>17, Zenon
<1> HIDE DEF path
<1>21. IsPath(path, k, reader, s, C, d)
  BY <1>6, <1>8, <1>18, <1>19, <1>20, Zenon DEF IsPath
<1>22. QED
  BY <1>11, <1>21, Zenon

(* The columns of JSON records are read back, by each reader, to the bytes *)
(* of the records, whatever a parser made of these: which bytes it took    *)
(* for values, which keys it gave them and which records were not JSON.    *)
(* A writer whose buffer is too small writes nothing.                      *)
THEOREM ColumnsReadBack ==
  ASSUME BytesAssumption, ColumnsAssumption, NEW reader, NEW K, NEW records \in Seq(JsonRecord(K)),
         Len(JsonData(records)) < Word, NEW code \in EncodeJson(records)
  PROVE  DecodeJson(reader, code, Len(JsonData(records))) = {JsonData(records)}
<1>1. PICK columns : columns = JsonColumns(records)
  OBVIOUS
<1>2. PICK d : d = JsonData(records)
  OBVIOUS
<1>3. HasMade(K, columns, d) /\ Len(columns.keys) <= MaxChannels
  <2>1. HasWritten(K, records)
    BY WritesRecords
  <2>2. QED
    BY <2>1, <1>1, <1>2, Zenon DEF HasWritten
<1>4. PICK keys \in Seq(K) : keys = columns.keys
  BY <1>3, Zenon DEF HasMade
<1>5. PICK w \in Nat : w = Len(keys)
  OBVIOUS
<1>6. PICK s, C : s = columns.skeleton /\ C = columns.channels
  OBVIOUS
<1>7. IsLaidOut(w, d, s, C)
  BY <1>3, <1>4, <1>5, <1>6, Zenon DEF HasMade
<1>8. d \in Seq(Nat) /\ s \in Seq(Nat) /\ C \in Seq(Seq(Nat)) /\ Len(C) = w
  BY <1>7, LaidOutIs, Zenon
<1>9. PICK L : L = Seq(Nat)
  OBVIOUS
<1>10. PICK parts \in Seq(L) : parts = <<s>> \o C /\ Len(parts) = 1 + w /\ parts[1] = s /\ Tail(parts) = C
  <2>1. /\ <<s>> \o C \in Seq(L) /\ Len(<<s>> \o C) = 1 + Len(C)
        /\ (<<s>> \o C)[1] = s /\ Tail(<<s>> \o C) = C
    BY <1>8, <1>9, FirstPart
  <2>2. QED
    BY <2>1, <1>8, Zenon
<1>11. parts = JsonParts(records)
  BY <1>1, <1>6, <1>10, Zenon DEF JsonParts
<1>12. PICK size, most, more, over \in Nat :
         size = Len(d) /\ most = MaxChannels /\ more = MaxRawExpansion /\ over = RawOverhead
  <2>1. Len(d) \in Nat
    BY <1>8
  <2>2. MaxChannels \in Nat /\ MaxRawExpansion \in Nat /\ RawOverhead \in Nat
    BY DEF ColumnsAssumption
  <2>3. QED
    BY <2>1, <2>2, Zenon
<1>13. w <= most /\ 1 <= 1 + w /\ 1 + w <= most + 1
  <2>1. w <= most
    BY <1>3, <1>4, <1>5, <1>12, Zenon
  <2>2. QED
    BY <2>1
<1>14. PICK flat \in Seq(Nat) : flat = FlattenSeq(parts)
  <2>1. parts \in Seq(Seq(Nat))
    BY <1>9, Zenon
  <2>2. QED
    BY <2>1, PartsFit
<1>15. Len(flat) <= 2 * size + over /\ code = PackParts(parts)
  <2>1. code \in IF Len(flat) > 2 * size + over THEN {} ELSE {PackParts(parts)}
    BY <1>2, <1>11, <1>12, <1>14, Zenon DEF EncodeJson
  <2>2. ~(Len(flat) > 2 * size + over) /\ code = PackParts(parts)
    BY <2>1, Zenon
  <2>3. PICK j, b \in Nat : j = Len(flat) /\ b = 2 * size + over
    OBVIOUS
  <2>4. j <= b
    BY <2>2, <2>3
  <2>5. QED
    BY <2>2, <2>3, <2>4, Zenon
<1>16. Len(flat) <= more * size + over
  <2>1. PICK e \in Nat : more = 2 + e
    <3>1. more >= 2
      BY <1>12 DEF ColumnsAssumption
    <3>2. more - 2 \in Nat /\ more = 2 + (more - 2)
      BY <3>1
    <3>3. QED
      BY <3>2, Zenon
  <2>2. PICK f \in Nat : f = e * size
    OBVIOUS
  <2>3. (2 + e) * size = 2 * size + f
    BY <2>2
  <2>4. Len(flat) \in Nat
    OBVIOUS
  <2>5. QED
    BY <2>1, <2>3, <2>4, <1>15
<1>17. UnpackParts(code) = {parts}
  <2>1. parts \in Seq(Seq(Nat))
    BY <1>9, Zenon
  <2>2. 1 <= Len(parts) /\ Len(parts) <= MaxChannels + 1
    BY <1>10, <1>12, <1>13, Zenon
  <2>3. UnpackParts(PackParts(parts)) = {parts}
    BY <2>1, <2>2, Unpacks
  <2>4. QED
    BY <2>3, <1>15, Zenon
<1>18. {p \in UnpackParts(code) : Len(FlattenSeq(p)) <= MaxRawExpansion * size + RawOverhead} = {parts}
  BY <1>12, <1>14, <1>16, <1>17, Zenon
<1> DEFINE Read(p) == ReadSkeleton(reader, p[1], Tail(p),
                                   Cardinality({c \in DOMAIN Tail(p) : Tail(p)[c] # <<>>}), size)
<1>19. DecodeJson(reader, code, size) = UNION {Read(p) : p \in {parts}}
  BY <1>18, Zenon DEF DecodeJson
<1>20. Read(parts) = ReadSkeleton(reader, s, C, Unread(C), Len(d))
  BY <1>10, <1>12, Zenon DEF Unread
<1> HIDE DEF Read
<1>21. ReadSkeleton(reader, s, C, Unread(C), Len(d)) = {d}
  <2>1. PICK word \in Nat : word = Word /\ most <= word
    BY <1>12 DEF BytesAssumption, ColumnsAssumption
  <2>2. w <= word
    BY <2>1, <1>13
  <2>3. w <= Word /\ Len(d) < Word
    BY <2>1, <2>2, <1>2, Zenon
  <2>4. PICK k \in Nat : k <= Len(s) /\ \E path : IsPath(path, k, reader, s, C, d)
    BY <2>3, <1>7, PathIsThere
  <2>5. PICK path : IsPath(path, k, reader, s, C, d)
    BY <2>4
  <2>6. QED
    BY <2>4, <2>5, <1>8, PathIsRead
<1>22. UNION {Read(p) : p \in {parts}} = Read(parts)
  BY Zenon
<1>23. QED
  BY <1>2, <1>12, <1>19, <1>20, <1>21, <1>22, Zenon
================================================================================
