----------------------------- MODULE NumberLemmas -----------------------------
(***************************************************************************)
(* A set of numbers that is not empty has a least one, and Min finds it:   *)
(* the code's searches for the first match and the first device. From it   *)
(* follow induction over the subsets of a finite set and over a range, and *)
(* what a sum over a finite set is: the sums a CTC distribution is made of.*)
(***************************************************************************)
EXTENDS Integers, FiniteSets, FiniteSetsExt, FiniteSetTheorems, WellFoundedInduction, TLAPS

LEMMA LeastNumber ==
  ASSUME NEW S, S \subseteq Nat, S # {}
  PROVE  \E n \in S : \A k \in S : n <= k
<1> DEFINE R == OpToRel(<, Nat)
<1>1. IsWellFoundedOn(R, Nat)
  BY NatLessThanWellFounded
<1>2. \A n, k \in Nat : k < n => <<k, n>> \in R
  BY DEF OpToRel
<1> HIDE DEF R
<1>3. PICK n \in S : \A k \in S : ~(<<k, n>> \in R)
  BY <1>1, WFMin
<1>4. ASSUME NEW k \in S
      PROVE  n <= k
  <2>1. n \in Nat /\ k \in Nat /\ ~(k < n)
    BY <1>2, <1>3, <1>4
  <2>2. QED
    BY <2>1
<1>5. QED
  BY <1>4

LEMMA MinIsLeast ==
  ASSUME NEW S, S \subseteq Nat, S # {}
  PROVE  Min(S) \in S /\ \A k \in S : Min(S) <= k
BY LeastNumber DEF Min

LEMMA MinOfOne ==
  ASSUME NEW n \in Nat
  PROVE  Min({n}) = n
<1>1. Min({n}) \in {n}
  BY MinIsLeast
<1>2. QED
  BY <1>1
-----------------------------------------------------------------------------
(* Induction over a finite set: a set of its subsets that has every subset *)
(* from which no element can be taken without falling into it, has it all. *)
LEMMA SubsetInduction ==
  ASSUME NEW S, IsFiniteSet(S), NEW P,
         \A s \in SUBSET S : (\A x \in s : s \ {x} \in P) => s \in P
  PROVE  S \in P
<1> DEFINE Sizes == {n \in Nat : \E s \in SUBSET S : s \notin P /\ Cardinality(s) = n}
<1>1. Sizes \subseteq Nat
  OBVIOUS
<1>2. \A s \in SUBSET S : IsFiniteSet(s) /\ Cardinality(s) \in Nat
  BY FS_Subset, FS_CardinalityType
<1>3. ASSUME Sizes # {}
      PROVE  FALSE
  <2>1. PICK n \in Sizes : \A k \in Sizes : n <= k
    BY <1>1, <1>3, LeastNumber
  <2>2. PICK s \in SUBSET S : s \notin P /\ Cardinality(s) = n
    OBVIOUS
  <2>3. ASSUME NEW x \in s
        PROVE  s \ {x} \in P
    <3>1. s \ {x} \in SUBSET S /\ Cardinality(s \ {x}) = n - 1 /\ n \in Nat
      BY <1>2, <2>2, <2>3, FS_RemoveElement
    <3>2. n - 1 \in Nat /\ ~(n <= n - 1)
      BY <1>2, <3>1
    <3>3. n - 1 \notin Sizes
      BY <2>1, <3>2
    <3>4. QED
      BY <3>1, <3>2, <3>3
  <2>4. QED
    BY <2>2, <2>3
<1>4. QED
  <2>1. CASE S \in P
    BY <2>1
  <2>2. CASE S \notin P
    <3>1. Cardinality(S) \in Sizes
      BY <1>2, <2>2
    <3>2. QED
      BY <1>3, <3>1
  <2>3. QED
    BY <2>1, <2>2

(* What a sum over the subsets of S is: nothing over none, and an element  *)
(* and the sum over the others.                                            *)
SumsOver(sums, f, S) ==
  /\ sums \in [SUBSET S -> Nat] /\ sums[{}] = 0
  /\ \A s \in SUBSET S : \A x \in s : sums[s] = f[x] + sums[s \ {x}]

LEMMA SumsExist ==
  ASSUME NEW S, IsFiniteSet(S), NEW f, \A x \in S : f[x] \in Nat
  PROVE  \E sums : SumsOver(sums, f, S)
<1> DEFINE P == {s \in SUBSET S : \E sums : SumsOver(sums, f, s)}
<1>1. ASSUME NEW s \in SUBSET S, \A x \in s : s \ {x} \in P
      PROVE  s \in P
  <2>1. CASE s = {}
    <3>1. SumsOver([t \in SUBSET {} |-> 0], f, {})
      BY DEF SumsOver
    <3>2. QED
      BY <2>1, <3>1
  <2>2. CASE s # {}
    <3>1. PICK x \in s : TRUE
      BY <2>2
    <3> DEFINE others == s \ {x}
    <3>2. PICK sums : SumsOver(sums, f, others)
      BY <1>1, <3>1
    <3>3. /\ sums \in [SUBSET others -> Nat] /\ sums[{}] = 0
          /\ \A t \in SUBSET others : \A y \in t : sums[t] = f[y] + sums[t \ {y}]
      BY <3>2 DEF SumsOver
    <3> DEFINE more == [t \in SUBSET s |-> IF x \in t THEN f[x] + sums[t \ {x}] ELSE sums[t]]
    <3>4. \A t \in SUBSET s : t \ {x} \in SUBSET others /\ sums[t \ {x}] \in Nat
      BY <3>3
    <3>5. \A t \in SUBSET s : x \notin t => t \in SUBSET others /\ sums[t] \in Nat
      BY <3>3
    <3>6. f[x] \in Nat
      BY <3>1
    <3>7. \A t \in SUBSET s : more[t] \in Nat
      BY <3>4, <3>5, <3>6
    <3>8. ASSUME NEW t \in SUBSET s, NEW y \in t
          PROVE  more[t] = f[y] + more[t \ {y}]
      <4>1. t \ {y} \in SUBSET s /\ f[y] \in Nat /\ more[t \ {y}] \in Nat
        BY <3>7
      <4>2. CASE y = x
        BY <4>1, <4>2
      <4>3. CASE y # x /\ x \in t
        <5>1. more[t] = f[x] + sums[t \ {x}] /\ more[t \ {y}] = f[x] + sums[(t \ {y}) \ {x}]
          BY <4>1, <4>3
        <5>2. (t \ {y}) \ {x} = (t \ {x}) \ {y} /\ y \in t \ {x}
          BY <4>3
        <5>3. sums[t \ {x}] = f[y] + sums[(t \ {x}) \ {y}]
          BY <3>3, <3>4, <5>2
        <5>4. sums[(t \ {x}) \ {y}] \in Nat
          BY <3>4, <4>1, <5>2
        <5>5. QED
          BY <3>6, <4>1, <5>1, <5>2, <5>3, <5>4
      <4>4. CASE y # x /\ x \notin t
        <5>1. more[t] = sums[t] /\ more[t \ {y}] = sums[t \ {y}]
          BY <4>1, <4>4
        <5>2. QED
          BY <3>3, <3>5, <4>4, <5>1
      <4>5. QED
        BY <4>2, <4>3, <4>4
    <3>9. more \in [SUBSET s -> Nat] /\ more[{}] = 0
      BY <3>3, <3>7
    <3> HIDE DEF more
    <3>10. SumsOver(more, f, s)
      BY <3>8, <3>9 DEF SumsOver
    <3>11. QED
      BY <3>10
  <2>3. QED
    BY <2>1, <2>2
<1> HIDE DEF P
<1>2. S \in P
  BY <1>1, SubsetInduction
<1>3. QED
  BY <1>2 DEF P

LEMMA SumOverAll ==
  ASSUME NEW S, IsFiniteSet(S), NEW f, NEW sums, SumsOver(sums, f, S)
  PROVE  SumFunctionOnSet(f, S) = sums[S]
<1> DEFINE Step(g) == [s \in SUBSET S |-> IF s = {} THEN 0
                         ELSE f[CHOOSE x \in s : TRUE] + g[s \ {CHOOSE x \in s : TRUE}]]
           iter == CHOOSE g : g = Step(g)
<1>1. SumFunctionOnSet(f, S) = iter[S]
  BY DEF SumFunctionOnSet, FoldFunctionOnSet, MapThenFoldSet
<1>2. /\ sums \in [SUBSET S -> Nat] /\ sums[{}] = 0
      /\ \A s \in SUBSET S : \A x \in s : sums[s] = f[x] + sums[s \ {x}]
  BY DEF SumsOver
<1>3. sums = Step(sums)
  <2>1. ASSUME NEW s \in SUBSET S
        PROVE  sums[s] = Step(sums)[s]
    <3>1. CASE s = {}
      BY <1>2, <3>1
    <3>2. CASE s # {}
      BY <1>2, <3>2
    <3>3. QED
      BY <3>1, <3>2
  <2> DEFINE stepped == Step(sums)
  <2>2. stepped = [s \in SUBSET S |-> stepped[s]]
    OBVIOUS
  <2>3. sums = [s \in SUBSET S |-> sums[s]]
    BY <1>2
  <2>4. \A s \in SUBSET S : sums[s] = stepped[s]
    BY <2>1
  <2> HIDE DEF stepped
  <2>5. sums = stepped
    BY <2>2, <2>3, <2>4
  <2>6. QED
    BY <2>5 DEF stepped
<1>4. iter = Step(iter)
  BY <1>3
<1> HIDE DEF iter
<1>5. iter[{}] = 0
  BY <1>4
<1>6. \A s \in SUBSET S : s # {} => \E x \in s : iter[s] = f[x] + iter[s \ {x}]
  BY <1>4
<1> DEFINE P == {s \in SUBSET S : iter[s] = sums[s]}
<1>7. ASSUME NEW s \in SUBSET S, \A x \in s : s \ {x} \in P
      PROVE  s \in P
  <2>1. CASE s = {}
    BY <1>2, <1>5, <2>1
  <2>2. CASE s # {}
    <3>1. PICK x \in s : iter[s] = f[x] + iter[s \ {x}]
      BY <1>6, <2>2
    <3>2. iter[s \ {x}] = sums[s \ {x}]
      BY <1>7
    <3>3. sums[s] = f[x] + sums[s \ {x}]
      BY <1>2
    <3>4. QED
      BY <3>1, <3>2, <3>3
  <2>3. QED
    BY <2>1, <2>2
<1> HIDE DEF P
<1>8. S \in P
  BY <1>7, SubsetInduction
<1>9. QED
  BY <1>1, <1>8 DEF P

(* The sum over a finite set of numbers, an element at a time. *)
LEMMA SumProperties ==
  ASSUME NEW S, IsFiniteSet(S), NEW f, \A x \in S : f[x] \in Nat
  PROVE  /\ SumFunctionOnSet(f, {}) = 0
         /\ \A T \in SUBSET S : SumFunctionOnSet(f, T) \in Nat
         /\ \A T \in SUBSET S : \A x \in T :
              SumFunctionOnSet(f, T) = f[x] + SumFunctionOnSet(f, T \ {x})
<1>1. PICK sums : SumsOver(sums, f, S)
  BY SumsExist
<1>2. /\ sums \in [SUBSET S -> Nat] /\ sums[{}] = 0
      /\ \A s \in SUBSET S : \A x \in s : sums[s] = f[x] + sums[s \ {x}]
  BY <1>1 DEF SumsOver
<1>3. ASSUME NEW T \in SUBSET S
      PROVE  SumFunctionOnSet(f, T) = sums[T]
  <2> DEFINE part == [s \in SUBSET T |-> sums[s]]
  <2>1. SumsOver(part, f, T)
    <3>1. part \in [SUBSET T -> Nat] /\ part[{}] = 0
      BY <1>2
    <3>2. \A s \in SUBSET T : \A x \in s : part[s] = f[x] + part[s \ {x}]
      BY <1>2
    <3> HIDE DEF part
    <3>3. QED
      BY <3>1, <3>2 DEF SumsOver
  <2>2. IsFiniteSet(T)
    BY FS_Subset
  <2>3. part[T] = sums[T]
    OBVIOUS
  <2> HIDE DEF part
  <2>4. SumFunctionOnSet(f, T) = part[T]
    BY <2>1, <2>2, SumOverAll
  <2>5. QED
    BY <2>3, <2>4
<1>4. \A T \in SUBSET S : \A x \in T : T \ {x} \in SUBSET S
  OBVIOUS
<1>5. {} \in SUBSET S
  OBVIOUS
<1>6. QED
  BY <1>2, <1>3, <1>4, <1>5

LEMMA SumAtLeast ==
  ASSUME NEW S, IsFiniteSet(S), NEW f, \A x \in S : f[x] \in Nat, NEW x \in S
  PROVE  f[x] <= SumFunctionOnSet(f, S)
<1> DEFINE sum == SumFunctionOnSet(f, S)
           others == SumFunctionOnSet(f, S \ {x})
<1>1. sum = f[x] + others /\ others \in Nat /\ f[x] \in Nat
  BY SumProperties
<1> HIDE DEF sum, others
<1>2. f[x] <= sum
  BY <1>1
<1>3. QED
  BY <1>2 DEF sum

LEMMA SumOfTwo ==
  ASSUME NEW S, IsFiniteSet(S), NEW f, \A x \in S : f[x] \in Nat,
         NEW A \in SUBSET S, NEW B \in SUBSET S, A \cap B = {}
  PROVE  SumFunctionOnSet(f, A \union B) = SumFunctionOnSet(f, A) + SumFunctionOnSet(f, B)
<1> DEFINE Sum(s) == SumFunctionOnSet(f, s)
           P == {s \in SUBSET B : Sum(A \union s) = Sum(A) + Sum(s)}
<1>1. /\ Sum({}) = 0
      /\ \A s \in SUBSET S : Sum(s) \in Nat
      /\ \A s \in SUBSET S : \A x \in s : Sum(s) = f[x] + Sum(s \ {x})
  BY SumProperties
<1> HIDE DEF Sum
<1>2. ASSUME NEW s \in SUBSET B, \A x \in s : s \ {x} \in P
      PROVE  s \in P
  <2>1. CASE s = {}
    <3>1. A \union s = A
      BY <2>1
    <3>2. Sum(A) \in Nat
      BY <1>1
    <3>3. Sum(A \union s) = Sum(A) + Sum(s)
      BY <1>1, <2>1, <3>1, <3>2
    <3>4. QED
      BY <3>3
  <2>2. CASE s # {}
    <3>1. PICK x \in s : TRUE
      BY <2>2
    <3>2. Sum(A \union (s \ {x})) = Sum(A) + Sum(s \ {x})
      BY <1>2, <3>1
    <3>3. x \in S /\ x \notin A /\ s \in SUBSET S /\ A \union s \in SUBSET S /\ s \ {x} \in SUBSET S
      BY <3>1
    <3>4. (A \union s) \ {x} = A \union (s \ {x})
      BY <3>1, <3>3
    <3>5. Sum(A \union s) = f[x] + Sum(A \union (s \ {x})) /\ Sum(s) = f[x] + Sum(s \ {x})
      <4>1. x \in A \union s
        BY <3>1
      <4>2. Sum(A \union s) = f[x] + Sum((A \union s) \ {x})
        BY <1>1, <3>3, <4>1
      <4>3. QED
        BY <1>1, <3>1, <3>3, <3>4, <4>2
    <3>6. Sum(A) \in Nat /\ Sum(s \ {x}) \in Nat /\ f[x] \in Nat
      BY <1>1, <3>3
    <3>7. Sum(A \union s) = Sum(A) + Sum(s)
      BY <3>2, <3>5, <3>6
    <3>8. QED
      BY <3>7
  <2>3. QED
    BY <2>1, <2>2
<1> HIDE DEF P
<1>3. B \in P
  <2>1. IsFiniteSet(B)
    BY FS_Subset
  <2>2. QED
    BY <1>2, <2>1, SubsetInduction
<1>4. QED
  BY <1>3 DEF P, Sum

(* Every element is mapped to one of its own that weighs c times as much.  *)
LEMMA SumScaled ==
  ASSUME NEW S, IsFiniteSet(S), NEW f, \A x \in S : f[x] \in Nat,
         NEW c \in Nat, NEW h, NEW m,
         \A x, y \in S : m[x] = m[y] => x = y,
         \A x \in S : h[m[x]] = f[x] * c
  PROVE  SumFunctionOnSet(h, {m[x] : x \in S}) = SumFunctionOnSet(f, S) * c
<1> DEFINE Sum(s) == SumFunctionOnSet(f, s)
           Image(s) == {m[x] : x \in s}
           Scaled(s) == SumFunctionOnSet(h, Image(s))
           P == {s \in SUBSET S : Scaled(s) = Sum(s) * c}
<1>1. /\ Sum({}) = 0
      /\ \A s \in SUBSET S : Sum(s) \in Nat
      /\ \A s \in SUBSET S : \A x \in s : Sum(s) = f[x] + Sum(s \ {x})
  BY SumProperties
<1>2. IsFiniteSet(Image(S))
  <2> DEFINE M == [x \in S |-> m[x]]
  <2>1. M \in Surjection(S, Image(S))
    BY DEF Surjection
  <2> HIDE DEF M
  <2>2. QED
    BY <2>1, FS_Surjection
<1>3. \A y \in Image(S) : h[y] \in Nat
  <2>1. \A n \in Nat : n * c \in Nat
    OBVIOUS
  <2>2. QED
    BY <2>1
<1>4. \A s \in SUBSET S : Image(s) \in SUBSET Image(S)
  OBVIOUS
<1>5. \A s \in SUBSET S : \A x \in s : Image(s) \ {m[x]} = Image(s \ {x}) /\ m[x] \in Image(s)
  OBVIOUS
<1>6. Image({}) = {}
  OBVIOUS
<1> HIDE DEF Image
<1>7. /\ SumFunctionOnSet(h, {}) = 0
      /\ \A T \in SUBSET Image(S) : SumFunctionOnSet(h, T) \in Nat
      /\ \A T \in SUBSET Image(S) : \A y \in T :
           SumFunctionOnSet(h, T) = h[y] + SumFunctionOnSet(h, T \ {y})
  BY <1>2, <1>3, SumProperties
<1>8. /\ Scaled({}) = 0
      /\ \A s \in SUBSET S : Scaled(s) \in Nat
      /\ \A s \in SUBSET S : \A x \in s : Scaled(s) = h[m[x]] + Scaled(s \ {x})
  <2> DEFINE SumOf(t) == SumFunctionOnSet(h, t)
  <2>1. Scaled({}) = 0
    BY <1>6, <1>7
  <2>2. \A s \in SUBSET S : Scaled(s) \in Nat
    BY <1>4, <1>7
  <2>3. ASSUME NEW s \in SUBSET S, NEW x \in s
        PROVE  Scaled(s) = h[m[x]] + Scaled(s \ {x})
    <3>1. SumOf(Image(s)) = h[m[x]] + SumOf(Image(s) \ {m[x]})
      BY <1>4, <1>5, <1>7
    <3>2. QED
      BY <1>5, <3>1
  <2>4. QED
    BY <2>1, <2>2, <2>3
<1>9. \A a, b \in Nat : (a + b) * c = a * c + b * c
  OBVIOUS
<1> HIDE DEF Sum, Scaled
<1>10. ASSUME NEW s \in SUBSET S, \A x \in s : s \ {x} \in P
       PROVE  s \in P
  <2>1. CASE s = {}
    BY <1>1, <1>8, <2>1
  <2>2. CASE s # {}
    <3>1. PICK x \in s : TRUE
      BY <2>2
    <3>2. Scaled(s \ {x}) = Sum(s \ {x}) * c
      BY <1>10, <3>1
    <3>3. Sum(s) = f[x] + Sum(s \ {x}) /\ Scaled(s) = f[x] * c + Scaled(s \ {x})
      BY <1>1, <1>8, <3>1
    <3>4. s \ {x} \in SUBSET S /\ Sum(s \ {x}) \in Nat /\ f[x] \in Nat
      BY <1>1, <3>1
    <3>5. Sum(s) * c = f[x] * c + Sum(s \ {x}) * c
      BY <1>9, <3>3, <3>4
    <3>6. Scaled(s) = Sum(s) * c
      BY <3>2, <3>3, <3>5
    <3>7. QED
      BY <3>6
  <2>3. QED
    BY <2>1, <2>2
<1> HIDE DEF P
<1>11. S \in P
  BY <1>10, SubsetInduction
<1>12. QED
  BY <1>11 DEF P, Sum, Scaled, Image
-----------------------------------------------------------------------------
(* Induction over a range of numbers. *)
LEMMA RangeInduction ==
  ASSUME NEW n \in Nat, NEW P, 0 \in P, \A i \in 0 .. n - 1 : i \in P => i + 1 \in P
  PROVE  \A i \in 0 .. n : i \in P
<1> DEFINE Fails == {i \in 0 .. n : i \notin P}
<1>1. Fails \subseteq Nat
  OBVIOUS
<1>2. ASSUME Fails # {}
      PROVE  FALSE
  <2>1. PICK i \in Fails : \A k \in Fails : i <= k
    BY <1>1, <1>2, LeastNumber
  <2>2. i # 0 /\ i \in 0 .. n
    OBVIOUS
  <2>3. i - 1 \in 0 .. n - 1 /\ i - 1 \in 0 .. n /\ ~(i <= i - 1)
    BY <2>2
  <2>4. i - 1 \in P
    BY <2>1, <2>3
  <2>5. (i - 1) + 1 \in P
    BY <2>3, <2>4
  <2>6. (i - 1) + 1 = i
    BY <2>2
  <2>7. QED
    BY <2>5, <2>6
<1>3. QED
  BY <1>2

(* A recursive function over a range: its value at i is what step i makes  *)
(* of its value at i - 1.                                                  *)
Steps(f, n, base, step) ==
  f = [i \in 0 .. n |-> IF i = 0 THEN base ELSE step[i][f[i - 1]]]

LEMMA StepsExist ==
  ASSUME NEW n \in Nat, NEW V, NEW base \in V, NEW step \in [1 .. n -> [V -> V]]
  PROVE  \E f \in [0 .. n -> V] : Steps(f, n, base, step)
<1> DEFINE P == {m \in Nat : \E f \in [0 .. m -> V] : Steps(f, m, base, step)}
<1>1. 0 \in P
  <2> DEFINE f == [i \in 0 .. 0 |-> base]
  <2>1. f \in [0 .. 0 -> V] /\ Steps(f, 0, base, step)
    BY DEF Steps
  <2>2. QED
    BY <2>1
<1>2. ASSUME NEW m \in 0 .. n - 1, m \in P
      PROVE  m + 1 \in P
  <2>1. PICK f \in [0 .. m -> V] : Steps(f, m, base, step)
    BY <1>2
  <2>2. \A i \in 0 .. m : f[i] = IF i = 0 THEN base ELSE step[i][f[i - 1]]
    BY <2>1 DEF Steps
  <2> DEFINE g == [i \in 0 .. m + 1 |-> IF i = m + 1 THEN step[m + 1][f[m]] ELSE f[i]]
  <2>3. m \in Nat /\ m \in 0 .. m /\ m + 1 \in 1 .. n
    OBVIOUS
  <2>4. step[m + 1][f[m]] \in V
    <3>1. step[m + 1] \in [V -> V] /\ f[m] \in V
      BY <2>3
    <3>2. QED
      BY <3>1
  <2>5. ASSUME NEW i \in 0 .. m + 1
        PROVE  /\ g[i] \in V
               /\ g[i] = IF i = 0 THEN base ELSE step[i][g[i - 1]]
    <3>1. CASE i = m + 1
      <4>1. i - 1 = m /\ i # 0 /\ m \in 0 .. m + 1 /\ m # m + 1
        BY <2>3, <3>1
      <4>2. g[i] = step[m + 1][f[m]] /\ g[m] = f[m]
        BY <3>1, <4>1
      <4>3. QED
        BY <2>4, <3>1, <4>1, <4>2
    <3>2. CASE i \in 0 .. m
      <4>1. g[i] = f[i] /\ f[i] \in V
        BY <2>3, <3>2
      <4>2. CASE i = 0
        BY <2>2, <3>2, <4>1, <4>2
      <4>3. CASE i # 0
        <5>1. i - 1 \in 0 .. m + 1 /\ i - 1 # m + 1
          BY <2>3, <3>2, <4>3
        <5>2. g[i - 1] = f[i - 1]
          BY <5>1
        <5>3. QED
          BY <2>2, <3>2, <4>1, <4>3, <5>2
      <4>4. QED
        BY <4>2, <4>3
    <3>3. QED
      BY <2>3, <3>1, <3>2
  <2>6. g \in [0 .. m + 1 -> V]
    BY <2>5
  <2>7. g = [i \in 0 .. m + 1 |-> g[i]]
    OBVIOUS
  <2> HIDE DEF g
  <2>8. Steps(g, m + 1, base, step)
    BY <2>5, <2>7 DEF Steps
  <2>9. m + 1 \in Nat
    BY <2>3
  <2>10. QED
    BY <2>6, <2>8, <2>9
<1> HIDE DEF P
<1>3. \A i \in 0 .. n : i \in P
  BY <1>1, <1>2, RangeInduction
<1>4. QED
  <2>1. n \in 0 .. n
    OBVIOUS
  <2>2. n \in P
    BY <1>3, <2>1
  <2>3. QED
    BY <2>2 DEF P
===============================================================================
