------------------------- MODULE LearningLoop_proofs -------------------------
(***************************************************************************)
(* What is learned, planned and answered wrong stays consistent, for any    *)
(* number of questions, requests, days and items.  What a plan takes of a   *)
(* day is a sum, so the first part is about sums and sequences; it uses      *)
(* induction over the numbers as a statement about sets.                    *)
(***************************************************************************)
EXTENDS MCLearningLoop, FiniteSetTheorems, TLAPS

-----------------------------------------------------------------------------
(* Induction over the numbers.                                               *)

\* A set of numbers that has 0 and with each number the next has them all.
LEMMA SetInduction ==
  ASSUME NEW T, 0 \in T, \A n \in Nat : n \in T => n + 1 \in T
  PROVE  Nat \subseteq T
<1> SUFFICES ASSUME Nat \ T # {} PROVE FALSE
  OBVIOUS
<1>1. PICK R : R = {ss \in Nat \X Nat : ss[1] < ss[2]}
  OBVIOUS
<1>2. IsWellFoundedOn(R, Nat)
  BY <1>1, NatLessThanWellFounded, Zenon DEF OpToRel
<1>3. PICK S : S = Nat \ T
  OBVIOUS
<1>4. S \subseteq Nat /\ S # {}
  BY <1>3
<1>5. \E x \in S : \A y \in S : ~(<<y, x>> \in R)
  BY <1>2, <1>4, WFMin
<1>6. PICK x \in S : \A y \in S : ~(<<y, x>> \in R)
  BY <1>5
<1>7. \A y \in S : ~(y < x)
  BY <1>1, <1>4, <1>6
<1>8. x # 0 /\ x - 1 \in Nat /\ x - 1 \notin S
  BY <1>7, <1>4, <1>3
<1> QED
  BY <1>8, <1>3

\* What holds of 0 and is passed on up to n holds of n.
LEMMA UpTo ==
  ASSUME NEW n \in Nat, NEW T, 0 \in T, \A i \in 0..(n - 1) : i \in T => i + 1 \in T
  PROVE  0..n \subseteq T
<1>1. PICK U : U = {i \in Nat : i <= n => i \in T}
  OBVIOUS
<1>2. 0 \in U
  BY <1>1
<1>3. \A i \in Nat : i \in U => i + 1 \in U
  BY <1>1
<1>4. Nat \subseteq U
  BY <1>2, <1>3, SetInduction
<1> QED
  BY <1>1, <1>4

\* A function can be defined by what it is at 0 and how each value gives the next.
RunOf(f, a, step, n) == f[0] = a /\ \A i \in 1..n : f[i] = step[i][f[i - 1]]

\* There is such a function.
LEMMA RecursionExists ==
  ASSUME NEW V, NEW a \in V, NEW n \in Nat, NEW step \in [1..n -> [V -> V]]
  PROVE  \E f \in [0..n -> V] : RunOf(f, a, step, n)
<1>1. PICK T : T = {k \in 0..n : \E f \in [0..k -> V] : RunOf(f, a, step, k)}
  OBVIOUS
<1>2. 0 \in T
  <2>1. PICK f : f = [i \in 0..0 |-> a]
    OBVIOUS
  <2>2. f \in [0..0 -> V] /\ f[0] = a
    BY <2>1
  <2>3. RunOf(f, a, step, 0)
    BY <2>2 DEF RunOf
  <2> QED
    BY <1>1, <2>2, <2>3
<1>3. ASSUME NEW k \in 0..(n - 1), k \in T PROVE k + 1 \in T
  <2>1. PICK f \in [0..k -> V] : /\ f[0] = a
                                 /\ \A i \in 1..k : f[i] = step[i][f[i - 1]]
    BY <1>1, <1>3 DEF RunOf
  <2>2. PICK g : g = [i \in 0..(k + 1) |-> IF i <= k THEN f[i] ELSE step[k + 1][f[k]]]
    OBVIOUS
  <2>3. k + 1 \in 1..n /\ f[k] \in V
    OBVIOUS
  <2>4. step[k + 1] \in [V -> V]
    BY <2>3
  <2>5. step[k + 1][f[k]] \in V
    BY <2>3, <2>4
  <2>6. g \in [0..(k + 1) -> V] /\ g[0] = a
    BY <2>1, <2>2, <2>5
  <2>7. ASSUME NEW i \in 1..(k + 1) PROVE g[i] = step[i][g[i - 1]]
    <3>1. CASE i = k + 1
      <4>1. g[i] = step[k + 1][f[k]] /\ g[k] = f[k] /\ i - 1 = k
        BY <2>2, <3>1
      <4> QED
        BY <3>1, <4>1
    <3>2. CASE i # k + 1
      <4>1. i \in 1..k /\ g[i] = f[i] /\ g[i - 1] = f[i - 1]
        BY <2>2, <3>2
      <4> QED
        BY <2>1, <4>1
    <3> QED
      BY <3>1, <3>2
  <2>8. RunOf(g, a, step, k + 1)
    BY <2>6, <2>7 DEF RunOf
  <2>9. k + 1 \in 0..n
    BY <2>3
  <2> QED
    BY <1>1, <2>6, <2>8, <2>9
<1>4. 0..n \subseteq T
  BY <1>2, <1>3, UpTo
<1>5. n \in T
  BY <1>4
<1> QED
  BY <1>1, <1>5

-----------------------------------------------------------------------------
(* Sums.                                                                     *)
SumsOf(f, w, n) ==
    /\ f \in [0..n -> Nat] /\ f[0] = 0
    /\ \A i \in 1..n : f[i] = f[i - 1] + w[i]

\* Partial sums are determined by the weights.
LEMMA SumsUnique ==
  ASSUME NEW n \in Nat, NEW w, NEW f, NEW g, SumsOf(f, w, n), SumsOf(g, w, n)
  PROVE  f = g
<1>1. PICK T : T = {i \in 0..n : f[i] = g[i]}
  OBVIOUS
<1>2. 0..n \subseteq T
  <2>1. 0 \in T
    BY <1>1 DEF SumsOf
  <2>2. \A i \in 0..(n - 1) : i \in T => i + 1 \in T
    BY <1>1 DEF SumsOf
  <2> QED
    BY <2>1, <2>2, UpTo
<1> QED
  BY <1>1, <1>2 DEF SumsOf

\* Sum is the last of the partial sums.
LEMMA SumIs ==
  ASSUME NEW n \in Nat, NEW w, \A i \in 1..n : w[i] \in Nat
  PROVE  \E f : SumsOf(f, w, n) /\ Sum(w, n) = f[n]
<1>1. PICK step : step = [i \in 1..n |-> [v \in Nat |-> v + w[i]]]
  OBVIOUS
<1>2. step \in [1..n -> [Nat -> Nat]]
  <2>1. \A i \in 1..n : [v \in Nat |-> v + w[i]] \in [Nat -> Nat]
    OBVIOUS
  <2> QED
    BY <1>1, <2>1
<1>3. PICK f \in [0..n -> Nat] : f[0] = 0 /\ \A i \in 1..n : f[i] = step[i][f[i - 1]]
  <2>1. PICK V, a : V = Nat /\ a = 0
    OBVIOUS
  <2>2. a \in V /\ step \in [1..n -> [V -> V]]
    BY <1>2, <2>1
  <2>3. \E f \in [0..n -> V] : RunOf(f, a, step, n)
    BY <2>2, RecursionExists
  <2> QED
    BY <2>1, <2>3 DEF RunOf
<1>4. SumsOf(f, w, n)
  <2>1. ASSUME NEW i \in 1..n PROVE f[i] = f[i - 1] + w[i]
    <3>1. f[i - 1] \in Nat
      BY <1>3
    <3>2. step[i][f[i - 1]] = f[i - 1] + w[i]
      BY <1>1, <3>1
    <3> QED
      BY <1>3, <3>2
  <2> QED
    BY <1>3, <2>1 DEF SumsOf
<1>5. f = [i \in 0..n |-> IF i = 0 THEN 0 ELSE f[i - 1] + w[i]]
  BY <1>4 DEF SumsOf
<1>6. PICK g : g = CHOOSE h : h = [i \in 0..n |-> IF i = 0 THEN 0 ELSE h[i - 1] + w[i]]
  OBVIOUS
<1>7. g = [i \in 0..n |-> IF i = 0 THEN 0 ELSE g[i - 1] + w[i]]
  BY <1>5, <1>6, Zenon
<1>8. Sum(w, n) = g[n]
  BY <1>6 DEF Sum
<1>9. g = f
  <2>1. PICK T : T = {i \in 0..n : g[i] = f[i]}
    OBVIOUS
  <2>2. 0 \in T
    BY <1>4, <1>7, <2>1 DEF SumsOf
  <2>3. \A i \in 0..(n - 1) : i \in T => i + 1 \in T
    BY <1>4, <1>7, <2>1 DEF SumsOf
  <2>4. 0..n \subseteq T
    BY <2>2, <2>3, UpTo
  <2>5. \A i \in 0..n : g[i] = f[i]
    BY <2>1, <2>4
  <2> QED
    BY <1>3, <1>7, <2>5
<1> QED
  BY <1>4, <1>8, <1>9

\* The sum can be computed by any partial sums.
LEMMA SumBy ==
  ASSUME NEW n \in Nat, NEW w, \A i \in 1..n : w[i] \in Nat, NEW f, SumsOf(f, w, n)
  PROVE  Sum(w, n) = f[n]
<1>1. PICK g : SumsOf(g, w, n) /\ Sum(w, n) = g[n]
  BY SumIs
<1> QED
  BY <1>1, SumsUnique

\* Smaller weights have a smaller sum.
LEMMA SumMonotone ==
  ASSUME NEW n \in Nat, NEW v, NEW w,
         \A i \in 1..n : v[i] \in Nat /\ w[i] \in Nat /\ v[i] <= w[i]
  PROVE  Sum(v, n) <= Sum(w, n) /\ Sum(v, n) \in Nat /\ Sum(w, n) \in Nat
<1>1. PICK f : SumsOf(f, v, n) /\ Sum(v, n) = f[n]
  BY SumIs
<1>2. PICK g : SumsOf(g, w, n) /\ Sum(w, n) = g[n]
  BY SumIs
<1>3. PICK T : T = {i \in 0..n : f[i] <= g[i]}
  OBVIOUS
<1>4. 0 \in T
  BY <1>1, <1>2, <1>3 DEF SumsOf
<1>5. ASSUME NEW i \in 0..(n - 1), i \in T PROVE i + 1 \in T
  <2>1. /\ i \in 0..n /\ i + 1 \in 1..n /\ i + 1 \in 0..n /\ (i + 1) - 1 = i
        /\ f[i] \in Nat /\ g[i] \in Nat
    BY <1>1, <1>2 DEF SumsOf
  <2>2. f[i + 1] = f[i] + v[i + 1] /\ g[i + 1] = g[i] + w[i + 1]
    BY <1>1, <1>2, <2>1 DEF SumsOf
  <2> QED
    BY <1>3, <1>5, <2>1, <2>2
<1>6. 0..n \subseteq T
  BY <1>4, <1>5, UpTo
<1> QED
  BY <1>1, <1>2, <1>3, <1>6 DEF SumsOf

\* One more candidate adds its minutes.
LEMMA SumAppend ==
  ASSUME NEW s \in Seq(Source), NEW x \in Source
  PROVE  /\ Sum(Lengths(Append(s, x)), Len(Append(s, x))) = Sum(Lengths(s), Len(s)) + Minutes(x)
         /\ Sum(Lengths(s), Len(s)) \in Nat
<1>1. PICK n \in Nat : n = Len(s)
  OBVIOUS
<1>2. PICK v, w : v = Lengths(s) /\ w = Lengths(Append(s, x))
  OBVIOUS
<1>3. PICK m \in Nat : m = Minutes(x)
  BY DEF Minutes
<1>4. \A i \in 1..n : v[i] \in Nat
  BY <1>1, <1>2 DEF Lengths, Minutes
<1>5. Len(Append(s, x)) = n + 1 /\ w[n + 1] = m /\ \A i \in 1..n : w[i] = v[i]
  BY <1>1, <1>2, <1>3 DEF Lengths
<1>6. PICK f : SumsOf(f, v, n) /\ Sum(v, n) = f[n]
  BY <1>4, SumIs
<1>7. PICK g : g = [i \in 0..(n + 1) |-> IF i <= n THEN f[i] ELSE f[n] + m]
  OBVIOUS
<1>8. SumsOf(g, w, n + 1)
  <2>1. g \in [0..(n + 1) -> Nat] /\ g[0] = 0
    BY <1>6, <1>7 DEF SumsOf
  <2>2. ASSUME NEW i \in 1..(n + 1) PROVE g[i] = g[i - 1] + w[i]
    <3>1. CASE i <= n
      <4>1. i \in 1..n /\ g[i] = f[i] /\ g[i - 1] = f[i - 1]
        BY <1>7, <3>1
      <4> QED
        BY <1>5, <1>6, <4>1 DEF SumsOf
    <3>2. CASE i = n + 1
      BY <1>5, <1>7, <3>2
    <3> QED
      BY <3>1, <3>2
  <2> QED
    BY <2>1, <2>2 DEF SumsOf
<1>9. Sum(w, n + 1) = g[n + 1]
  <2>1. \A i \in 1..(n + 1) : w[i] \in Nat
    BY <1>4, <1>5
  <2> QED
    BY <1>8, <2>1, SumBy
<1>10. g[n + 1] = f[n] + m /\ f[n] \in Nat
  BY <1>6, <1>7 DEF SumsOf
<1> QED
  BY <1>1, <1>2, <1>3, <1>5, <1>6, <1>9, <1>10

\* What is taken, and the minutes left, after each of n candidates.
TakenBy(g, cands, left, n) ==
    /\ g[0] = [took |-> <<>>, left |-> left]
    /\ \A i \in 1..n :
         g[i] = IF Minutes(cands[i]) <= g[i - 1].left
                         THEN [took |-> Append(g[i - 1].took, cands[i]),
                               left |-> g[i - 1].left - Minutes(cands[i])]
                         ELSE g[i - 1]
    /\ Taken(cands, left) = g[n].took

\* The candidates are taken one after the other.
LEMMA TakenRuns ==
  ASSUME NEW cands, NEW left, NEW n \in Nat, n = Len(cands),
         NEW V, [took |-> <<>>, left |-> left] \in V,
         \A v \in V, i \in 1..n :
           (IF Minutes(cands[i]) <= v.left
              THEN [took |-> Append(v.took, cands[i]), left |-> v.left - Minutes(cands[i])]
              ELSE v) \in V
  PROVE  \E g \in [0..n -> V] : TakenBy(g, cands, left, n)
<1>3. PICK next : next = [i \in 1..n |-> [v \in V |->
          IF Minutes(cands[i]) <= v.left
            THEN [took |-> Append(v.took, cands[i]), left |-> v.left - Minutes(cands[i])]
            ELSE v]]
  OBVIOUS
<1>5. next \in [1..n -> [V -> V]]
  BY <1>3
<1>6. PICK a : a = [took |-> <<>>, left |-> left]
  OBVIOUS
<1>7. a \in V
  BY <1>6
<1>8. PICK f \in [0..n -> V] : f[0] = a /\ \A i \in 1..n : f[i] = next[i][f[i - 1]]
  <2>1. PICK f \in [0..n -> V] : RunOf(f, a, next, n)
    BY <1>5, <1>7, RecursionExists
  <2> QED
    BY <2>1 DEF RunOf
<1>9. f = [i \in 0..n |->
          IF i = 0 THEN [took |-> <<>>, left |-> left]
          ELSE IF Minutes(cands[i]) <= f[i - 1].left
                 THEN [took |-> Append(f[i - 1].took, cands[i]),
                       left |-> f[i - 1].left - Minutes(cands[i])]
                 ELSE f[i - 1]]
  <2>1. ASSUME NEW i \in 1..n
        PROVE  f[i] = IF Minutes(cands[i]) <= f[i - 1].left
                 THEN [took |-> Append(f[i - 1].took, cands[i]),
                       left |-> f[i - 1].left - Minutes(cands[i])]
                 ELSE f[i - 1]
    <3>1. f[i - 1] \in V
      BY <1>8
    <3> QED
      BY <1>3, <1>8, <3>1
  <2> QED
    <3>1. PICK F : F = [i \in 0..n |->
          IF i = 0 THEN [took |-> <<>>, left |-> left]
          ELSE IF Minutes(cands[i]) <= f[i - 1].left
                 THEN [took |-> Append(f[i - 1].took, cands[i]),
                       left |-> f[i - 1].left - Minutes(cands[i])]
                 ELSE f[i - 1]]
      OBVIOUS
    <3>2. f[0] = F[0]
      BY <1>6, <1>8, <3>1
    <3>3. ASSUME NEW i \in 1..n PROVE f[i] = F[i]
      <4>1. i \in 0..n /\ i # 0
        OBVIOUS
      <4> QED
        BY <2>1, <3>1, <4>1, Zenon
    <3>4. DOMAIN f = 0..n /\ DOMAIN F = 0..n /\ f = [i \in 0..n |-> f[i]] /\ F = [i \in 0..n |-> F[i]]
      BY <1>8, <3>1
    <3>5. \A i \in 0..n : f[i] = F[i]
      BY <3>2, <3>3
    <3>6. f = F
      BY <3>4, <3>5
    <3> QED
      BY <3>1, <3>6, Zenon
<1>10. PICK g : g = CHOOSE h : h = [i \in 0..Len(cands) |->
          IF i = 0 THEN [took |-> <<>>, left |-> left]
          ELSE IF Minutes(cands[i]) <= h[i - 1].left
                 THEN [took |-> Append(h[i - 1].took, cands[i]),
                       left |-> h[i - 1].left - Minutes(cands[i])]
                 ELSE h[i - 1]]
  OBVIOUS
<1>11. g = [i \in 0..Len(cands) |->
          IF i = 0 THEN [took |-> <<>>, left |-> left]
          ELSE IF Minutes(cands[i]) <= g[i - 1].left
                 THEN [took |-> Append(g[i - 1].took, cands[i]),
                       left |-> g[i - 1].left - Minutes(cands[i])]
                 ELSE g[i - 1]]
  BY <1>9, <1>10, Zenon
<1>12. Taken(cands, left) = g[Len(cands)].took
  BY <1>10, Zenon DEF Taken
<1>13. \A i \in 0..n : g[i] = f[i]
  <2>1. PICK T : T = {i \in 0..n : g[i] = f[i]}
    OBVIOUS
  <2>2. 0 \in T
    BY <1>9, <1>11, <2>1
  <2>3. ASSUME NEW i \in 0..(n - 1), i \in T PROVE i + 1 \in T
    <3>1. PICK k : k = i + 1 /\ k \in 1..n /\ k \in 0..n /\ k # 0 /\ k - 1 = i
      OBVIOUS
    <3>2. f[i] = g[i]
      BY <2>1, <2>3
    <3>3. g[k] = IF Minutes(cands[k]) <= g[k - 1].left
                   THEN [took |-> Append(g[k - 1].took, cands[k]),
                         left |-> g[k - 1].left - Minutes(cands[k])]
                   ELSE g[k - 1]
      BY <1>11, <3>1, Zenon
    <3>4. f[k] = IF Minutes(cands[k]) <= f[k - 1].left
                   THEN [took |-> Append(f[k - 1].took, cands[k]),
                         left |-> f[k - 1].left - Minutes(cands[k])]
                   ELSE f[k - 1]
      BY <1>9, <3>1, Zenon
    <3>5. f[k] = g[k]
      BY <3>1, <3>2, <3>3, <3>4, Zenon
    <3> QED
      BY <2>1, <3>1, <3>5
  <2> QED
    BY <2>1, <2>2, <2>3, UpTo
<1>14. Taken(cands, left) = f[n].took
  BY <1>12, <1>13
<1>15. f[0] = [took |-> <<>>, left |-> left]
  BY <1>6, <1>8
<1>16. \A i \in 1..n :
          f[i] = IF Minutes(cands[i]) <= f[i - 1].left
                   THEN [took |-> Append(f[i - 1].took, cands[i]),
                         left |-> f[i - 1].left - Minutes(cands[i])]
                   ELSE f[i - 1]
  <2>1. \A i \in 1..n : i \in 0..n /\ i # 0
    OBVIOUS
  <2> QED
    BY <1>9, <2>1, Zenon
<1> QED
  BY <1>8, <1>14, <1>15, <1>16, Zenon DEF TakenBy

\* What is taken of the candidates fits in what is left.
LEMMA TakenFits ==
  ASSUME NEW cands \in Seq(Source), NEW left \in Nat
  PROVE  /\ Taken(cands, left) \in Seq(Source)
         /\ Sum(Lengths(Taken(cands, left)), Len(Taken(cands, left))) <= left
<1>1. PICK n \in Nat : n = Len(cands)
  OBVIOUS
<1>2. PICK V : V = [took : Seq(Source), left : Nat]
  OBVIOUS
<1>4. \A s : Minutes(s) \in Nat
  BY DEF Minutes
<1>5. PICK g \in [0..n -> V] : TakenBy(g, cands, left, n)
  <2>1. [took |-> <<>>, left |-> left] \in V
    BY <1>2
  <2>2. ASSUME NEW v \in V, NEW i \in 1..n
        PROVE  (IF Minutes(cands[i]) <= v.left
                  THEN [took |-> Append(v.took, cands[i]), left |-> v.left - Minutes(cands[i])]
                  ELSE v) \in V
    BY <1>1, <1>2, <1>4
  <2>3. n \in Nat
    BY <1>1
  <2> QED
    BY <1>1, <2>1, <2>2, <2>3, TakenRuns, Zenon
<1> USE <1>5 DEF TakenBy
<1>13. PICK T : T = {i \in 0..n : g[i] \in V
                      /\ Sum(Lengths(g[i].took), Len(g[i].took)) + g[i].left = left}
  OBVIOUS
<1>14. 0 \in T
  <2>1. g[0] \in V /\ g[0].took = <<>> /\ g[0].left = left
    BY <1>1, <1>5
  <2>2. PICK w : w = Lengths(<<>>)
    OBVIOUS
  <2>3. Sum(w, 0) = 0
    <3>1. \A i \in 1..0 : w[i] \in Nat
      OBVIOUS
    <3>2. PICK h : SumsOf(h, w, 0) /\ Sum(w, 0) = h[0]
      BY <3>1, SumIs
    <3> QED
      BY <3>2 DEF SumsOf
  <2>4. Len(g[0].took) = 0
    BY <2>1
  <2> QED
    BY <1>1, <1>13, <2>1, <2>2, <2>3, <2>4
<1>15. ASSUME NEW i \in 0..(n - 1), i \in T PROVE i + 1 \in T
  <2>1. /\ i + 1 \in 1..n /\ i + 1 \in 0..n /\ (i + 1) - 1 = i
        /\ cands[i + 1] \in Source
    BY <1>1
  <2>2. g[i + 1] = IF Minutes(cands[i + 1]) <= g[i].left
                     THEN [took |-> Append(g[i].took, cands[i + 1]),
                           left |-> g[i].left - Minutes(cands[i + 1])]
                     ELSE g[i]
    <3>1. PICK k : k = i + 1 /\ k \in 1..n /\ k # 0 /\ k - 1 = i
      BY <1>1, <2>1
    <3>2. g[k] = IF Minutes(cands[k]) <= g[k - 1].left
                   THEN [took |-> Append(g[k - 1].took, cands[k]),
                         left |-> g[k - 1].left - Minutes(cands[k])]
                   ELSE g[k - 1]
      BY <1>5, <3>1, Zenon
    <3> QED
      BY <3>1, <3>2, Zenon
  <2>3. PICK s \in Seq(Source), l \in Nat : s = g[i].took /\ l = g[i].left
    BY <1>2, <1>13, <1>15
  <2>4. PICK x \in Source, m \in Nat : x = cands[i + 1] /\ m = Minutes(x)
    BY <1>4, <2>1
  <2>5. CASE m <= l
    <3>1. g[i + 1] = [took |-> Append(s, x), left |-> l - m]
      BY <2>2, <2>3, <2>4, <2>5
    <3>2. PICK c \in Nat : c = Sum(Lengths(s), Len(s))
      BY SumAppend
    <3>3. Sum(Lengths(Append(s, x)), Len(Append(s, x))) = c + m
      BY <2>4, <3>2, SumAppend
    <3>4. c + l = left
      BY <1>13, <1>15, <2>3, <3>2
    <3>5. /\ g[i + 1].took = Append(s, x) /\ g[i + 1].left = l - m
          /\ Append(s, x) \in Seq(Source) /\ l - m \in Nat
      BY <2>5, <3>1
    <3>6. g[i + 1] \in V
      BY <1>2, <3>1, <3>5
    <3> QED
      <4>1. Sum(Lengths(g[i + 1].took), Len(g[i + 1].took)) + g[i + 1].left = (c + m) + (l - m)
        BY <3>3, <3>5
      <4>2. (c + m) + (l - m) = left
        BY <2>3, <2>4, <3>2, <3>4
      <4> QED
        BY <1>13, <2>1, <3>6, <4>1, <4>2
  <2>6. CASE ~(m <= l)
    BY <1>13, <1>15, <2>1, <2>2, <2>3, <2>4, <2>6
  <2> QED
    BY <2>5, <2>6
<1>16. n \in T
  <2>1. 0..n \subseteq T
    BY <1>1, <1>14, <1>15, UpTo
  <2> QED
    BY <1>1, <2>1
<1>17. PICK s \in Seq(Source), l \in Nat : s = g[n].took /\ l = g[n].left
  BY <1>2, <1>13, <1>16
<1>18. PICK c \in Nat : c = Sum(Lengths(s), Len(s))
  <2>1. \A i \in 1..Len(s) : Lengths(s)[i] \in Nat
    BY <1>4 DEF Lengths
  <2> QED
    BY <2>1, SumMonotone
<1>19. c + l = left
  BY <1>13, <1>16, <1>17, <1>18
<1> QED
  BY <1>1, <1>5, <1>17, <1>18, <1>19

-----------------------------------------------------------------------------
(* The due mistakes in their order.                                          *)

\* A set of numbers has a least one.
LEMMA NatLeast ==
  ASSUME NEW S, S \subseteq Nat, S # {}
  PROVE  \E x \in S : \A y \in S : x <= y
<1>1. PICK T : T = {n \in Nat : \A i \in 0..n : i \notin S}
  OBVIOUS
<1>2. SUFFICES ASSUME \A x \in S : \E y \in S : y < x PROVE FALSE
  OBVIOUS
<1>3. 0 \in T
  BY <1>1, <1>2
<1>4. ASSUME NEW n \in Nat, n \in T PROVE n + 1 \in T
  BY <1>1, <1>2, <1>4
<1>5. Nat \subseteq T
  BY <1>3, <1>4, SetInduction
<1>6. ASSUME NEW n \in Nat PROVE n \notin S
  <2>1. n \in T /\ n \in 0..n
    BY <1>5
  <2> QED
    BY <1>1, <2>1
<1> QED
  BY <1>6

\* Some mistake of a set comes before the others.
LEMMA FirstDue ==
  ASSUME mistake \in [Question -> MistakeRow], NEW S, S \subseteq Question, S # {}
  PROVE  \E p \in S : \A q \in S : q # p => Before(p, q)
<1>1. PICK due : due = [q \in Question |-> mistake[q].due]
  OBVIOUS
<1>2. due \in [Question -> Nat]
  BY <1>1 DEF MistakeRow
<1>3. Question \subseteq Nat
  BY LearningAssumption
<1>4. PICK D : D = {due[q] : q \in S}
  OBVIOUS
<1>5. D \subseteq Nat /\ D # {}
  BY <1>2, <1>4
<1>6. PICK m \in D : \A d \in D : m <= d
  BY <1>5, NatLeast
<1>7. PICK E : E = {q \in S : due[q] = m}
  OBVIOUS
<1>8. E \subseteq Nat /\ E # {}
  BY <1>3, <1>4, <1>6, <1>7
<1>9. PICK p \in E : \A q \in E : p <= q
  BY <1>8, NatLeast
<1>10. ASSUME NEW q \in S, q # p PROVE Before(p, q)
  <2>1. p \in S /\ p \in Nat /\ q \in Nat /\ due[p] = m /\ due[q] \in D /\ due[q] \in Nat /\ m \in Nat
    BY <1>2, <1>3, <1>4, <1>5, <1>6, <1>7, <1>9
  <2>2. m < due[q] \/ (due[q] = m /\ p < q)
    BY <1>6, <1>7, <1>9, <1>10, <2>1
  <2>3. mistake[p].due = due[p] /\ mistake[q].due = due[q]
    BY <1>1, <2>1
  <2> QED
    BY <2>1, <2>2, <2>3 DEF Before
<1> QED
  BY <1>7, <1>9, <1>10

Ordered(s, n) == \A i, j \in 1..n : i < j => Before(s[i], s[j])

\* A set of n mistakes can be put in order.
LEMMA OrderExists ==
  ASSUME mistake \in [Question -> MistakeRow], NEW n \in Nat, NEW S, S \subseteq Question,
         IsFiniteSet(S), Cardinality(S) = n
  PROVE  \E s \in [1..n -> S] : Ordered(s, n)
<1>1. PICK T : T = {k \in Nat : \A U \in SUBSET Question :
                      IsFiniteSet(U) /\ Cardinality(U) = k => \E s \in [1..k -> U] : Ordered(s, k)}
  OBVIOUS
<1>2. 0 \in T
  <2>1. ASSUME NEW U PROVE \E s \in [1..0 -> U] : Ordered(s, 0)
    <3>1. PICK s : s = [i \in 1..0 |-> i]
      OBVIOUS
    <3>2. s \in [1..0 -> U] /\ Ordered(s, 0)
      BY <3>1 DEF Ordered
    <3> QED
      BY <3>2
  <2> QED
    BY <1>1, <2>1
<1>3. ASSUME NEW k \in Nat, k \in T PROVE k + 1 \in T
  <2>1. ASSUME NEW U \in SUBSET Question, IsFiniteSet(U), Cardinality(U) = k + 1
        PROVE  \E s \in [1..(k + 1) -> U] : Ordered(s, k + 1)
    <3>1. U # {}
      BY <2>1, FS_EmptySet
    <3>2. PICK p \in U : \A q \in U : q # p => Before(p, q)
      BY <3>1, FirstDue
    <3>3. PICK W : W = U \ {p}
      OBVIOUS
    <3>4. IsFiniteSet(W) /\ Cardinality(W) = k /\ W \in SUBSET Question
      <4>1. IsFiniteSet(W) /\ Cardinality(W) = Cardinality(U) - 1
        BY <2>1, <3>3, FS_RemoveElement, Zenon
      <4> QED
        BY <2>1, <3>3, <4>1
    <3>5. PICK s \in [1..k -> W] : Ordered(s, k)
      BY <1>1, <1>3, <3>4
    <3>6. PICK t : t = [i \in 1..(k + 1) |-> IF i = 1 THEN p ELSE s[i - 1]]
      OBVIOUS
    <3>7. t \in [1..(k + 1) -> U]
      BY <3>3, <3>5, <3>6
    <3>8. ASSUME NEW i \in 1..(k + 1), NEW j \in 1..(k + 1), i < j PROVE Before(t[i], t[j])
      <4>1. j - 1 \in 1..k /\ t[j] = s[j - 1] /\ s[j - 1] \in W
        BY <3>5, <3>6, <3>8
      <4>2. CASE i = 1
        <5>1. t[i] = p /\ s[j - 1] \in U /\ s[j - 1] # p
          BY <3>3, <3>6, <4>1, <4>2
        <5> QED
          BY <3>2, <4>1, <5>1
      <4>3. CASE i # 1
        <5>1. i - 1 \in 1..k /\ t[i] = s[i - 1] /\ i - 1 < j - 1
          BY <3>6, <3>8, <4>3
        <5> QED
          BY <3>5, <4>1, <5>1 DEF Ordered
      <4> QED
        BY <4>2, <4>3
    <3> QED
      BY <3>7, <3>8 DEF Ordered
  <2> QED
    BY <1>1, <2>1
<1>4. n \in T
  <2>1. Nat \subseteq T
    BY <1>2, <1>3, SetInduction
  <2> QED
    BY <2>1
<1> QED
  BY <1>1, <1>4

\* The candidates of a plan are a sequence of sources.
LEMMA CandidatesTyped ==
  ASSUME mistake \in [Question -> MistakeRow], NEW weak \in BOOLEAN
  PROVE  Candidates(weak) \in Seq(Source)
<1>1. Due \subseteq Question /\ IsFiniteSet(Question)
  BY LearningAssumption DEF Due
<1>2. IsFiniteSet(Due) /\ Cardinality(Due) \in Nat
  BY <1>1, FS_Subset, FS_CardinalityType
<1>3. PICK n \in Nat : n = Cardinality(Due)
  BY <1>2
<1>4. \E s \in [1..n -> Due] : Ordered(s, n)
  BY <1>1, <1>2, <1>3, OrderExists
<1>5. DueInOrder \in [1..n -> Due]
  BY <1>3, <1>4 DEF DueInOrder, Ordered
<1>6. DueInOrder \in Seq(Source)
  BY <1>1, <1>3, <1>5 DEF Source
<1>7. <<Knowledge, Resource>> \in Seq(Source) /\ <<>> \in Seq(Source)
  BY DEF Source
<1>8. PICK s, t, e : s = DueInOrder /\ t = <<Knowledge, Resource>> /\ e = <<>>
  OBVIOUS
<1>9. s \in Seq(Source) /\ t \in Seq(Source) /\ e \in Seq(Source)
  BY <1>6, <1>7, <1>8
<1>10. s \o t \in Seq(Source) /\ s \o e \in Seq(Source)
  BY <1>9
<1> QED
  BY <1>8, <1>10 DEF Candidates

-----------------------------------------------------------------------------
(* The rows written.                                                         *)

Feedbacks == {"again", "hard", "good", "easy", "mark", "reopen"}

\* What a wrong answer writes: one more mistake, due now, and new again unless another
\* request changed the status in between.
LEMMA WrongTyped ==
  ASSUME NEW old \in MistakeRow, NEW seen \in MistakeRow, now \in Nat
  PROVE  /\ WrongAgain(old, seen) \in MistakeRow
         /\ WrongAgain(old, seen).count = seen.count + 1
         /\ WrongAgain(old, seen).due = now
         /\ seen.status = old.status => WrongAgain(old, seen).status = "new"
<1>1. PICK s : s = IF seen.count = 0 THEN "new" ELSE Written(old.status, seen.status, "new")
  OBVIOUS
<1>2. s \in {"new", "reviewing", "mastered"} /\ (seen.status = old.status => s = "new")
  BY <1>1 DEF MistakeRow, Written
<1>3. WrongAgain(old, seen) = [old EXCEPT !.count = seen.count + 1, !.due = now, !.status = s]
  BY <1>1 DEF WrongAgain
<1>4. PICK n \in Nat : n = seen.count + 1
  BY DEF MistakeRow
<1>5. PICK m \in Nat : m = now
  OBVIOUS
<1>6. PICK x : x = [old EXCEPT !.count = n, !.due = m, !.status = s]
  OBVIOUS
<1>7. x \in MistakeRow /\ x.count = n /\ x.due = m /\ x.status = s
  BY <1>2, <1>4, <1>5, <1>6 DEF MistakeRow
<1>8. WrongAgain(old, seen) = x
  BY <1>3, <1>4, <1>5, <1>6
<1> QED
  BY <1>2, <1>4, <1>5, <1>7, <1>8

\* What a review writes; it leaves the number of mistakes alone.
LEMMA ReviewedTyped ==
  ASSUME NEW old \in MistakeRow, NEW seen \in MistakeRow, NEW feedback \in Feedbacks, now \in Nat
  PROVE  /\ Reviewed(old, seen, feedback) \in MistakeRow
         /\ Reviewed(old, seen, feedback).count = old.count
<1>1. PICK new : new = Outcome(seen, feedback)
  OBVIOUS
<1>2. seen.streak \in 0..6
  BY DEF MistakeRow
<1>3. /\ new.streak \in 0..6 /\ new.status \in {"new", "reviewing", "mastered"}
      /\ new.wait \in Nat
  <2>1. feedback = "again" \/ feedback = "hard" \/ feedback = "good" \/ feedback = "easy"
        \/ feedback = "mark" \/ feedback = "reopen"
    BY DEF Feedbacks
  <2>2. CASE feedback = "again"
    BY <1>1, <2>2 DEF Outcome
  <2>3. CASE feedback = "hard"
    BY <1>1, <1>2, <2>3 DEF Outcome, AtLeast1
  <2>4. CASE feedback = "good"
    BY <1>1, <1>2, <2>4 DEF Outcome, AtMost6
  <2>5. CASE feedback = "easy"
    BY <1>1, <1>2, <2>5 DEF Outcome, AtMost6
  <2>6. CASE feedback = "mark"
    BY <1>1, <1>2, <2>6 DEF Outcome
  <2>7. CASE feedback = "reopen"
    BY <1>1, <1>2, <2>7 DEF Outcome
  <2> QED
    BY <2>1, <2>2, <2>3, <2>4, <2>5, <2>6, <2>7
<1>4. PICK a, b1, c : /\ a = Written(old.streak, seen.streak, new.streak)
                      /\ b1 = Written(old.status, seen.status, new.status)
                      /\ c = IF feedback = "reopen" THEN old.due ELSE now + new.wait
  OBVIOUS
<1>5. a \in 0..6 /\ b1 \in {"new", "reviewing", "mastered"} /\ c \in Nat
  BY <1>3, <1>4 DEF Written, MistakeRow
<1>6. Reviewed(old, seen, feedback) = [old EXCEPT !.streak = a, !.status = b1, !.due = c]
  BY <1>1, <1>4 DEF Reviewed
<1> QED
  BY <1>5, <1>6 DEF MistakeRow

\* What an edit of an item writes; only a move changes its day.
LEMMA EditedTyped ==
  ASSUME NEW old \in ItemRow, NEW d,
         NEW edit \in {"completed", "deferred", "skipped", "lock", "unlock", "move"},
         edit = "move" => d \in Day
  PROVE  /\ Edited(old, edit, d) \in ItemRow
         /\ Edited(old, edit, d).made = old.made
         /\ Edited(old, edit, d).source = old.source
         /\ Edited(old, edit, d).day = IF edit = "move" THEN d ELSE old.day
<1>1. CASE edit = "move"
  BY <1>1 DEF Edited, ItemRow
<1>2. CASE edit = "lock"
  BY <1>2 DEF Edited, ItemRow
<1>3. CASE edit = "unlock"
  BY <1>3 DEF Edited, ItemRow
<1>4. CASE edit \in {"completed", "deferred", "skipped"}
  <2>1. Edited(old, edit, d) = [old EXCEPT !.status = edit]
    BY <1>4 DEF Edited
  <2> QED
    BY <1>4, <2>1 DEF ItemRow
<1> QED
  BY <1>1, <1>2, <1>3, <1>4

\* A request that ended.
LEMMA IdleTyped ==
  Idle \in RequestState /\ Idle.pc = "none"
<1>1. NoMistake \in MistakeRow
  BY DEF NoMistake, MistakeRow
<1>2. /\ 0 \in 0..Items
      /\ <<>> \in Seq(Source)
  BY LearningAssumption
<1> QED
  BY <1>1, <1>2 DEF Idle, RequestState

Types ==
    /\ TypeOK
    /\ wrong \in [Question -> Nat] /\ unseen \in [Question -> BOOLEAN]
    /\ crossed \in [Question -> BOOLEAN] /\ doubled \in [Day -> BOOLEAN]
    /\ granted \in [Day -> Nat]

-----------------------------------------------------------------------------
(* What the steps of a request make of it.                                   *)

\* An answer is looked up.
LEMMA SubmitBegins ==
  ASSUME LearnInv, NEW r \in Request, NEW q \in Question, NEW right \in BOOLEAN,
         BeginSubmit(r, q, right)
  PROVE  \E x \in RequestState :
           /\ req[r].pc = "none" /\ req' = [req EXCEPT ![r] = x] /\ x.pc = "lookup"
           /\ x.q \in Question
           /\ UNCHANGED <<now, exam, attempt, mistake, locked, focused, item>>
<1>1. PICK x : x = [Idle EXCEPT !.pc = "lookup", !.q = q, !.right = right, !.checked = now]
  OBVIOUS
<1>2. now \in Time
  BY DEF LearnInv, TypeOK
<1>3. x \in RequestState /\ x.pc = "lookup" /\ x.q = q
  <2>1. Idle \in RequestState
    BY IdleTyped
  <2> QED
    BY <1>1, <1>2, <2>1 DEF RequestState
<1> QED
  BY <1>1, <1>3, IdleTyped DEF BeginSubmit, Goes, learned

\* A review reads the mistake.
LEMMA ReviewBegins ==
  ASSUME LearnInv, NEW r \in Request, NEW q \in Question, NEW f \in Feedbacks, BeginReview(r, q, f)
  PROVE  \E x \in RequestState :
           /\ req[r].pc = "none" /\ req' = [req EXCEPT ![r] = x] /\ x.pc = "review"
           /\ x.q \in Question /\ x.feedback \in Feedbacks
           /\ UNCHANGED <<now, exam, attempt, mistake, locked, focused, item>>
<1>1. PICK x : x = [Idle EXCEPT !.pc = "review", !.q = q, !.feedback = f, !.seen = mistake[q]]
  OBVIOUS
<1>2. mistake[q] \in MistakeRow
  BY DEF LearnInv, TypeOK
<1>3. x \in RequestState /\ x.pc = "review" /\ x.q = q /\ x.feedback = f
  <2>1. Idle \in RequestState
    BY IdleTyped
  <2> QED
    BY <1>1, <1>2, <2>1 DEF RequestState, Feedbacks
<1> QED
  BY <1>1, <1>3, IdleTyped DEF BeginReview, Goes, learned

\* A plan is chosen for a day without items and fits in what is left of it.
LEMMA PlanBegins ==
  ASSUME LearnInv, NEW r \in Request, NEW d \in Day, BeginPlan(r, d)
  PROVE  \E x \in RequestState :
           /\ req[r].pc = "none" /\ req' = [req EXCEPT ![r] = x] /\ x.pc = "insert"
           /\ x.day = d /\ On(d) = {}
           /\ Sum(Lengths(x.chosen), Len(x.chosen)) <= x.granted
           /\ UNCHANGED <<now, exam, attempt, mistake, locked, focused, item>>
<1>1. PICK weak \in BOOLEAN :
        req' = [req EXCEPT ![r] = [Idle EXCEPT !.pc = "insert", !.day = d, !.granted = Remaining(d),
                                 !.chosen = Taken(Candidates(weak), Remaining(d))]]
  BY DEF BeginPlan, Goes
<1>2. PICK c : c = Taken(Candidates(weak), Remaining(d))
  OBVIOUS
<1>3. Remaining(d) \in Nat
  <2>1. focused[d] \in Nat /\ DailyBudget \in Nat
    BY LearningAssumption DEF LearnInv, TypeOK
  <2> QED
    BY <2>1 DEF Remaining
<1>4. c \in Seq(Source) /\ Sum(Lengths(c), Len(c)) <= Remaining(d)
  <2>1. mistake \in [Question -> MistakeRow]
    BY DEF LearnInv, TypeOK
  <2>2. Candidates(weak) \in Seq(Source)
    BY <2>1, CandidatesTyped
  <2> QED
    BY <1>2, <1>3, <2>2, TakenFits
<1>5. PICK x : x = [Idle EXCEPT !.pc = "insert", !.day = d, !.granted = Remaining(d), !.chosen = c]
  OBVIOUS
<1>6. x \in RequestState /\ x.pc = "insert" /\ x.day = d /\ x.granted = Remaining(d) /\ x.chosen = c
  <2>1. Idle \in RequestState
    BY IdleTyped
  <2> QED
    BY <1>3, <1>4, <1>5, <2>1 DEF RequestState
<1>7. req' = [req EXCEPT ![r] = x]
  BY <1>1, <1>2, <1>5
<1>8. On(d) = {} /\ req[r] = Idle /\ UNCHANGED <<now, exam, attempt, mistake, locked, focused, item>>
  BY DEF BeginPlan, learned
<1> QED
  BY <1>4, <1>6, <1>7, <1>8, IdleTyped

\* An item is edited that is there, and moved to a later day only.
LEMMA EditBegins ==
  ASSUME LearnInv, NEW r \in Request, NEW i \in 1..Items, NEW d \in Day,
         NEW e \in {"completed", "deferred", "skipped", "lock", "unlock", "move"},
         BeginEdit(r, i, e, d)
  PROVE  \E x \in RequestState :
           /\ req[r].pc = "none" /\ req' = [req EXCEPT ![r] = x] /\ x.pc = "update"
           /\ x.item = i /\ i \in Ids /\ x.edit = e
           /\ e = "move" => x.day = d /\ d > item[i].day
           /\ UNCHANGED <<now, exam, attempt, mistake, locked, focused, item>>
<1>1. PICK y \in Day \cup {None} : y = IF e = "move" THEN d ELSE None
  OBVIOUS
<1>2. PICK x : x = [Idle EXCEPT !.pc = "update", !.item = i, !.edit = e, !.day = y]
  OBVIOUS
<1>3. x \in RequestState /\ x.pc = "update" /\ x.item = i /\ x.edit = e /\ x.day = y
  <2>1. Idle \in RequestState /\ i \in 0..Items
    BY IdleTyped
  <2>2. x.pc = "update" /\ x.item = i /\ x.edit = e /\ x.day = y
    BY <1>2, <2>1 DEF RequestState
  <2>3. PICK E, D : /\ E = {"completed", "deferred", "skipped", "lock", "unlock", "move", None}
                    /\ D = Day \cup {None}
    OBVIOUS
  <2>4. e \in E /\ y \in D
    BY <1>1, <2>3
  <2>5. x \in RequestState
    BY <1>2, <2>1, <2>3, <2>4 DEF RequestState
  <2> QED
    BY <2>2, <2>5
<1>4. req' = [req EXCEPT ![r] = x]
  BY <1>1, <1>2 DEF BeginEdit, Goes
<1> QED
  BY <1>1, <1>3, <1>4, IdleTyped DEF BeginEdit, learned

-----------------------------------------------------------------------------
(* The steps, told by what they change.                                      *)

Quiet ==
    /\ now' \in Time /\ now <= now' /\ exam' \in ExamRow /\ focused' \in [Day -> Nat]
    /\ UNCHANGED <<attempt, mistake, locked, item, req>>

Began(r, x) ==
    /\ req[r].pc = "none" /\ x.pc \in {"lookup", "review", "insert", "update"}
    /\ x.pc \in {"lookup", "review"} => x.q \in Question
    /\ x.pc = "review" => x.feedback \in Feedbacks
    /\ x.pc = "insert" =>
         /\ x.day \in Day /\ On(x.day) = {}
         /\ Sum(Lengths(x.chosen), Len(x.chosen)) <= x.granted
    /\ x.pc = "update" =>
         /\ x.item \in Ids
         /\ x.edit \in {"completed", "deferred", "skipped", "lock", "unlock", "move"}
         /\ x.edit = "move" => x.day \in Day /\ x.day > item[x.item].day
    /\ UNCHANGED <<attempt, mistake, locked, item>>

Looked(r, x) ==
    /\ req[r].pc = "lookup" /\ x.pc = "flush" /\ x.q = req[r].q
    /\ UNCHANGED <<attempt, mistake, locked, item>>

Refused(r, x) ==
    /\ req[r].pc = "flush" /\ x.pc = "none"
    /\ UNCHANGED <<attempt, mistake, locked, item>>

Flushed(r, x) ==
    /\ req[r].pc = "flush" /\ x.pc = "commit" /\ x.q = req[r].q /\ x.seen = mistake[x.q]
    /\ Free(r, x.q) /\ locked' = [locked EXCEPT ![x.q] = r]
    /\ UNCHANGED <<attempt, mistake, item>>

Answer(r, x) ==
    /\ req[r].pc = "commit" /\ x.pc = "none"
    /\ attempt' \in [Question -> AttemptRow \cup {None}]
    /\ mistake' = IF req[r].right THEN mistake
                  ELSE [mistake EXCEPT ![req[r].q] = WrongAgain(mistake[req[r].q], req[r].seen)]
    /\ locked' = [locked EXCEPT ![req[r].q] = None]
    /\ UNCHANGED item

Review(r, x) ==
    /\ req[r].pc = "review" /\ x.pc = "none"
    /\ mistake' = [mistake EXCEPT ![req[r].q] =
                     Reviewed(mistake[req[r].q], req[r].seen, req[r].feedback)]
    /\ UNCHANGED <<attempt, locked, item>>

Plan(r, x) ==
    /\ req[r].pc = "insert" /\ x.pc = "none"
    /\ \/ UNCHANGED item
       \/ /\ Cardinality(Ids) + Len(req[r].chosen) <= Items
          /\ item' = [i \in 1..Items |->
               IF i \in (Cardinality(Ids) + 1)..(Cardinality(Ids) + Len(req[r].chosen))
                 THEN [day |-> req[r].day, made |-> req[r].day,
                       source |-> req[r].chosen[i - Cardinality(Ids)],
                       status |-> "planned", locked |-> FALSE]
                 ELSE item[i]]
    /\ UNCHANGED <<attempt, mistake, locked>>

Change(r, x) ==
    /\ req[r].pc = "update" /\ x.pc = "none"
    /\ \/ UNCHANGED item
       \/ item' = [item EXCEPT ![req[r].item] =
                     Edited(item[req[r].item], req[r].edit, req[r].day)]
    /\ UNCHANGED <<attempt, mistake, locked>>

StepOf(r, x) ==
    /\ x \in RequestState /\ req' = [req EXCEPT ![r] = x] /\ UNCHANGED <<now, exam, focused>>
    /\ \/ Began(r, x) \/ Looked(r, x) \/ Refused(r, x) \/ Flushed(r, x)
       \/ Answer(r, x) \/ Review(r, x) \/ Plan(r, x) \/ Change(r, x)

\* What a request does first.
LEMMA BeginStep ==
  ASSUME LearnInv, NEW r \in Request, Begin(r)
  PROVE  \E x : StepOf(r, x)
<1>1. ASSUME NEW q \in Question, NEW right \in BOOLEAN, BeginSubmit(r, q, right)
      PROVE  \E x : StepOf(r, x)
  <2>1. PICK x \in RequestState :
           /\ req[r].pc = "none" /\ req' = [req EXCEPT ![r] = x] /\ x.pc = "lookup"
           /\ x.q \in Question
           /\ UNCHANGED <<now, exam, attempt, mistake, locked, focused, item>>
    BY <1>1, SubmitBegins
  <2>2. Began(r, x)
    BY <2>1 DEF Began
  <2> QED
    BY <2>1, <2>2 DEF StepOf
<1>2. ASSUME NEW q \in Question, NEW f \in Feedbacks, BeginReview(r, q, f)
      PROVE  \E x : StepOf(r, x)
  <2>1. PICK x \in RequestState :
           /\ req[r].pc = "none" /\ req' = [req EXCEPT ![r] = x] /\ x.pc = "review"
           /\ x.q \in Question /\ x.feedback \in Feedbacks
           /\ UNCHANGED <<now, exam, attempt, mistake, locked, focused, item>>
    BY <1>2, ReviewBegins
  <2>2. Began(r, x)
    BY <2>1 DEF Began
  <2> QED
    BY <2>1, <2>2 DEF StepOf
<1>3. ASSUME NEW d \in Day, BeginPlan(r, d) PROVE \E x : StepOf(r, x)
  <2>1. PICK x \in RequestState :
           /\ req[r].pc = "none" /\ req' = [req EXCEPT ![r] = x] /\ x.pc = "insert"
           /\ x.day = d /\ On(d) = {}
           /\ Sum(Lengths(x.chosen), Len(x.chosen)) <= x.granted
           /\ UNCHANGED <<now, exam, attempt, mistake, locked, focused, item>>
    BY <1>3, PlanBegins
  <2>2. Began(r, x)
    BY <2>1 DEF Began
  <2> QED
    BY <2>1, <2>2 DEF StepOf
<1>4. ASSUME NEW i \in 1..Items, NEW d \in Day,
             NEW e \in {"completed", "deferred", "skipped", "lock", "unlock", "move"},
             BeginEdit(r, i, e, d)
      PROVE  \E x : StepOf(r, x)
  <2>1. PICK x \in RequestState :
           /\ req[r].pc = "none" /\ req' = [req EXCEPT ![r] = x] /\ x.pc = "update"
           /\ x.item = i /\ i \in Ids /\ x.edit = e
           /\ e = "move" => x.day = d /\ d > item[i].day
           /\ UNCHANGED <<now, exam, attempt, mistake, locked, focused, item>>
    BY <1>4, EditBegins
  <2>2. Began(r, x)
    BY <2>1 DEF Began
  <2> QED
    BY <2>1, <2>2 DEF StepOf
<1> QED
  BY <1>1, <1>2, <1>3, <1>4 DEF Begin, Feedbacks

\* What an answer does before its commit.
LEMMA LookupStep ==
  ASSUME LearnInv, NEW r \in Request, Lookup(r) \/ Flush(r)
  PROVE  \E x : StepOf(r, x)
<1>1. req[r] \in RequestState /\ mistake \in [Question -> MistakeRow]
  BY DEF LearnInv, TypeOK
<1>2. CASE Lookup(r)
  <2>1. PICK found \in BOOLEAN : found = (attempt[req[r].q] # None)
    OBVIOUS
  <2>2. PICK x : x = [req[r] EXCEPT !.pc = "flush", !.found = found]
    OBVIOUS
  <2>3. x \in RequestState /\ x.pc = "flush" /\ x.q = req[r].q
    BY <1>1, <2>1, <2>2 DEF RequestState
  <2>4. /\ req[r].pc = "lookup" /\ req' = [req EXCEPT ![r] = x]
        /\ UNCHANGED <<now, exam, attempt, mistake, locked, focused, item>>
    BY <1>2, <2>1, <2>2 DEF Lookup, Goes, learned
  <2>5. Looked(r, x)
    BY <2>3, <2>4 DEF Looked
  <2> QED
    BY <2>3, <2>4, <2>5 DEF StepOf
<1>3. CASE Flush(r)
  <2>1. /\ req[r].pc = "flush" /\ UNCHANGED <<now, exam, attempt, mistake, focused, item>>
        /\ Free(r, req[r].q)
    BY <1>3 DEF Flush
  <2>2. req[r].q \in Question
    BY <2>1 DEF LearnInv, RequestsPlaced
  <2>3. PICK x : x = [req[r] EXCEPT !.pc = "commit", !.seen = mistake[req[r].q]]
    OBVIOUS
  <2>4. CASE req' = [req EXCEPT ![r] = Idle] /\ UNCHANGED locked
    <3>1. Refused(r, Idle)
      BY <2>1, <2>4, IdleTyped DEF Refused
    <3> QED
      BY <2>1, <2>4, <3>1, IdleTyped DEF StepOf
  <2>5. CASE req' = [req EXCEPT ![r] = x] /\ locked' = [locked EXCEPT ![req[r].q] = r]
    <3>1. mistake[req[r].q] \in MistakeRow
      BY <1>1, <2>2
    <3>2. x \in RequestState /\ x.pc = "commit" /\ x.q = req[r].q /\ x.seen = mistake[req[r].q]
      BY <1>1, <2>3, <3>1 DEF RequestState
    <3>3. Flushed(r, x)
      BY <2>1, <2>5, <3>2 DEF Flushed
    <3> QED
      BY <2>1, <2>5, <3>2, <3>3 DEF StepOf
  <2> QED
    BY <1>3, <2>3, <2>4, <2>5 DEF Flush, Goes
<1> QED
  BY <1>2, <1>3

\* What a commit does.
LEMMA CommitStep ==
  ASSUME LearnInv, NEW r \in Request, Commit(r)
  PROVE  StepOf(r, Idle)
<1>1. req[r] \in RequestState /\ now \in Time /\ attempt \in [Question -> AttemptRow \cup {None}]
  BY DEF LearnInv, TypeOK
<1>2. CASE CommitSubmit(r)
  <2>1. [at |-> now, right |-> req[r].right] \in AttemptRow
    BY <1>1 DEF AttemptRow, RequestState
  <2>2. attempt' \in [Question -> AttemptRow \cup {None}]
    BY <1>1, <1>2, <2>1 DEF CommitSubmit
  <2>3. Answer(r, Idle)
    BY <1>2, <2>2, IdleTyped DEF CommitSubmit, Answer
  <2> QED
    BY <1>2, <2>3, IdleTyped DEF CommitSubmit, Goes, StepOf
<1>3. CASE CommitReview(r)
  <2>1. Review(r, Idle)
    BY <1>3, IdleTyped DEF CommitReview, Review
  <2> QED
    BY <1>3, <2>1, IdleTyped DEF CommitReview, Goes, StepOf
<1>4. CASE CommitPlan(r)
  <2>1. Plan(r, Idle)
    BY <1>4, IdleTyped DEF CommitPlan, Plan, learned
  <2> QED
    BY <1>4, <2>1, IdleTyped DEF CommitPlan, Goes, StepOf
<1>5. CASE CommitEdit(r)
  <2>1. Change(r, Idle)
    BY <1>5, IdleTyped DEF CommitEdit, Change, learned
  <2> QED
    BY <1>5, <2>1, IdleTyped DEF CommitEdit, Goes, StepOf
<1> QED
  BY <1>2, <1>3, <1>4, <1>5 DEF Commit

\* A step of the system is a step of one request, or changes no row of a request.
LEMMA StepCases ==
  ASSUME LearnInv, LearnNext
  PROVE  Quiet \/ \E r \in Request : \E x : StepOf(r, x)
<1>1. /\ now \in Time /\ exam \in ExamRow /\ focused \in [Day -> Nat]
      /\ MaxNow \in Nat /\ now \in Nat /\ 0 \in Time
  BY LearningAssumption DEF LearnInv, TypeOK, Time
<1>2. CASE Tick
  BY <1>1, <1>2 DEF Tick, Quiet, learned, Time
<1>3. ASSUME NEW status \in {"draft", "published", "ended"}, NEW start \in Time \cup {None},
             NEW end \in Time \cup {None}, EditExam(status, start, end)
      PROVE  Quiet
  <2>1. exam' \in ExamRow
    BY <1>3 DEF EditExam, ExamRow
  <2> QED
    BY <1>1, <1>3, <2>1 DEF EditExam, Quiet, learned
<1>4. CASE PublishExam \/ EndExam
  <2>1. exam.start \in Time \cup {None} /\ exam.end \in Time \cup {None}
    BY <1>1 DEF ExamRow
  <2> QED
    BY <1>1, <1>3, <1>4, <2>1 DEF PublishExam, EndExam
<1>5. ASSUME NEW d \in Day, NEW minutes \in {15, 25}, Focus(d, minutes)
      PROVE  Quiet
  <2>1. focused[d] + minutes \in Nat
    BY <1>1
  <2>2. focused' \in [Day -> Nat]
    BY <1>1, <1>5, <2>1 DEF Focus
  <2> QED
    BY <1>1, <1>5, <2>2 DEF Focus, Quiet, learned
<1>6. ASSUME NEW r \in Request, Begin(r) \/ Lookup(r) \/ Flush(r) \/ Commit(r)
      PROVE  \E x : StepOf(r, x)
  BY <1>6, BeginStep, LookupStep, CommitStep
<1> QED
  BY <1>2, <1>3, <1>4, <1>5, <1>6 DEF LearnNext, Next, Administer

-----------------------------------------------------------------------------
(* What the histories record of a step.                                      *)

\* One request ends in a step at most.
LEMMA EndedIs ==
  ASSUME LearnInv, NEW r \in Request, NEW x, StepOf(r, x), NEW pc, pc # "none"
  PROVE  Ended(pc) = IF req[r].pc = pc /\ x.pc = "none" THEN {r} ELSE {}
<1>1. req \in [Request -> RequestState] /\ req' = [req EXCEPT ![r] = x]
  BY DEF LearnInv, TypeOK, StepOf
<1>2. req'[r] = x /\ \A p \in Request : p # r => req'[p] = req[p]
  BY <1>1
<1> QED
  BY <1>2 DEF Ended

\* A step of the clock, the timer or the exam leaves the histories as they are.
LEMMA QuietHistories ==
  ASSUME LearnInv, LearnNext, Quiet
  PROVE  /\ wrong' = wrong /\ unseen' = unseen /\ granted' = granted
         /\ \A q \in Question : crossed[q] => crossed'[q]
         /\ \A d \in Day : doubled[d] => doubled'[d]
<1>1. \A pc : pc # "none" => Ended(pc) = {}
  BY DEF Quiet, Ended
<1>2. Ended("commit") = {} /\ Ended("review") = {} /\ Ended("insert") = {}
  BY <1>1
<1> USE DEF LearnInv
<1>3. wrong' = [q \in Question |-> wrong[q]]
  BY <1>2 DEF LearnNext, Histories, Answers
<1>4. unseen' = [q \in Question |-> unseen[q]]
  BY <1>2 DEF LearnNext, Histories, Answers
<1>5. granted' = [d \in Day |-> granted[d]]
  BY <1>2 DEF LearnNext, Histories
<1> QED
  BY <1>3, <1>4, <1>5 DEF LearnNext, Histories

\* What a step of one request adds to the histories.
LEMMA StepHistories ==
  ASSUME LearnInv, LearnNext, NEW r \in Request, NEW x, StepOf(r, x)
  PROVE  /\ \A q \in Question :
              wrong'[q] = IF req[r].pc = "commit" /\ x.pc = "none" /\ req[r].q = q /\ ~req[r].right
                            THEN wrong[q] + 1 ELSE wrong[q]
         /\ \A q \in Question :
              unseen'[q] = IF req[r].pc = "commit" /\ x.pc = "none" /\ req[r].q = q /\ ~req[r].right
                             THEN TRUE
                           ELSE IF req[r].pc = "review" /\ x.pc = "none" /\ req[r].q = q THEN FALSE
                           ELSE unseen[q]
         /\ \A q \in Question :
              crossed'[q] = (crossed[q] \/ (Reads(q, "commit") /\ Reads(q, "review")))
         /\ \A d \in Day : doubled[d] => doubled'[d]
         /\ \A d \in Day : \A p, s \in Request :
              p # s /\ Plans(p, d) /\ Plans(s, d) => doubled'[d]
<1>1. /\ Ended("commit") = IF req[r].pc = "commit" /\ x.pc = "none" THEN {r} ELSE {}
      /\ Ended("review") = IF req[r].pc = "review" /\ x.pc = "none" THEN {r} ELSE {}
      /\ Ended("insert") = IF req[r].pc = "insert" /\ x.pc = "none" THEN {r} ELSE {}
  BY EndedIs
<1>2. ASSUME NEW q \in Question
      PROVE  /\ wrong'[q] = IF req[r].pc = "commit" /\ x.pc = "none" /\ req[r].q = q /\ ~req[r].right
                            THEN wrong[q] + 1 ELSE wrong[q]
             /\ unseen'[q] = IF req[r].pc = "commit" /\ x.pc = "none" /\ req[r].q = q /\ ~req[r].right
                             THEN TRUE
                           ELSE IF req[r].pc = "review" /\ x.pc = "none" /\ req[r].q = q THEN FALSE
                           ELSE unseen[q]
             /\ crossed'[q] = (crossed[q] \/ (Reads(q, "commit") /\ Reads(q, "review")))
  BY <1>1 DEF LearnNext, Histories, Answers
<1>4. ASSUME NEW d \in Day
      PROVE  doubled'[d] = (doubled[d] \/ \E p, s \in Request : p # s /\ Plans(p, d) /\ Plans(s, d))
  BY DEF LearnNext, Histories
<1>5. \A d \in Day : doubled[d] => doubled'[d]
  BY <1>4
<1>6. \A d \in Day : \A p, s \in Request :
         p # s /\ Plans(p, d) /\ Plans(s, d) => doubled'[d]
  BY <1>4
<1>7. \A q \in Question :
         crossed'[q] = (crossed[q] \/ (Reads(q, "commit") /\ Reads(q, "review")))
  BY <1>2
<1> QED
  BY <1>2, <1>5, <1>6, <1>7, Zenon

\* A plan that inserts its items is granted the minutes it found left.
LEMMA GrantedNext ==
  ASSUME LearnInv, LearnNext, NEW r \in Request, NEW x, StepOf(r, x), NEW d \in Day
  PROVE  granted'[d] = IF item' # item /\ req[r].pc = "insert" /\ x.pc = "none" /\ req[r].day = d
                         THEN req[r].granted ELSE granted[d]
<1>1. Ended("insert") = IF req[r].pc = "insert" /\ x.pc = "none" THEN {r} ELSE {}
  BY EndedIs
<1>2. granted'[d] = IF item' # item /\ \E p \in Ended("insert") : req[p].day = d
                        THEN req[CHOOSE p \in Ended("insert") : TRUE].granted ELSE granted[d]
  BY DEF LearnNext, Histories
<1>3. Ended("insert") = {r} => (CHOOSE p \in Ended("insert") : TRUE) = r
  OBVIOUS
<1> QED
  BY <1>1, <1>2, <1>3

-----------------------------------------------------------------------------
(* The invariant is kept.                                                    *)

\* Types.
LEMMA TypeKept ==
  ASSUME LearnInv, LearnNext
  PROVE  Types'
<1> USE DEF LearnInv
<1>1. wrong' \in [Question -> Nat]
  BY DEF LearnNext, Histories
<1>2. unseen' \in [Question -> BOOLEAN]
  BY DEF LearnNext, Histories
<1>3. crossed' \in [Question -> BOOLEAN]
  BY DEF LearnNext, Histories
<1>4. doubled' \in [Day -> BOOLEAN]
  BY DEF LearnNext, Histories
<1>5. granted' \in [Day -> Nat]
  <2>1. ASSUME NEW p \in Request PROVE req[p].granted \in Nat
    BY DEF TypeOK, RequestState
  <2>2. ASSUME NEW d, \E p \in Ended("insert") : req[p].day = d
        PROVE  req[CHOOSE p \in Ended("insert") : TRUE].granted \in Nat
    <3>1. (CHOOSE p \in Ended("insert") : TRUE) \in Ended("insert")
      BY <2>2
    <3>2. Ended("insert") \subseteq Request
      BY DEF Ended
    <3> QED
      BY <2>1, <3>1, <3>2
  <2> QED
    BY <2>2 DEF LearnNext, Histories
<1>6. TypeOK'
  <2>1. CASE Quiet
    BY <2>1 DEF Quiet, TypeOK
  <2>2. ASSUME NEW r \in Request, NEW x, StepOf(r, x) PROVE TypeOK'
    <3>1. req' \in [Request -> RequestState] /\ req[r] \in RequestState
      BY <2>2 DEF StepOf, TypeOK
    <3>2. now' \in Time /\ exam' \in ExamRow /\ focused' \in [Day -> Nat] /\ now \in Nat
      BY <2>2 DEF StepOf, TypeOK, Time
    <3>3. SUFFICES /\ attempt' \in [Question -> AttemptRow \cup {None}]
                   /\ mistake' \in [Question -> MistakeRow]
                   /\ locked' \in [Question -> Request \cup {None}]
                   /\ item' \in [1..Items -> ItemRow \cup {None}]
      BY <3>1, <3>2 DEF TypeOK
    <3>4. CASE Began(r, x) \/ Looked(r, x) \/ Refused(r, x)
      BY <3>4 DEF Began, Looked, Refused, TypeOK
    <3>5. CASE Flushed(r, x)
      BY <3>5 DEF Flushed, TypeOK
    <3>6. CASE Answer(r, x)
      <4>1. req[r].q \in Question
        BY <3>6 DEF Answer, RequestsPlaced
      <4>2. WrongAgain(mistake[req[r].q], req[r].seen) \in MistakeRow
        BY <3>1, <3>2, <4>1, WrongTyped DEF TypeOK, RequestState
      <4> QED
        BY <3>6, <4>1, <4>2 DEF Answer, TypeOK
    <3>7. CASE Review(r, x)
      <4>1. req[r].q \in Question /\ req[r].feedback \in Feedbacks
        BY <3>7 DEF Review, RequestsPlaced, Feedbacks
      <4>2. Reviewed(mistake[req[r].q], req[r].seen, req[r].feedback) \in MistakeRow
        BY <3>1, <3>2, <4>1, ReviewedTyped DEF TypeOK, RequestState
      <4> QED
        BY <3>7, <4>1, <4>2 DEF Review, TypeOK
    <3>8. CASE Plan(r, x)
      <4>1. PICK d \in Day, s \in Seq(Source) : d = req[r].day /\ s = req[r].chosen
        BY <3>1, <3>8 DEF Plan, RequestsPlaced, RequestState
      <4>2. PICK last \in Nat : last = Cardinality(Ids)
        <5>1. PICK l \in 0..Items : Ids = 1..l
          BY DEF ItemsInOrder
        <5>2. IsFiniteSet(Ids)
          BY <5>1, FS_Interval
        <5> QED
          BY <5>2, FS_CardinalityType
      <4>3. ASSUME NEW k \in 1..Len(s)
            PROVE  [day |-> d, made |-> d, source |-> s[k], status |-> "planned", locked |-> FALSE]
                     \in ItemRow
        <5>1. s[k] \in Source
          BY <4>1
        <5> QED
          BY <4>1, <5>1 DEF ItemRow
      <4>4. ASSUME item' = [i \in 1..Items |->
               IF i \in (last + 1)..(last + Len(s))
                 THEN [day |-> d, made |-> d, source |-> s[i - last],
                       status |-> "planned", locked |-> FALSE]
                 ELSE item[i]]
            PROVE item' \in [1..Items -> ItemRow \cup {None}]
        <5>1. ASSUME NEW i \in 1..Items PROVE item'[i] \in ItemRow \cup {None}
          <6>1. CASE i \in (last + 1)..(last + Len(s))
            <7>1. i - last \in 1..Len(s)
              BY <4>1, <4>2, <6>1
            <7> QED
              BY <4>3, <4>4, <6>1, <7>1
          <6>2. CASE i \notin (last + 1)..(last + Len(s))
            BY <4>4, <6>2 DEF TypeOK
          <6> QED
            BY <6>1, <6>2
        <5> QED
          BY <4>4, <5>1
      <4>5. item' \in [1..Items -> ItemRow \cup {None}]
        BY <3>8, <4>1, <4>2, <4>4 DEF Plan, TypeOK
      <4> QED
        BY <3>8, <4>5 DEF Plan, TypeOK
    <3>9. CASE Change(r, x)
      <4>1. PICK i \in Ids : i = req[r].item
        BY <3>9 DEF Change, RequestsPlaced
      <4>2. item[i] \in ItemRow
        BY <4>1 DEF Ids, TypeOK
      <4>3. Edited(item[i], req[r].edit, req[r].day) \in ItemRow
        BY <3>9, <4>2, EditedTyped DEF Change, RequestsPlaced
      <4> QED
        BY <3>9, <4>1, <4>3 DEF Change, TypeOK
    <3> QED
      BY <2>2, <3>4, <3>5, <3>6, <3>7, <3>8, <3>9 DEF StepOf
  <2> QED
    BY <2>1, <2>2, StepCases
<1> QED
  BY <1>1, <1>2, <1>3, <1>4, <1>5, <1>6 DEF Types

\* Cardinality(Ids) is the last id given.
LEMMA LastId ==
  ASSUME LearnInv
  PROVE  \E last \in Nat : Ids = 1..last /\ Cardinality(Ids) = last /\ last <= Items
<1>1. PICK l \in 0..Items : Ids = 1..l
  BY DEF LearnInv, ItemsInOrder
<1>2. Items \in Nat
  BY LearningAssumption
<1>3. Cardinality(1..l) = IF 1 > l THEN 0 ELSE l - 1 + 1
  BY <1>1, <1>2, FS_Interval
<1>4. Cardinality(1..l) = l
  BY <1>1, <1>2, <1>3
<1> QED
  BY <1>1, <1>2, <1>4

\* What an item that is inserted is.
LEMMA PlanItems ==
  ASSUME LearnInv, NEW r \in Request, NEW x, Plan(r, x), item' # item
  PROVE  \E last \in Nat, n \in Nat :
           /\ Ids = 1..last /\ Ids' = 1..(last + n) /\ last + n <= Items /\ n = Len(req[r].chosen)
           /\ \A i \in 1..last : item'[i] = item[i]
           /\ \A i \in (last + 1)..(last + n) :
                /\ item'[i].day = req[r].day /\ item'[i].made = req[r].day
                /\ item'[i].source = req[r].chosen[i - last]
<1>1. PICK last \in Nat : Ids = 1..last /\ Cardinality(Ids) = last /\ last <= Items
  BY LastId
<1>2. PICK d \in Day, s \in Seq(Source) : d = req[r].day /\ s = req[r].chosen
  BY DEF LearnInv, TypeOK, Plan, RequestsPlaced, RequestState
<1>3. PICK n \in Nat : n = Len(s)
  BY <1>2
<1>4. PICK new : new = [i \in (last + 1)..(last + n) |->
            [day |-> d, made |-> d, source |-> s[i - last], status |-> "planned", locked |-> FALSE]]
  OBVIOUS
<1>5. /\ last + n <= Items
      /\ item' = [i \in 1..Items |-> IF i \in (last + 1)..(last + n) THEN new[i] ELSE item[i]]
  BY <1>1, <1>2, <1>3, <1>4 DEF Plan
<1>6. ASSUME NEW i \in (last + 1)..(last + n)
      PROVE  /\ i \in 1..Items /\ item'[i] = new[i] /\ new[i] \in ItemRow
             /\ new[i].day = d /\ new[i].made = d /\ new[i].source = s[i - last]
  <2>1. i \in 1..Items /\ i - last \in 1..Len(s)
    BY <1>1, <1>3, <1>5, LearningAssumption
  <2>2. s[i - last] \in Source
    BY <1>2, <2>1
  <2>3. new[i] = [day |-> d, made |-> d, source |-> s[i - last], status |-> "planned", locked |-> FALSE]
    BY <1>4
  <2>4. new[i] \in ItemRow /\ new[i].day = d /\ new[i].made = d /\ new[i].source = s[i - last]
    BY <1>2, <2>2, <2>3 DEF ItemRow
  <2> QED
    BY <1>5, <2>1, <2>4
<1>7. \A i \in 1..last : i \in 1..Items /\ item'[i] = item[i]
  BY <1>1, <1>5, LearningAssumption
<1>8. Ids' = 1..(last + n)
  <2>1. ASSUME NEW i \in 1..Items PROVE item'[i] # None <=> i \in 1..(last + n)
    <3>1. CASE i \in (last + 1)..(last + n)
      BY <1>1, <1>6, <3>1, NoItemAssumption
    <3>2. CASE i \in 1..last
      BY <1>1, <1>7, <3>2 DEF Ids
    <3>3. CASE i \notin 1..(last + n)
      BY <1>1, <1>5, <3>3 DEF Ids
    <3> QED
      BY <1>1, <1>3, <3>1, <3>2, <3>3
  <2>2. \A i \in 1..(last + n) : i \in 1..Items
    BY <1>1, <1>3, <1>5, LearningAssumption
  <2> QED
    BY <2>1, <2>2 DEF Ids
<1> QED
  BY <1>1, <1>2, <1>3, <1>5, <1>6, <1>7, <1>8

\* Edits leave the items what they are, but for the day of the one that moves.
LEMMA ChangeItems ==
  ASSUME LearnInv, NEW r \in Request, NEW x, Change(r, x)
  PROVE  /\ Ids' = Ids
         /\ \A i \in Ids : /\ item'[i].made = item[i].made /\ item'[i].source = item[i].source
                           /\ \/ item'[i].day = item[i].day
                              \/ item'[i].day \in Day /\ item'[i].day > item[i].made
<1>1. PICK i \in Ids : i = req[r].item
  BY DEF LearnInv, Change, RequestsPlaced
<1>2. /\ req[r].edit \in {"completed", "deferred", "skipped", "lock", "unlock", "move"}
      /\ req[r].edit = "move" => req[r].day \in Day /\ req[r].day > item[i].made
  BY <1>1 DEF LearnInv, Change, RequestsPlaced
<1>3. PICK new : new = Edited(item[i], req[r].edit, req[r].day)
  OBVIOUS
<1>4. i \in 1..Items /\ item[i] \in ItemRow /\ item \in [1..Items -> ItemRow \cup {None}]
  BY <1>1 DEF Ids, LearnInv, TypeOK
<1>5. /\ new \in ItemRow /\ new.made = item[i].made /\ new.source = item[i].source
      /\ new.day = item[i].day \/ (new.day \in Day /\ new.day > item[i].made)
  <2>1. PICK e, d : e = req[r].edit /\ d = req[r].day
    OBVIOUS
  <2>2. /\ e \in {"completed", "deferred", "skipped", "lock", "unlock", "move"}
        /\ e = "move" => d \in Day /\ d > item[i].made
    BY <1>2, <2>1
  <2>3. /\ new \in ItemRow /\ new.made = item[i].made /\ new.source = item[i].source
        /\ new.day = IF e = "move" THEN d ELSE item[i].day
    <3>1. PICK old \in ItemRow : old = item[i]
      BY <1>4
    <3>2. new = Edited(old, e, d)
      BY <1>3, <2>1, <3>1
    <3>3. e = "move" => d \in Day
      BY <2>2
    <3> QED
      <4>1. old \in ItemRow
        BY <3>1
      <4>2. e \in {"completed", "deferred", "skipped", "lock", "unlock", "move"}
        BY <2>2
      <4>3. /\ Edited(old, e, d) \in ItemRow
            /\ Edited(old, e, d).made = old.made
            /\ Edited(old, e, d).source = old.source
            /\ Edited(old, e, d).day = IF e = "move" THEN d ELSE old.day
        BY <3>3, <4>1, <4>2, EditedTyped
      <4> QED
        BY <3>1, <3>2, <4>3
  <2> QED
    BY <2>2, <2>3
<1>6. CASE UNCHANGED item
  BY <1>6 DEF Ids
<1>7. CASE item' = [item EXCEPT ![i] = new]
  <2>1. item'[i] = new /\ \A j \in 1..Items : j # i => item'[j] = item[j]
    BY <1>4, <1>7
  <2>2. new # None /\ item[i] # None
    BY <1>4, <1>5, NoItemAssumption
  <2>3. Ids' = Ids
    BY <2>1, <2>2 DEF Ids
  <2> QED
    BY <1>5, <2>1, <2>3 DEF Ids
<1> QED
  BY <1>1, <1>3, <1>6, <1>7 DEF Change

\* No step takes an item away or changes which plan made it.
LEMMA ItemsStay ==
  ASSUME LearnInv, LearnNext
  PROVE  \A i \in Ids : i \in Ids' /\ item'[i].made = item[i].made
<1>1. CASE UNCHANGED item
  BY <1>1 DEF Ids
<1>2. ASSUME NEW r \in Request, NEW x, Plan(r, x), item' # item
      PROVE  \A i \in Ids : i \in Ids' /\ item'[i].made = item[i].made
  <2>1. PICK last \in Nat, n \in Nat :
           /\ Ids = 1..last /\ Ids' = 1..(last + n)
           /\ \A i \in 1..last : item'[i] = item[i]
    BY <1>2, PlanItems
  <2> QED
    BY <2>1
<1>3. ASSUME NEW r \in Request, NEW x, Change(r, x)
      PROVE  \A i \in Ids : i \in Ids' /\ item'[i].made = item[i].made
  BY <1>3, ChangeItems
<1> QED
  BY <1>1, <1>2, <1>3, StepCases DEF Quiet, StepOf, Began, Looked, Refused, Flushed, Answer, Review

\* What a request works on stays there: items are not removed, and do not move back.
LEMMA PlacedKept ==
  ASSUME LearnInv, LearnNext
  PROVE  RequestsPlaced'
<1>1. \A i \in Ids : i \in Ids' /\ item'[i].made = item[i].made
  BY ItemsStay
<1>2. RequestsPlaced /\ req \in [Request -> RequestState]
  BY DEF LearnInv, TypeOK
<1>3. CASE Quiet
  BY <1>1, <1>2, <1>3 DEF Quiet, RequestsPlaced
<1>4. ASSUME NEW r \in Request, NEW x, StepOf(r, x) PROVE RequestsPlaced'
  <2>1. req'[r] = x /\ \A p \in Request : p # r => req'[p] = req[p]
    BY <1>2, <1>4 DEF StepOf
  <2>2. /\ x.pc \in {"lookup", "flush", "commit", "review"} => x.q \in Question
        /\ x.pc = "review" => x.feedback \in Feedbacks
        /\ x.pc = "insert" => x.day \in Day
        /\ x.pc = "update" =>
             /\ x.item \in Ids
             /\ x.edit \in {"completed", "deferred", "skipped", "lock", "unlock", "move"}
             /\ x.edit = "move" => x.day \in Day /\ x.day > item[x.item].made
    <3>1. CASE Began(r, x)
      <4>1. ASSUME NEW i \in Ids, NEW d \in Day, d > item[i].day PROVE d > item[i].made
        <5>1. item[i].made <= item[i].day /\ item[i].made \in Nat /\ item[i].day \in Nat /\ d \in Nat
          BY LearningAssumption DEF LearnInv, ItemsInOrder, TypeOK, Ids, ItemRow, Day
        <5> QED
          BY <4>1, <5>1
      <4> QED
        BY <3>1, <4>1 DEF Began
    <3>2. CASE Looked(r, x)
      BY <1>2, <3>2 DEF Looked, RequestsPlaced
    <3>3. CASE Flushed(r, x)
      BY <1>2, <3>3 DEF Flushed, RequestsPlaced
    <3>4. CASE x.pc = "none"
      BY <3>4
    <3> QED
      BY <1>4, <3>1, <3>2, <3>3, <3>4 DEF StepOf, Refused, Answer, Review, Plan, Change
  <2>3. ASSUME NEW p \in Request, p # r
        PROVE  /\ req[p].pc = "update" => req'[p].item \in Ids' /\ item'[req'[p].item].made = item[req[p].item].made
    BY <1>1, <1>2, <2>1, <2>3 DEF RequestsPlaced
  <2>4. x.pc = "update" => x.item \in Ids' /\ item'[x.item].made = item[x.item].made
    BY <1>1, <2>2
  <2> QED
    BY <1>2, <2>1, <2>2, <2>3, <2>4 DEF RequestsPlaced, Feedbacks
<1> QED
  BY <1>3, <1>4, StepCases

\* Two answers to a question are not both flushed, and what a flushed one read is
\* still what the mistake is.
Holds(p) ==
    /\ locked[req[p].q] = p
    /\ req[p].seen.count = mistake[req[p].q].count
    /\ ~crossed[req[p].q] => req[p].seen.status = mistake[req[p].q].status

\* It stays so of every flushed answer.
LEMMA OneWriterKept ==
  ASSUME LearnInv, LearnNext
  PROVE  OneWriter'
<1>1. OneWriter /\ RequestsPlaced /\ req \in [Request -> RequestState]
      /\ mistake \in [Question -> MistakeRow] /\ locked \in [Question -> Request \cup {None}]
  BY DEF LearnInv, TypeOK
<1>2. None \notin Request
  BY LearningAssumption
<1>3. CASE Quiet
  <2>1. \A q \in Question : crossed[q] => crossed'[q]
    BY <1>3, QuietHistories
  <2>2. \A r \in Request : req[r].pc = "commit" => req[r].q \in Question
    BY <1>1 DEF RequestsPlaced
  <2> QED
    BY <1>1, <1>3, <2>1, <2>2 DEF Quiet, OneWriter
<1>4. ASSUME NEW r \in Request, NEW x, StepOf(r, x) PROVE OneWriter'
  <2>1. req'[r] = x /\ \A p \in Request : p # r => req'[p] = req[p]
    BY <1>1, <1>4 DEF StepOf
  <2>2. /\ \A q \in Question : crossed[q] => crossed'[q]
        /\ \A q \in Question : Reads(q, "commit") /\ Reads(q, "review") => crossed'[q]
    BY <1>4, StepHistories
  <2>3. \A p \in Request : req[p].pc = "commit" => req[p].q \in Question
    BY <1>1 DEF RequestsPlaced
  <2>4. x.pc = "commit" => Flushed(r, x)
    BY <1>4 DEF StepOf, Began, Looked, Refused, Answer, Review, Plan, Change
  <2>5. ASSUME Flushed(r, x) PROVE OneWriter'
    <3>1. x.q \in Question
      BY <1>1, <2>5 DEF Flushed, RequestsPlaced
    <3>2. locked'[x.q] = r /\ \A q \in Question : q # x.q => locked'[q] = locked[q]
      BY <1>1, <2>5, <3>1 DEF Flushed
    <3>3. ASSUME NEW p \in Request, p # r, req[p].pc = "commit" PROVE req[p].q # x.q
      BY <1>1, <1>2, <2>5, <3>3 DEF Flushed, Free, OneWriter
    <3>4. mistake' = mistake /\ x.seen = mistake[x.q]
      BY <2>5 DEF Flushed
    <3>5. ASSUME NEW p \in Request, p # r, req[p].pc = "commit" PROVE Holds(p)'
      <4>1. /\ locked'[req[p].q] = locked[req[p].q] /\ req'[p] = req[p]
            /\ crossed[req[p].q] => crossed'[req[p].q]
        BY <2>1, <2>2, <2>3, <3>2, <3>3, <3>5
      <4> QED
        BY <1>1, <3>4, <3>5, <4>1 DEF OneWriter, Holds
    <3>6. Holds(r)'
      BY <2>1, <3>2, <3>4 DEF Holds
    <3> QED
      BY <2>1, <3>5, <3>6 DEF OneWriter, Holds
  <2>6. ASSUME Answer(r, x) PROVE OneWriter'
    <3>1. req[r].q \in Question /\ locked[req[r].q] = r /\ x.pc = "none"
      BY <1>1, <2>6 DEF Answer, RequestsPlaced, OneWriter
    <3>2. ASSUME NEW p \in Request, p # r, req[p].pc = "commit" PROVE req[p].q # req[r].q
      BY <1>1, <3>1, <3>2 DEF OneWriter
    <3>3. \A q \in Question : q # req[r].q => locked'[q] = locked[q] /\ mistake'[q] = mistake[q]
      BY <1>1, <2>6, <3>1 DEF Answer
    <3>4. ASSUME NEW p \in Request, p # r, req[p].pc = "commit" PROVE Holds(p)'
      <4>1. /\ locked'[req[p].q] = locked[req[p].q] /\ mistake'[req[p].q] = mistake[req[p].q]
            /\ req'[p] = req[p] /\ (crossed[req[p].q] => crossed'[req[p].q])
        BY <2>1, <2>2, <2>3, <3>2, <3>3, <3>4
      <4> QED
        BY <1>1, <3>4, <4>1 DEF OneWriter, Holds
    <3> QED
      BY <2>1, <3>1, <3>4 DEF OneWriter, Holds
  <2>7. ASSUME Review(r, x) PROVE OneWriter'
    <3>1. req[r].q \in Question /\ req[r].feedback \in Feedbacks /\ x.pc = "none" /\ req[r].pc = "review"
      BY <1>1, <2>7 DEF Review, RequestsPlaced, Feedbacks
    <3>2. /\ locked' = locked /\ mistake'[req[r].q].count = mistake[req[r].q].count
          /\ \A q \in Question : q # req[r].q => mistake'[q] = mistake[q]
      <4>1. req[r].seen \in MistakeRow /\ mistake[req[r].q] \in MistakeRow /\ now \in Nat
        BY <3>1 DEF LearnInv, TypeOK, RequestState, Time
      <4>2. Reviewed(mistake[req[r].q], req[r].seen, req[r].feedback).count = mistake[req[r].q].count
        BY <3>1, <4>1, ReviewedTyped
      <4> QED
        BY <1>1, <2>7, <3>1, <4>2 DEF Review
    <3>3. ASSUME NEW p \in Request, req[p].pc = "commit", req[p].q = req[r].q
          PROVE  crossed'[req[p].q]
      BY <2>2, <3>1, <3>3 DEF Reads
    <3>4. ASSUME NEW p \in Request, p # r, req[p].pc = "commit" PROVE Holds(p)'
      <4>1. /\ mistake'[req[p].q].count = mistake[req[p].q].count /\ req'[p] = req[p]
            /\ (crossed[req[p].q] => crossed'[req[p].q])
        BY <2>1, <2>2, <2>3, <3>2, <3>4
      <4>2. ~crossed'[req[p].q] => mistake'[req[p].q] = mistake[req[p].q]
        BY <2>3, <3>2, <3>3, <3>4
      <4> QED
        BY <1>1, <3>2, <3>4, <4>1, <4>2 DEF OneWriter, Holds
    <3> QED
      BY <2>1, <3>1, <3>4 DEF OneWriter, Holds
  <2>8. ASSUME UNCHANGED <<mistake, locked>>, x.pc # "commit" PROVE OneWriter'
    <3>1. ASSUME NEW p \in Request, p # r, req[p].pc = "commit" PROVE Holds(p)'
      <4>1. req'[p] = req[p] /\ (crossed[req[p].q] => crossed'[req[p].q])
        BY <2>1, <2>2, <2>3, <3>1
      <4> QED
        BY <1>1, <2>8, <3>1, <4>1 DEF OneWriter, Holds
    <3> QED
      BY <2>1, <2>8, <3>1 DEF OneWriter, Holds
  <2> QED
    BY <1>4, <2>4, <2>5, <2>6, <2>7, <2>8 DEF StepOf, Began, Looked, Refused, Plan, Change
<1> QED
  BY <1>3, <1>4, StepCases

\* Each wrong answer is counted once.
LEMMA MistakesKept ==
  ASSUME LearnInv, LearnNext
  PROVE  MistakesExact'
<1>1. MistakesExact /\ mistake \in [Question -> MistakeRow] /\ req \in [Request -> RequestState]
      /\ now \in Nat
  BY DEF LearnInv, TypeOK, Time
<1>2. CASE Quiet
  BY <1>1, <1>2, QuietHistories DEF Quiet, MistakesExact
<1>3. ASSUME NEW r \in Request, NEW x, StepOf(r, x) PROVE MistakesExact'
  <2>1. \A q \in Question :
          wrong'[q] = IF req[r].pc = "commit" /\ x.pc = "none" /\ req[r].q = q /\ ~req[r].right
                        THEN wrong[q] + 1 ELSE wrong[q]
    BY <1>3, StepHistories
  <2>2. CASE Answer(r, x)
    <3>1. /\ req[r].q \in Question /\ req[r].seen.count = mistake[req[r].q].count
          /\ req[r].pc = "commit" /\ x.pc = "none"
      BY <2>2 DEF Answer, LearnInv, RequestsPlaced, OneWriter
    <3>2. req[r].seen \in MistakeRow /\ mistake[req[r].q] \in MistakeRow
      BY <1>1, <3>1 DEF RequestState
    <3>3. WrongAgain(mistake[req[r].q], req[r].seen).count = mistake[req[r].q].count + 1
      BY <1>1, <3>1, <3>2, WrongTyped
    <3>4. CASE req[r].right
      BY <1>1, <2>1, <2>2, <3>4 DEF Answer, MistakesExact
    <3>5. CASE ~req[r].right
      <4>1. mistake' = [mistake EXCEPT ![req[r].q] = WrongAgain(mistake[req[r].q], req[r].seen)]
        BY <2>2, <3>5 DEF Answer
      <4>2. mistake'[req[r].q].count = mistake[req[r].q].count + 1
        BY <1>1, <3>1, <3>3, <4>1
      <4>3. \A q \in Question : q # req[r].q => mistake'[q] = mistake[q]
        BY <1>1, <4>1
      <4> QED
        BY <1>1, <2>1, <3>1, <3>5, <4>2, <4>3 DEF MistakesExact
    <3> QED
      BY <3>4, <3>5
  <2>3. CASE Review(r, x)
    <3>1. req[r].q \in Question /\ req[r].feedback \in Feedbacks /\ req[r].pc = "review"
      BY <2>3 DEF Review, LearnInv, RequestsPlaced, Feedbacks
    <3>2. req[r].seen \in MistakeRow /\ mistake[req[r].q] \in MistakeRow
      BY <1>1, <3>1 DEF RequestState
    <3>3. Reviewed(mistake[req[r].q], req[r].seen, req[r].feedback).count = mistake[req[r].q].count
      BY <1>1, <3>1, <3>2, ReviewedTyped
    <3>4. \A q \in Question : mistake'[q].count = mistake[q].count
      BY <1>1, <2>3, <3>1, <3>3 DEF Review
    <3> QED
      BY <1>1, <2>1, <3>1, <3>4 DEF MistakesExact
  <2>4. CASE UNCHANGED mistake /\ ~(req[r].pc = "commit" /\ x.pc = "none")
    BY <1>1, <2>1, <2>4 DEF MistakesExact
  <2> QED
    BY <1>3, <2>2, <2>3, <2>4 DEF StepOf, Began, Looked, Refused, Flushed, Plan, Change
<1> QED
  BY <1>2, <1>3, StepCases

\* A wrong answer makes the mistake new and due, and it stays so until a review.
LEMMA ReviewsKept ==
  ASSUME LearnInv, LearnNext
  PROVE  SerialReviewsCount'
<1>1. /\ SerialReviewsCount /\ mistake \in [Question -> MistakeRow]
      /\ req \in [Request -> RequestState] /\ now \in Nat /\ now' \in Nat
  BY TypeKept DEF LearnInv, Types, TypeOK, Time
<1>2. CASE Quiet
  <2>1. mistake' = mistake /\ now <= now'
    BY <1>2 DEF Quiet
  <2>2. unseen' = unseen /\ \A q \in Question : crossed[q] => crossed'[q]
    BY <1>2, QuietHistories
  <2>3. ASSUME NEW q \in Question, unseen'[q], ~crossed'[q]
        PROVE  mistake'[q].status = "new" /\ mistake'[q].due <= now'
    <3>1. mistake[q].status = "new" /\ mistake[q].due <= now /\ mistake[q].due \in Nat
      BY <1>1, <2>2, <2>3 DEF SerialReviewsCount, MistakeRow
    <3> QED
      BY <1>1, <2>1, <3>1
  <2> QED
    BY <2>3 DEF SerialReviewsCount
<1>3. ASSUME NEW r \in Request, NEW x, StepOf(r, x) PROVE SerialReviewsCount'
  <2>1. \A q \in Question : crossed[q] => crossed'[q]
    BY <1>3, StepHistories
  <2>2. \A q \in Question :
          unseen'[q] = IF req[r].pc = "commit" /\ x.pc = "none" /\ req[r].q = q /\ ~req[r].right
                         THEN TRUE
                       ELSE IF req[r].pc = "review" /\ x.pc = "none" /\ req[r].q = q THEN FALSE
                       ELSE unseen[q]
    BY ZenonT(40), <1>3, StepHistories
  <2>3. now' = now
    BY <1>3 DEF StepOf
  <2>4. CASE Answer(r, x)
    <3>1. /\ req[r].q \in Question /\ req[r].pc = "commit" /\ x.pc = "none"
          /\ ~crossed[req[r].q] => req[r].seen.status = mistake[req[r].q].status
      BY <2>4 DEF Answer, LearnInv, RequestsPlaced, OneWriter
    <3>2. req[r].seen \in MistakeRow /\ mistake[req[r].q] \in MistakeRow
      BY <1>1, <3>1 DEF RequestState
    <3>3. PICK w : w = WrongAgain(mistake[req[r].q], req[r].seen)
      OBVIOUS
    <3>4. w.due = now /\ (~crossed[req[r].q] => w.status = "new")
      BY <1>1, <3>1, <3>2, <3>3, WrongTyped
    <3>5. CASE req[r].right
      <4>1. mistake' = mistake /\ \A q \in Question : unseen'[q] => unseen[q]
        BY <2>2, <2>4, <3>1, <3>5 DEF Answer
      <4> QED
        BY <1>1, <2>1, <2>3, <4>1 DEF SerialReviewsCount
    <3>6. CASE ~req[r].right
      <4>1. mistake' = [mistake EXCEPT ![req[r].q] = w]
        BY <2>4, <3>3, <3>6 DEF Answer
      <4>2. mistake'[req[r].q] = w /\ \A q \in Question : q # req[r].q => mistake'[q] = mistake[q]
        BY <1>1, <3>1, <4>1
      <4>3. \A q \in Question : q # req[r].q /\ unseen'[q] => unseen[q]
        BY <2>2, <3>1
      <4> QED
        BY <1>1, <2>1, <2>3, <3>4, <4>2, <4>3 DEF SerialReviewsCount
    <3> QED
      BY <3>5, <3>6
  <2>5. CASE Review(r, x)
    <3>1. req[r].q \in Question /\ req[r].pc = "review" /\ x.pc = "none"
      BY <2>5 DEF Review, LearnInv, RequestsPlaced
    <3>2. \A q \in Question : unseen'[q] => unseen[q] /\ q # req[r].q
      BY <2>2, <3>1
    <3>3. \A q \in Question : q # req[r].q => mistake'[q] = mistake[q]
      BY <1>1, <2>5, <3>1 DEF Review
    <3> QED
      BY <1>1, <2>1, <2>3, <3>2, <3>3 DEF SerialReviewsCount
  <2>6. CASE UNCHANGED mistake /\ ~(req[r].pc = "commit" /\ x.pc = "none")
    <3>1. \A q \in Question : unseen'[q] => unseen[q]
      BY <2>2, <2>6
    <3> QED
      BY <1>1, <2>1, <2>3, <2>6, <3>1 DEF SerialReviewsCount
  <2> QED
    BY <1>3, <2>4, <2>5, <2>6 DEF StepOf, Began, Looked, Refused, Flushed, Plan, Change
<1> QED
  BY <1>2, <1>3, StepCases

\* What a step does to the items.
LEMMA ItemCases ==
  ASSUME LearnInv, LearnNext
  PROVE  \/ UNCHANGED item
         \/ \E r \in Request : \E x : StepOf(r, x) /\ Plan(r, x) /\ item' # item
         \/ \E r \in Request : \E x : StepOf(r, x) /\ Change(r, x)
BY StepCases DEF Quiet, StepOf, Began, Looked, Refused, Flushed, Answer, Review

\* Items are numbered in order, and none is on a day before the one of its plan.
LEMMA ItemsKept ==
  ASSUME LearnInv, LearnNext
  PROVE  ItemsInOrder'
<1>1. ItemsInOrder /\ item \in [1..Items -> ItemRow \cup {None}] /\ Items \in Nat
  BY LearningAssumption DEF LearnInv, TypeOK
<1>2. CASE UNCHANGED item
  BY <1>1, <1>2 DEF ItemsInOrder, Ids
<1>3. ASSUME NEW r \in Request, NEW x, StepOf(r, x), Plan(r, x), item' # item
      PROVE  ItemsInOrder'
  <2>1. PICK last \in Nat, n \in Nat :
           /\ Ids = 1..last /\ Ids' = 1..(last + n) /\ last + n <= Items
           /\ \A i \in 1..last : item'[i] = item[i]
           /\ \A i \in (last + 1)..(last + n) :
                item'[i].day = req[r].day /\ item'[i].made = req[r].day
    BY <1>3, PlanItems
  <2>2. req[r].day \in Nat
    BY <1>3, LearningAssumption DEF Plan, LearnInv, RequestsPlaced, Day
  <2>3. ASSUME NEW i \in Ids' PROVE item'[i].made <= item'[i].day
    <3>1. CASE i \in 1..last
      BY <1>1, <2>1, <3>1 DEF ItemsInOrder
    <3>2. CASE i \in (last + 1)..(last + n)
      BY <2>1, <2>2, <3>2
    <3> QED
      BY <2>1, <2>3, <3>1, <3>2
  <2>4. last + n \in 0..Items
    BY <1>1, <2>1
  <2> QED
    BY <2>1, <2>3, <2>4 DEF ItemsInOrder
<1>4. ASSUME NEW r \in Request, NEW x, StepOf(r, x), Change(r, x)
      PROVE  ItemsInOrder'
  <2>1. /\ Ids' = Ids
        /\ \A i \in Ids : /\ item'[i].made = item[i].made
                          /\ \/ item'[i].day = item[i].day
                             \/ item'[i].day \in Day /\ item'[i].day > item[i].made
    BY <1>4, ChangeItems
  <2>2. \A i \in Ids : item[i].made \in Nat /\ item[i].day \in Nat
    BY <1>1, LearningAssumption DEF Ids, ItemRow, Day
  <2>3. ASSUME NEW i \in Ids PROVE item'[i].made <= item'[i].day
    <3>1. item'[i].day \in Nat
      BY <2>1, <2>2, LearningAssumption DEF Day
    <3> QED
      BY <1>1, <2>1, <2>2, <3>1 DEF ItemsInOrder
  <2> QED
    BY <1>1, <2>1, <2>3 DEF ItemsInOrder
<1> QED
  BY <1>2, <1>3, <1>4, ItemCases

\* An edit takes items of a day's plan off the day, and brings none back.
LEMMA ChangeMade ==
  ASSUME LearnInv, NEW r \in Request, NEW x, Change(r, x), NEW d \in Day
  PROVE  MadeFor(d)' \subseteq MadeFor(d) /\ \A i \in MadeFor(d)' : item'[i].source = item[i].source
<1>1. /\ Ids' = Ids
      /\ \A i \in Ids : /\ item'[i].made = item[i].made /\ item'[i].source = item[i].source
                        /\ \/ item'[i].day = item[i].day
                           \/ item'[i].day \in Day /\ item'[i].day > item[i].made
  BY ChangeItems
<1>2. d \in Nat
  BY LearningAssumption DEF Day
<1> QED
  BY <1>1, <1>2 DEF MadeFor, On

\* An insertion adds to the plan of its day only.
LEMMA PlanMade ==
  ASSUME LearnInv, NEW r \in Request, NEW x, Plan(r, x), item' # item, NEW d \in Day, d # req[r].day
  PROVE  MadeFor(d)' = MadeFor(d) /\ \A i \in MadeFor(d) : item'[i].source = item[i].source
<1>1. PICK last \in Nat, n \in Nat :
           /\ Ids = 1..last /\ Ids' = 1..(last + n) /\ last + n <= Items /\ n = Len(req[r].chosen)
           /\ \A i \in 1..last : item'[i] = item[i]
           /\ \A i \in (last + 1)..(last + n) :
                /\ item'[i].day = req[r].day /\ item'[i].made = req[r].day
                /\ item'[i].source = req[r].chosen[i - last]
  BY PlanItems
<1>2. \A i \in Ids' : i \in Ids => item'[i] = item[i]
  BY <1>1
<1>3. \A i \in Ids' : i \notin Ids => item'[i].day # d
  BY <1>1
<1>4. Ids \subseteq Ids'
  BY <1>1
<1> QED
  BY <1>2, <1>3, <1>4 DEF MadeFor, On

\* The plan to be inserted still fits, and nothing of its day was inserted before.
LEMMA PlansKept ==
  ASSUME LearnInv, LearnNext
  PROVE  PlansReady'
<1>1. PlansReady /\ RequestsPlaced /\ req \in [Request -> RequestState]
  BY DEF LearnInv, TypeOK
<1>2. CASE Quiet
  <2>1. \A d \in Day : doubled[d] => doubled'[d]
    BY <1>2, QuietHistories
  <2>2. req' = req /\ \A d : MadeFor(d)' = MadeFor(d)
    BY <1>2 DEF Quiet, MadeFor, On, Ids
  <2> QED
    BY <1>1, <2>1, <2>2 DEF PlansReady, RequestsPlaced
<1>3. ASSUME NEW r \in Request, NEW x, StepOf(r, x) PROVE PlansReady'
  <2>1. req'[r] = x /\ \A p \in Request : p # r => req'[p] = req[p]
    BY <1>1, <1>3 DEF StepOf
  <2>2. /\ \A d \in Day : doubled[d] => doubled'[d]
        /\ \A d \in Day : \A p, s \in Request :
              p # s /\ Plans(p, d) /\ Plans(s, d) => doubled'[d]
    BY <1>3, StepHistories
  <2>3. ASSUME NEW p \in Request, p # r, req[p].pc = "insert", ~doubled'[req[p].day]
        PROVE  MadeFor(req[p].day)' = {}
    <3>1. PICK d \in Day : d = req[p].day
      BY <1>1, <2>3 DEF RequestsPlaced
    <3>2. MadeFor(d) = {}
      BY <1>1, <2>2, <2>3, <3>1 DEF PlansReady
    <3>0. SUFFICES MadeFor(d)' = {}
      BY <2>1, <2>3, <3>1
    <3>3. CASE UNCHANGED item
      BY <3>2, <3>3 DEF MadeFor, On, Ids
    <3>4. CASE Plan(r, x) /\ item' # item
      <4>1. req[r].day # d
        BY <2>2, <2>3, <3>1, <3>4 DEF Plan, Plans
      <4> QED
        BY <3>2, <3>4, <4>1, PlanMade
    <3>5. CASE Change(r, x)
      BY <3>2, <3>5, ChangeMade
    <3> QED
      BY <1>3, <3>3, <3>4, <3>5 DEF StepOf, Began, Looked, Refused, Flushed, Answer, Review
  <2>4. ASSUME x.pc = "insert"
        PROVE  Sum(Lengths(x.chosen), Len(x.chosen)) <= x.granted /\ MadeFor(x.day)' = {}
    <3>1. Began(r, x)
      BY <1>3, <2>4 DEF StepOf, Looked, Refused, Flushed, Answer, Review, Plan, Change
    <3>2. On(x.day) = {} /\ UNCHANGED item
      BY <2>4, <3>1 DEF Began
    <3> QED
      BY <2>4, <3>1, <3>2 DEF Began, MadeFor, On, Ids
  <2> QED
    BY <1>1, <2>1, <2>3, <2>4 DEF PlansReady
<1> QED
  BY <1>2, <1>3, StepCases

\* An item takes some minutes.
LEMMA MinutesTyped ==
  \A s : Minutes(s) \in Nat
BY DEF Minutes

\* The items of a plan that was just inserted have the minutes that were chosen.
LEMMA InsertedSum ==
  ASSUME LearnInv, NEW r \in Request, NEW x, Plan(r, x), item' # item,
         MadeFor(req[r].day) = {}, req'[r] = x
  PROVE  \A d \in Day : d = req[r].day =>
           Sum(Weight(d)', Items) = Sum(Lengths(req[r].chosen), Len(req[r].chosen))
<1>0. SUFFICES ASSUME NEW d \in Day, d = req[r].day
               PROVE  Sum(Weight(d)', Items) = Sum(Lengths(req[r].chosen), Len(req[r].chosen))
  OBVIOUS
<1>1. PICK last \in Nat, n \in Nat :
           /\ Ids = 1..last /\ Ids' = 1..(last + n) /\ last + n <= Items /\ n = Len(req[r].chosen)
           /\ \A i \in 1..last : item'[i] = item[i]
           /\ \A i \in (last + 1)..(last + n) :
                /\ item'[i].day = req[r].day /\ item'[i].made = req[r].day
                /\ item'[i].source = req[r].chosen[i - last]
  BY PlanItems
<1>2. PICK s, v, w : s = req[r].chosen /\ v = Lengths(s) /\ w = Weight(d)'
  OBVIOUS
<1>3. Items \in Nat /\ last \in Nat /\ n \in Nat /\ n = Len(s)
  BY <1>1, <1>2, LearningAssumption
<1>4. \A k \in 1..n : v[k] = Minutes(s[k]) /\ v[k] \in Nat
  BY <1>1, <1>2, MinutesTyped DEF Lengths
<1>5. MadeFor(d)' = (last + 1)..(last + n)
  <2>1. ASSUME NEW i \in 1..last PROVE i \notin MadeFor(d)'
    BY <1>0, <1>1, <2>1 DEF MadeFor, On
  <2>2. ASSUME NEW i \in (last + 1)..(last + n) PROVE i \in MadeFor(d)'
    BY <1>0, <1>1, <1>3, <2>2 DEF MadeFor, On
  <2>3. MadeFor(d)' \subseteq 1..(last + n)
    BY <1>1 DEF MadeFor, On
  <2>4. PICK M : M = MadeFor(d)'
    OBVIOUS
  <2>5. \A i : i \in M <=> i \in (last + 1)..(last + n)
    BY <1>3, <2>1, <2>2, <2>3, <2>4
  <2> QED
    BY <2>4, <2>5
<1>6. ASSUME NEW i \in 1..Items
      PROVE  w[i] = IF i \in (last + 1)..(last + n) THEN v[i - last] ELSE 0
  <2>1. w[i] = IF i \in MadeFor(d)' THEN Minutes(item'[i].source) ELSE 0
    BY <1>2 DEF Weight
  <2>2. ASSUME i \in (last + 1)..(last + n) PROVE w[i] = v[i - last]
    <3>1. i - last \in 1..n
      BY <1>3, <2>2
    <3>2. item'[i].source = s[i - last]
      BY <1>1, <1>2, <2>2
    <3> QED
      BY <1>4, <1>5, <2>1, <2>2, <3>1, <3>2
  <2> QED
    BY <1>5, <2>1, <2>2
<1>7. PICK f : SumsOf(f, v, n) /\ Sum(v, n) = f[n]
  BY <1>3, <1>4, SumIs
<1>8. f \in [0..n -> Nat] /\ f[0] = 0 /\ \A k \in 1..n : f[k] = f[k - 1] + v[k]
  BY <1>7 DEF SumsOf
<1>9. PICK g : g = [i \in 0..Items |->
                      IF i <= last THEN 0 ELSE IF i <= last + n THEN f[i - last] ELSE f[n]]
  OBVIOUS
<1>10. SumsOf(g, w, Items)
  <2>1. ASSUME NEW i \in 0..Items PROVE g[i] \in Nat
    <3>1. f[n] \in Nat /\ (i > last /\ i <= last + n => f[i - last] \in Nat)
      BY SMTT(30), <1>3, <1>8
    <3> QED
      BY <1>3, <1>9, <3>1
  <2>2. g[0] = 0 /\ g \in [0..Items -> Nat]
    BY <1>3, <1>9, <2>1
  <2>3. ASSUME NEW i \in 1..Items PROVE g[i] = g[i - 1] + w[i]
    <3>1. i \in 0..Items /\ i - 1 \in 0..Items
      BY <1>3
    <3>2. CASE i <= last
      <4>1. w[i] = 0 /\ g[i] = 0 /\ g[i - 1] = 0
        BY <1>3, <1>6, <1>9, <3>1, <3>2
      <4> QED
        BY <4>1
    <3>3. CASE i > last /\ i <= last + n
      <4>1. PICK k \in 1..n : k = i - last
        BY <1>3, <3>3
      <4>2. w[i] = v[k] /\ g[i] = f[k]
        BY <1>3, <1>6, <1>9, <3>1, <3>3, <4>1
      <4>3. g[i - 1] = f[k - 1]
        <5>1. CASE k = 1
          <6>1. i - 1 <= last
            BY <1>3, <4>1, <5>1
          <6> QED
            BY <1>8, <1>9, <3>1, <5>1, <6>1
        <5>2. CASE k # 1
          <6>1. ~(i - 1 <= last) /\ i - 1 <= last + n /\ (i - 1) - last = k - 1
            BY <1>3, <3>3, <4>1, <5>2
          <6> QED
            BY <1>9, <3>1, <6>1
        <5> QED
          BY <5>1, <5>2
      <4> QED
        BY <1>8, <4>1, <4>2, <4>3
    <3>4. CASE i > last + n
      <4>1. w[i] = 0 /\ g[i] = f[n] /\ f[n] \in Nat
        BY <1>3, <1>6, <1>8, <1>9, <3>1, <3>4
      <4>2. g[i - 1] = f[n]
        <5>1. CASE i - 1 = last + n
          <6>1. n = 0 => f[n] = 0
            BY <1>8
          <6>2. n # 0 => ~(i - 1 <= last) /\ (i - 1) - last = n
            BY <1>3, <5>1
          <6>3. n = 0 => i - 1 <= last
            BY <1>3, <5>1
          <6> QED
            BY <1>3, <1>9, <3>1, <5>1, <6>1, <6>2, <6>3
        <5>2. CASE i - 1 # last + n
          <6>1. ~(i - 1 <= last + n) /\ ~(i - 1 <= last)
            BY <1>3, <3>4, <5>2
          <6> QED
            BY <1>9, <3>1, <6>1
        <5> QED
          BY <5>1, <5>2
      <4> QED
        BY <4>1, <4>2
    <3> QED
      BY <1>3, <3>2, <3>3, <3>4
  <2> QED
    BY <2>2, <2>3 DEF SumsOf
<1>11. \A i \in 1..Items : w[i] \in Nat
  <2>1. ASSUME NEW i \in 1..Items, i \in (last + 1)..(last + n) PROVE i - last \in 1..n
    BY <1>3, <2>1
  <2> QED
    BY <1>4, <1>6, <2>1
<1>12. Sum(w, Items) = g[Items]
  BY <1>3, <1>10, <1>11, SumBy
<1>13. g[Items] = f[n]
  <2>1. CASE Items <= last
    <3>1. n = 0
      BY <1>1, <1>3, <2>1
    <3> QED
      BY <1>3, <1>8, <1>9, <2>1, <3>1
  <2>2. CASE Items > last /\ Items = last + n
    <3>1. ~(Items <= last) /\ Items - last = n /\ Items \in 0..Items
      BY <1>3, <2>2
    <3> QED
      BY <1>9, <2>2, <3>1
  <2>3. CASE Items > last + n
    <3>1. ~(Items <= last) /\ ~(Items <= last + n) /\ Items \in 0..Items
      BY <1>3, <2>3
    <3> QED
      BY <1>9, <3>1
  <2> QED
    BY <1>1, <1>3, <2>1, <2>2, <2>3
<1> QED
  BY <1>2, <1>3, <1>7, <1>12, <1>13

\* What is planned for a day fits, whatever is inserted or moved.
LEMMA FitKept ==
  ASSUME LearnInv, LearnNext
  PROVE  SerialPlanFits'
<1>1. SerialPlanFits /\ PlansReady /\ req \in [Request -> RequestState] /\ Items \in Nat
  BY LearningAssumption DEF LearnInv, TypeOK
<1>2. ASSUME UNCHANGED item, \A d \in Day : doubled[d] => doubled'[d],
             \A d \in Day : granted'[d] = granted[d]
      PROVE  SerialPlanFits'
  <2>1. \A d \in Day : Sum(Weight(d), Items)' = Sum(Weight(d), Items)
    BY <1>2 DEF Weight, MadeFor, On, Ids, Sum
  <2> QED
    BY <1>1, <1>2, <2>1 DEF SerialPlanFits
<1>3. CASE Quiet
  <2>1. granted' = granted /\ \A d \in Day : doubled[d] => doubled'[d]
    BY <1>3, QuietHistories
  <2> QED
    BY <1>2, <1>3, <2>1 DEF Quiet
<1>4. ASSUME NEW r \in Request, NEW x, StepOf(r, x) PROVE SerialPlanFits'
  <2>1. /\ \A d \in Day : doubled[d] => doubled'[d]
        /\ \A d \in Day :
             granted'[d] = IF item' # item /\ req[r].pc = "insert" /\ x.pc = "none" /\ req[r].day = d
                             THEN req[r].granted ELSE granted[d]
    <3>1. \A d \in Day : doubled[d] => doubled'[d]
      BY <1>4, StepHistories, Zenon
    <3>2. \A d \in Day :
             granted'[d] = IF item' # item /\ req[r].pc = "insert" /\ x.pc = "none" /\ req[r].day = d
                             THEN req[r].granted ELSE granted[d]
      BY <1>4, GrantedNext
    <3> QED
      BY <3>1, <3>2, Zenon
  <2>2. req'[r] = x
    BY <1>1, <1>4 DEF StepOf
  <2>3. CASE UNCHANGED item
    BY <1>2, <2>1, <2>3
  <2>4. CASE Plan(r, x) /\ item' # item
    <3>1. ASSUME NEW d \in Day, ~doubled'[d], d # req[r].day
          PROVE  Sum(Weight(d)', Items) <= granted'[d]
      <4>1. MadeFor(d)' = MadeFor(d) /\ \A i \in MadeFor(d) : item'[i].source = item[i].source
        BY <2>4, <3>1, PlanMade
      <4>2. Weight(d)' = Weight(d)
        BY <4>1 DEF Weight
      <4>3. granted'[d] = granted[d] /\ Sum(Weight(d), Items) <= granted[d]
        BY <1>1, <2>1, <3>1 DEF SerialPlanFits
      <4> QED
        BY <4>2, <4>3
    <3>2. ASSUME NEW d \in Day, ~doubled'[d], d = req[r].day
          PROVE  Sum(Weight(d)', Items) <= granted'[d]
      <4>1. MadeFor(d) = {}
        BY <1>1, <2>1, <2>4, <3>2 DEF PlansReady, Plan
      <4>2. Sum(Weight(d)', Items) = Sum(Lengths(req[r].chosen), Len(req[r].chosen))
        BY <2>2, <2>4, <3>2, <4>1, InsertedSum
      <4>3. Sum(Lengths(req[r].chosen), Len(req[r].chosen)) <= req[r].granted
        BY <1>1, <2>4 DEF PlansReady, Plan
      <4>4. granted'[d] = req[r].granted
        BY <2>1, <2>4, <3>2 DEF Plan
      <4> QED
        BY <4>2, <4>3, <4>4
    <3> QED
      BY <3>1, <3>2 DEF SerialPlanFits
  <2>5. CASE Change(r, x)
    <3>1. ASSUME NEW d \in Day, ~doubled'[d] PROVE Sum(Weight(d)', Items) <= granted'[d]
      <4>1. MadeFor(d)' \subseteq MadeFor(d) /\ \A i \in MadeFor(d)' : item'[i].source = item[i].source
        BY <2>5, ChangeMade
      <4>2. PICK v, w : v = Weight(d)' /\ w = Weight(d)
        OBVIOUS
      <4>3. \A i \in 1..Items : v[i] \in Nat /\ w[i] \in Nat /\ v[i] <= w[i]
        <5>1. ASSUME NEW i \in 1..Items
              PROVE  /\ v[i] = IF i \in MadeFor(d)' THEN Minutes(item'[i].source) ELSE 0
                     /\ w[i] = IF i \in MadeFor(d) THEN Minutes(item[i].source) ELSE 0
          BY <4>2 DEF Weight
        <5> QED
          BY <4>1, <5>1, MinutesTyped
      <4>4. Sum(v, Items) <= Sum(w, Items) /\ Sum(v, Items) \in Nat /\ Sum(w, Items) \in Nat
        BY <1>1, <4>3, SumMonotone
      <4>5. granted'[d] = granted[d] /\ granted[d] \in Nat
        BY <2>1, <2>5 DEF Change, LearnInv
      <4>6. Sum(w, Items) <= granted[d]
        BY <1>1, <2>1, <3>1, <4>2 DEF SerialPlanFits
      <4> QED
        BY <4>2, <4>4, <4>5, <4>6
    <3> QED
      BY <3>1 DEF SerialPlanFits
  <2> QED
    BY <1>4, <2>3, <2>4, <2>5 DEF StepOf, Began, Looked, Refused, Flushed, Answer, Review
<1> QED
  BY <1>3, <1>4, StepCases

\* Nothing has been planned at first.
LEMMA LearnStarts == LearnInit => LearnInv
<1> SUFFICES ASSUME LearnInit PROVE LearnInv
  OBVIOUS
<1>1. /\ 0 \in Time /\ 0 \in Nat /\ Items \in Nat /\ MaxNow \in Nat
      /\ NoMistake \in MistakeRow /\ NoMistake.count = 0
  BY LearningAssumption DEF Time, NoMistake, MistakeRow
<1>2. TypeOK /\ (\A r \in Request : req[r] = Idle) /\ (\A i \in 1..Items : item[i] = None)
  <2>1. CASE Init
    <3>1. /\ now \in Time /\ exam \in ExamRow
          /\ attempt \in [Question -> AttemptRow \cup {None}]
          /\ locked \in [Question -> Request \cup {None}]
      BY <1>1, <2>1 DEF Init, ExamRow
    <3>2. mistake \in [Question -> MistakeRow] /\ focused \in [Day -> Nat]
      BY <1>1, <2>1 DEF Init
    <3>3. item \in [1..Items -> ItemRow \cup {None}] /\ req \in [Request -> RequestState]
      BY <2>1, IdleTyped DEF Init
    <3> QED
      BY <2>1, <3>1, <3>2, <3>3 DEF Init, TypeOK
  <2>2. CASE Learned
    <3>1. now \in Time /\ exam \in ExamRow
      BY <1>1, <2>2 DEF Learned, ExamRow
    <3>2. [at |-> 0, right |-> FALSE] \in AttemptRow
      BY <1>1 DEF AttemptRow
    <3>3. attempt \in [Question -> AttemptRow \cup {None}]
      BY <2>2, <3>2 DEF Learned
    <3>4. ASSUME NEW n \in {0, 1} PROVE [NoMistake EXCEPT !.count = 1, !.due = n] \in MistakeRow
      <4>1. 1 \in Nat /\ n \in Nat
        BY <3>4
      <4>2. PICK x \in MistakeRow : x = NoMistake
        BY <1>1
      <4>3. [x EXCEPT !.count = 1, !.due = n] \in MistakeRow
        BY <4>1, <4>2 DEF MistakeRow
      <4> QED
        BY <4>2, <4>3
    <3>5. PICK due \in {0, 1} :
            mistake = [q \in Question |-> [NoMistake EXCEPT !.count = 1, !.due = IF q = 2 THEN due ELSE 0]]
      BY <2>2 DEF Learned
    <3>6. ASSUME NEW q \in Question PROVE (IF q = 2 THEN due ELSE 0) \in {0, 1}
      BY <3>5
    <3>7. mistake \in [Question -> MistakeRow]
      BY <3>4, <3>5, <3>6
    <3>8. /\ locked \in [Question -> Request \cup {None}] /\ focused \in [Day -> Nat]
          /\ item \in [1..Items -> ItemRow \cup {None}] /\ req \in [Request -> RequestState]
      BY <2>2, IdleTyped DEF Learned
    <3> QED
      BY <2>2, <3>1, <3>3, <3>7, <3>8 DEF Learned, TypeOK
  <2> QED
    BY <2>1, <2>2 DEF LearnInit
<1>3. /\ wrong \in [Question -> Nat] /\ MistakesExact
  <2>1. \A q \in Question : mistake[q].count \in Nat
    BY <1>2 DEF TypeOK, MistakeRow
  <2> QED
    BY <2>1 DEF LearnInit, MistakesExact
<1>4. /\ unseen \in [Question -> BOOLEAN] /\ crossed \in [Question -> BOOLEAN]
      /\ doubled \in [Day -> BOOLEAN] /\ granted \in [Day -> Nat] /\ SerialReviewsCount
  BY DEF LearnInit, SerialReviewsCount
<1>5. RequestsPlaced /\ OneWriter /\ PlansReady
  BY <1>2, IdleTyped DEF RequestsPlaced, OneWriter, PlansReady
<1>6. Ids = {}
  BY <1>2 DEF Ids
<1>7. ItemsInOrder
  <2>1. 0 \in 0..Items /\ 1..0 = {}
    BY <1>1
  <2> QED
    BY <1>6, <2>1 DEF ItemsInOrder
<1>8. SerialPlanFits
  <2>1. ASSUME NEW d \in Day PROVE Sum(Weight(d), Items) <= granted[d]
    <3>1. PICK w : w = Weight(d)
      OBVIOUS
    <3>2. \A i \in 1..Items : w[i] = 0
      BY <1>6, <3>1 DEF Weight, MadeFor, On
    <3>3. PICK f : f = [i \in 0..Items |-> 0]
      OBVIOUS
    <3>4. SumsOf(f, w, Items)
      <4>1. \A i \in 1..Items : i \in 0..Items /\ i - 1 \in 0..Items
        BY <1>1
      <4> QED
        BY <1>1, <3>2, <3>3, <4>1 DEF SumsOf
    <3>5. Sum(w, Items) = f[Items]
      BY <1>1, <3>2, <3>4, SumBy
    <3> QED
      BY <1>1, <3>1, <3>3, <3>5 DEF LearnInit
  <2> QED
    BY <2>1 DEF SerialPlanFits
<1> QED
  BY <1>2, <1>3, <1>4, <1>5, <1>7, <1>8 DEF LearnInv

\* A step that changes nothing keeps it.
LEMMA LearnStutters == LearnInv /\ UNCHANGED <<vars, history>> => LearnInv'
<1> SUFFICES ASSUME LearnInv, UNCHANGED <<vars, history>> PROVE LearnInv'
  OBVIOUS
<1> USE DEF history, vars
<1>1. TypeOK'
  BY DEF LearnInv, TypeOK
<1>2. RequestsPlaced' /\ OneWriter' /\ MistakesExact' /\ SerialReviewsCount'
  BY DEF LearnInv, RequestsPlaced, OneWriter, MistakesExact, SerialReviewsCount, Ids
<1>3. ItemsInOrder' /\ \A d : MadeFor(d)' = MadeFor(d)
  BY DEF LearnInv, ItemsInOrder, MadeFor, On, Ids
<1>4. PlansReady'
  BY <1>3 DEF LearnInv, PlansReady
<1>5. SerialPlanFits'
  <2>1. \A d \in Day : Weight(d)' = Weight(d)
    BY <1>3 DEF Weight
  <2> QED
    BY <2>1 DEF LearnInv, SerialPlanFits
<1> QED
  BY <1>1, <1>2, <1>3, <1>4, <1>5 DEF LearnInv

\* The invariant holds of every behaviour.
LEMMA SpecLearnInv == LearnSpec => []LearnInv
<1>1. LearnInv /\ LearnNext => LearnInv'
  BY TypeKept, PlacedKept, OneWriterKept, MistakesKept, ReviewsKept, ItemsKept, PlansKept,
     FitKept DEF LearnInv, Types
<1> QED
  BY <1>1, LearnStarts, LearnStutters, PTL DEF LearnSpec

\* The runs check behaviours of it.
LEMMA RunsLearn == MCSpec => LearnSpec
<1>1. MCInit => LearnInit
  BY DEF MCInit
<1>2. ASSUME Changes PROVE Next
  <2>1. CASE scene = "answers" /\ EditExam("published", 0, 0)
    <3>1. 0 \in Time
      BY LearningAssumption DEF Time
    <3> QED
      BY <2>1, <3>1 DEF Next, Administer
  <2> QED
    BY <1>2, <2>1 DEF Changes, Next, Administer
<1>3. [MCNext]_<<vars, history, scene, begun, edits, rounds>> => [LearnNext]_<<vars, history>>
  BY <1>2 DEF MCNext, LearnNext
<1> QED
  BY <1>1, <1>3, PTL DEF MCSpec, LearnSpec

\* The mistake of a question counts exactly the wrong answers that were committed,
\* whatever submissions and reviews overlap: a flushed attempt holds its row until the
\* commit, so the count that is written was read after the one before it.
THEOREM SpecMistakesExact == LearnSpec => []MistakesExact
<1>1. LearnInv => MistakesExact
  BY DEF LearnInv
<1> QED
  BY <1>1, SpecLearnInv, PTL

\* A wrong answer makes its question new and due again, and so it stays until it is
\* reviewed, unless a review had read the mistake before the answer was committed.
THEOREM SpecSerialReviewsCount == LearnSpec => []SerialReviewsCount
<1>1. LearnInv => SerialReviewsCount
  BY DEF LearnInv
<1> QED
  BY <1>1, SpecLearnInv, PTL

\* The items a daily plan made and that are still on their day take no more minutes
\* than the budget, the goals and the timer had left of the day, unless two plans of the
\* day were made at the same time.
THEOREM SpecSerialPlanFits == LearnSpec => []SerialPlanFits
<1>1. LearnInv => SerialPlanFits
  BY DEF LearnInv
<1> QED
  BY <1>1, SpecLearnInv, PTL
=============================================================================
