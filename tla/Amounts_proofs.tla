--------------------------- MODULE Amounts_proofs ---------------------------
(***************************************************************************)
(* What holds of amounts of money for all values: sums over sets of rows,  *)
(* which the proofs about payments and customers rest on, and the totals   *)
(* of an estimate or an invoice.                                           *)
(***************************************************************************)
EXTENDS DocumentTotals, FiniteSets, Functions, FiniteSetTheorems, TLAPS

(***************************************************************************)
(* Sums.  SumFunctionOnSet adds up f[x] over a finite set in an order that *)
(* CHOOSE fixes.  The library's induction theorems take the predicate as a *)
(* parameter; Smallest is the same induction stated with a set, the        *)
(* counterexamples: among those there would be a smallest one.             *)
(***************************************************************************)
AnElement(s) == CHOOSE x \in s : TRUE

\* The recursive function that SumFunctionOnSet applies, on the subsets of S.
IsPartialSums(it, f, S) ==
    it = [s \in SUBSET S |-> IF s = {} THEN 0 ELSE f[AnElement(s)] + it[s \ {AnElement(s)}]]

LEMMA Smallest ==
  ASSUME NEW S, IsFiniteSet(S), NEW B \in SUBSET SUBSET S, B # {}
  PROVE  \E s \in B : \A t \in B : t \subseteq s => t = s
<1>1. PICK s \in B : \A t \in B : ~ (<<t, s>> \in StrictSubsetOrdering(S))
  <2>1. IsWellFoundedOn(StrictSubsetOrdering(S), SUBSET S)
    BY FS_StrictSubsetOrderingWellFounded, FS_FiniteSubsetsOfFinite
  <2> QED
    BY <2>1, WFMin
<1> QED
  BY <1>1 DEF StrictSubsetOrdering

LEMMA SumIsPartialSum ==
  ASSUME NEW f, NEW S
  PROVE  SumFunctionOnSet(f, S) = (CHOOSE it : IsPartialSums(it, f, S))[S]
  BY DEF SumFunctionOnSet, FoldFunctionOnSet, MapThenFoldSet, IsPartialSums, AnElement

LEMMA AnElementIsIn == ASSUME NEW s, s # {} PROVE AnElement(s) \in s
  BY DEF AnElement

\* Two such functions agree on what both are defined for.
LEMMA PartialSumsAgree ==
  ASSUME NEW f, NEW S, NEW T, IsFiniteSet(S),
         NEW a, NEW b, IsPartialSums(a, f, S), IsPartialSums(b, f, T), NEW u \in SUBSET (S \cap T)
  PROVE  a[u] = b[u]
<1> DEFINE B == {s \in SUBSET (S \cap T) : a[s] # b[s]}
<1> SUFFICES ASSUME B # {} PROVE FALSE
  OBVIOUS
<1>1. B \in SUBSET SUBSET S
  OBVIOUS
<1>2. PICK s \in B : \A t \in B : t \subseteq s => t = s
  <2> HIDE DEF B
  <2> QED
    BY <1>1, Smallest
<1>3. CASE s = {}
  BY <1>3 DEF IsPartialSums
<1>4. CASE s # {}
  <2> DEFINE t == s \ {AnElement(s)}
  <2>1. t \in SUBSET (S \cap T) /\ t # s /\ t \subseteq s
    BY <1>4, AnElementIsIn
  <2>2. a[t] = b[t]
    BY <2>1, <1>2
  <2>3. a[s] = f[AnElement(s)] + a[t] /\ b[s] = f[AnElement(s)] + b[t]
    BY <1>4 DEF IsPartialSums
  <2> QED
    BY <2>2, <2>3
<1> QED
  BY <1>3, <1>4

\* The recursion has a solution: on a smallest set without one, the solutions
\* for its proper subsets could be put together.
LEMMA PartialSumsExist ==
  ASSUME NEW f, NEW S, IsFiniteSet(S)
  PROVE  \E it : IsPartialSums(it, f, S)
<1> DEFINE B == {s \in SUBSET S : ~ \E it : IsPartialSums(it, f, s)}
<1> SUFFICES ASSUME B # {} PROVE FALSE
  OBVIOUS
<1>1. B \in SUBSET SUBSET S
  OBVIOUS
<1>2. PICK s \in B : \A t \in B : t \subseteq s => t = s
  <2> HIDE DEF B
  <2> QED
    BY <1>1, Smallest
<1>3. s \subseteq S /\ ~ \E it : IsPartialSums(it, f, s)
  OBVIOUS
<1> DEFINE it(t) == CHOOSE k : IsPartialSums(k, f, t)
           h(t)  == it(t)[t]
           v(t)  == IF t = {} THEN 0 ELSE f[AnElement(t)] + h(t \ {AnElement(t)})
           g     == [t \in SUBSET s |-> v(t)]
<1>4. \A t \in SUBSET s : t # s => IsPartialSums(it(t), f, t)
  <2> SUFFICES ASSUME NEW t \in SUBSET s, t # s PROVE \E k : IsPartialSums(k, f, t)
    OBVIOUS
  <2> QED
    BY <1>2, <1>3
<1>5. \A t \in SUBSET s : t # s => h(t) = v(t)
  <2> SUFFICES ASSUME NEW t \in SUBSET s, t # s PROVE h(t) = v(t)
    OBVIOUS
  <2>1. IsPartialSums(it(t), f, t)
    BY <1>4
  <2>2. CASE t = {}
    <3> HIDE DEF it
    <3> QED
      BY <2>1, <2>2 DEF IsPartialSums
  <2>3. CASE t # {}
    <3> DEFINE u == t \ {AnElement(t)}
    <3>1. u \in SUBSET s /\ u # s /\ u \in SUBSET (t \cap u)
      BY <2>3, AnElementIsIn
    <3>2. IsPartialSums(it(u), f, u)
      BY <3>1, <1>4
    <3>3. IsFiniteSet(t)
      BY FS_Subset, <1>3
    <3>4. it(t)[u] = it(u)[u]
      <4> HIDE DEF it, u
      <4> QED
        BY <2>1, <3>1, <3>2, <3>3, PartialSumsAgree
    <3>5. it(t)[t] = f[AnElement(t)] + it(t)[u]
      <4> HIDE DEF it
      <4> QED
        BY <2>1, <2>3 DEF IsPartialSums
    <3> QED
      BY <2>3, <3>4, <3>5
  <2> QED
    BY <2>2, <2>3
<1>6. IsPartialSums(g, f, s)
  <2> SUFFICES ASSUME NEW t \in SUBSET s, t # {}
               PROVE  h(t \ {AnElement(t)}) = g[t \ {AnElement(t)}]
    <3> HIDE DEF h
    <3> QED
      BY DEF IsPartialSums
  <2>1. t \ {AnElement(t)} \in SUBSET s /\ t \ {AnElement(t)} # s
    BY AnElementIsIn
  <2> HIDE DEF h, v
  <2> QED
    BY <2>1, <1>5
<1> QED
  BY <1>3, <1>6

LEMMA SumEmpty == ASSUME NEW f PROVE SumFunctionOnSet(f, {}) = 0
<1> DEFINE it == CHOOSE k : IsPartialSums(k, f, {})
<1>1. IsPartialSums(it, f, {})
  BY PartialSumsExist, FS_EmptySet
<1>2. it[{}] = 0
  <2> HIDE DEF it
  <2> QED
    BY <1>1 DEF IsPartialSums
<1> QED
  BY <1>2, SumIsPartialSum

LEMMA SumOfPicked ==
  ASSUME NEW f, NEW S, IsFiniteSet(S), S # {}
  PROVE  SumFunctionOnSet(f, S) = f[AnElement(S)] + SumFunctionOnSet(f, S \ {AnElement(S)})
<1> DEFINE it(s) == CHOOSE k : IsPartialSums(k, f, s)
           u     == S \ {AnElement(S)}
<1>1. IsFiniteSet(u)
  BY FS_Subset
<1>2. IsPartialSums(it(S), f, S) /\ IsPartialSums(it(u), f, u)
  BY <1>1, PartialSumsExist
<1>3. it(S)[u] = it(u)[u]
  <2>1. u \in SUBSET (S \cap u)
    OBVIOUS
  <2> HIDE DEF it, u
  <2> QED
    BY <2>1, <1>2, PartialSumsAgree
<1>4. it(S)[S] = f[AnElement(S)] + it(S)[u]
  <2> HIDE DEF it
  <2> QED
    BY <1>2 DEF IsPartialSums
<1>5. SumFunctionOnSet(f, S) = it(S)[S] /\ SumFunctionOnSet(f, u) = it(u)[u]
  BY SumIsPartialSum
<1> QED
  BY <1>3, <1>4, <1>5

LEMMA SumIsInt ==
  ASSUME NEW S, IsFiniteSet(S), NEW f, \A x \in S : f[x] \in Int
  PROVE  SumFunctionOnSet(f, S) \in Int
<1> DEFINE B == {s \in SUBSET S : SumFunctionOnSet(f, s) \notin Int}
<1> SUFFICES ASSUME B # {} PROVE FALSE
  OBVIOUS
<1>1. B \in SUBSET SUBSET S
  OBVIOUS
<1>2. PICK s \in B : \A t \in B : t \subseteq s => t = s
  <2> HIDE DEF B
  <2> QED
    BY <1>1, Smallest
<1>3. CASE s = {}
  BY <1>3, SumEmpty
<1>4. CASE s # {}
  <2>1. AnElement(s) \in s
    BY <1>4, AnElementIsIn
  <2>2. SumFunctionOnSet(f, s \ {AnElement(s)}) \in Int
    BY <2>1, <1>2
  <2> QED
    BY <2>1, <2>2, <1>4, SumOfPicked, FS_Subset
<1> QED
  BY <1>3, <1>4

LEMMA SumIsNat ==
  ASSUME NEW S, IsFiniteSet(S), NEW f, \A x \in S : f[x] \in Nat
  PROVE  SumFunctionOnSet(f, S) \in Nat
<1> DEFINE B == {s \in SUBSET S : SumFunctionOnSet(f, s) \notin Nat}
<1> SUFFICES ASSUME B # {} PROVE FALSE
  OBVIOUS
<1>1. B \in SUBSET SUBSET S
  OBVIOUS
<1>2. PICK s \in B : \A t \in B : t \subseteq s => t = s
  <2> HIDE DEF B
  <2> QED
    BY <1>1, Smallest
<1>3. CASE s = {}
  BY <1>3, SumEmpty
<1>4. CASE s # {}
  <2>1. AnElement(s) \in s
    BY <1>4, AnElementIsIn
  <2>2. SumFunctionOnSet(f, s \ {AnElement(s)}) \in Nat
    BY <2>1, <1>2
  <2> QED
    BY <2>1, <2>2, <1>4, SumOfPicked, FS_Subset
<1> QED
  BY <1>3, <1>4

\* Any element may be taken out, not only the one that CHOOSE takes.
LEMMA SumWithout ==
  ASSUME NEW S, IsFiniteSet(S), NEW f, \A x \in S : f[x] \in Int, NEW x \in S
  PROVE  SumFunctionOnSet(f, S) = f[x] + SumFunctionOnSet(f, S \ {x})
<1> DEFINE Sum(s) == SumFunctionOnSet(f, s)
           B == {s \in SUBSET S : \E y \in s : Sum(s) # f[y] + Sum(s \ {y})}
<1> SUFFICES ASSUME B # {} PROVE FALSE
  OBVIOUS
<1>1. B \in SUBSET SUBSET S
  OBVIOUS
<1>2. PICK s \in B : \A t \in B : t \subseteq s => t = s
  <2> HIDE DEF B
  <2> QED
    BY <1>1, Smallest
<1>3. PICK y \in s : Sum(s) # f[y] + Sum(s \ {y})
  OBVIOUS
<1>4. IsFiniteSet(s) /\ s # {} /\ \A t \in SUBSET s : IsFiniteSet(t)
  BY FS_Subset
<1> DEFINE c == AnElement(s)
           R == (s \ {y}) \ {c}
<1>5. c \in s /\ Sum(s) = f[c] + Sum(s \ {c})
  BY <1>4, AnElementIsIn, SumOfPicked
<1> HIDE DEF c
<1>6. y # c
  BY <1>3, <1>5
<1>7. Sum(s \ {c}) = f[y] + Sum(R)
  <2>1. s \ {c} # s /\ s \ {c} \subseteq s /\ s \ {c} \notin B
    BY <1>5, <1>2
  <2>2. R = (s \ {c}) \ {y}
    OBVIOUS
  <2> QED
    BY <2>1, <2>2, <1>6
<1>8. Sum(s \ {y}) = f[c] + Sum(R)
  <2>1. s \ {y} # s /\ s \ {y} \subseteq s /\ s \ {y} \notin B
    BY <1>3, <1>2
  <2> QED
    BY <2>1, <1>6, <1>5
<1>9. f[y] \in Int /\ f[c] \in Int /\ Sum(R) \in Int
  BY <1>3, <1>4, <1>5, SumIsInt
<1>10. Sum(s) = f[c] + (f[y] + Sum(R)) /\ f[y] + Sum(s \ {y}) = f[y] + (f[c] + Sum(R))
  BY <1>5, <1>7, <1>8
<1>11. \A i, j, k \in Int : i + (j + k) = j + (i + k)
  OBVIOUS
<1> QED
  BY <1>3, <1>9, <1>10, <1>11

LEMMA SumOfSame ==
  ASSUME NEW S, IsFiniteSet(S), NEW f, NEW g, \A x \in S : f[x] = g[x]
  PROVE  SumFunctionOnSet(f, S) = SumFunctionOnSet(g, S)
<1> DEFINE B == {s \in SUBSET S : SumFunctionOnSet(f, s) # SumFunctionOnSet(g, s)}
<1> SUFFICES ASSUME B # {} PROVE FALSE
  OBVIOUS
<1>1. B \in SUBSET SUBSET S
  OBVIOUS
<1>2. PICK s \in B : \A t \in B : t \subseteq s => t = s
  <2> HIDE DEF B
  <2> QED
    BY <1>1, Smallest
<1>3. CASE s = {}
  BY <1>3, SumEmpty
<1>4. CASE s # {}
  <2>1. AnElement(s) \in s
    BY <1>4, AnElementIsIn
  <2>2. SumFunctionOnSet(f, s \ {AnElement(s)}) = SumFunctionOnSet(g, s \ {AnElement(s)})
    BY <2>1, <1>2
  <2> QED
    BY <2>1, <2>2, <1>4, SumOfPicked, FS_Subset
<1> QED
  BY <1>3, <1>4

\* What x contributes to a sum over the set S.
Part(f, S, x) == IF x \in S THEN f[x] ELSE 0

\* When nothing but the contribution of x changes, the sum changes by that.
LEMMA SumMoves ==
  ASSUME NEW S, NEW T, IsFiniteSet(S), IsFiniteSet(T), NEW f, NEW g, NEW x,
         \A y \in S : f[y] \in Int, \A y \in T : g[y] \in Int,
         S \ {x} = T \ {x}, \A y \in S \ {x} : f[y] = g[y]
  PROVE  SumFunctionOnSet(g, T) = SumFunctionOnSet(f, S) - Part(f, S, x) + Part(g, T, x)
<1> DEFINE F == SumFunctionOnSet(f, S \ {x})
           G == SumFunctionOnSet(g, T \ {x})
<1>1. IsFiniteSet(S \ {x})
  BY FS_Subset
<1>2. F = G
  BY <1>1, SumOfSame
<1>3. F \in Int
  BY <1>1, SumIsInt
<1>4. SumFunctionOnSet(f, S) = F + Part(f, S, x) /\ Part(f, S, x) \in Int
  <2>1. CASE x \in S
    <3>1. SumFunctionOnSet(f, S) = f[x] + F /\ f[x] \in Int
      BY <2>1, SumWithout
    <3> QED
      BY <2>1, <3>1, <1>3 DEF Part
  <2>2. CASE x \notin S
    <3>1. S \ {x} = S
      BY <2>2
    <3>2. SumFunctionOnSet(f, S) = F
      BY <3>1
    <3> HIDE DEF F
    <3> QED
      BY <2>2, <3>2, <1>3 DEF Part
  <2> QED
    BY <2>1, <2>2
<1>5. SumFunctionOnSet(g, T) = G + Part(g, T, x) /\ Part(g, T, x) \in Int
  <2>1. CASE x \in T
    <3>1. SumFunctionOnSet(g, T) = g[x] + G /\ g[x] \in Int
      BY <2>1, SumWithout
    <3> QED
      BY <2>1, <3>1, <1>2, <1>3 DEF Part
  <2>2. CASE x \notin T
    <3>1. T \ {x} = T
      BY <2>2
    <3>2. SumFunctionOnSet(g, T) = G
      BY <3>1
    <3> HIDE DEF F, G
    <3> QED
      BY <2>2, <3>2, <1>2, <1>3 DEF Part
  <2> QED
    BY <2>1, <2>2
<1> HIDE DEF F, G
<1> QED
  BY <1>2, <1>3, <1>4, <1>5

\* No element contributes more than the sum, if none is negative.
LEMMA SumBounds ==
  ASSUME NEW S, IsFiniteSet(S), NEW f, \A y \in S : f[y] \in Nat, NEW x
  PROVE  Part(f, S, x) \in Nat /\ Part(f, S, x) <= SumFunctionOnSet(f, S)
<1>1. SumFunctionOnSet(f, S) \in Nat
  BY SumIsNat
<1>2. CASE x \in S
  <2>1. SumFunctionOnSet(f, S) = f[x] + SumFunctionOnSet(f, S \ {x})
    BY <1>2, SumWithout
  <2>2. SumFunctionOnSet(f, S \ {x}) \in Nat
    BY SumIsNat, FS_Subset
  <2> QED
    BY <2>1, <2>2, <1>2 DEF Part
<1>3. CASE x \notin S
  BY <1>1, <1>3 DEF Part
<1> QED
  BY <1>2, <1>3

-----------------------------------------------------------------------------
(***************************************************************************)
(* The money arithmetic of documents, for every subtotal, discount and tax *)
(* rate.                                                                   *)
(***************************************************************************)
LEMMA Division ==
    ASSUME NEW n \in Nat, NEW d \in Nat, d > 0
    PROVE  /\ n \div d \in Nat
           /\ d * (n \div d) <= n
           /\ n < d * (n \div d) + d
  OBVIOUS

LEMMA DivisionUnique ==
    ASSUME NEW n \in Nat, NEW d \in Nat, d > 0, NEW q \in Int, d * q <= n, n < d * q + d
    PROVE  n \div d = q
  BY Division

\* A rounded quotient lies within half a unit of the quotient.
LEMMA RoundBounds ==
    ASSUME NEW n \in Nat, NEW d \in Nat, d > 0
    PROVE  /\ Round(n, d) \in Nat
           /\ 2 * (d * Round(n, d)) <= 2 * n + d
           /\ 2 * n < 2 * (d * Round(n, d)) + d
  <1> DEFINE q == Round(n, d)
  <1>1. q = (2 * n + d) \div (2 * d)
    BY DEF Round
  <1>2. /\ q \in Nat
        /\ (2 * d) * q <= 2 * n + d
        /\ 2 * n + d < (2 * d) * q + 2 * d
    BY <1>1, Division
  <1>3. (2 * d) * q = 2 * (d * q)
    BY <1>2
  <1> QED
    BY <1>2, <1>3

\* The only whole number within half a unit below and above is the rounding.
LEMMA RoundUnique ==
    ASSUME NEW n \in Nat, NEW d \in Nat, d > 0, NEW q \in Nat,
           2 * (d * q) <= 2 * n + d, 2 * n < 2 * (d * q) + d
    PROVE  Round(n, d) = q
  <1>1. (2 * d) * q = 2 * (d * q)
    OBVIOUS
  <1>2. (2 * n + d) \div (2 * d) = q
    BY <1>1, DivisionUnique
  <1> QED
    BY <1>2 DEF Round

LEMMA RoundOfWhole ==
    ASSUME NEW n \in Nat, NEW d \in Nat, d > 0
    PROVE  Round(n * d, d) = n
  <1>1. n * d \in Nat /\ n * d = d * n
    OBVIOUS
  <1> QED
    BY <1>1, RoundUnique

LEMMA RoundMonotone ==
    ASSUME NEW m \in Nat, NEW n \in Nat, NEW d \in Nat, d > 0, m <= n
    PROVE  Round(m, d) <= Round(n, d)
  <1> DEFINE p == Round(m, d)
             q == Round(n, d)
  <1>1. p \in Nat /\ q \in Nat
    BY RoundBounds
  <1>2. 2 * (d * p) <= 2 * m + d /\ 2 * n < 2 * (d * q) + d
    BY RoundBounds
  <1>3. SUFFICES ASSUME p >= q + 1 PROVE FALSE
    BY <1>1
  <1>4. d * p >= d * q + d
    BY <1>1, <1>3
  <1> QED
    BY <1>1, <1>2, <1>4

LEMMA WholeType == Whole \in Nat /\ Whole > 0 /\ Whole * Whole \in Nat /\ Whole * Whole > 0
  BY DEF Whole

LEMMA DiscountBounds ==
    ASSUME NEW s \in Nat, NEW type \in DiscountTypes, NEW v \in Nat
    PROVE  ExactDiscount(s, type, v) \in 0 .. s * Whole
  <1>1. s * Whole \in Nat /\ s * v \in Nat /\ v * Whole \in Nat
    BY WholeType
  <1>2. AtMost(s * Whole, s * v) \in 0 .. s * Whole
    BY <1>1 DEF AtMost
  <1>3. AtMost(s * Whole, v * Whole) \in 0 .. s * Whole
    BY <1>1 DEF AtMost
  <1>4. 0 \in 0 .. s * Whole
    BY <1>1
  <1>5. CASE type = "none"
    BY <1>4, <1>5 DEF ExactDiscount
  <1>6. CASE type = "percentage"
    BY <1>2, <1>6 DEF ExactDiscount
  <1>7. CASE type = "fixed"
    BY <1>3, <1>7 DEF ExactDiscount
  <1> QED
    BY <1>5, <1>6, <1>7 DEF DiscountTypes

-----------------------------------------------------------------------------
\* "A total must never go negative" (estimate-totals.util.spec.ts): whatever
\* is typed, the discount takes at most the subtotal, the total is not
\* negative, and it differs from subtotal - discount + tax, each as shown on
\* the document, by one cent at most, though the four are rounded apart.
THEOREM TotalsAreSound ==
    ASSUME NEW s \in Nat, NEW type \in DiscountTypes, NEW v \in Nat, NEW r \in Nat
    PROVE  LET t == computeDocumentTotals(s, type, v, r)
           IN  /\ t.discount \in 0 .. s
               /\ t.tax \in Nat
               /\ t.total \in Nat
               /\ t.total - (s - t.discount + t.tax) \in -1 .. 1
  <1> DEFINE W   == Whole
             K   == W * W
             x   == ExactDiscount(s, type, v)
             y   == s * W - x
             z   == y * r
             yW  == y * W
             d   == Round(x, W)
             tax == Round(z, K)
             tot == Round(yW + z, K)
  <1>0. W \in Nat /\ W > 0 /\ K \in Nat /\ K > 0
    BY WholeType
  <1>1. x \in Nat /\ x <= s * W
    BY <1>0, DiscountBounds
  <1>9. /\ computeDocumentTotals(s, type, v, r).discount = d
        /\ computeDocumentTotals(s, type, v, r).tax = tax
        /\ computeDocumentTotals(s, type, v, r).total = tot
    BY DEF computeDocumentTotals, Tax, Total
  <1> HIDE DEF x, W
  <1>2. y \in Nat
    BY <1>0, <1>1
  <1>3. z \in Nat /\ yW \in Nat
    <2> HIDE DEF y
    <2> QED
      BY <1>0, <1>2
  <1>4. yW = s * K - x * W
    BY <1>0, <1>1
  <1> HIDE DEF y, z, yW, K
  <1>5. d \in Nat /\ 2 * (W * d) <= 2 * x + W /\ 2 * x < 2 * (W * d) + W
    BY <1>0, <1>1, RoundBounds
  <1>6. tax \in Nat /\ 2 * (K * tax) <= 2 * z + K /\ 2 * z < 2 * (K * tax) + K
    BY <1>0, <1>3, RoundBounds
  <1>7. tot \in Nat /\ 2 * (K * tot) <= 2 * (yW + z) + K /\ 2 * (yW + z) < 2 * (K * tot) + K
    <2>1. yW + z \in Nat
      BY <1>3
    <2> QED
      BY <2>1, <1>0, RoundBounds
  <1>8. d <= s
    <2>1. Round(x, W) <= Round(s * W, W)
      BY <1>0, <1>1, RoundMonotone
    <2> QED
      BY <2>1, <1>0, RoundOfWhole
  <1> HIDE DEF d, tax, tot
  <1>10. 2 * (K * d) <= 2 * (x * W) + K /\ 2 * (x * W) <= 2 * (K * d) + K
    <2> DEFINE a == W * d
    <2>1. a \in Nat /\ 2 * a <= 2 * x + W /\ 2 * x <= 2 * a + W
      BY <1>0, <1>1, <1>5
    <2>2. K * d = a * W
      BY <1>0, <1>5 DEF K
    <2> HIDE DEF a
    <2>3. (2 * a) * W <= (2 * x + W) * W /\ (2 * x) * W <= (2 * a + W) * W
      BY <2>1, <1>0, <1>1
    <2>4. /\ (2 * a) * W = 2 * (a * W)
          /\ (2 * x) * W = 2 * (x * W)
          /\ (2 * x + W) * W = 2 * (x * W) + W * W
          /\ (2 * a + W) * W = 2 * (a * W) + W * W
      BY <2>1, <1>0, <1>1
    <2> QED
      BY <2>2, <2>3, <2>4 DEF K
  <1>11. tot - (s - d + tax) \in -1 .. 1
    <2> DEFINE e == tot - (s - d + tax)
    <2>1. e \in Int
      BY <1>5, <1>6, <1>7
    <2>2. K * e = K * tot - s * K + K * d - K * tax
      BY <1>0, <1>5, <1>6, <1>7
    <2>3. x * W \in Nat /\ s * K \in Nat /\ K * d \in Nat /\ K * tax \in Nat /\ K * tot \in Nat
      BY <1>0, <1>1, <1>5, <1>6, <1>7
    <2> HIDE DEF e
    <2>4. 2 * (K * e) < 3 * K + K /\ 2 * (K * e) > - (3 * K) - K
      BY <2>2, <2>3, <1>0, <1>3, <1>4, <1>6, <1>7, <1>10
    <2>5. K * e < 2 * K /\ K * e > - (2 * K)
      BY <2>4, <2>1, <1>0
    <2>6. e < 2 /\ e > -2
      <3>1. SUFFICES ASSUME e >= 2 \/ e <= -2 PROVE FALSE
        BY <2>1
      <3>2. CASE e >= 2
        BY <3>2, <2>1, <2>5, <1>0
      <3>3. CASE e <= -2
        BY <3>3, <2>1, <2>5, <1>0
      <3> QED
        BY <3>1, <3>2, <3>3
    <2> QED
      BY <2>1, <2>6 DEF e
  <1> QED
    BY <1>5, <1>6, <1>7, <1>8, <1>9, <1>11

\* What reconstructing a percentage does to the discount it was stored as:
\* to the cent, nothing.  (From $100 up the percentage itself comes back; below
\* that another may, which rounds to the same amount.)
LEMMA PercentageComesBack ==
    ASSUME NEW s \in Nat, s > 0, NEW v \in Nat, NEW W \in Nat, W > 0
    PROVE  LET d == Round(s * v, W)
               w == Round(d * W, s)
           IN  w \in Nat /\ Round(s * w, W) = d
  <1> DEFINE d == Round(s * v, W)
             w == Round(d * W, s)
             m == s * v
             k == s * w
             p == W * d
  <1>1. m \in Nat
    OBVIOUS
  <1>2. d \in Nat /\ 2 * p <= 2 * m + W /\ 2 * m < 2 * p + W
    BY <1>1, RoundBounds
  <1>3. p \in Nat /\ d * W = p
    BY <1>2
  <1>4. w \in Nat /\ 2 * k <= 2 * p + s /\ 2 * p < 2 * k + s
    BY <1>3, RoundBounds
  <1>5. k \in Nat
    BY <1>4
  <1> HIDE DEF d, w, p, k, m
  <1>6. CASE s < W
    <2>1. 2 * p <= 2 * k + W /\ 2 * k < 2 * p + W
      BY <1>3, <1>4, <1>5, <1>6
    <2>2. Round(k, W) = d
      BY <2>1, <1>2, <1>5, RoundUnique DEF p
    <2> QED
      BY <2>2, <1>4 DEF d, w, k
  <1>7. CASE s >= W
    <2>1. CASE 2 * p < 2 * m + s
      <3>1. 2 * m <= 2 * p + s
        BY <1>1, <1>2, <1>3, <1>7
      <3>2. Round(p, s) = v
        BY <2>1, <3>1, <1>3, RoundUnique DEF m
      <3> QED
        BY <3>2, <1>3 DEF d, w
    \* Exactly half a unit up: only with s = W, where nothing is rounded.
    <2>2. CASE ~ (2 * p < 2 * m + s)
      <3>1. s = W /\ 2 * p = 2 * m + W
        BY <2>2, <1>1, <1>2, <1>3, <1>7
      <3>2. m = v * W
        BY <3>1 DEF m
      <3>3. Round(m, W) = v
        BY <3>2, RoundOfWhole
      <3>4. p = m
        BY <3>2, <3>3 DEF d, p, m
      <3> QED
        BY <3>1, <3>4, <1>1
    <2> QED
      BY <2>1, <2>2
  <1> QED
    BY <1>6, <1>7 DEF d, w

\* "A PATCH that doesn't touch discount/tax must never silently zero out an
\* existing discount" (estimates.service.ts:198): a partial edit of an estimate
\* that leaves its lines alone keeps the discount to the cent, whatever the
\* type, the value typed, the cap and the roundings.
THEOREM EstimateEditKeepsDiscount ==
    ASSUME NEW s \in Nat, NEW type \in DiscountTypes, NEW v \in Nat, NEW r \in Nat
    PROVE  LET doc == computeDocumentTotals(s, type, v, r)
           IN  EstimatePartialEdit(doc, s).discount = doc.discount
  <1> DEFINE doc == computeDocumentTotals(s, type, v, r)
             x   == ExactDiscount(s, type, v)
             w   == reconstructDiscountValue(type, doc)
  <1>1. /\ doc.subtotal = s /\ doc.type = type /\ doc.rate = r
        /\ doc.discount = Round(x, Whole)
    BY DEF computeDocumentTotals
  <1>2. EstimatePartialEdit(doc, s).discount = Round(ExactDiscount(s, type, w), Whole)
    BY <1>1 DEF EstimatePartialEdit, computeDocumentTotals
  <1>3. x \in 0 .. s * Whole /\ s * Whole \in Nat /\ Whole \in Nat /\ Whole > 0
    BY DiscountBounds, WholeType
  <1>4. Round(s * Whole, Whole) = s /\ Round(0, Whole) = 0
    <2>1. 0 * Whole = 0
      BY <1>3
    <2> QED
      BY <1>3, <2>1, RoundOfWhole
  <1>5. doc.discount \in 0 .. s
    BY <1>1, <1>3, <1>4, RoundMonotone, RoundBounds
  <1> SUFFICES EstimatePartialEdit(doc, s).discount = doc.discount
    OBVIOUS
  <1> HIDE DEF doc
  <1>6. CASE type = "none"
    BY <1>1, <1>2, <1>6 DEF ExactDiscount
  <1>7. CASE type = "fixed"
    <2>1. w = doc.discount
      BY <1>7, <1>5 DEF reconstructDiscountValue
    <2>2. w * Whole <= s * Whole /\ w * Whole \in Nat
      BY <2>1, <1>3, <1>5
    <2>3. ExactDiscount(s, type, w) = w * Whole
      BY <1>7, <2>2, <1>3 DEF ExactDiscount, AtMost
    <2>4. Round(w * Whole, Whole) = w
      BY <2>1, <1>3, <1>5, RoundOfWhole
    <2> QED
      BY <2>1, <2>3, <2>4, <1>2
  <1>8. CASE type = "percentage"
    <2>1. CASE doc.discount = 0
      <3>1. w = 0
        BY <2>1, <1>8 DEF reconstructDiscountValue
      <3>2. ExactDiscount(s, type, w) = 0
        <4>1. s * w = 0
          BY <3>1
        <4>2. AtMost(s * Whole, 0) = 0
          BY <1>3 DEF AtMost
        <4> QED
          BY <4>1, <4>2, <1>8 DEF ExactDiscount
      <3> QED
        BY <3>2, <2>1, <1>2, <1>4
    <2>2. CASE doc.discount > 0
      <3>1. s > 0
        BY <2>2, <1>5
      <3>2. w = Round(doc.discount * Whole, s)
        BY <2>2, <3>1, <1>1, <1>8 DEF reconstructDiscountValue
      <3>3. PICK u \in Nat : u <= Whole /\ x = s * u
        <4>1. CASE v <= Whole
          <5>1. s * v <= s * Whole /\ s * v \in Nat
            BY <4>1, <1>3
          <5>2. x = s * v
            BY <5>1, <1>3, <1>8 DEF ExactDiscount, AtMost
          <5> QED
            BY <4>1, <5>2
        <4>2. CASE v > Whole
          <5>1. s * v >= s * Whole /\ s * v \in Nat
            BY <4>2, <1>3
          <5>2. x = s * Whole
            BY <5>1, <1>3, <1>8 DEF ExactDiscount, AtMost
          <5> QED
            BY <5>2, <1>3
        <4> QED
          BY <4>1, <4>2, <1>3
      <3>4. w \in Nat /\ Round(s * w, Whole) = doc.discount
        <4>1. doc.discount = Round(s * u, Whole)
          BY <3>3, <1>1
        <4> HIDE DEF w
        <4> QED
          BY <4>1, <3>1, <3>2, <1>3, PercentageComesBack
      <3>5. CASE s * w < s * Whole
        <4>1. ExactDiscount(s, type, w) = s * w
          BY <3>5, <1>8 DEF ExactDiscount, AtMost
        <4> QED
          BY <4>1, <3>4, <1>2
      \* Reaching the cap again means the whole subtotal was discounted.
      <3>6. CASE ~ (s * w < s * Whole)
        <4>1. ExactDiscount(s, type, w) = s * Whole
          BY <3>6, <1>8 DEF ExactDiscount, AtMost
        <4>2. s <= doc.discount
          <5>1. s * w \in Nat /\ s * Whole <= s * w
            BY <3>4, <3>6, <1>3
          <5> QED
            BY <5>1, <3>4, <1>3, <1>4, RoundMonotone
        <4> QED
          BY <4>1, <4>2, <1>2, <1>4, <1>5
      <3> QED
        BY <3>5, <3>6
    <2> QED
      BY <2>1, <2>2, <1>5
  <1> QED
    BY <1>6, <1>7, <1>8 DEF DiscountTypes

\* The invoice's editor does not keep that promise: from a subtotal of $200 up,
\* a percentage discount short of the whole, once there is any, is another
\* amount after an edit that never named it (invoices.service.ts:209).
THEOREM InvoiceEditChangesDiscount ==
    ASSUME NEW s \in Nat, s >= 2 * Whole, NEW v \in Nat, NEW r \in Nat,
           computeDocumentTotals(s, "percentage", v, r).discount \in 1 .. s - 1
    PROVE  LET doc == computeDocumentTotals(s, "percentage", v, r)
           IN  InvoicePartialEdit(doc).discount > doc.discount
  <1> DEFINE doc == computeDocumentTotals(s, "percentage", v, r)
             d   == doc.discount
             k   == s * d
  <1>1. /\ doc.subtotal = s /\ doc.type = "percentage" /\ doc.rate = r /\ d \in 1 .. s - 1
    BY DEF computeDocumentTotals
  <1>2. InvoicePartialEdit(doc).discount = Round(AtMost(s * Whole, k), Whole)
    BY <1>1 DEF InvoicePartialEdit, computeDocumentTotals, ExactDiscount
  <1> SUFFICES InvoicePartialEdit(doc).discount > d
    OBVIOUS
  <1> HIDE DEF doc, d
  <1>3. /\ Whole \in Nat /\ Whole > 0 /\ d \in Nat /\ Whole * d \in Nat
        /\ k \in Nat /\ s * Whole \in Nat
    BY <1>1, WholeType
  <1>4. k >= 2 * (Whole * d)
    <2>1. s * d >= (2 * Whole) * d
      BY <1>1, <1>3
    <2>2. (2 * Whole) * d = 2 * (Whole * d)
      BY <1>3
    <2> QED
      BY <2>1, <2>2
  <1> HIDE DEF k
  <1>5. CASE s * Whole <= k
    <2>1. AtMost(s * Whole, k) = s * Whole
      BY <1>3, <1>5 DEF AtMost
    <2>2. InvoicePartialEdit(doc).discount = s
      BY <2>1, <1>2, <1>3, RoundOfWhole
    <2> QED
      BY <2>2, <1>1
  <1>6. CASE s * Whole > k
    <2> DEFINE q == Round(k, Whole)
    <2>1. InvoicePartialEdit(doc).discount = q
      BY <1>2, <1>3, <1>6 DEF AtMost
    <2>2. q \in Nat /\ 2 * k < 2 * (Whole * q) + Whole
      BY <1>3, RoundBounds
    <2> HIDE DEF q
    <2>3. q > d
      <3>1. SUFFICES ASSUME q <= d PROVE FALSE
        BY <2>2, <1>3
      <3>2. Whole * q <= Whole * d
        BY <3>1, <2>2, <1>3
      <3>3. Whole * d >= Whole
        BY <1>1, <1>3
      <3>4. Whole * q \in Nat
        BY <2>2, <1>3
      <3> QED
        BY <3>2, <3>3, <3>4, <2>2, <1>3, <1>4
    <2> QED
      BY <2>1, <2>3
  <1> QED
    BY <1>3, <1>5, <1>6
=============================================================================
