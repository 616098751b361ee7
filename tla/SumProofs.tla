------------------------------ MODULE SumProofs ------------------------------
(***************************************************************************)
(* What sums are: those of PrefixSum, for every n and every function on    *)
(* 1..n, and those over a finite set, for every set and function.          *)
(***************************************************************************)
EXTENDS PrefixSum, Functions, FiniteSets, TLAPS, FiniteSetTheorems, WellFoundedInduction

\* A nonempty set of naturals has a least element: the proofs below are by a
\* least counterexample.
LEMMA LeastElement ==
  ASSUME NEW T \in SUBSET Nat, T # {}
  PROVE  \E m \in T : \A k \in T : m <= k
<1> DEFINE R == {ss \in Nat \X Nat : ss[1] < ss[2]}
<1>1. IsWellFoundedOn(R, Nat)
  BY NatLessThanWellFounded DEF OpToRel
<1> HIDE DEF R
<1>2. PICK m \in T : \A k \in T : ~ (<<k, m>> \in R)
  BY <1>1, WFMin, Zenon
<1>3. \A k \in T : ~ (k < m)
  BY <1>2 DEF R
<1> QED BY <1>3

\* The recursive definition of a table of prefix sums has a solution.
LEMMA PrefixSumExists ==
  ASSUME NEW n \in Nat, NEW f \in [1..n -> Int]
  PROVE  \E s : IsPrefixSum(s, f, n)
<1> DEFINE Bad == {m \in 0..n : ~ \E s : IsPrefixSum(s, f, m)}
<1> SUFFICES ASSUME ~ \E s : IsPrefixSum(s, f, n) PROVE FALSE
  OBVIOUS
<1>1. n \in Bad  OBVIOUS
<1>2. PICK m \in Bad : \A k \in Bad : m <= k
  <2>1. Bad \in SUBSET Nat  OBVIOUS
  <2> HIDE DEF Bad
  <2> QED BY <2>1, <1>1, LeastElement
<1>3. CASE m = 0
  <2>1. IsPrefixSum([i \in 0..0 |-> 0], f, 0)  BY DEF IsPrefixSum
  <2> QED BY <2>1, <1>3
<1>4. CASE m # 0
  <2>1. m - 1 \in 0..n /\ m - 1 \notin Bad  BY <1>2, <1>4
  <2>2. PICK s : IsPrefixSum(s, f, m - 1)  BY <2>1
  <2> DEFINE t == [i \in 0..m |-> IF i = m THEN s[m - 1] + f[m] ELSE s[i]]
  <2>3. m \in 1..n  BY <1>4
  <2>4. t \in [0..m -> Int]  BY <2>2, <2>3 DEF IsPrefixSum
  <2>5. t[0] = 0  BY <2>2, <2>3 DEF IsPrefixSum
  <2>6. ASSUME NEW i \in 1..m PROVE t[i] = t[i - 1] + f[i]
    <3>1. i - 1 \in 0..m /\ i - 1 # m /\ i \in 0..m  BY <2>3
    <3>2. t[i - 1] = s[i - 1]  BY <3>1
    <3>3. CASE i = m  BY <3>1, <3>2, <3>3
    <3>4. CASE i # m
      <4>1. i \in 1..(m - 1)  BY <2>3, <3>4
      <4> QED BY <4>1, <3>1, <3>2, <3>4, <2>2 DEF IsPrefixSum
    <3> QED BY <3>3, <3>4
  <2>7. IsPrefixSum(t, f, m)  BY <2>4, <2>5, <2>6 DEF IsPrefixSum
  <2> QED BY <2>7
<1> QED BY <1>3, <1>4

\* PrefixSum is that table: it satisfies its recursive definition.
LEMMA PrefixSumUnfold ==
  ASSUME NEW n \in Nat, NEW f \in [1..n -> Int]
  PROVE  IsPrefixSum(PrefixSum(f, n), f, n)
<1> DEFINE g(h) == [i \in 0..n |-> IF i = 0 THEN 0 ELSE h[i - 1] + f[i]]
<1>1. PICK s : IsPrefixSum(s, f, n)  BY PrefixSumExists
<1>2. s = g(s)  BY <1>1 DEF IsPrefixSum
<1>3. PrefixSum(f, n) = CHOOSE h : h = g(h)  BY DEF PrefixSum
<1> DEFINE p == CHOOSE h : h = g(h)
<1>4. p = g(p)
  <2>1. \E h : h = g(h) BY <1>2
  <2> HIDE DEF g
  <2> QED BY <2>1
<1> HIDE DEF p
<1>5. DOMAIN p = 0..n /\ p[0] = 0 /\ \A i \in 1..n : p[i] = p[i - 1] + f[i]
  BY <1>4
<1>6. \A i \in 0..n : p[i] = s[i]
  <2> DEFINE Bad == {i \in 0..n : p[i] # s[i]}
  <2>1. SUFFICES ASSUME Bad # {} PROVE FALSE
    BY <2>1
  <2>2. PICK m \in Bad : \A k \in Bad : m <= k
    <3>1. Bad \in SUBSET Nat  OBVIOUS
    <3> HIDE DEF Bad
    <3> QED BY <3>1, <2>1, LeastElement
  <2>3. m # 0  BY <1>5, <1>1 DEF IsPrefixSum
  <2>4. m - 1 \in 0..n /\ m - 1 \notin Bad /\ m \in 1..n BY <2>2, <2>3
  <2>5. p[m - 1] = s[m - 1] BY <2>4
  <2> QED BY <2>4, <2>5, <1>5, <1>1 DEF IsPrefixSum
<1>7. p = s
  BY <1>4, <1>6, <1>1 DEF IsPrefixSum
<1> QED BY <1>1, <1>3, <1>7 DEF p

\* Changing the value of one key changes the total by the difference: a step of
\* a handler changes what the vault holds for one request only.
LEMMA TotalUpdate ==
  ASSUME NEW n \in Nat, NEW f \in [1..n -> Int], NEW k \in 1..n, NEW v \in Int
  PROVE  Total([f EXCEPT ![k] = v], n) = Total(f, n) - f[k] + v
<1> DEFINE g == [f EXCEPT ![k] = v]
<1> DEFINE s == PrefixSum(f, n)
<1> DEFINE t == PrefixSum(g, n)
<1>1. g \in [1..n -> Int] /\ g[k] = v /\ \A i \in 1..n : i # k => g[i] = f[i]
  OBVIOUS
<1>2. IsPrefixSum(s, f, n)  BY PrefixSumUnfold
<1>3. IsPrefixSum(t, g, n)  BY <1>1, PrefixSumUnfold
<1> HIDE DEF g, s, t
<1> DEFINE d(i) == IF i < k THEN 0 ELSE v - f[k]
<1> DEFINE Bad == {i \in 0..n : t[i] # s[i] + d(i)}
<1>4. Bad = {}
  <2> SUFFICES ASSUME Bad # {} PROVE FALSE  OBVIOUS
  <2>1. PICK m \in Bad : \A i \in Bad : m <= i
    <3>1. Bad \in SUBSET Nat  OBVIOUS
    <3> HIDE DEF Bad
    <3> QED BY <3>1, LeastElement
  <2>2. m # 0  BY <1>2, <1>3 DEF IsPrefixSum
  <2>3. m \in 1..n /\ m - 1 \in 0..n /\ m - 1 \notin Bad  BY <2>1, <2>2
  <2>4. t[m - 1] = s[m - 1] + d(m - 1)  BY <2>3
  <2>5. t[m] = t[m - 1] + g[m] /\ s[m] = s[m - 1] + f[m]
    BY <1>2, <1>3, <2>3 DEF IsPrefixSum
  <2>6. s[m - 1] \in Int /\ t[m - 1] \in Int /\ f[m] \in Int /\ f[k] \in Int
    BY <1>2, <1>3, <2>3 DEF IsPrefixSum
  <2>7. CASE m < k  BY <2>4, <2>5, <2>6, <2>7, <2>3, <1>1
  <2>8. CASE m = k  BY <2>4, <2>5, <2>6, <2>8, <2>3, <1>1
  <2>9. CASE m > k
    <3>1. g[m] = f[m]  BY <2>3, <2>9, <1>1
    <3>2. d(m - 1) = v - f[k] /\ d(m) = v - f[k]  BY <2>3, <2>9
    <3>3. t[m] = s[m] + d(m)  BY <3>1, <3>2, <2>4, <2>5, <2>6
    <3> QED BY <3>3, <2>1
  <2> QED BY <2>7, <2>8, <2>9, <2>3
<1>5. t[n] = s[n] + d(n)  BY <1>4
<1>6. s[n] \in Int /\ f[k] \in Int  BY <1>2 DEF IsPrefixSum
<1>7. t[n] = s[n] - f[k] + v  BY <1>5, <1>6
<1> QED BY <1>7 DEF Total, g, s, t

\* A total of naturals is a natural, and no less than each of its terms: a vault
\* that covers all its requests can pay each of them.
LEMMA TotalBounds ==
  ASSUME NEW n \in Nat, NEW f \in [1..n -> Nat]
  PROVE  /\ Total(f, n) \in Nat
         /\ \A k \in 1..n : f[k] <= Total(f, n)
<1> DEFINE s == PrefixSum(f, n)
<1>1. f \in [1..n -> Int]  OBVIOUS
<1>2. IsPrefixSum(s, f, n)  BY <1>1, PrefixSumUnfold
<1> HIDE DEF s
<1> DEFINE Bad == {i \in 0..n : ~ (s[i] >= 0 /\ \A k \in 1..i : f[k] <= s[i])}
<1>3. Bad = {}
  <2> SUFFICES ASSUME Bad # {} PROVE FALSE  OBVIOUS
  <2>1. PICK m \in Bad : \A i \in Bad : m <= i
    <3>1. Bad \in SUBSET Nat  OBVIOUS
    <3> HIDE DEF Bad
    <3> QED BY <3>1, LeastElement
  <2>2. m # 0  BY <1>2, <2>1 DEF IsPrefixSum
  <2>3. m \in 1..n /\ m - 1 \in 0..n /\ m - 1 \notin Bad  BY <2>1, <2>2
  <2>4. s[m - 1] >= 0 /\ \A k \in 1..(m - 1) : f[k] <= s[m - 1]  BY <2>3
  <2>5. s[m] = s[m - 1] + f[m] /\ s[m - 1] \in Int /\ f[m] \in Nat
    BY <1>2, <2>3 DEF IsPrefixSum
  <2>6. s[m] >= 0  BY <2>4, <2>5
  <2>7. \A k \in 1..m : f[k] <= s[m]
    <3> TAKE k \in 1..m
    <3>1. f[k] \in Nat  BY <2>3
    <3>2. CASE k = m  BY <3>1, <3>2, <2>4, <2>5
    <3>3. CASE k # m
      <4>1. k \in 1..(m - 1)  BY <3>3, <2>3
      <4> QED BY <4>1, <3>1, <2>4, <2>5
    <3> QED BY <3>2, <3>3
  <2> QED BY <2>6, <2>7
<1>4. s[n] >= 0 /\ \A k \in 1..n : f[k] <= s[n]  BY <1>3
<1>5. s[n] \in Int  BY <1>2 DEF IsPrefixSum
<1> QED BY <1>4, <1>5 DEF Total, s

\* A function that is 0 everywhere has total 0: an empty vault owes nothing.
LEMMA TotalZero ==
  ASSUME NEW n \in Nat, NEW f \in [1..n -> Nat], \A i \in 1..n : f[i] = 0
  PROVE  Total(f, n) = 0
<1> DEFINE s == PrefixSum(f, n)
<1>1. f \in [1..n -> Int]  OBVIOUS
<1>2. IsPrefixSum(s, f, n)  BY <1>1, PrefixSumUnfold
<1> HIDE DEF s
<1> DEFINE Bad == {i \in 0..n : s[i] # 0}
<1>3. Bad = {}
  <2> SUFFICES ASSUME Bad # {} PROVE FALSE  OBVIOUS
  <2>1. PICK m \in Bad : \A i \in Bad : m <= i
    <3>1. Bad \in SUBSET Nat  OBVIOUS
    <3> HIDE DEF Bad
    <3> QED BY <3>1, LeastElement
  <2>2. m # 0  BY <1>2, <2>1 DEF IsPrefixSum
  <2>3. m \in 1..n /\ m - 1 \in 0..n /\ m - 1 \notin Bad  BY <2>1, <2>2
  <2>4. s[m] = s[m - 1] + f[m] /\ s[m - 1] = 0 /\ f[m] = 0
    BY <1>2, <2>3 DEF IsPrefixSum
  <2> QED BY <2>1, <2>4
<1>4. s[n] = 0  BY <1>3
<1> QED BY <1>4 DEF Total, s
-----------------------------------------------------------------------------
(* Sums over a finite set: SumFunctionOnSet of the community modules.        *)

\* What a table of the sums of f over the subsets of S is, without recursion.
First(T) == CHOOSE x \in T : TRUE
Unfolds(s, f, S) ==
  /\ s = [T \in SUBSET S |-> s[T]]
  /\ \A T \in SUBSET S : s[T] = IF T = {} THEN 0 ELSE f[First(T)] + s[T \ {First(T)}]
IsSetSum(s, f, S) == s \in [SUBSET S -> Int] /\ Unfolds(s, f, S)

\* A nonempty set of subsets of a finite set has a least one: there is a least
\* counterexample.
LEMMA MinimalSet ==
  ASSUME NEW S, IsFiniteSet(S), NEW B \in SUBSET (SUBSET S), B # {}
  PROVE  \E T \in B : \A U \in B : U \subseteq T => U = T
<1> DEFINE R == StrictSubsetOrdering(S)
<1>1. IsWellFoundedOn(R, SUBSET S)
  BY FS_StrictSubsetOrderingWellFounded, FS_FiniteSubsetsOfFinite, Zenon
<1> HIDE DEF R
<1>2. PICK T \in B : \A U \in B : ~ (<<U, T>> \in R)
  BY <1>1, WFMin, Zenon
<1>3. \A U \in B : U \subseteq T => U = T
  BY <1>2 DEF R, StrictSubsetOrdering
<1> QED BY <1>3

LEMMA FirstIn == \A T : T # {} => First(T) \in T
BY DEF First

\* The table exists.
LEMMA SetSumExists ==
  ASSUME NEW S, IsFiniteSet(S), NEW f, \A x \in S : f[x] \in Int
  PROVE  \E s : IsSetSum(s, f, S)
<1> DEFINE Level(n) == {T \in SUBSET S : Cardinality(T) <= n}
           IsTable(s, n) ==
             /\ s \in [Level(n) -> Int]
             /\ \A T \in Level(n) :
                  s[T] = IF T = {} THEN 0 ELSE f[First(T)] + s[T \ {First(T)}]
           N == Cardinality(S)
           Bad == {n \in 0..N : ~ \E s : IsTable(s, n)}
<1>1. N \in Nat  BY FS_CardinalityType
<1>2. \A T \in SUBSET S : IsFiniteSet(T) /\ Cardinality(T) \in 0..N
  BY <1>1, FS_Subset, FS_CardinalityType
<1>3. \A T \in SUBSET S : T # {} =>
        T \ {First(T)} \in SUBSET S /\ Cardinality(T \ {First(T)}) = Cardinality(T) - 1
  BY <1>2, FirstIn, FS_RemoveElement
<1>4. Bad = {}
  <2> SUFFICES ASSUME Bad # {} PROVE FALSE  OBVIOUS
  <2>1. PICK m \in Bad : \A i \in Bad : m <= i
    <3>1. Bad \in SUBSET Nat  OBVIOUS
    <3> HIDE DEF Bad
    <3> QED BY <3>1, LeastElement
  <2>2. CASE m = 0
    <3> DEFINE s == [T \in Level(0) |-> 0]
    <3>1. \A T \in Level(0) : T = {}  BY <1>2, FS_EmptySet
    <3>2. IsTable(s, 0)  BY <3>1
    <3> QED BY <2>2, <3>2
  <2>3. CASE m # 0
    <3>1. m - 1 \in 0..N /\ m - 1 \notin Bad
      <4> HIDE DEF IsTable, N
      <4>1. m \in 0..N  OBVIOUS
      <4> HIDE DEF Bad
      <4> QED BY <4>1, <1>1, <2>1, <2>3
    <3>2. PICK s : IsTable(s, m - 1)  BY <3>1
    <3> DEFINE t == [T \in Level(m) |-> IF T = {} THEN 0
                                        ELSE f[First(T)] + s[T \ {First(T)}]]
    <3>3. \A T \in Level(m) : T # {} =>
            T \ {First(T)} \in Level(m - 1) /\ First(T) \in S
      BY <1>2, <1>3, <3>1, FirstIn
    <3>4. t \in [Level(m) -> Int]  BY <3>2, <3>3
    <3>5. \A T \in Level(m - 1) : T \in Level(m) /\ t[T] = s[T]
      BY <1>2, <3>1, <3>2
    <3>6. ASSUME NEW T \in Level(m)
          PROVE  t[T] = IF T = {} THEN 0 ELSE f[First(T)] + t[T \ {First(T)}]
      BY <3>3, <3>5
    <3>7. IsTable(t, m)  BY <3>4, <3>6
    <3> QED BY <3>7
  <2> QED BY <2>2, <2>3
<1>5. PICK s : IsTable(s, N)
  <2> HIDE DEF IsTable, N
  <2> QED BY <1>1, <1>4
<1>6. Level(N) = SUBSET S  BY <1>2
<1>7. IsSetSum(s, f, S)  BY <1>5, <1>6 DEF IsSetSum, Unfolds
<1> QED BY <1>7

\* There is one table only.
LEMMA SetSumUnique ==
  ASSUME NEW S, IsFiniteSet(S), NEW f, \A x \in S : f[x] \in Int,
         NEW s, IsSetSum(s, f, S), NEW p, Unfolds(p, f, S)
  PROVE  p = s
<1> DEFINE Bad == {T \in SUBSET S : p[T] # s[T]}
<1>1. Bad = {}
  <2> SUFFICES ASSUME Bad # {} PROVE FALSE  OBVIOUS
  <2>1. PICK T \in Bad : \A U \in Bad : U \subseteq T => U = T
    <3>1. Bad \in SUBSET (SUBSET S)  OBVIOUS
    <3> HIDE DEF Bad
    <3> QED BY <3>1, MinimalSet
  <2>2. T # {}  BY <2>1 DEF IsSetSum, Unfolds
  <2>3. T \ {First(T)} \in SUBSET S /\ T \ {First(T)} # T  BY <2>2, FirstIn
  <2>4. p[T \ {First(T)}] = s[T \ {First(T)}]  BY <2>1, <2>3
  <2> QED BY <2>1, <2>2, <2>4 DEF IsSetSum, Unfolds
<1>2. s = [T \in SUBSET S |-> s[T]] /\ p = [T \in SUBSET S |-> p[T]]
  BY DEF IsSetSum, Unfolds
<1>3. \A T \in SUBSET S : p[T] = s[T]  BY <1>1
<1> QED BY <1>2, <1>3

\* SumFunctionOnSet is that table's value.
LEMMA SetSumIsTable ==
  ASSUME NEW S, IsFiniteSet(S), NEW f, \A x \in S : f[x] \in Int,
         NEW s, IsSetSum(s, f, S)
  PROVE  SumFunctionOnSet(f, S) = s[S]
<1> DEFINE g(h) == [T \in SUBSET S |-> IF T = {} THEN 0 ELSE f[First(T)] + h[T \ {First(T)}]]
           p == CHOOSE h : h = g(h)
<1>1. s = g(s)  BY DEF IsSetSum, Unfolds
<1>2. SumFunctionOnSet(f, S) = p[S]
  BY DEF SumFunctionOnSet, FoldFunctionOnSet, MapThenFoldSet, First
<1>3. p = g(p)
  <2>1. \E h : h = g(h)  BY <1>1
  <2> HIDE DEF g
  <2> QED BY <2>1
<1> HIDE DEF p
<1>4. Unfolds(p, f, S)  BY <1>3 DEF Unfolds
<1>5. p = s  BY <1>4, SetSumUnique
<1> QED BY <1>2, <1>5
\* A sum takes any element first.
LEMMA SumUnfold ==
  ASSUME NEW S, IsFiniteSet(S), NEW f, \A x \in S : f[x] \in Int
  PROVE  /\ SumFunctionOnSet(f, S) \in Int
         /\ S = {} => SumFunctionOnSet(f, S) = 0
         /\ \A x \in S : SumFunctionOnSet(f, S) = f[x] + SumFunctionOnSet(f, S \ {x})
<1>1. PICK s : IsSetSum(s, f, S)  BY SetSumExists
<1>2. \A T \in SUBSET S : SumFunctionOnSet(f, T) = s[T]
  <2> TAKE T \in SUBSET S
  <2> DEFINE r == [U \in SUBSET T |-> s[U]]
  <2>1. IsFiniteSet(T) /\ \A x \in T : f[x] \in Int  BY FS_Subset
  <2>2. \A U \in SUBSET T : U # {} => First(U) \in T /\ U \ {First(U)} \in SUBSET T
    BY FirstIn
  <2>3. IsSetSum(r, f, T)  BY <1>1, <2>2 DEF IsSetSum, Unfolds
  <2> HIDE DEF r
  <2>4. SumFunctionOnSet(f, T) = r[T]  BY <2>1, <2>3, SetSumIsTable
  <2> QED BY <2>4 DEF r
<1> DEFINE Bad == {T \in SUBSET S : \E x \in T : s[T] # f[x] + s[T \ {x}]}
<1>3. Bad = {}
  <2> SUFFICES ASSUME Bad # {} PROVE FALSE  OBVIOUS
  <2>1. PICK T \in Bad : \A U \in Bad : U \subseteq T => U = T
    <3>1. Bad \in SUBSET (SUBSET S)  OBVIOUS
    <3> HIDE DEF Bad
    <3> QED BY <3>1, MinimalSet
  <2>2. PICK x \in T : s[T] # f[x] + s[T \ {x}]  OBVIOUS
  <2> DEFINE y == First(T)
  <2>3. y \in T /\ T \in SUBSET S  BY <2>2, FirstIn
  <2>4. s[T] = f[y] + s[T \ {y}]  BY <1>1, <2>2 DEF IsSetSum, Unfolds
  <2>5. x # y  BY <2>2, <2>4
  <2> HIDE DEF y
  <2>6. /\ T \ {y} \in SUBSET S /\ T \ {y} # T /\ x \in T \ {y}
        /\ T \ {x} \in SUBSET S /\ T \ {x} # T /\ y \in T \ {x}
    BY <2>2, <2>3, <2>5
  <2>7. T \ {y} \notin Bad /\ T \ {x} \notin Bad
    <3> HIDE DEF Bad
    <3> QED BY <2>1, <2>6
  <2>8. /\ s[T \ {y}] = f[x] + s[(T \ {y}) \ {x}]
        /\ s[T \ {x}] = f[y] + s[(T \ {x}) \ {y}]
    BY <2>6, <2>7
  <2>9. (T \ {y}) \ {x} = (T \ {x}) \ {y} /\ (T \ {x}) \ {y} \in SUBSET S
    BY <2>6
  <2>10. f[x] \in Int /\ f[y] \in Int /\ s[(T \ {x}) \ {y}] \in Int
    BY <1>1, <2>6, <2>9 DEF IsSetSum
  <2> DEFINE rest == s[(T \ {x}) \ {y}]
  <2>11. s[T \ {y}] = f[x] + rest /\ s[T \ {x}] = f[y] + rest /\ rest \in Int
    BY <2>8, <2>9, <2>10
  <2> HIDE DEF rest, Bad
  <2> QED BY <2>2, <2>4, <2>10, <2>11
<1>4. S \in SUBSET S /\ s[S] \in Int /\ (S = {} => s[S] = 0)
  BY <1>1 DEF IsSetSum, Unfolds
<1>5. \A x \in S : s[S] = f[x] + s[S \ {x}]  BY <1>3, <1>4
<1> QED BY <1>2, <1>4, <1>5

\* A sum depends on the values at its elements only.
LEMMA SumAgree ==
  ASSUME NEW S, IsFiniteSet(S), NEW f, \A x \in S : f[x] \in Int,
         NEW g, \A x \in S : g[x] = f[x]
  PROVE  SumFunctionOnSet(g, S) = SumFunctionOnSet(f, S)
<1> DEFINE Bad == {T \in SUBSET S : SumFunctionOnSet(g, T) # SumFunctionOnSet(f, T)}
<1>1. Bad = {}
  <2> SUFFICES ASSUME Bad # {} PROVE FALSE  OBVIOUS
  <2>1. PICK T \in Bad : \A U \in Bad : U \subseteq T => U = T
    <3>1. Bad \in SUBSET (SUBSET S)  OBVIOUS
    <3> HIDE DEF Bad
    <3> QED BY <3>1, MinimalSet
  <2>2. T \in SUBSET S /\ IsFiniteSet(T) /\ \A x \in T : f[x] \in Int /\ g[x] \in Int
    BY FS_Subset
  <2>3. /\ T = {} => SumFunctionOnSet(f, T) = 0 /\ SumFunctionOnSet(g, T) = 0
        /\ \A x \in T : /\ SumFunctionOnSet(f, T) = f[x] + SumFunctionOnSet(f, T \ {x})
                        /\ SumFunctionOnSet(g, T) = g[x] + SumFunctionOnSet(g, T \ {x})
    BY <2>2, SumUnfold
  <2>4. PICK x \in T : TRUE  BY <2>3
  <2>5. T \ {x} \in SUBSET S /\ T \ {x} # T  BY <2>2, <2>4
  <2>6. T \ {x} \notin Bad
    <3> HIDE DEF Bad
    <3> QED BY <2>1, <2>5
  <2> QED BY <2>2, <2>3, <2>4, <2>5, <2>6
<1> QED BY <1>1

\* Changing the value at one element changes the sum by the difference.
LEMMA SumChange ==
  ASSUME NEW S, IsFiniteSet(S), NEW f, \A x \in S : f[x] \in Int,
         NEW k \in S, NEW g, g[k] \in Int, \A x \in S \ {k} : g[x] = f[x]
  PROVE  SumFunctionOnSet(g, S) = SumFunctionOnSet(f, S) - f[k] + g[k]
<1>1. \A x \in S : g[x] \in Int  OBVIOUS
<1>2. IsFiniteSet(S \ {k})  BY FS_RemoveElement
<1>3. SumFunctionOnSet(g, S \ {k}) = SumFunctionOnSet(f, S \ {k})
  BY <1>2, SumAgree
<1>4. SumFunctionOnSet(f, S \ {k}) \in Int  BY <1>2, SumUnfold
<1>5. SumFunctionOnSet(f, S) = f[k] + SumFunctionOnSet(f, S \ {k})  BY SumUnfold
<1>6. SumFunctionOnSet(g, S) = g[k] + SumFunctionOnSet(g, S \ {k})  BY <1>1, SumUnfold
<1> QED BY <1>3, <1>4, <1>5, <1>6

\* A sum of naturals is a natural, no less than each of its terms.
LEMMA SumBounds ==
  ASSUME NEW S, IsFiniteSet(S), NEW f, \A x \in S : f[x] \in Nat
  PROVE  /\ SumFunctionOnSet(f, S) \in Nat
         /\ \A x \in S : f[x] <= SumFunctionOnSet(f, S)
<1> DEFINE Bad == {T \in SUBSET S : SumFunctionOnSet(f, T) \notin Nat}
<1>1. Bad = {}
  <2> SUFFICES ASSUME Bad # {} PROVE FALSE  OBVIOUS
  <2>1. PICK T \in Bad : \A U \in Bad : U \subseteq T => U = T
    <3>1. Bad \in SUBSET (SUBSET S)  OBVIOUS
    <3> HIDE DEF Bad
    <3> QED BY <3>1, MinimalSet
  <2>2. T \in SUBSET S /\ IsFiniteSet(T) /\ \A x \in T : f[x] \in Int
    BY FS_Subset
  <2>3. /\ T = {} => SumFunctionOnSet(f, T) = 0
        /\ \A x \in T : SumFunctionOnSet(f, T) = f[x] + SumFunctionOnSet(f, T \ {x})
    BY <2>2, SumUnfold
  <2>4. PICK x \in T : TRUE  BY <2>3
  <2>5. T \ {x} \in SUBSET S /\ T \ {x} # T  BY <2>2, <2>4
  <2>6. T \ {x} \notin Bad
    <3> HIDE DEF Bad
    <3> QED BY <2>1, <2>5
  <2> QED BY <2>2, <2>3, <2>4, <2>5, <2>6
<1>2. SumFunctionOnSet(f, S) \in Nat  BY <1>1
<1>3. ASSUME NEW x \in S  PROVE f[x] <= SumFunctionOnSet(f, S)
  <2>1. SumFunctionOnSet(f, S \ {x}) \in Nat  BY <1>1
  <2>2. SumFunctionOnSet(f, S) = f[x] + SumFunctionOnSet(f, S \ {x})  BY SumUnfold
  <2> QED BY <2>1, <2>2
<1> QED BY <1>2, <1>3

\* A sum of zeros is 0.
LEMMA SumZero ==
  ASSUME NEW S, IsFiniteSet(S), NEW f, \A x \in S : f[x] = 0
  PROVE  SumFunctionOnSet(f, S) = 0
<1> DEFINE Bad == {T \in SUBSET S : SumFunctionOnSet(f, T) # 0}
<1>1. Bad = {}
  <2> SUFFICES ASSUME Bad # {} PROVE FALSE  OBVIOUS
  <2>1. PICK T \in Bad : \A U \in Bad : U \subseteq T => U = T
    <3>1. Bad \in SUBSET (SUBSET S)  OBVIOUS
    <3> HIDE DEF Bad
    <3> QED BY <3>1, MinimalSet
  <2>2. T \in SUBSET S /\ IsFiniteSet(T) /\ \A x \in T : f[x] \in Int
    BY FS_Subset
  <2>3. /\ T = {} => SumFunctionOnSet(f, T) = 0
        /\ \A x \in T : SumFunctionOnSet(f, T) = f[x] + SumFunctionOnSet(f, T \ {x})
    BY <2>2, SumUnfold
  <2>4. PICK x \in T : TRUE  BY <2>3
  <2>5. T \ {x} \in SUBSET S /\ T \ {x} # T  BY <2>2, <2>4
  <2>6. T \ {x} \notin Bad
    <3> HIDE DEF Bad
    <3> QED BY <2>1, <2>5
  <2> QED BY <2>2, <2>3, <2>4, <2>5, <2>6
<1> QED BY <1>1
=============================================================================
