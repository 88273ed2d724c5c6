----------------------------- MODULE RecursionTheorems -----------------------------
(***************************************************************************)
(* Induction and recursion without operator parameters, as the other proof *)
(* modules use them: a set of numbers stands for the property proved by    *)
(* induction, a function for the step of a recursion.                      *)
(***************************************************************************)
EXTENDS Lists, FiniteSetTheorems, SequenceTheorems, WellFoundedInduction, TLAPS

(* A nonempty set of numbers has a least one.                              *)
LEMMA LeastNumber ==
    ASSUME NEW T \in SUBSET Nat, T # {}
    PROVE  \E n \in T : \A m \in T : n <= m
<1>1. PICK n \in T : \A m \in T : ~ (<<m, n>> \in OpToRel(<, Nat))
    BY WFMin, NatLessThanWellFounded
<1>2. ASSUME NEW m \in T PROVE n <= m
    <2>1. ~ (m < n)
        BY <1>1, <1>2 DEF OpToRel
    <2> QED
        BY <2>1
<1> QED
    BY <1>2

(* A set that holds zero and with every number its successor holds all.    *)
LEMMA Induction ==
    ASSUME NEW T, 0 \in T, \A n \in Nat : n \in T => n + 1 \in T
    PROVE  \A n \in Nat : n \in T
<1> SUFFICES ASSUME Nat \ T # {} PROVE FALSE
    OBVIOUS
<1>1. PICK n \in Nat \ T : \A m \in Nat \ T : n <= m
    BY LeastNumber
<1>2. n # 0 /\ n - 1 \in Nat
    BY <1>1
<1>3. n - 1 \in T
    BY <1>1, <1>2
<1> QED
    BY <1>1, <1>2, <1>3

(* The steps of a recursion over 1 .. n with values in W, and its solution. *)
Advances(n, W) == [1 .. n -> [W -> W]]
Solves(r, base, n, step) == r[0] = base /\ \A k \in 1 .. n : r[k] = step[k][r[k - 1]]

(* The recursion r[0] = base, r[k] = step[k][r[k - 1]] has a solution.   *)
LEMMA PrimitiveRecursion ==
    ASSUME NEW W, NEW base \in W, NEW n \in Nat, NEW step \in Advances(n, W)
    PROVE  \E r \in [0 .. n -> W] : Solves(r, base, n, step)
<1> USE DEF Advances, Solves
<1> DEFINE Solved(m) == m <= n => \E r \in [0 .. m -> W] :
                r[0] = base /\ \A k \in 1 .. m : r[k] = step[k][r[k - 1]]
           T == {m \in Nat : Solved(m)}
<1>1. 0 \in T
    <2> DEFINE q == [k \in 0 .. 0 |-> base]
    <2>1. q \in [0 .. 0 -> W] /\ q[0] = base
        OBVIOUS
    <2>2. \A k \in 1 .. 0 : q[k] = step[k][q[k - 1]]
        OBVIOUS
    <2> QED
        BY <2>1, <2>2
<1>2. ASSUME NEW m \in Nat, m \in T, m + 1 <= n PROVE Solved(m + 1)
    <2>1. PICK r \in [0 .. m -> W] : r[0] = base /\ \A k \in 1 .. m : r[k] = step[k][r[k - 1]]
        BY <1>2
    <2> DEFINE q == [k \in 0 .. m + 1 |-> IF k = m + 1 THEN step[m + 1][r[m]] ELSE r[k]]
    <2>2. step[m + 1][r[m]] \in W
        BY <1>2
    <2>3. q \in [0 .. m + 1 -> W]
        BY <2>2
    <2>4. q[0] = base
        BY <2>1
    <2>5. ASSUME NEW k \in 1 .. m + 1 PROVE q[k] = step[k][q[k - 1]]
        <3>1. CASE k = m + 1
            BY <3>1
        <3>2. CASE k \in 1 .. m
            BY <2>1, <3>2
        <3> QED
            BY <3>1, <3>2
    <2> QED
        BY <2>3, <2>4, <2>5
<1>3. \A m \in Nat : m \in T => m + 1 \in T
    BY SMTT(20), <1>2
<1>4. n \in T
    BY <1>1, <1>3, Induction
<1> QED
    BY <1>4

(* The greatest number of a set of positions.                              *)
LEMMA Greatest ==
    ASSUME NEW n \in Nat, NEW S \in SUBSET (1 .. n), S # {}
    PROVE  Max(S) \in S /\ \A j \in S : j <= Max(S)
<1> DEFINE T == {k \in Nat : \E m \in S : m = n - k}
<1>1. T # {} /\ T \in SUBSET Nat
    <2>1. PICK m \in S : TRUE
        OBVIOUS
    <2>2. n - m \in Nat /\ m = n - (n - m)
        BY <2>1
    <2> QED
        BY <2>1, <2>2
<1>2. PICK k \in T : \A m \in T : k <= m
    BY <1>1, LeastNumber
<1>3. n - k \in S /\ \A j \in S : n - k >= j
    BY <1>2
<1> QED
    BY <1>3 DEF Max

(* What takes the elements of a finite set one by one, in the order that   *)
(* `choice` prefers, and combines them by `step`.                          *)
Selectors(D) == {c \in [(SUBSET D) \ {{}} -> D] : \A S \in (SUBSET D) \ {{}} : c[S] \in S}
FoldsBy(it, D, base, step, c) ==
    \A S \in SUBSET D : it[S] = IF S = {} THEN base ELSE step[c[S]][it[S \ {c[S]}]]

LEMMA FoldingBy ==
    ASSUME NEW D, IsFiniteSet(D), NEW W, NEW base \in W, NEW step \in [D -> [W -> W]], NEW c \in Selectors(D)
    PROVE  \E it \in [SUBSET D -> W] : FoldsBy(it, D, base, step, c)
<1> DEFINE n == Cardinality(D)
           V == [SUBSET D -> W]
           first == [S \in SUBSET D |-> base]
           Further(g) == [S \in SUBSET D |-> IF S = {} THEN base ELSE step[c[S]][g[S \ {c[S]}]]]
           next == [k \in 1 .. n |-> [g \in V |-> Further(g)]]
<1>1. n \in Nat
    BY FS_CardinalityType
<1>2. \A S \in SUBSET D : S # {} => c[S] \in S /\ c[S] \in D /\ S \ {c[S]} \in SUBSET D
    BY DEF Selectors
<1>3. first \in V /\ \A g \in V : Further(g) \in V
    <2>1. ASSUME NEW g \in V, NEW S \in SUBSET D, S # {} PROVE step[c[S]][g[S \ {c[S]}]] \in W
        <3>1. g[S \ {c[S]}] \in W /\ c[S] \in D
            BY <1>2, <2>1
        <3> QED
            BY <3>1
    <2> QED
        BY <2>1
<1> HIDE DEF V, n, Further, first
<1>4. next \in Advances(n, V)
    BY <1>3 DEF Advances
<1> HIDE DEF next
<1>5. PICK r \in [0 .. n -> V] : Solves(r, first, n, next)
    BY <1>1, <1>3, <1>4, PrimitiveRecursion
<1>6. ASSUME NEW k \in 1 .. n PROVE r[k] = Further(r[k - 1])
    <2>1. r[k] = next[k][r[k - 1]]
        BY <1>5 DEF Solves
    <2>2. k - 1 \in 0 .. n
        BY <1>1
    <2>3. r[k - 1] \in V
        BY <2>2
    <2> QED
        BY <2>1, <2>3 DEF next
<1> DEFINE Sizes == {k \in Nat : \A S \in SUBSET D, i, j \in 0 .. n :
                            Cardinality(S) = k /\ k <= i /\ k <= j => r[i][S] = r[j][S]}
<1>7. ASSUME NEW S \in SUBSET D PROVE IsFiniteSet(S) /\ Cardinality(S) \in 0 .. n
    <2>1. IsFiniteSet(S) /\ Cardinality(S) <= n
        BY FS_Subset DEF n
    <2> QED
        BY <1>1, <2>1, FS_CardinalityType
<1>8. ASSUME NEW i \in 0 .. n PROVE r[i][{}] = base
    <2>1. CASE i = 0
        BY <1>5, <2>1 DEF Solves, first
    <2>2. CASE i \in 1 .. n
        BY <1>6, <2>2 DEF Further
    <2> QED
        BY <1>1, <2>1, <2>2
<1>9. 0 \in Sizes
    <2> SUFFICES ASSUME NEW S \in SUBSET D, Cardinality(S) = 0 PROVE S = {}
        BY <1>8
    <2> QED
        BY <1>7, FS_EmptySet
<1>10. ASSUME NEW k \in Nat, k \in Sizes, NEW S \in SUBSET D, NEW i \in 0 .. n, NEW j \in 0 .. n,
              Cardinality(S) = k + 1, k + 1 <= i, k + 1 <= j
       PROVE  r[i][S] = r[j][S]
    <2>1. S # {}
        BY <1>7, <1>10, FS_EmptySet
    <2>2. PICK R : R = S \ {c[S]}
        OBVIOUS
    <2>3. c[S] \in S /\ R \in SUBSET D
        BY <1>2, <2>1, <2>2
    <2>4. Cardinality(R) = k
        BY <1>7, <1>10, <2>2, <2>3, FS_RemoveElement
    <2>5. i - 1 \in 0 .. n /\ j - 1 \in 0 .. n /\ k <= i - 1 /\ k <= j - 1 /\ i \in 1 .. n /\ j \in 1 .. n
        BY <1>1, <1>10
    <2>6. r[i - 1][R] = r[j - 1][R]
        BY <1>10, <2>3, <2>4, <2>5
    <2>7. r[i] = Further(r[i - 1]) /\ r[j] = Further(r[j - 1])
        BY <1>6, <2>5
    <2>8. S \in SUBSET D /\ r[i] = [Z \in SUBSET D |-> IF Z = {} THEN base ELSE step[c[Z]][r[i - 1][Z \ {c[Z]}]]]
        BY <2>7 DEF Further
    <2>9. r[i][S] = step[c[S]][r[i - 1][R]]
        BY <2>1, <2>2, <2>8
    <2>10. r[j] = [Z \in SUBSET D |-> IF Z = {} THEN base ELSE step[c[Z]][r[j - 1][Z \ {c[Z]}]]]
        BY <2>7 DEF Further
    <2>11. r[j][S] = step[c[S]][r[j - 1][R]]
        BY <2>1, <2>2, <2>8, <2>10
    <2> QED
        BY <2>6, <2>9, <2>11
<1>11. \A k \in Nat : k \in Sizes => k + 1 \in Sizes
    BY <1>10
<1>12. \A k \in Nat : k \in Sizes
    <2> HIDE DEF Sizes
    <2> QED
        BY <1>9, <1>11, Induction
<1>13. ASSUME NEW S \in SUBSET D, S # {} PROVE r[n][S] = step[c[S]][r[n][S \ {c[S]}]]
    <2>1. PICK R : R = S \ {c[S]}
        OBVIOUS
    <2>2. c[S] \in S /\ R \in SUBSET D
        BY <1>2, <1>13, <2>1
    <2>3. Cardinality(R) \in Nat /\ Cardinality(R) = Cardinality(S) - 1 /\ Cardinality(S) \in 0 .. n
        BY <1>7, <2>1, <2>2, FS_RemoveElement
    <2>4. n \in 1 .. n /\ n - 1 \in 0 .. n /\ n \in 0 .. n /\ Cardinality(R) <= n - 1 /\ Cardinality(R) <= n
        BY <1>1, <2>3
    <2>5. r[n - 1][R] = r[n][R]
        BY <1>12, <2>2, <2>3, <2>4
    <2>6. r[n] = Further(r[n - 1])
        BY <1>6, <2>4
    <2> QED
        BY <1>13, <2>1, <2>5, <2>6 DEF Further
<1>14. r[n] \in V /\ r[n][{}] = base
    BY <1>1, <1>8
<1> QED
    BY <1>13, <1>14 DEF V, FoldsBy

(* The folds of a sequence take its positions in order: the last is added  *)
(* to the fold of those before it.                                         *)
Folds(it, base, n, step) ==
    \A S \in SUBSET (1 .. n) : it[S] = IF S = {} THEN base ELSE step[Max(S)][it[S \ {Max(S)}]]

LEMMA Folding ==
    ASSUME NEW W, NEW base \in W, NEW n \in Nat, NEW step \in Advances(n, W)
    PROVE  \E it \in [SUBSET (1 .. n) -> W] : Folds(it, base, n, step)
<1> DEFINE c == [S \in (SUBSET (1 .. n)) \ {{}} |-> Max(S)]
<1>1. c \in Selectors(1 .. n)
    <2>1. \A S \in (SUBSET (1 .. n)) \ {{}} : Max(S) \in S
        BY Greatest
    <2> QED
        BY <2>1 DEF Selectors
<1>2. IsFiniteSet(1 .. n)
    BY FS_Interval
<1> HIDE DEF c
<1>3. step \in [1 .. n -> [W -> W]]
    BY DEF Advances
<1>4. PICK it \in [SUBSET (1 .. n) -> W] : FoldsBy(it, 1 .. n, base, step, c)
    BY <1>1, <1>2, <1>3, FoldingBy
<1> QED
    BY <1>4 DEF FoldsBy, Folds, c

(* The positions up to k fold in order.                                    *)
LEMMA Initial ==
    ASSUME NEW k \in Nat, k > 0
    PROVE  1 .. k # {} /\ Max(1 .. k) = k /\ (1 .. k) \ {k} = 1 .. k - 1
<1>1. Max(1 .. k) \in 1 .. k /\ \A j \in 1 .. k : j <= Max(1 .. k)
    <2>1. 1 .. k \in SUBSET (1 .. k) /\ 1 .. k # {}
        OBVIOUS
    <2> QED
        BY <2>1, Greatest
<1> QED
    BY <1>1

(* The sums over the subsets of a finite set: any element may be taken out. *)
AddsUp(sum, D, f) ==
    /\ sum \in [SUBSET D -> Nat] /\ sum[{}] = 0
    /\ \A S \in SUBSET D : \A y \in S : sum[S] = f[y] + sum[S \ {y}]

LEMMA Summing ==
    ASSUME NEW D, IsFiniteSet(D), NEW f \in [D -> Nat]
    PROVE  \E sum : AddsUp(sum, D, f) /\ SumFunction(f) = sum[D]
<1> DEFINE c == [S \in (SUBSET D) \ {{}} |-> CHOOSE x \in S : TRUE]
           step == [y \in D |-> [w \in Nat |-> f[y] + w]]
           Iterates(it) == it = [S \in SUBSET DOMAIN f |->
                                    IF S = {} THEN 0
                                    ELSE f[CHOOSE x \in S : TRUE] + it[S \ {CHOOSE x \in S : TRUE}]]
           it == CHOOSE it : Iterates(it)
<1>1. ASSUME NEW S \in SUBSET D, S # {} PROVE c[S] = (CHOOSE x \in S : TRUE) /\ c[S] \in S /\ c[S] \in D
    BY <1>1
<1>2. c \in Selectors(D)
    BY <1>1 DEF Selectors
<1>3. step \in [D -> [Nat -> Nat]]
    OBVIOUS
<1>4. \E g : Iterates(g)
    <2>1. PICK g \in [SUBSET D -> Nat] : FoldsBy(g, D, 0, step, c)
        <3> HIDE DEF step, c
        <3> QED
            BY <1>2, <1>3, FoldingBy
    <2>2. ASSUME NEW S \in SUBSET D, S # {} PROVE g[S] = f[c[S]] + g[S \ {c[S]}]
        <3>1. g[S] = step[c[S]][g[S \ {c[S]}]]
            BY <2>1, <2>2 DEF FoldsBy
        <3>2. PICK w : w = g[S \ {c[S]}]
            OBVIOUS
        <3>3. w \in Nat
            BY <2>2, <3>2
        <3>4. PICK y : y = c[S]
            OBVIOUS
        <3>5. y \in D
            BY <1>1, <2>2, <3>4
        <3>6. step[y][w] = f[y] + w
            BY <3>3, <3>5
        <3> QED
            BY <3>1, <3>2, <3>4, <3>6
    <2>3. g[{}] = 0
        BY <2>1 DEF FoldsBy
    <2>4. ASSUME NEW S \in SUBSET D, S # {}
          PROVE  g[S] = f[CHOOSE x \in S : TRUE] + g[S \ {CHOOSE x \in S : TRUE}]
        BY <1>1, <2>2, <2>4
    <2>5. Iterates(g)
        <3> HIDE DEF step, c
        <3> QED
            BY <2>3, <2>4
    <2> QED
        BY <2>5
<1>5. Iterates(it)
    <2> HIDE DEF Iterates
    <2> QED
        BY <1>4
<1>6. SumFunction(f) = it[D]
    BY DEF SumFunction, SumFunctionOnSet, FoldFunctionOnSet, MapThenFoldSet
<1>7. it[{}] = 0 /\ \A S \in SUBSET D : S # {} => it[S] = f[c[S]] + it[S \ {c[S]}]
    <2>1. it[{}] = 0
        BY <1>5
    <2>2. ASSUME NEW S \in SUBSET D, S # {} PROVE it[S] = f[c[S]] + it[S \ {c[S]}]
        <3>1. it[S] = f[CHOOSE x \in S : TRUE] + it[S \ {CHOOSE x \in S : TRUE}]
            <4> HIDE DEF it, c
            <4> QED
                BY <1>5, <2>2
        <3> QED
            BY <1>1, <2>2, <3>1
    <2> QED
        BY <2>1, <2>2
<1>8. it = [S \in SUBSET D |-> it[S]]
    <2> HIDE DEF it
    <2> QED
        BY <1>5
<1> HIDE DEF it, c, step
<1> DEFINE Free(S) == it[S] \in Nat /\ \A y \in S : it[S] = f[y] + it[S \ {y}]
           Sizes == {k \in Nat : \A S \in SUBSET D : Cardinality(S) <= k => Free(S)}
<1>9. ASSUME NEW S \in SUBSET D PROVE IsFiniteSet(S) /\ Cardinality(S) \in Nat
    BY FS_Subset, FS_CardinalityType
<1>10. ASSUME NEW S \in SUBSET D, NEW y \in S
       PROVE  S \ {y} \in SUBSET D /\ Cardinality(S \ {y}) = Cardinality(S) - 1
    BY <1>9, FS_RemoveElement
<1>11. 0 \in Sizes
    <2> SUFFICES ASSUME NEW S \in SUBSET D, Cardinality(S) <= 0 PROVE Free(S)
        OBVIOUS
    <2>1. S = {}
        BY <1>9, FS_EmptySet
    <2> QED
        BY <1>7, <2>1
<1>12. ASSUME NEW k \in Nat, k \in Sizes, NEW S \in SUBSET D, Cardinality(S) = k + 1 PROVE Free(S)
    <2>0. ASSUME NEW Z \in SUBSET D, Cardinality(Z) <= k PROVE Free(Z)
        <3> HIDE DEF Free
        <3> QED
            BY <1>12, <2>0
    <2>1. S # {}
        BY <1>9, <1>12, FS_EmptySet
    <2>2. PICK x : x = c[S]
        OBVIOUS
    <2>3. x \in S /\ x \in D /\ it[S] = f[x] + it[S \ {x}]
        BY <1>1, <1>7, <2>1, <2>2
    <2>4. Cardinality(S \ {x}) = k /\ S \ {x} \in SUBSET D
        BY <1>10, <1>12, <2>3
    <2>5. Free(S \ {x})
        <3> HIDE DEF Free
        <3> QED
            BY <2>0, <2>4
    <2>6. it[S] \in Nat
        BY <2>3, <2>5
    <2>7. ASSUME NEW y \in S, y # x PROVE it[S] = f[y] + it[S \ {y}]
        <3>1. Cardinality(S \ {y}) = k /\ S \ {y} \in SUBSET D
            BY <1>10, <1>12
        <3>2. Free(S \ {y})
            <4> HIDE DEF Free
            <4> QED
                BY <2>0, <3>1
        <3>3. it[S \ {x}] = f[y] + it[(S \ {x}) \ {y}]
            BY <2>5, <2>7
        <3>4. it[S \ {y}] = f[x] + it[(S \ {y}) \ {x}]
            BY <2>3, <2>7, <3>2
        <3>5. (S \ {x}) \ {y} = (S \ {y}) \ {x}
            OBVIOUS
        <3>6. PICK w : w = it[(S \ {x}) \ {y}]
            OBVIOUS
        <3>7. w \in Nat
            <4>1. y \in S \ {x} /\ (S \ {x}) \ {y} \in SUBSET D
                BY <2>7
            <4>2. Cardinality((S \ {x}) \ {y}) <= k
                BY <1>10, <2>4, <4>1
            <4> QED
                BY <2>0, <3>6, <4>1, <4>2
        <3>8. it[S \ {y}] = f[x] + w /\ it[S] = f[x] + (f[y] + w)
            BY <2>3, <3>3, <3>4, <3>5, <3>6
        <3>9. f[x] \in Nat /\ f[y] \in Nat
            BY <2>3
        <3> QED
            BY <3>7, <3>8, <3>9
    <2> QED
        BY <2>3, <2>6, <2>7
<1>13. \A k \in Nat : k \in Sizes => k + 1 \in Sizes
    <2> HIDE DEF Free
    <2> SUFFICES ASSUME NEW k \in Nat, k \in Sizes, NEW S \in SUBSET D, Cardinality(S) <= k + 1 PROVE Free(S)
        OBVIOUS
    <2>1. CASE Cardinality(S) <= k
        BY <2>1
    <2>2. CASE Cardinality(S) = k + 1
        BY <1>12, <2>2
    <2> QED
        BY <1>9, <2>1, <2>2
<1>14. \A k \in Nat : k \in Sizes
    <2> HIDE DEF Sizes
    <2> QED
        BY <1>11, <1>13, Induction
<1>15. \A S \in SUBSET D : Free(S)
    <2> HIDE DEF Free
    <2> SUFFICES ASSUME NEW S \in SUBSET D PROVE Free(S)
        OBVIOUS
    <2>1. Cardinality(S) \in Nat /\ Cardinality(S) <= Cardinality(S) /\ Cardinality(S) \in Sizes
        BY <1>9, <1>14
    <2> QED
        BY <2>1
<1>16. it \in [SUBSET D -> Nat]
    BY <1>8, <1>15
<1>17. AddsUp(it, D, f)
    BY <1>7, <1>15, <1>16 DEF AddsUp
<1> QED
    BY <1>6, <1>17

(* The sum of a set whose elements weigh the same under two functions.     *)
LEMMA SameSums ==
    ASSUME NEW D, NEW E, NEW f \in [D -> Nat], NEW g \in [E -> Nat], NEW a, NEW b,
           AddsUp(a, D, f), AddsUp(b, E, g),
           NEW Z, IsFiniteSet(Z), Z \subseteq D, Z \subseteq E, \A z \in Z : f[z] = g[z]
    PROVE  a[Z] = b[Z]
<1> DEFINE Sizes == {k \in Nat : \A S \in SUBSET Z : Cardinality(S) = k => a[S] = b[S]}
<1>1. ASSUME NEW S \in SUBSET Z
      PROVE  IsFiniteSet(S) /\ Cardinality(S) \in Nat /\ S \in SUBSET D /\ S \in SUBSET E
    BY FS_Subset, FS_CardinalityType
<1>2. 0 \in Sizes
    BY <1>1, FS_EmptySet DEF AddsUp
<1>3. ASSUME NEW k \in Nat, k \in Sizes, NEW S \in SUBSET Z, Cardinality(S) = k + 1 PROVE a[S] = b[S]
    <2>1. PICK y \in S : TRUE
        BY <1>1, <1>3, FS_EmptySet
    <2>2. Cardinality(S \ {y}) = k /\ S \ {y} \in SUBSET Z
        BY <1>1, <1>3, <2>1, FS_RemoveElement
    <2>3. a[S \ {y}] = b[S \ {y}] /\ f[y] = g[y]
        BY <1>3, <2>1, <2>2
    <2>4. a[S] = f[y] + a[S \ {y}] /\ b[S] = g[y] + b[S \ {y}]
        BY <1>1, <2>1 DEF AddsUp
    <2> QED
        BY <2>3, <2>4
<1>4. \A k \in Nat : k \in Sizes => k + 1 \in Sizes
    BY <1>3
<1>5. \A k \in Nat : k \in Sizes
    <2> HIDE DEF Sizes
    <2> QED
        BY <1>2, <1>4, Induction
<1> QED
    BY <1>1, <1>5

(* A sum is what one element weighs and the sum of the others.             *)
LEMMA SumWithout ==
    ASSUME NEW D, IsFiniteSet(D), NEW f \in [D -> Nat], NEW y \in D,
           NEW g \in [D \ {y} -> Nat], \A z \in D \ {y} : g[z] = f[z]
    PROVE  SumFunction(f) = f[y] + SumFunction(g) /\ SumFunction(g) \in Nat /\ SumFunction(f) \in Nat
<1>1. IsFiniteSet(D \ {y})
    BY FS_RemoveElement
<1>2. PICK a : AddsUp(a, D, f) /\ SumFunction(f) = a[D]
    BY Summing
<1>3. PICK b : AddsUp(b, D \ {y}, g) /\ SumFunction(g) = b[D \ {y}]
    BY <1>1, Summing
<1>4. a[D \ {y}] = b[D \ {y}]
    BY <1>1, <1>2, <1>3, SameSums
<1>5. a[D] = f[y] + a[D \ {y}] /\ b[D \ {y}] \in Nat /\ f[y] \in Nat
    BY <1>2, <1>3 DEF AddsUp
<1> QED
    BY <1>2, <1>3, <1>4, <1>5

(* Two sums that differ in one element.                                    *)
LEMMA SumChanges ==
    ASSUME NEW D, IsFiniteSet(D), NEW f \in [D -> Nat], NEW h \in [D -> Nat], NEW y \in D,
           \A z \in D \ {y} : f[z] = h[z]
    PROVE  /\ SumFunction(f) \in Nat /\ SumFunction(h) \in Nat
           /\ SumFunction(h) + f[y] = SumFunction(f) + h[y]
<1> DEFINE g == [z \in D \ {y} |-> f[z]]
<1>1. g \in [D \ {y} -> Nat] /\ \A z \in D \ {y} : g[z] = f[z] /\ g[z] = h[z]
    OBVIOUS
<1> HIDE DEF g
<1>2. SumFunction(f) = f[y] + SumFunction(g) /\ SumFunction(g) \in Nat /\ SumFunction(f) \in Nat
    BY <1>1, SumWithout
<1>3. SumFunction(h) = h[y] + SumFunction(g) /\ SumFunction(h) \in Nat
    BY <1>1, SumWithout
<1>4. f[y] \in Nat /\ h[y] \in Nat
    OBVIOUS
<1> QED
    BY <1>2, <1>3, <1>4

(* The sum of nothing.                                                     *)
LEMMA SumOfZeros ==
    ASSUME NEW D, IsFiniteSet(D), NEW f \in [D -> Nat], \A z \in D : f[z] = 0
    PROVE  SumFunction(f) = 0
<1> DEFINE zero == [S \in SUBSET D |-> 0]
<1>1. AddsUp(zero, D, f)
    <2>1. \A S \in SUBSET D : \A y \in S : S \ {y} \in SUBSET D /\ y \in D
        OBVIOUS
    <2> QED
        BY <2>1 DEF AddsUp
<1>2. zero[D] = 0
    OBVIOUS
<1> HIDE DEF zero
<1>3. PICK a : AddsUp(a, D, f) /\ SumFunction(f) = a[D]
    BY Summing
<1>4. a[D] = zero[D]
    BY <1>1, <1>3, SameSums
<1> QED
    BY <1>2, <1>3, <1>4

(* What is kept of the lines, position by position.                        *)
Sifts(r, lines, wanted) ==
    /\ r \in [0 .. Len(lines) -> Seq(wanted)] /\ r[0] = <<>>
    /\ \A k \in 1 .. Len(lines) :
        r[k] = IF lines[k] \in wanted THEN Append(r[k - 1], lines[k]) ELSE r[k - 1]
    /\ Those(lines, wanted) = r[Len(lines)]

LEMMA Sifting ==
    ASSUME NEW L, NEW lines \in Seq(L), NEW wanted
    PROVE  \E r : Sifts(r, lines, wanted)
<1> DEFINE n == Len(lines)
           More(a, line) == IF line \in wanted THEN Append(a, line) ELSE a
           step == [k \in 1 .. n |-> [a \in Seq(wanted) |-> More(a, lines[k])]]
           Recurs(r) == r = [k \in 0 .. n |-> IF k = 0 THEN << >> ELSE More(r[k - 1], lines[k])]
           kept == CHOOSE r : Recurs(r)
<1>1. n \in Nat
    OBVIOUS
<1>2. ASSUME NEW a \in Seq(wanted), NEW line PROVE More(a, line) \in Seq(wanted)
    BY AppendProperties
<1>3. step \in Advances(n, Seq(wanted))
    <2> HIDE DEF More
    <2> QED
        BY <1>1, <1>2 DEF Advances
<1>4. PICK r \in [0 .. n -> Seq(wanted)] : Solves(r, << >>, n, step)
    <2> HIDE DEF step, n
    <2>1. << >> \in Seq(wanted)
        OBVIOUS
    <2> QED
        BY <1>1, <1>3, <2>1, PrimitiveRecursion
<1>5. r[0] = << >> /\ \A k \in 1 .. n : r[k] = More(r[k - 1], lines[k])
    <2> HIDE DEF More, n
    <2>1. ASSUME NEW k \in 1 .. n PROVE r[k] = More(r[k - 1], lines[k])
        <3>1. k - 1 \in 0 .. n
            BY <1>1
        <3>2. r[k - 1] \in Seq(wanted) /\ r[k] = step[k][r[k - 1]]
            BY <1>4, <3>1 DEF Solves
        <3> QED
            BY <3>2
    <2> QED
        BY <1>4, <2>1 DEF Solves
<1>6. Recurs(r)
    <2> HIDE DEF More, n
    <2> QED
        BY <1>1, <1>4, <1>5
<1>7. Recurs(kept)
    <2> HIDE DEF Recurs
    <2> QED
        BY <1>6
<1>8. Those(lines, wanted) = kept[n]
    BY DEF Those
<1> HIDE DEF kept, n
<1>9. kept[0] = << >> /\ \A k \in 1 .. n : k - 1 \in 0 .. n /\ kept[k] = More(kept[k - 1], lines[k])
    <2> HIDE DEF More
    <2>1. kept[0] = << >>
        BY <1>1, <1>7
    <2>2. ASSUME NEW k \in 1 .. n PROVE k - 1 \in 0 .. n /\ kept[k] = More(kept[k - 1], lines[k])
        <3>1. k \in 0 .. n /\ k # 0 /\ k - 1 \in 0 .. n
            BY <1>1
        <3> QED
            BY <1>7, <3>1
    <2> QED
        BY <2>1, <2>2
<1> DEFINE Lengths == {k \in Nat : k <= n => kept[k] \in Seq(wanted)}
<1>10. \A k \in Nat : k \in Lengths
    <2>1. 0 \in Lengths
        <3>1. << >> \in Seq(wanted)
            OBVIOUS
        <3> QED
            BY <1>9, <3>1
    <2>2. ASSUME NEW k \in Nat, k \in Lengths, k + 1 <= n PROVE kept[k + 1] \in Seq(wanted)
        <3>1. k + 1 \in 1 .. n /\ k + 1 - 1 = k /\ kept[k] \in Seq(wanted)
            BY <1>1, <2>2
        <3>2. kept[k + 1] = More(kept[k], lines[k + 1])
            BY <1>9, <3>1
        <3> HIDE DEF More
        <3> QED
            BY <1>2, <3>1, <3>2
    <2>3. \A k \in Nat : k \in Lengths => k + 1 \in Lengths
        BY <2>2
    <2> HIDE DEF Lengths
    <2> QED
        BY <2>1, <2>3, Induction
<1>11. kept \in [0 .. n -> Seq(wanted)]
    <2>1. DOMAIN kept = 0 .. n /\ kept = [k \in 0 .. n |-> kept[k]]
        BY <1>7
    <2>2. \A k \in 0 .. n : kept[k] \in Seq(wanted)
        BY <1>1, <1>10
    <2> QED
        BY <2>1, <2>2
<1> QED
    BY <1>8, <1>9, <1>11 DEF Sifts, n

(* What is kept of the lines: those wanted, every one of them.             *)
LEMMA ThoseKept ==
    ASSUME NEW L, NEW lines \in Seq(L), NEW wanted
    PROVE  Those(lines, wanted) \in Seq(wanted) /\ ToSet(Those(lines, wanted)) = ToSet(lines) \cap wanted
<1> DEFINE n == Len(lines)
           First(k) == {lines[i] : i \in 1 .. k}
<1>1. PICK r : Sifts(r, lines, wanted)
    BY Sifting
<1> DEFINE Lengths == {k \in Nat : k <= n => ToSet(r[k]) = First(k) \cap wanted}
<1>2. n \in Nat /\ DOMAIN lines = 1 .. n
    OBVIOUS
<1>3. 0 \in Lengths
    <2>1. r[0] = <<>> /\ ToSet(<<>>) = {}
        BY <1>1 DEF Sifts, ToSet
    <2>2. First(0) = {}
        OBVIOUS
    <2> QED
        BY <2>1, <2>2
<1>4. ASSUME NEW k \in Nat, k \in Lengths, k + 1 <= n
      PROVE  ToSet(r[k + 1]) = First(k + 1) \cap wanted
    <2>1. PICK a, line : a = r[k] /\ line = lines[k + 1]
        OBVIOUS
    <2>2. /\ a \in Seq(wanted) /\ ToSet(a) = First(k) \cap wanted
          /\ r[k + 1] = IF line \in wanted THEN Append(a, line) ELSE a
        <3> HIDE DEF First
        <3>1. k \in 0 .. n /\ k + 1 \in 1 .. n /\ k + 1 - 1 = k /\ ToSet(r[k]) = First(k) \cap wanted
            BY <1>2, <1>4
        <3> HIDE DEF Lengths
        <3> QED
            BY <1>1, <2>1, <3>1 DEF Sifts
    <2>3. First(k + 1) = First(k) \cup {line}
        <3>1. 1 .. k + 1 = (1 .. k) \cup {k + 1}
            OBVIOUS
        <3> QED
            BY <2>1, <3>1
    <2>4. ASSUME line \in wanted PROVE ToSet(Append(a, line)) = ToSet(a) \cup {line}
        <3>1. a \in Seq(wanted)
            BY <2>2
        <3> QED
            BY <2>4, <3>1, AppendProperties DEF ToSet
    <2> HIDE DEF First
    <2> QED
        BY <2>2, <2>3, <2>4
<1>5. \A k \in Nat : k \in Lengths
    <2>1. \A k \in Nat : k \in Lengths => k + 1 \in Lengths
        <3> HIDE DEF First
        <3> QED
            BY <1>4
    <2> HIDE DEF Lengths
    <2> QED
        BY <1>3, <2>1, Induction
<1>6. ToSet(r[n]) = First(n) \cap wanted
    <2> HIDE DEF First
    <2> QED
        BY <1>2, <1>5
<1>7. First(n) = ToSet(lines)
    BY <1>2 DEF ToSet
<1> QED
    BY <1>1, <1>2, <1>6, <1>7 DEF Sifts

(* Lists that agree in what is wanted of each, one of them with more that  *)
(* is not, come to the same.                                               *)
LEMMA ThoseAgree ==
    ASSUME NEW L, NEW a \in Seq(L), NEW b \in Seq(L), NEW v, NEW w, Len(a) <= Len(b),
           \A i \in 1 .. Len(a) : (a[i] \in v <=> b[i] \in w) /\ (a[i] \in v => a[i] = b[i]),
           \A i \in Len(a) + 1 .. Len(b) : b[i] \notin w
    PROVE  Those(a, v) = Those(b, w)
<1>1. PICK m, n : m = Len(a) /\ n = Len(b)
    OBVIOUS
<1>2. m \in Nat /\ n \in Nat /\ m <= n
    BY <1>1
<1>3. PICK r : Sifts(r, a, v)
    BY Sifting
<1>4. PICK q : Sifts(q, b, w)
    BY Sifting
<1> DEFINE Lengths == {k \in Nat : k <= n => q[k] = r[IF k <= m THEN k ELSE m]}
<1>5. 0 \in Lengths
    BY <1>1, <1>2, <1>3, <1>4 DEF Sifts
<1>6. ASSUME NEW k \in Nat, k \in Lengths, k + 1 <= n PROVE k + 1 \in Lengths
    <2>1. q[k] = r[IF k <= m THEN k ELSE m]
        BY <1>2, <1>6
    <2>2. q[k + 1] = IF b[k + 1] \in w THEN Append(q[k], b[k + 1]) ELSE q[k]
        BY <1>1, <1>2, <1>4, <1>6 DEF Sifts
    <2>3. CASE k + 1 <= m
        <3>1. r[k + 1] = IF a[k + 1] \in v THEN Append(r[k], a[k + 1]) ELSE r[k]
            BY <1>1, <1>2, <1>3, <2>3 DEF Sifts
        <3>2. (a[k + 1] \in v <=> b[k + 1] \in w) /\ (a[k + 1] \in v => a[k + 1] = b[k + 1])
            BY <1>1, <1>2, <2>3
        <3> QED
            BY <1>2, <2>1, <2>2, <2>3, <3>1, <3>2
    <2>4. CASE ~(k + 1 <= m)
        <3>1. b[k + 1] \notin w
            BY <1>1, <1>2, <1>6, <2>4
        <3>2. (IF k <= m THEN k ELSE m) = (IF k + 1 <= m THEN k + 1 ELSE m)
            BY <1>2, <2>4
        <3> QED
            BY <2>1, <2>2, <3>1, <3>2
    <2> QED
        BY <2>3, <2>4
<1>7. \A k \in Nat : k \in Lengths
    <2>1. \A k \in Nat : k \in Lengths => k + 1 \in Lengths
        BY <1>2, <1>6
    <2> HIDE DEF Lengths
    <2> QED
        BY <1>5, <2>1, Induction
<1>8. q[n] = r[m]
    BY <1>2, <1>7
<1> QED
    BY <1>1, <1>3, <1>4, <1>8 DEF Sifts

(* A list of nothing but what is wanted stays as it is.                    *)
LEMMA ThoseOfWanted ==
    ASSUME NEW w, NEW a \in Seq(w)
    PROVE  Those(a, w) = a
<1>1. PICK n : n = Len(a)
    OBVIOUS
<1>2. n \in Nat
    BY <1>1
<1>3. PICK r : Sifts(r, a, w)
    BY Sifting
<1>4. r \in [0 .. n -> Seq(w)] /\ r[0] = <<>> /\ Those(a, w) = r[n]
    BY <1>1, <1>3 DEF Sifts
<1>5. ASSUME NEW k \in 1 .. n PROVE a[k] \in w /\ r[k] = Append(r[k - 1], a[k])
    <2>1. a[k] \in w
        BY <1>1
    <2> QED
        BY <1>1, <1>3, <2>1 DEF Sifts
<1> DEFINE IsStart(s, k) == Len(s) = k /\ \A i \in 1 .. k : s[i] = a[i]
           Lengths == {k \in Nat : k <= n => IsStart(r[k], k)}
<1>6. 0 \in Lengths
    BY <1>4
<1>7. ASSUME NEW k \in Nat, k \in Lengths, k + 1 <= n PROVE IsStart(r[k + 1], k + 1)
    <2>1. PICK s, x : s = r[k] /\ x = a[k + 1]
        OBVIOUS
    <2>2. s \in Seq(w) /\ x \in w /\ r[k + 1] = Append(s, x)
        <3>1. k \in 0 .. n /\ k + 1 \in 1 .. n /\ k + 1 - 1 = k
            BY <1>2, <1>7
        <3>2. r[k] \in Seq(w) /\ a[k + 1] \in w
            BY <1>4, <1>5, <3>1
        <3>3. r[k + 1] = Append(r[k], a[k + 1])
            <4>1. r[k + 1] = Append(r[k + 1 - 1], a[k + 1])
                BY <1>5, <3>1
            <4> QED
                BY <3>1, <4>1
        <3> QED
            BY <2>1, <3>2, <3>3
    <2>3. IsStart(s, k)
        BY <1>2, <1>7, <2>1
    <2>4. Len(Append(s, x)) = k + 1 /\ Append(s, x)[k + 1] = x /\ \A i \in 1 .. k : Append(s, x)[i] = s[i]
        BY <2>2, <2>3
    <2> QED
        BY <2>1, <2>2, <2>3, <2>4
<1>8. \A k \in Nat : k \in Lengths
    <2>1. \A k \in Nat : k \in Lengths => k + 1 \in Lengths
        <3> HIDE DEF IsStart
        <3> QED
            BY <1>7
    <2> HIDE DEF Lengths
    <2> QED
        BY <1>6, <2>1, Induction
<1>9. IsStart(r[n], n)
    BY <1>2, <1>8
<1>10. r[n] \in Seq(w) /\ Those(a, w) = r[n]
    BY <1>2, <1>4
<1> QED
    BY <1>1, <1>2, <1>9, <1>10

(* A sequence of sequences put end to end, by recursion.                   *)
Ends(r, s, n, D) ==
    /\ r \in [0 .. n -> Seq(D)] /\ r[0] = <<>>
    /\ \A k \in 1 .. n : k - 1 \in 0 .. n /\ r[k] = r[k - 1] \o s[k]
    /\ FlattenSeq(s) = r[n]

LEMMA FlattenIs ==
    ASSUME NEW D, NEW s \in Seq(Seq(D)) PROVE \E r : Ends(r, s, Len(s), D)
<1>1. PICK n : n = Len(s)
    OBVIOUS
<1>2. PICK W : W = Seq(D)
    OBVIOUS
<1>3. n \in Nat /\ s = [k \in 1 .. n |-> s[k]] /\ \A k \in 1 .. n : s[k] \in W
    BY <1>1, <1>2
<1>4. <<>> \in W /\ \A v, w \in W : v \o w \in W /\ <<>> \o w = w
    BY <1>2
<1> DEFINE step == [k \in 1 .. n |-> [w \in W |-> w \o s[k]]]
           Iterates(f) == f = [i \in 1 .. n |-> IF i = 1 THEN s[i] ELSE f[i - 1] \o s[i]]
           f == CHOOSE f : Iterates(f)
<1>5. step \in Advances(n, W)
    <2>1. ASSUME NEW k \in 1 .. n PROVE [w \in W |-> w \o s[k]] \in [W -> W]
        BY <1>3, <1>4
    <2> QED
        BY <2>1 DEF Advances
<1>6. PICK r \in [0 .. n -> W] : Solves(r, <<>>, n, step)
    <2> HIDE DEF step
    <2> QED
        BY <1>3, <1>4, <1>5, PrimitiveRecursion
<1>7. ASSUME NEW k \in 1 .. n PROVE k - 1 \in 0 .. n /\ r[k - 1] \in W /\ r[k] = r[k - 1] \o s[k]
    <2>1. k - 1 \in 0 .. n
        BY <1>3
    <2>2. r[k] = step[k][r[k - 1]] /\ r[k - 1] \in W
        BY <1>6, <2>1 DEF Solves
    <2> QED
        BY <2>1, <2>2
<1>8. r[0] = <<>>
    BY <1>6 DEF Solves
<1> HIDE DEF step
<1>9. FlattenSeq(s) = r[n]
    <2>1. CASE n = 0
        <3>1. FlattenSeq(s) = s /\ s = <<>>
            BY <1>1, <1>3, <2>1 DEF FlattenSeq
        <3> QED
            BY <1>8, <2>1, <3>1
    <2>2. CASE n # 0
        <3>1. \E g : Iterates(g)
            <4>1. PICK g : g = [i \in 1 .. n |-> r[i]]
                OBVIOUS
            <4>2. ASSUME NEW i \in 1 .. n PROVE g[i] = IF i = 1 THEN s[i] ELSE g[i - 1] \o s[i]
                <5>1. CASE i = 1
                    <6>1. i - 1 = 0 /\ s[i] \in W
                        BY <1>3, <5>1
                    <6>2. r[i] = <<>> \o s[i]
                        BY <1>7, <1>8, <6>1
                    <6> QED
                        BY <1>4, <4>1, <5>1, <6>1, <6>2
                <5>2. CASE i # 1
                    <6>1. i - 1 \in 1 .. n
                        BY <1>3, <5>2
                    <6>2. g[i - 1] = r[i - 1] /\ g[i] = r[i]
                        BY <4>1, <6>1
                    <6> QED
                        BY <1>7, <5>2, <6>2
                <5> QED
                    BY <5>1, <5>2
            <4>3. Iterates(g)
                BY <4>1, <4>2
            <4> QED
                BY <4>3
        <3>2. Iterates(f)
            <4> HIDE DEF Iterates
            <4> QED
                BY <3>1
        <3>3. FlattenSeq(s) = f[n]
            BY <1>1, <2>2 DEF FlattenSeq
        <3>4. PICK h : h = f
            OBVIOUS
        <3>5. h = [i \in 1 .. n |-> IF i = 1 THEN s[i] ELSE h[i - 1] \o s[i]]
            BY <3>2, <3>4
        <3> HIDE DEF f, Iterates
        <3> DEFINE T == {k \in Nat : k + 1 <= n => h[k + 1] = r[k + 1]}
        <3>6. 0 \in T
            <4>1. 1 \in 1 .. n
                BY <1>3, <2>2
            <4>2. h[1] = s[1] /\ s[1] \in W
                BY <1>3, <3>5, <4>1
            <4>3. r[1] = <<>> \o s[1]
                BY <1>7, <1>8, <4>1, 1 - 1 = 0
            <4> QED
                BY <1>4, <4>2, <4>3
        <3>7. ASSUME NEW k \in Nat, k \in T, k + 2 <= n PROVE h[k + 2] = r[k + 2]
            <4>1. PICK m : m = k + 2
                OBVIOUS
            <4>2. m \in 1 .. n /\ m - 1 \in 1 .. n /\ m # 1 /\ m - 1 = k + 1 /\ k + 1 <= n
                BY <1>3, <3>7, <4>1
            <4>3. h[m] = h[m - 1] \o s[m]
                BY <3>5, <4>2
            <4>4. r[m] = r[m - 1] \o s[m]
                BY <1>7, <4>2
            <4>5. h[m - 1] = r[m - 1]
                BY <3>7, <4>2
            <4> QED
                BY <4>1, <4>3, <4>4, <4>5
        <3>8. \A k \in Nat : k \in T => k + 1 \in T
            BY <3>7
        <3>9. \A k \in Nat : k \in T
            <4> HIDE DEF T
            <4> QED
                BY <3>6, <3>8, Induction
        <3>10. n - 1 \in Nat /\ (n - 1) + 1 = n
            BY <1>3, <2>2
        <3> QED
            BY <3>3, <3>4, <3>9, <3>10
    <2> QED
        BY <2>1, <2>2
<1>10. Ends(r, s, n, D)
    BY <1>2, <1>7, <1>8, <1>9 DEF Ends
<1> QED
    BY <1>1, <1>10

(* One more sequence at the end.                                           *)
LEMMA FlattenMore ==
    ASSUME NEW D, NEW s \in Seq(Seq(D)), NEW next \in Seq(D)
    PROVE  FlattenSeq(Append(s, next)) = FlattenSeq(s) \o next
<1>1. PICK n : n = Len(s)
    OBVIOUS
<1>2. PICK t : t = Append(s, next)
    OBVIOUS
<1>3. n \in Nat /\ t \in Seq(Seq(D)) /\ Len(t) = n + 1 /\ t[n + 1] = next /\ \A k \in 1 .. n : t[k] = s[k]
    BY <1>1, <1>2, AppendProperties
<1>4. PICK r : Ends(r, s, n, D)
    BY <1>1, FlattenIs
<1>5. PICK q : Ends(q, t, n + 1, D)
    BY <1>3, FlattenIs
<1> DEFINE T == {k \in Nat : k <= n => q[k] = r[k]}
<1>6. 0 \in T
    BY <1>4, <1>5 DEF Ends
<1>7. ASSUME NEW k \in Nat, k \in T, k + 1 <= n PROVE q[k + 1] = r[k + 1]
    <2>1. PICK m : m = k + 1
        OBVIOUS
    <2>2. m \in 1 .. n /\ m \in 1 .. n + 1 /\ m - 1 = k /\ k <= n
        BY <1>3, <1>7, <2>1
    <2>3. q[m] = q[k] \o t[m] /\ r[m] = r[k] \o s[m]
        BY <1>4, <1>5, <2>2 DEF Ends
    <2>4. t[m] = s[m] /\ q[k] = r[k]
        BY <1>3, <1>7, <2>2
    <2> QED
        BY <2>1, <2>3, <2>4
<1>8. \A k \in Nat : k \in T
    <2>1. \A k \in Nat : k \in T => k + 1 \in T
        BY <1>7
    <2> HIDE DEF T
    <2> QED
        BY <1>6, <2>1, Induction
<1>9. n + 1 \in 1 .. n + 1 /\ (n + 1) - 1 = n /\ n <= n
    BY <1>3
<1>10. q[n + 1] = q[n] \o t[n + 1]
    BY <1>5, <1>9 DEF Ends
<1>11. q[n] = r[n]
    BY <1>3, <1>8, <1>9
<1> QED
    BY <1>2, <1>3, <1>4, <1>5, <1>10, <1>11 DEF Ends

(* What stands in two sequences put end to end stood in one of them.       *)
LEMMA SetOfEnds ==
    ASSUME NEW D, NEW a \in Seq(D), NEW b \in Seq(D) PROVE ToSet(a \o b) = ToSet(a) \cup ToSet(b)
<1>1. PICK c : c = a \o b
    OBVIOUS
<1>2. /\ c \in Seq(D) /\ Len(c) = Len(a) + Len(b) /\ Len(a) \in Nat /\ Len(b) \in Nat
      /\ \A i \in 1 .. Len(a) + Len(b) : c[i] = IF i <= Len(a) THEN a[i] ELSE b[i - Len(a)]
    BY <1>1, ConcatProperties
<1>3. ASSUME NEW x \in ToSet(c) PROVE x \in ToSet(a) \cup ToSet(b)
    <2>1. PICK i \in 1 .. Len(a) + Len(b) : x = c[i]
        BY <1>2 DEF ToSet
    <2>2. CASE i <= Len(a)
        <3>1. x = a[i] /\ i \in DOMAIN a
            BY <1>2, <2>1, <2>2
        <3> QED
            BY <3>1 DEF ToSet
    <2>3. CASE ~ (i <= Len(a))
        <3>1. x = b[i - Len(a)] /\ i - Len(a) \in DOMAIN b
            BY <1>2, <2>1, <2>3
        <3> QED
            BY <3>1 DEF ToSet
    <2> QED
        BY <2>2, <2>3
<1>4. ASSUME NEW x \in ToSet(a) PROVE x \in ToSet(c)
    <2>1. PICK i \in 1 .. Len(a) : x = a[i]
        BY DEF ToSet
    <2>2. x = c[i] /\ i \in DOMAIN c
        BY <1>2, <2>1
    <2> QED
        BY <2>2 DEF ToSet
<1>5. ASSUME NEW x \in ToSet(b) PROVE x \in ToSet(c)
    <2>1. PICK i \in 1 .. Len(b) : x = b[i]
        BY DEF ToSet
    <2>2. PICK j : j = i + Len(a)
        OBVIOUS
    <2>3. j \in 1 .. Len(a) + Len(b) /\ ~ (j <= Len(a)) /\ j - Len(a) = i
        BY <1>2, <2>1, <2>2
    <2>4. x = c[j] /\ j \in DOMAIN c
        BY <1>2, <2>1, <2>3
    <2> QED
        BY <2>4 DEF ToSet
<1> QED
    BY <1>1, <1>3, <1>4, <1>5

(* What stands in a flattened sequence stood in one of its parts.          *)
InParts(list, s) == \A x \in ToSet(list) : \E i \in DOMAIN s : x \in ToSet(s[i])

LEMMA FlattenedParts ==
    ASSUME NEW D, NEW s \in Seq(Seq(D)) PROVE FlattenSeq(s) \in Seq(D) /\ InParts(FlattenSeq(s), s)
<1>1. PICK n : n = Len(s)
    OBVIOUS
<1>2. n \in Nat /\ DOMAIN s = 1 .. n /\ \A k \in 1 .. n : s[k] \in Seq(D)
    BY <1>1
<1>3. PICK r : Ends(r, s, n, D)
    BY <1>1, FlattenIs
<1> DEFINE T == {k \in Nat : k <= n => InParts(r[k], s)}
<1>4. 0 \in T
    <2>1. ToSet(r[0]) = {}
        BY <1>3 DEF ToSet, Ends
    <2> QED
        BY <2>1 DEF InParts
<1>5. ASSUME NEW k \in Nat, k \in T, k + 1 <= n PROVE InParts(r[k + 1], s)
    <2>1. PICK m : m = k + 1
        OBVIOUS
    <2>2. m \in 1 .. n /\ m - 1 = k /\ k \in 0 .. n /\ k <= n
        BY <1>2, <1>5, <2>1
    <2>3. r[m] = r[k] \o s[m] /\ r[k] \in Seq(D) /\ s[m] \in Seq(D)
        BY <1>2, <1>3, <2>2 DEF Ends
    <2>4. ToSet(r[m]) = ToSet(r[k]) \cup ToSet(s[m])
        BY <2>3, SetOfEnds
    <2>5. InParts(r[k], s)
        BY <1>5, <2>2
    <2> QED
        BY <1>2, <2>1, <2>2, <2>4, <2>5 DEF InParts
<1>6. InParts(r[n], s)
    <2>1. \A k \in Nat : k \in T => k + 1 \in T
        BY <1>5
    <2>2. n \in T
        <3> HIDE DEF T
        <3> QED
            BY <1>2, <1>4, <2>1, Induction
    <2> QED
        BY <1>2, <2>2
<1>7. n \in 0 .. n
    BY <1>2
<1>8. FlattenSeq(s) = r[n] /\ r[n] \in Seq(D)
    BY <1>3, <1>7 DEF Ends
<1>9. FlattenSeq(s) \in Seq(D) /\ InParts(FlattenSeq(s), s)
    BY <1>6, <1>8
<1> QED
    BY <1>9
=============================================================================
