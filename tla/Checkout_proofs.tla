--------------------------- MODULE Checkout_proofs ---------------------------
(***************************************************************************)
(* What is proved of the analyses of a source tree, for every tree and     *)
(* every change.                                                           *)
(***************************************************************************)
EXTENDS Checkout, RecursionTheorems

(***************************************************************************)
(* What pairs reach                                                        *)
(***************************************************************************)
Closed(R, X) == \A r \in R : r[1] \in X => r[2] \in X
More(R, T) == T \cup {r[2] : r \in {q \in R : q[1] \in T}}

(* What R reaches from S is the least set around S that R does not leave.  *)
LEMMA ReachIs ==
    ASSUME NEW R, IsFiniteSet(R), NEW S
    PROVE  /\ S \subseteq Reach(R, S) /\ Closed(R, Reach(R, S))
           /\ \A X : S \subseteq X /\ Closed(R, X) => Reach(R, S) \subseteq X
<1> DEFINE n == Cardinality(R)
           V == S \cup {r[2] : r \in R}
           step == [k \in 1 .. n |-> [T \in SUBSET V |-> More(R, T)]]
           Grows(g) == g = [k \in 0 .. n |-> IF k = 0 THEN S ELSE More(R, g[k - 1])]
           grow == CHOOSE g : Grows(g)
<1>1. n \in Nat
    BY FS_CardinalityType
<1>2. step \in Advances(n, SUBSET V)
    BY DEF Advances, More
<1>3. PICK f \in [0 .. n -> SUBSET V] : Solves(f, S, n, step)
    <2> HIDE DEF step, n
    <2> QED
        BY <1>1, <1>2, PrimitiveRecursion
<1>4. Grows(f)
    <2> HIDE DEF V, n
    <2>1. ASSUME NEW k \in 0 .. n, k # 0 PROVE f[k] = More(R, f[k - 1])
        <3>1. k - 1 \in 0 .. n /\ k \in 1 .. n
            BY <1>1, <2>1
        <3>2. f[k - 1] \in SUBSET V /\ f[k] = step[k][f[k - 1]]
            BY <1>3, <3>1 DEF Solves
        <3> QED
            BY <3>1, <3>2
    <2>2. f[0] = S
        BY <1>3 DEF Solves
    <2> QED
        BY <1>1, <1>3, <2>1, <2>2
<1>5. Grows(grow)
    <2> HIDE DEF Grows
    <2> QED
        BY <1>4
<1>6. Reach(R, S) = grow[n]
    BY DEF Reach, More
<1> HIDE DEF grow
<1>7. grow[0] = S /\ \A k \in Nat : k + 1 <= n => grow[k + 1] = More(R, grow[k])
    <2> HIDE DEF n
    <2>1. grow[0] = S
        BY <1>1, <1>5
    <2>2. ASSUME NEW k \in Nat, k + 1 <= n PROVE grow[k + 1] = More(R, grow[k])
        <3>1. PICK j \in 0 .. n : j = k + 1 /\ j # 0 /\ j - 1 = k
            BY <1>1, <2>2
        <3>2. grow[j] = More(R, grow[j - 1])
            BY <1>5, <3>1
        <3> QED
            BY <3>1, <3>2
    <2> QED
        BY <2>1, <2>2
<1> DEFINE U(T) == {r \in R : r[1] \in T}
           Around == {k \in Nat : k <= n => S \subseteq grow[k]}
           Growing == {k \in Nat : k <= n => Closed(R, grow[k]) \/ Cardinality(U(grow[k])) > k}
<1>8. \A T : IsFiniteSet(U(T)) /\ Cardinality(U(T)) \in Nat /\ Cardinality(U(T)) <= n
    <2> TAKE T
    <2>1. U(T) \subseteq R
        OBVIOUS
    <2> QED
        BY <2>1, FS_Subset, FS_CardinalityType
<1>9. \A k \in Nat : k \in Around
    <2>1. 0 \in Around
        BY <1>7
    <2>2. \A k \in Nat : k \in Around => k + 1 \in Around
        BY <1>1, <1>7 DEF More
    <2> HIDE DEF Around
    <2> QED
        BY <2>1, <2>2, Induction
<1>10. \A k \in Nat : k \in Growing
    <2> HIDE DEF n
    <2>1. 0 \in Growing
        <3> SUFFICES ASSUME ~Closed(R, S) PROVE Cardinality(U(S)) > 0
            BY <1>7
        <3>1. U(S) # {}
            BY DEF Closed
        <3> HIDE DEF U
        <3> QED
            BY <1>8, <3>1, FS_EmptySet
    <2>2. ASSUME NEW k \in Nat, k \in Growing, k + 1 <= n, ~Closed(R, grow[k + 1])
          PROVE  Cardinality(U(grow[k + 1])) > k + 1
        <3>1. PICK T, X : T = grow[k] /\ X = grow[k + 1] /\ X = More(R, T)
            BY <1>7, <2>2
        <3>2. ~Closed(R, T)
            BY <2>2, <3>1 DEF Closed, More
        <3>3. Cardinality(U(T)) > k
            BY <1>1, <2>2, <3>1, <3>2
        <3>4. PICK r \in R : r[1] \in X /\ r[2] \notin X
            BY <2>2, <3>1 DEF Closed
        <3>5. U(T) \subseteq U(X) /\ r \in U(X) /\ r \notin U(T)
            BY <3>1, <3>4 DEF More
        <3> HIDE DEF U
        <3>6. Cardinality(U(T)) < Cardinality(U(X))
            BY <1>8, <3>5, FS_Subset
        <3> QED
            BY <1>8, <3>1, <3>3, <3>6
    <2>3. \A k \in Nat : k \in Growing => k + 1 \in Growing
        <3> HIDE DEF U
        <3> QED
            BY <2>2
    <2> HIDE DEF Growing
    <2> QED
        BY <2>1, <2>3, Induction
<1>11. S \subseteq grow[n]
    BY <1>1, <1>9
<1>12. Closed(R, grow[n])
    <2> HIDE DEF n, U
    <2> QED
        BY <1>1, <1>8, <1>10
<1>13. ASSUME NEW X, S \subseteq X, Closed(R, X) PROVE grow[n] \subseteq X
    <2> DEFINE Inside == {k \in Nat : k <= n => grow[k] \subseteq X}
    <2> HIDE DEF n
    <2>1. 0 \in Inside
        BY <1>7, <1>13
    <2>2. \A k \in Nat : k \in Inside => k + 1 \in Inside
        BY <1>1, <1>7, <1>13 DEF Closed, More
    <2> HIDE DEF Inside
    <2>3. \A k \in Nat : k \in Inside
        BY <2>1, <2>2, Induction
    <2> QED
        BY <1>1, <2>3 DEF Inside
<1> QED
    BY <1>6, <1>11, <1>12, <1>13

(***************************************************************************)
(* The loop shown for a cycle                                              *)
(***************************************************************************)
(* A loop of the edges E that passes no module twice.                      *)
IsLoop(loop, E) ==
    /\ loop \in Seq(E) /\ Len(loop) > 1 /\ Rotates(loop)
    /\ \A i, j \in DOMAIN loop : loop[i].from = loop[j].from => i = j

(* An edge that found each member of D, from the start or from one found   *)
(* before it.                                                              *)
FoundBy(prev, D, start, E) ==
    /\ prev \in [D -> E] /\ start \notin D /\ IsFiniteSet(D)
    /\ \A m \in D : prev[m].to = m /\ prev[m].from \in D \cup {start}
    /\ \E d \in [D -> 1 .. Cardinality(D)] :
        \A m \in D : prev[m].from \in D => d[prev[m].from] < d[m]

(* Going back from the closing edge by the edges that found its end.       *)
LEMMA Unwound ==
    ASSUME NEW E, NEW D, NEW start, NEW prev, FoundBy(prev, D, start, E),
           \A e \in E : e.from # e.to,
           NEW closing \in E, closing.to = start, closing.from \in D
    PROVE  IsLoop(Unwind(prev, closing, start), E)
<1>1. PICK d \in [D -> 1 .. Cardinality(D)] :
        \A m \in D : prev[m].from \in D => d[prev[m].from] < d[m]
    BY DEF FoundBy
<1>2. prev \in [D -> E] /\ start \notin D /\ IsFiniteSet(D)
    BY DEF FoundBy
<1>3. \A m \in D : prev[m].to = m /\ prev[m].from \in D \cup {start}
    BY DEF FoundBy
<1> DEFINE n == Cardinality(D)
           Depth(m) == IF m = start THEN 0 ELSE d[m]
           Paths1 == {path \in Seq(E) : path # << >> /\ \A i \in DOMAIN path : path[i].from \in D \cup {start}}
           Longer(path) == IF path[1].from = start THEN path ELSE <<prev[path[1].from]>> \o path
           step == [k \in 1 .. n |-> [path \in Paths1 |-> Longer(path)]]
           Recurs(b) == b = [k \in 0 .. n |-> IF k = 0 THEN <<closing>> ELSE Longer(b[k - 1])]
           back == CHOOSE b : Recurs(b)
<1>4. n \in Nat
    BY <1>2, FS_CardinalityType
<1>5. \A m \in D \cup {start} : Depth(m) \in 0 .. n
    BY <1>1, <1>2, <1>4
<1>6. ASSUME NEW path \in Paths1 PROVE Longer(path) \in Paths1
    <2>1. CASE path[1].from = start
        BY <2>1
    <2>2. CASE path[1].from # start
        <3>1. PICK e \in E : e = prev[path[1].from] /\ e.from \in D \cup {start}
            BY <1>2, <1>3, <2>2
        <3>2. PICK p : p = <<e>> \o path
            OBVIOUS
        <3>3. /\ p \in Seq(E) /\ p # << >> /\ DOMAIN p = 1 .. Len(path) + 1 /\ p[1] = e
              /\ DOMAIN path = 1 .. Len(path) /\ Len(path) \in Nat
              /\ \A i \in 2 .. Len(path) + 1 : p[i] = path[i - 1]
            BY <3>2
        <3>4. ASSUME NEW i \in DOMAIN p PROVE p[i].from \in D \cup {start}
            <4>1. CASE i = 1
                BY <3>1, <3>3, <4>1
            <4>2. CASE i # 1
                <5>1. i - 1 \in DOMAIN path /\ p[i] = path[i - 1]
                    BY <3>3, <4>2
                <5>2. path[i - 1].from \in D \cup {start}
                    BY <5>1
                <5> QED
                    BY <5>1, <5>2
            <4> QED
                BY <4>1, <4>2
        <3> QED
            BY <2>2, <3>1, <3>2, <3>3, <3>4
    <2> QED
        BY <2>1, <2>2
<1>7. <<closing>> \in Paths1
    OBVIOUS
<1>8. step \in Advances(n, Paths1)
    <2> HIDE DEF n, Paths1, Longer
    <2> QED
        BY <1>6 DEF Advances
<1>9. PICK f \in [0 .. n -> Paths1] : Solves(f, <<closing>>, n, step)
    <2> HIDE DEF n, step, Paths1
    <2> QED
        BY <1>4, <1>7, <1>8, PrimitiveRecursion
<1>10. Recurs(f)
    <2> HIDE DEF n, Paths1, Longer
    <2>1. ASSUME NEW k \in 0 .. n, k # 0 PROVE f[k] = Longer(f[k - 1])
        <3>1. k - 1 \in 0 .. n /\ k \in 1 .. n
            BY <1>4, <2>1
        <3>2. f[k - 1] \in Paths1 /\ f[k] = step[k][f[k - 1]]
            BY <1>9, <3>1 DEF Solves
        <3> QED
            BY <3>1, <3>2
    <2>2. f[0] = <<closing>>
        BY <1>9 DEF Solves
    <2> QED
        BY <1>4, <1>9, <2>1, <2>2
<1>11. Recurs(back)
    <2> HIDE DEF Recurs
    <2> QED
        BY <1>10
<1>12. Unwind(prev, closing, start) = back[n]
    BY <1>2 DEF Unwind
<1> HIDE DEF back
<1>13. back[0] = <<closing>> /\ \A k \in Nat : k + 1 <= n => back[k + 1] = Longer(back[k])
    <2> HIDE DEF n, Longer
    <2>1. back[0] = <<closing>>
        BY <1>4, <1>11
    <2>2. ASSUME NEW k \in Nat, k + 1 <= n PROVE back[k + 1] = Longer(back[k])
        <3>1. PICK j \in 0 .. n : j = k + 1 /\ j # 0 /\ j - 1 = k
            BY <1>4, <2>2
        <3>2. back[j] = Longer(back[j - 1])
            BY <1>11, <3>1
        <3> QED
            BY <3>1, <3>2
    <2> QED
        BY <2>1, <2>2
<1> DEFINE IsPath(path) ==
                /\ path \in Paths1 /\ path[Len(path)].to = start
                /\ \A i \in 1 .. Len(path) - 1 : path[i].to = path[i + 1].from
                /\ \A i, j \in DOMAIN path : i < j => Depth(path[i].from) < Depth(path[j].from)
           Good == {k \in Nat : k <= n => IsPath(back[k]) /\
                        (back[k][1].from = start \/ Depth(back[k][1].from) + k <= n)}
<1>14. 0 \in Good
    <2>1. IsPath(<<closing>>)
        OBVIOUS
    <2>2. Depth(closing.from) + 0 <= n
        BY <1>4, <1>5
    <2> HIDE DEF IsPath, Depth, n
    <2> QED
        BY <1>13, <2>1, <2>2
<1>15. ASSUME NEW path, IsPath(path), path[1].from # start
       PROVE  /\ IsPath(Longer(path))
              /\ Longer(path)[1].from = start \/ Depth(Longer(path)[1].from) < Depth(path[1].from)
    <2>1. PICK e : e = prev[path[1].from]
        OBVIOUS
    <2>2. /\ e \in E /\ e.to = path[1].from /\ e.from \in D \cup {start}
          /\ Depth(e.from) < Depth(path[1].from)
        <3>1. path[1].from \in D
            BY <1>15
        <3> QED
            BY <1>1, <1>2, <1>3, <2>1, <3>1
    <2>3. PICK p : p = <<e>> \o path /\ p = Longer(path)
        BY <1>15, <2>1
    <2>4. path \in Seq(E) /\ path # << >>
        BY <1>15
    <2>5. /\ p \in Seq(E) /\ Len(p) = Len(path) + 1 /\ p[1] = e /\ p # << >> /\ Len(path) \in Nat
          /\ \A i \in 2 .. Len(p) : p[i] = path[i - 1]
        BY <2>2, <2>3, <2>4
    <2>6. p \in Paths1 /\ p[Len(p)].to = start
        <3>1. p \in Paths1
            <4> HIDE DEF Paths1, Longer
            <4> QED
                BY <1>6, <1>15, <2>3
        <3>2. p[Len(p)] = path[Len(path)]
            BY <2>4, <2>5
        <3> HIDE DEF Paths1
        <3> QED
            BY <1>15, <3>1, <3>2
    <2>7. ASSUME NEW i \in 1 .. Len(p) - 1 PROVE p[i].to = p[i + 1].from
        <3>1. CASE i = 1
            BY <2>2, <2>4, <2>5, <3>1
        <3>2. CASE i # 1
            <4>1. i - 1 \in 1 .. Len(path) - 1 /\ i \in 2 .. Len(p) /\ i + 1 \in 2 .. Len(p) /\ i + 1 - 1 = i
                BY <2>5, <3>2
            <4>2. p[i] = path[i - 1] /\ p[i + 1] = path[i]
                BY <2>5, <4>1
            <4>3. path[i - 1].to = path[i - 1 + 1].from /\ i - 1 + 1 = i
                BY <1>15, <4>1
            <4> QED
                BY <4>2, <4>3
        <3> QED
            BY <3>1, <3>2
    <2>8. ASSUME NEW i \in DOMAIN p, NEW j \in DOMAIN p, i < j PROVE Depth(p[i].from) < Depth(p[j].from)
        <3> HIDE DEF Depth
        <3>1. DOMAIN p = 1 .. Len(p) /\ DOMAIN path = 1 .. Len(path) /\ 1 \in DOMAIN path
            BY <2>4, <2>5
        <3>2. j - 1 \in DOMAIN path /\ p[j] = path[j - 1]
            BY <2>5, <2>8, <3>1
        <3>3. \A k \in DOMAIN path : Depth(path[k].from) \in Int
            <4> SUFFICES ASSUME NEW k \in DOMAIN path PROVE path[k].from \in D \cup {start}
                BY <1>5
            <4> QED
                BY <1>15
        <3>6. \A x, y \in DOMAIN path : x < y => Depth(path[x].from) < Depth(path[y].from)
            BY <1>15
        <3> HIDE DEF IsPath, Paths1
        <3>4. CASE i = 1
            <4>1. p[i].from = e.from
                BY <2>5, <3>4
            <4>2. CASE j = 2
                BY <2>2, <3>2, <4>1, <4>2
            <4>3. CASE j # 2
                <5>1. 1 < j - 1
                    BY <2>8, <3>1, <3>2, <3>4, <4>3
                <5>2. Depth(path[1].from) < Depth(path[j - 1].from)
                    BY <3>1, <3>2, <3>6, <5>1
                <5>3. Depth(e.from) \in Int /\ Depth(path[1].from) \in Int /\ Depth(path[j - 1].from) \in Int
                    BY <1>4, <1>5, <2>2, <3>1, <3>2, <3>3
                <5> QED
                    BY <2>2, <3>2, <4>1, <5>2, <5>3
            <4> QED
                BY <4>2, <4>3
        <3>5. CASE i # 1
            <4>1. i - 1 \in DOMAIN path /\ p[i] = path[i - 1] /\ i - 1 < j - 1
                BY <2>5, <2>8, <3>1, <3>5
            <4>2. Depth(path[i - 1].from) < Depth(path[j - 1].from)
                BY <3>2, <3>6, <4>1
            <4> QED
                BY <3>2, <4>1, <4>2
        <3> QED
            BY <3>4, <3>5
    <2> HIDE DEF Paths1, Depth
    <2>9. IsPath(p)
        BY <2>6, <2>7, <2>8
    <2> HIDE DEF IsPath, Longer
    <2> QED
        BY <2>2, <2>3, <2>5, <2>9
<1>16. \A k \in Nat : k \in Good => k + 1 \in Good
    <2> HIDE DEF IsPath, Longer, n
    <2>1. ASSUME NEW k \in Nat, k \in Good, k + 1 <= n PROVE k + 1 \in Good
        <3>1. PICK p, q : p = back[k] /\ q = back[k + 1] /\ q = Longer(p)
            BY <1>13, <2>1
        <3>2. IsPath(p) /\ (p[1].from = start \/ Depth(p[1].from) + k <= n)
            BY <1>4, <2>1, <3>1
        <3>3. CASE p[1].from = start
            <4>1. back[k + 1] = p
                BY <3>1, <3>3 DEF Longer
            <4> HIDE DEF Depth
            <4> QED
                BY <3>2, <3>3, <4>1
        <3>4. CASE p[1].from # start
            <4>1. IsPath(q) /\ (q[1].from = start \/ Depth(q[1].from) < Depth(p[1].from))
                BY <1>15, <3>1, <3>2, <3>4
            <4>2. p[1].from \in D \cup {start} /\ q[1].from \in D \cup {start}
                BY <3>2, <4>1 DEF IsPath
            <4>3. Depth(p[1].from) \in Int /\ Depth(q[1].from) \in Int
                BY <1>4, <1>5, <4>2
            <4> HIDE DEF Depth
            <4>4. q[1].from = start \/ Depth(q[1].from) + (k + 1) <= n
                BY <1>4, <3>2, <3>4, <4>1, <4>3
            <4>5. IsPath(back[k + 1]) /\ (back[k + 1][1].from = start \/ Depth(back[k + 1][1].from) + (k + 1) <= n)
                BY <3>1, <4>1, <4>4
            <4> QED
                BY <4>5
        <3> QED
            BY <3>3, <3>4
    <2> QED
        BY <2>1
<1>17. n \in Good
    <2> HIDE DEF Good, n
    <2>1. \A k \in Nat : k \in Good
        BY <1>14, <1>16, Induction
    <2> QED
        BY <1>4, <2>1
<1>18. PICK loop : loop = Unwind(prev, closing, start)
    OBVIOUS
<1>19. IsPath(loop) /\ (loop[1].from = start \/ Depth(loop[1].from) + n <= n)
    <2> HIDE DEF IsPath, Depth, n
    <2> QED
        BY <1>4, <1>12, <1>17, <1>18
<1>20. loop[1].from = start
    <2>1. loop[1].from \in D \cup {start}
        BY <1>19
    <2>2. loop[1].from \in D => Depth(loop[1].from) > 0
        BY <1>1, <1>2, <1>4
    <2> HIDE DEF Depth, IsPath, n
    <2> QED
        BY <1>4, <1>5, <1>19, <2>1, <2>2
<1>21. loop \in Seq(E) /\ Len(loop) \in Nat \ {0} /\ DOMAIN loop = 1 .. Len(loop) /\ loop[Len(loop)].to = start
    BY <1>19
<1>22. Rotates(loop)
    <2> SUFFICES ASSUME NEW i \in 1 .. Len(loop)
                 PROVE  loop[i].to = loop[IF i = Len(loop) THEN 1 ELSE i + 1].from
        BY <1>21 DEF Rotates
    <2>1. CASE i = Len(loop)
        BY <1>20, <1>21, <2>1
    <2>2. CASE i # Len(loop)
        <3>1. i \in 1 .. Len(loop) - 1
            BY <1>21, <2>2
        <3>2. \A k \in 1 .. Len(loop) - 1 : loop[k].to = loop[k + 1].from
            BY <1>19
        <3> QED
            BY <2>2, <3>1, <3>2
    <2> QED
        BY <2>1, <2>2
<1>23. \A i, j \in DOMAIN loop : loop[i].from = loop[j].from => i = j
    <2>1. \A i, j \in DOMAIN loop : i < j => Depth(loop[i].from) < Depth(loop[j].from)
        BY <1>19
    <2>2. \A i \in DOMAIN loop : Depth(loop[i].from) \in Int
        <3>1. \A i \in DOMAIN loop : loop[i].from \in D \cup {start}
            BY <1>19
        <3> HIDE DEF Depth
        <3> QED
            BY <1>4, <1>5, <3>1
    <2> HIDE DEF Depth, IsPath, n
    <2>3. ASSUME NEW i \in DOMAIN loop, NEW j \in DOMAIN loop, loop[i].from = loop[j].from PROVE i = j
        <3>1. ~(i < j) /\ ~(j < i)
            BY <2>1, <2>2, <2>3
        <3> QED
            BY <1>21, <3>1
    <2> QED
        BY <2>3
<1>24. Len(loop) > 1
    <2>1. loop[Len(loop)] \in E
        BY <1>21
    <2>2. loop[Len(loop)].from # start
        BY <1>21, <2>1
    <2> QED
        BY <1>20, <1>21, <2>2
<1> QED
    BY <1>18, <1>21, <1>22, <1>23, <1>24 DEF IsLoop

(* The states of a search from the start among the modules C by their      *)
(* edges E, which has found h.                                             *)
Searches(start, C, E, h) ==
    {b \in [queue : Seq(C), prev : UNION {[D -> E] : D \in SUBSET C}, loop : Seq(E)] :
        /\ FoundBy(b.prev, DOMAIN b.prev, start, E)
        /\ h \in {start} \cup DOMAIN b.prev
        /\ ToSet(b.queue) \subseteq {start} \cup DOMAIN b.prev
        /\ \A i, j \in DOMAIN b.queue : b.queue[i] = b.queue[j] => i = j
        /\ b.loop = <<>> \/ IsLoop(b.loop, E)}

(* The modules whose edges it has followed.                                *)
Visited(start, b) == ({start} \cup DOMAIN b.prev) \ ToSet(b.queue)

(* A search that was b has come to c, and found a set of modules unless    *)
(* there is a loop to show.                                                *)
Carries(start, C, E, h, b, c, found) ==
    /\ c \in Searches(start, C, E, h)
    /\ DOMAIN b.prev \subseteq DOMAIN c.prev /\ Visited(start, c) = Visited(start, b)
    /\ c.loop = <<>> => b.loop = <<>> /\ found \subseteq DOMAIN c.prev

(* An edge finds a module that was not.                                    *)
LEMMA FoundMore ==
    ASSUME NEW E, NEW D, NEW start, NEW prev, FoundBy(prev, D, start, E),
           NEW e \in E, e.to \notin D, e.to # start, e.from \in D \cup {start}, e.from # e.to,
           NEW prev2, prev2 = [n \in D \cup {e.to} |-> IF n = e.to THEN e ELSE prev[n]]
    PROVE  FoundBy(prev2, D \cup {e.to}, start, E)
<1>1. PICK m, X : m = e.to /\ X = D \cup {m}
    OBVIOUS
<1>2. prev \in [D -> E] /\ IsFiniteSet(D) /\ \A x \in D : prev[x].to = x /\ prev[x].from \in D \cup {start}
    BY DEF FoundBy
<1>3. PICK d \in [D -> 1 .. Cardinality(D)] : \A x \in D : prev[x].from \in D => d[prev[x].from] < d[x]
    BY DEF FoundBy
<1>4. IsFiniteSet(X) /\ Cardinality(X) = Cardinality(D) + 1 /\ Cardinality(D) \in Nat
    BY <1>1, <1>2, FS_AddElement, FS_CardinalityType
<1>5. prev2 \in [X -> E] /\ prev2[m] = e /\ \A x \in D : prev2[x] = prev[x]
    BY <1>1, <1>2
<1>6. start \notin X /\ \A x \in X : prev2[x].to = x /\ prev2[x].from \in X \cup {start}
    <2>1. start \notin X
        BY <1>1 DEF FoundBy
    <2>2. prev2[m].to = m /\ prev2[m].from \in X \cup {start}
        BY <1>1, <1>5
    <2>3. \A x \in D : prev2[x].to = x /\ prev2[x].from \in X \cup {start}
        BY <1>1, <1>2, <1>5
    <2> QED
        BY <1>1, <2>1, <2>2, <2>3
<1> DEFINE depth == [x \in X |-> IF x = m THEN Cardinality(D) + 1 ELSE d[x]]
<1>7. depth \in [X -> 1 .. Cardinality(X)]
    BY <1>1, <1>3, <1>4
<1>8. ASSUME NEW x \in X, prev2[x].from \in X PROVE depth[prev2[x].from] < depth[x]
    <2>1. CASE x = m
        <3>1. prev2[x].from \in D
            BY <1>1, <1>5, <1>8, <2>1
        <3>2. d[prev2[x].from] \in 1 .. Cardinality(D)
            BY <1>3, <3>1
        <3> QED
            BY <1>1, <1>4, <2>1, <3>1, <3>2
    <2>2. CASE x # m
        <3>1. x \in D /\ prev2[x] = prev[x]
            BY <1>1, <1>5, <2>2
        <3>2. prev[x].from \in D
            <4>1. prev[x].from \in D \cup {start}
                BY <1>2, <3>1
            <4> QED
                BY <1>6, <1>8, <3>1, <4>1
        <3>3. d[prev[x].from] < d[x]
            BY <1>3, <3>1, <3>2
        <3> QED
            BY <1>1, <3>1, <3>2, <3>3
    <2> QED
        BY <2>1, <2>2
<1> HIDE DEF depth
<1> QED
    BY <1>1, <1>4, <1>5, <1>6, <1>7, <1>8 DEF FoundBy

(* Following an edge of a module that was found.                           *)
LEMMA Followed ==
    ASSUME NEW C, NEW E, NEW start \in C, \A x \in E : x.from # x.to /\ x.to \in C, NEW h,
           NEW b \in Searches(start, C, E, h), NEW e \in E, e.from = h
    PROVE  Carries(start, C, E, h, b, Follow(start, b, e), {e.to})
<1> SUFFICES ASSUME NEW c, c = Follow(start, b, e)
             PROVE  /\ c \in Searches(start, C, E, h)
                    /\ DOMAIN b.prev \subseteq DOMAIN c.prev /\ Visited(start, c) = Visited(start, b)
                    /\ c.loop = <<>> => b.loop = <<>> /\ e.to \in DOMAIN c.prev
    BY DEF Carries
<1>1. PICK D : D = DOMAIN b.prev
    OBVIOUS
<1>2. /\ b \in [queue : Seq(C), prev : UNION {[X -> E] : X \in SUBSET C}, loop : Seq(E)]
      /\ FoundBy(b.prev, D, start, E) /\ D \subseteq C
      /\ h \in {start} \cup D /\ ToSet(b.queue) \subseteq {start} \cup D
      /\ \A i, j \in DOMAIN b.queue : b.queue[i] = b.queue[j] => i = j
      /\ b.loop = <<>> \/ IsLoop(b.loop, E)
    BY <1>1 DEF Searches
<1>3. CASE b.loop # <<>>
    <2>1. c = b
        BY <1>3 DEF Follow
    <2> QED
        BY <1>3, <2>1
<1>4. CASE b.loop = <<>> /\ e.to = start
    <2>1. PICK loop : loop = Unwind(b.prev, e, start)
        OBVIOUS
    <2>2. c = [b EXCEPT !.loop = loop]
        BY <1>4, <2>1 DEF Follow
    <2>3. e.from \in D
        BY <1>2, <1>4
    <2>4. IsLoop(loop, E)
        BY <1>2, <1>4, <2>1, <2>3, Unwound
    <2>5. loop \in Seq(E) /\ loop # <<>>
        BY <2>4 DEF IsLoop
    <2>6. c.queue = b.queue /\ c.prev = b.prev /\ c.loop = loop
          /\ c \in [queue : Seq(C), prev : UNION {[X -> E] : X \in SUBSET C}, loop : Seq(E)]
        BY <1>2, <2>2, <2>5
    <2>7. c \in Searches(start, C, E, h)
        BY <1>1, <1>2, <2>4, <2>6 DEF Searches
    <2> QED
        BY <2>5, <2>6, <2>7 DEF Visited
<1>5. CASE b.loop = <<>> /\ e.to # start /\ e.to \in D
    <2>1. c = b
        BY <1>1, <1>5 DEF Follow
    <2> QED
        BY <1>1, <1>5, <2>1
<1>6. CASE b.loop = <<>> /\ e.to # start /\ e.to \notin D
    <2>1. PICK m, q, p : m = e.to /\ q = Append(b.queue, m)
                         /\ p = [n \in D \cup {m} |-> IF n = m THEN e ELSE b.prev[n]]
        OBVIOUS
    <2>2. c = [b EXCEPT !.queue = q, !.prev = p]
        BY <1>1, <1>6, <2>1 DEF Follow
    <2>3. FoundBy(p, D \cup {m}, start, E)
        BY <1>2, <1>6, <2>1, FoundMore
    <2>4. p \in [D \cup {m} -> E] /\ DOMAIN p = D \cup {m} /\ D \cup {m} \in SUBSET C
        BY <1>2, <2>1, <2>3 DEF FoundBy
    <2>5. q \in Seq(C) /\ Len(q) = Len(b.queue) + 1 /\ Len(b.queue) \in Nat /\ q[Len(q)] = m
          /\ \A i \in 1 .. Len(b.queue) : q[i] = b.queue[i]
        BY <1>2, <2>1, <2>4
    <2>6. DOMAIN q = 1 .. Len(b.queue) + 1 /\ DOMAIN b.queue = 1 .. Len(b.queue)
        BY <1>2, <2>5
    <2>7. ToSet(q) = ToSet(b.queue) \cup {m}
        <3>1. ASSUME NEW i \in DOMAIN q PROVE q[i] \in ToSet(b.queue) \cup {m}
            <4>1. CASE i = Len(q)
                BY <2>5, <4>1
            <4>2. CASE i # Len(q)
                BY <2>5, <2>6, <4>2 DEF ToSet
            <4> QED
                BY <4>1, <4>2
        <3>2. m \in ToSet(q) /\ \A i \in DOMAIN b.queue : b.queue[i] \in ToSet(q)
            BY <2>5, <2>6 DEF ToSet
        <3> QED
            BY <3>1, <3>2 DEF ToSet
    <2>8. \A i, j \in DOMAIN q : q[i] = q[j] => i = j
        <3>1. \A i \in DOMAIN b.queue : b.queue[i] # m
            BY <1>2, <1>6, <2>1 DEF ToSet
        <3>2. ASSUME NEW i \in DOMAIN q, NEW j \in DOMAIN q, q[i] = q[j] PROVE i = j
            <4>1. CASE i = Len(q) \/ j = Len(q)
                BY <2>5, <2>6, <3>1, <3>2, <4>1
            <4>2. CASE i # Len(q) /\ j # Len(q)
                BY <1>2, <2>5, <2>6, <3>2, <4>2
            <4> QED
                BY <4>1, <4>2
        <3> QED
            BY <3>2
    <2>9. c.queue = q /\ c.prev = p /\ c.loop = b.loop
          /\ c \in [queue : Seq(C), prev : UNION {[X -> E] : X \in SUBSET C}, loop : Seq(E)]
        <3>1. PICK V : V = UNION {[X -> E] : X \in SUBSET C}
            OBVIOUS
        <3>2. p \in V
            BY <2>4, <3>1
        <3>3. b \in [queue : Seq(C), prev : V, loop : Seq(E)]
            BY <1>2, <3>1
        <3>4. c.queue = q /\ c.prev = p /\ c.loop = b.loop /\ c \in [queue : Seq(C), prev : V, loop : Seq(E)]
            BY <2>2, <2>5, <3>2, <3>3
        <3> QED
            BY <3>1, <3>4
    <2>10. c \in Searches(start, C, E, h)
        BY <1>2, <2>3, <2>4, <2>7, <2>8, <2>9 DEF Searches
    <2>11. Visited(start, c) = Visited(start, b)
        BY <1>1, <1>2, <1>6, <2>1, <2>4, <2>7, <2>9 DEF Visited
    <2> QED
        BY <1>1, <1>6, <2>1, <2>4, <2>9, <2>10, <2>11
<1> QED
    BY <1>3, <1>4, <1>5, <1>6

(* Following all the edges of a module that was found.                     *)
LEMMA FollowedAll ==
    ASSUME NEW C, NEW E, NEW start \in C, \A x \in E : x.from # x.to /\ x.to \in C, NEW h,
           NEW b \in Searches(start, C, E, h), NEW edges \in Seq(E), \A x \in ToSet(edges) : x.from = h
    PROVE  Carries(start, C, E, h, b, FollowAll(start, b, edges), {x.to : x \in ToSet(edges)})
<1> DEFINE n == Len(edges)
           W == Searches(start, C, E, h)
           step == [k \in 1 .. n |-> [a \in W |-> Follow(start, a, edges[k])]]
           Iterates(it) == it = [S \in SUBSET DOMAIN edges |->
                                    IF S = {} THEN b
                                    ELSE Follow(start, it[S \ {Max(S)}], edges[Max(S)])]
           it == CHOOSE it : Iterates(it)
           Grown(k, a) == Carries(start, C, E, h, b, a, {edges[i].to : i \in 1 .. k})
           T == {k \in Nat : k <= n => Grown(k, it[1 .. k])}
<1>1. n \in Nat /\ DOMAIN edges = 1 .. n /\ \A k \in 1 .. n : edges[k] \in E /\ edges[k].from = h
    BY DEF ToSet
<1>2. \A k \in 1 .. n : \A a \in W : Follow(start, a, edges[k]) \in W
    <2> HIDE DEF n
    <2> TAKE k \in 1 .. n
    <2> TAKE a \in W
    <2>1. edges[k] \in E /\ edges[k].from = h
        BY <1>1
    <2> QED
        BY <2>1, Followed DEF Carries
<1>3. step \in Advances(n, W)
    <2> HIDE DEF n, W
    <2> QED
        BY <1>2 DEF Advances
<1>4. \E f : Iterates(f)
    <2>1. PICK f \in [SUBSET (1 .. n) -> W] : Folds(f, b, n, step)
        <3> HIDE DEF step, n
        <3> QED
            BY <1>1, <1>3, Folding
    <2>2. ASSUME NEW S \in SUBSET (1 .. n), S # {}
          PROVE  f[S] = Follow(start, f[S \ {Max(S)}], edges[Max(S)])
        <3>1. Max(S) \in 1 .. n
            BY <1>1, <2>2, Greatest
        <3>2. f[S \ {Max(S)}] \in W
            OBVIOUS
        <3>3. f[S] = step[Max(S)][f[S \ {Max(S)}]]
            BY <2>1, <2>2 DEF Folds
        <3> HIDE DEF W, n
        <3> QED
            BY <3>1, <3>2, <3>3
    <2>3. f[{}] = b
        BY <2>1 DEF Folds
    <2>4. Iterates(f)
        <3> HIDE DEF n, step, W
        <3> QED
            BY <1>1, <2>2, <2>3
    <2> QED
        BY <2>4
<1>5. Iterates(it)
    BY <1>4
<1>6. FollowAll(start, b, edges) = it[DOMAIN edges]
    BY DEF FollowAll, FoldLeft, MapThenFoldSet
<1> HIDE DEF step, n, it
<1>7. 0 \in T
    <2>1. 1 .. 0 = {}
        OBVIOUS
    <2>2. it[{}] = b
        BY <1>5
    <2>3. Grown(0, b)
        BY DEF Carries
    <2> HIDE DEF Grown
    <2> QED
        BY <2>1, <2>2, <2>3
<1>8. ASSUME NEW k \in Nat, k \in T, k + 1 <= n PROVE k + 1 \in T
    <2>1. Max(1 .. k + 1) = k + 1 /\ (1 .. k + 1) \ {k + 1} = 1 .. k /\ 1 .. k + 1 # {}
        BY Initial
    <2>2. 1 .. k + 1 \in SUBSET DOMAIN edges
        BY <1>1, <1>8
    <2>9. it[1 .. k + 1] = Follow(start, it[1 .. k], edges[k + 1])
        BY <1>5, <2>1, <2>2
    <2>3. PICK a, e, x : a = it[1 .. k] /\ e = edges[k + 1] /\ x = it[1 .. k + 1] /\ x = Follow(start, a, e)
        BY <2>9
    <2>4. Grown(k, a)
        <3> HIDE DEF Grown
        <3> QED
            BY <1>1, <1>8, <2>3
    <2>5. e \in E /\ e.from = h
        BY <1>1, <1>8, <2>3
    <2>6. Carries(start, C, E, h, a, x, {e.to})
        <3>1. a \in Searches(start, C, E, h)
            BY <2>4 DEF Carries
        <3> QED
            BY <2>3, <2>5, <3>1, Followed
    <2>7. {edges[i].to : i \in 1 .. k + 1} = {edges[i].to : i \in 1 .. k} \cup {e.to}
        <3>1. 1 .. k + 1 = (1 .. k) \cup {k + 1}
            BY <1>8
        <3> QED
            BY <2>3, <3>1
    <2>8. Grown(k + 1, x)
        BY <2>4, <2>6, <2>7 DEF Carries
    <2>10. Grown(k + 1, it[1 .. k + 1]) /\ k + 1 \in Nat
        BY <2>3, <2>8
    <2> HIDE DEF Grown
    <2> QED
        BY <2>10
<1>9. n \in T
    <2> HIDE DEF T
    <2>1. \A k \in Nat : k \in T => k + 1 \in T
        <3> SUFFICES ASSUME NEW k \in Nat, k \in T, ~(k + 1 <= n) PROVE k + 1 \in T
            BY <1>8
        <3> QED
            BY DEF T
    <2> QED
        BY <1>1, <1>7, <2>1, Induction
<1>10. {edges[i].to : i \in 1 .. n} = {x.to : x \in ToSet(edges)}
    BY <1>1 DEF ToSet
<1>11. Grown(n, it[1 .. n])
    <2> HIDE DEF Grown
    <2> QED
        BY <1>1, <1>9
<1> QED
    BY <1>1, <1>6, <1>10, <1>11

(* The edges of cycles among the modules C.                                *)
EdgesWithin(g, C, phases) == {e \in ToSet(CycleEdges(g, phases)) : e.from \in C /\ e.to \in C}

LEMMA CycleEdgesAre ==
    ASSUME NEW g, IsList(g.edges), NEW phases
    PROVE  /\ CycleEdges(g, phases) \in Seq(ToSet(g.edges))
           /\ ToSet(CycleEdges(g, phases)) = {e \in ToSet(g.edges) : IsCycleEdge(e, phases)}
<1>1. PICK list, L, W : list = g.edges /\ L = ToSet(g.edges) /\ W = {e \in L : IsCycleEdge(e, phases)}
    OBVIOUS
<1>2. list \in Seq(L) /\ CycleEdges(g, phases) = Those(list, W)
    BY <1>1 DEF IsList, CycleEdges
<1>3. Those(list, W) \in Seq(W) /\ ToSet(Those(list, W)) = ToSet(list) \cap W
    BY <1>2, ThoseKept
<1>4. W \subseteq L /\ ToSet(list) \cap W = W
    BY <1>1
<1>5. Those(list, W) \in Seq(L)
    BY <1>3, <1>4, SeqMonotonic
<1> QED
    BY <1>1, <1>2, <1>3, <1>4, <1>5

LEMMA SearchEdgesAre ==
    ASSUME NEW g, IsList(g.edges), NEW C, NEW phases, NEW n \in C
    PROVE  /\ SearchEdges(g, C, phases, n) \in Seq(EdgesWithin(g, C, phases))
           /\ ToSet(SearchEdges(g, C, phases, n)) = {e \in EdgesWithin(g, C, phases) : e.from = n}
<1>1. PICK list, L : list = CycleEdges(g, phases) /\ L = ToSet(list)
    OBVIOUS
<1>2. list \in Seq(L)
    <2>1. PICK M : M = ToSet(g.edges)
        OBVIOUS
    <2>2. list \in Seq(M)
        BY <1>1, <2>1, CycleEdgesAre
    <2>3. Len(list) \in Nat /\ list \in [1 .. Len(list) -> M]
        BY <2>2
    <2>4. list \in [1 .. Len(list) -> L]
        BY <1>1, <2>3 DEF ToSet
    <2> QED
        BY <2>3, <2>4
<1>3. PICK back, W : back = Reverse(list) /\ W = {e \in L : e.from = n /\ e.to \in C}
    OBVIOUS
<1>4. back \in Seq(L) /\ ToSet(back) = L
    <2>1. Len(list) \in Nat /\ DOMAIN list = 1 .. Len(list) /\ \A i \in 1 .. Len(list) : list[i] \in L
        BY <1>2
    <2>2. back = [i \in 1 .. Len(list) |-> list[(Len(list) - i) + 1]]
        BY <1>3 DEF Reverse
    <2>3. back \in Seq(L)
        BY <2>1, <2>2
    <2>4. \A x \in L : \E i \in 1 .. Len(list) : back[i] = x
        <3> TAKE x \in L
        <3>1. PICK j \in 1 .. Len(list) : list[j] = x
            BY <1>1, <2>1 DEF ToSet
        <3>2. Len(list) - j + 1 \in 1 .. Len(list) /\ (Len(list) - (Len(list) - j + 1)) + 1 = j
            BY <2>1
        <3> WITNESS Len(list) - j + 1 \in 1 .. Len(list)
        <3> QED
            BY <2>2, <3>1, <3>2
    <2>5. DOMAIN back = 1 .. Len(list)
        BY <2>2
    <2>6. \A i \in DOMAIN back : back[i] \in L
        BY <2>3
    <2>7. ToSet(back) = {back[i] : i \in DOMAIN back}
        BY DEF ToSet
    <2>8. ToSet(back) = L
        BY <2>4, <2>5, <2>6, <2>7
    <2> QED
        BY <2>3, <2>8
<1>5. SearchEdges(g, C, phases, n) = Those(back, W)
    BY <1>1, <1>3 DEF SearchEdges
<1>6. Those(back, W) \in Seq(W) /\ ToSet(Those(back, W)) = L \cap W
    BY <1>4, ThoseKept
<1>7. PICK E : E = EdgesWithin(g, C, phases)
    OBVIOUS
<1>8. W \subseteq E /\ L \cap W = {e \in E : e.from = n}
    BY <1>1, <1>3, <1>7 DEF EdgesWithin
<1>9. Those(back, W) \in Seq(E)
    BY <1>6, <1>8, SeqMonotonic
<1> QED
    BY <1>5, <1>6, <1>7, <1>8, <1>9

(* Taking the next module found and following its edges.                   *)
LEMMA Visiting ==
    ASSUME NEW g, IsList(g.edges), NEW C, NEW phases, Start(C) \in C,
           NEW b \in Searches(Start(C), C, EdgesWithin(g, C, phases), Start(C)), b.queue # <<>>
    PROVE  \E c :
            /\ c = Visit(g, C, phases, b) /\ c \in Searches(Start(C), C, EdgesWithin(g, C, phases), Start(C))
            /\ DOMAIN b.prev \subseteq DOMAIN c.prev
            /\ Visited(Start(C), c) = Visited(Start(C), b) \cup {Head(b.queue)}
            /\ Head(b.queue) \in C \ Visited(Start(C), b)
            /\ c.loop = <<>> => \A e \in EdgesWithin(g, C, phases) : e.from = Head(b.queue) => e.to \in DOMAIN c.prev
<1>1. PICK start, E, h, rest : start = Start(C) /\ E = EdgesWithin(g, C, phases) /\ h = Head(b.queue) /\ rest = Tail(b.queue)
    OBVIOUS
<1>2. PICK b0 : b0 = [b EXCEPT !.queue = rest]
    OBVIOUS
<1>3. /\ b \in [queue : Seq(C), prev : UNION {[D -> E] : D \in SUBSET C}, loop : Seq(E)]
      /\ FoundBy(b.prev, DOMAIN b.prev, start, E)
      /\ ToSet(b.queue) \subseteq {start} \cup DOMAIN b.prev
      /\ \A i, j \in DOMAIN b.queue : b.queue[i] = b.queue[j] => i = j
      /\ b.loop = <<>> \/ IsLoop(b.loop, E)
    BY <1>1 DEF Searches
<1>4. /\ Len(b.queue) \in Nat \ {0} /\ rest \in Seq(C) /\ Len(rest) = Len(b.queue) - 1
      /\ \A i \in 1 .. Len(rest) : rest[i] = b.queue[i + 1] /\ i + 1 \in DOMAIN b.queue
      /\ h = b.queue[1] /\ h \in C /\ 1 \in DOMAIN b.queue /\ DOMAIN rest = 1 .. Len(rest)
      /\ DOMAIN b.queue = 1 .. Len(b.queue)
    BY <1>1, <1>3
<1>5. ToSet(b.queue) = ToSet(rest) \cup {h} /\ h \notin ToSet(rest)
    <2>1. \A i \in DOMAIN rest : rest[i] \in ToSet(b.queue) /\ rest[i] # h
        <3> TAKE i \in DOMAIN rest
        <3>1. i + 1 \in DOMAIN b.queue /\ rest[i] = b.queue[i + 1] /\ i + 1 # 1
            BY <1>4
        <3> QED
            BY <1>3, <1>4, <3>1 DEF ToSet
    <2>2. ASSUME NEW i \in DOMAIN b.queue, i # 1 PROVE b.queue[i] \in ToSet(rest)
        <3>1. i - 1 \in DOMAIN rest /\ rest[i - 1] = b.queue[i]
            BY <1>4, <2>2
        <3> QED
            BY <3>1 DEF ToSet
    <2>3. \A x \in ToSet(rest) : x \in ToSet(b.queue) /\ x # h
        BY <2>1 DEF ToSet
    <2>4. \A x \in ToSet(b.queue) : x = h \/ x \in ToSet(rest)
        BY <1>4, <2>2 DEF ToSet
    <2>5. h \in ToSet(b.queue)
        BY <1>4 DEF ToSet
    <2> QED
        BY <2>3, <2>4, <2>5
<1>6. b0 \in [queue : Seq(C), prev : UNION {[D -> E] : D \in SUBSET C}, loop : Seq(E)]
      /\ b0.queue = rest /\ b0.prev = b.prev /\ b0.loop = b.loop
    <2>1. PICK V : V = UNION {[D -> E] : D \in SUBSET C}
        OBVIOUS
    <2> QED
        BY <1>2, <1>3, <1>4, <2>1
<1>7. \A i, j \in DOMAIN rest : rest[i] = rest[j] => i = j
    <2> TAKE i, j \in DOMAIN rest
    <2>1. i + 1 \in DOMAIN b.queue /\ j + 1 \in DOMAIN b.queue /\ rest[i] = b.queue[i + 1] /\ rest[j] = b.queue[j + 1]
        BY <1>4
    <2>2. b.queue[i + 1] = b.queue[j + 1] => i + 1 = j + 1
        BY <1>3, <2>1
    <2> QED
        BY <1>4, <2>1, <2>2
<1>8. b0 \in Searches(start, C, E, h)
    <2>1. h \in {start} \cup DOMAIN b.prev /\ ToSet(rest) \subseteq {start} \cup DOMAIN b.prev
        BY <1>3, <1>5
    <2> QED
        BY <1>3, <1>6, <1>7, <2>1 DEF Searches
<1>9. Visited(start, b0) = Visited(start, b) \cup {h} /\ h \notin Visited(start, b)
    BY <1>3, <1>5, <1>6 DEF Visited
<1>10. PICK edges : edges = SearchEdges(g, C, phases, h)
    OBVIOUS
<1>11. edges \in Seq(E) /\ ToSet(edges) = {e \in E : e.from = h}
    BY <1>1, <1>4, <1>10, SearchEdgesAre
<1>12. \A x \in E : x.from # x.to /\ x.to \in C
    BY <1>1, CycleEdgesAre DEF EdgesWithin, IsCycleEdge
<1>13. PICK c : c = FollowAll(start, b0, edges)
    OBVIOUS
<1>14. Carries(start, C, E, h, b0, c, {x.to : x \in ToSet(edges)})
    <2>1. \A x \in ToSet(edges) : x.from = h
        BY <1>11
    <2>2. start \in C
        BY <1>1
    <2> QED
        BY <1>8, <1>11, <1>12, <1>13, <2>1, <2>2, FollowedAll
<1>15. c = Visit(g, C, phases, b)
    BY <1>1, <1>2, <1>10, <1>13 DEF Visit
<1>16. c \in Searches(start, C, E, start)
    BY <1>14 DEF Carries, Searches
<1>17. c.loop = <<>> => \A e \in E : e.from = h => e.to \in DOMAIN c.prev
    BY <1>11, <1>14 DEF Carries
<1> QED
    BY <1>1, <1>4, <1>6, <1>9, <1>14, <1>15, <1>16, <1>17 DEF Carries

(* No module of C keeps the others out of its reach by the edges E.        *)
Together(C, E) == \A X \in SUBSET C : X # {} /\ (\A e \in E : e.from \in X => e.to \in X) => X = C

(* The search shows a loop of modules that reach each other.               *)
LEMMA LoopShown ==
    ASSUME NEW g, IsList(g.edges), NEW C, IsFiniteSet(C), NEW phases, Start(C) \in C,
           NEW other \in C, other # Start(C), Together(C, EdgesWithin(g, C, phases))
    PROVE  IsLoop(ShortestCycle(g, C, phases), EdgesWithin(g, C, phases))
<1> DEFINE n == Cardinality(C)
           start == Start(C)
           E == EdgesWithin(g, C, phases)
           W == Searches(start, C, E, start)
           first == [queue |-> <<start>>, prev |-> [m \in {} |-> m], loop |-> <<>>]
           Further(b) == IF b.loop # <<>> \/ b.queue = <<>> THEN b ELSE Visit(g, C, phases, b)
           step == [k \in 1 .. n |-> [b \in W |-> Further(b)]]
           Recurs(f) == f = [k \in 0 .. n |-> IF k = 0 THEN first ELSE Further(f[k - 1])]
           bfs == CHOOSE f : Recurs(f)
           Sound(b, k) ==
                /\ b \in W
                /\ b.loop = <<>> =>
                    /\ \A e \in E : e.from \in Visited(start, b) => e.to \in DOMAIN b.prev
                    /\ b.queue # <<>> => Cardinality(Visited(start, b)) = k
           T == {k \in Nat : k <= n => Sound(bfs[k], k)}
<1>1. n \in Nat
    BY FS_CardinalityType
<1>2. first \in W /\ Visited(start, first) = {}
    <2>1. first.queue = <<start>> /\ first.loop = <<>> /\ DOMAIN first.prev = {} /\ first.prev \in [{} -> E]
        OBVIOUS
    <2>2. ToSet(<<start>>) = {start}
        BY DEF ToSet
    <2>3. first \in [queue : Seq(C), prev : UNION {[D -> E] : D \in SUBSET C}, loop : Seq(E)]
        <3>1. PICK V : V = UNION {[D -> E] : D \in SUBSET C}
            OBVIOUS
        <3>2. first.prev \in V
            BY <2>1, <3>1
        <3> HIDE DEF E
        <3>3. <<start>> \in Seq(C) /\ <<>> \in Seq(E)
            OBVIOUS
        <3> QED
            BY <3>1, <3>2, <3>3
    <2>4. FoundBy(first.prev, {}, start, E)
        <3>1. IsFiniteSet({}) /\ Cardinality({}) = 0
            BY FS_EmptySet
        <3>2. [m \in {} |-> 1] \in [{} -> 1 .. Cardinality({})]
            OBVIOUS
        <3> QED
            BY <2>1, <3>1, <3>2 DEF FoundBy
    <2> HIDE DEF first
    <2> QED
        BY <2>1, <2>2, <2>3, <2>4 DEF Searches, Visited
<1>3. ASSUME NEW k \in Nat, NEW b, Sound(b, k) PROVE Sound(Further(b), k + 1)
    <2>1. CASE b.loop # <<>> \/ b.queue = <<>>
        BY <1>3, <2>1
    <2>2. CASE b.loop = <<>> /\ b.queue # <<>>
        <3>1. b \in W
            BY <1>3
        <3>2. PICK c :
                /\ c = Visit(g, C, phases, b) /\ c \in W /\ DOMAIN b.prev \subseteq DOMAIN c.prev
                /\ Visited(start, c) = Visited(start, b) \cup {Head(b.queue)}
                /\ Head(b.queue) \in C \ Visited(start, b)
                /\ c.loop = <<>> => \A e \in E : e.from = Head(b.queue) => e.to \in DOMAIN c.prev
            BY <2>2, <3>1, Visiting
        <3>3. c = Further(b)
            BY <2>2, <3>2
        <3> HIDE DEF Further, E, W
        <3>4. ASSUME c.loop = <<>>, NEW e \in E, e.from \in Visited(start, c) PROVE e.to \in DOMAIN c.prev
            BY <1>3, <2>2, <3>2, <3>4
        <3>5. Cardinality(Visited(start, c)) = k + 1
            <4>1. Visited(start, b) \subseteq C
                BY <3>1 DEF Visited, Searches, W
            <4>2. IsFiniteSet(Visited(start, b))
                BY <4>1, FS_Subset
            <4>3. Cardinality(Visited(start, b)) = k
                BY <1>3, <2>2
            <4> QED
                BY <3>2, <4>2, <4>3, FS_AddElement
        <3> QED
            BY <3>2, <3>3, <3>4, <3>5
    <2> QED
        BY <2>1, <2>2
<1>4. ASSUME NEW b \in W PROVE Further(b) \in W
    <2>1. CASE b.loop # <<>> \/ b.queue = <<>>
        BY <2>1
    <2>2. CASE b.loop = <<>> /\ b.queue # <<>>
        <3>1. Visit(g, C, phases, b) \in W
            BY <2>2, Visiting
        <3> QED
            BY <2>2, <3>1
    <2> QED
        BY <2>1, <2>2
<1>5. step \in Advances(n, W)
    <2> HIDE DEF n, W, Further
    <2> QED
        BY <1>4 DEF Advances
<1>6. PICK f \in [0 .. n -> W] : Solves(f, first, n, step)
    <2> HIDE DEF n, step, W, first
    <2> QED
        BY <1>1, <1>2, <1>5, PrimitiveRecursion
<1>7. Recurs(f)
    <2> HIDE DEF n, W, Further, first
    <2>1. ASSUME NEW k \in 0 .. n, k # 0 PROVE f[k] = Further(f[k - 1])
        <3>1. k - 1 \in 0 .. n /\ k \in 1 .. n
            BY <1>1, <2>1
        <3>2. f[k - 1] \in W /\ f[k] = step[k][f[k - 1]]
            BY <1>6, <3>1 DEF Solves
        <3> QED
            BY <3>1, <3>2
    <2>2. f[0] = first
        BY <1>6 DEF Solves
    <2> QED
        BY <1>1, <1>6, <2>1, <2>2
<1>8. Recurs(bfs)
    <2> HIDE DEF Recurs
    <2> QED
        BY <1>7
<1>9. ShortestCycle(g, C, phases) = bfs[n].loop
    BY DEF ShortestCycle
<1> HIDE DEF bfs
<1>10. bfs[0] = first /\ \A k \in Nat : k + 1 <= n => bfs[k + 1] = Further(bfs[k])
    <2> HIDE DEF n, Further, first
    <2>1. bfs[0] = first
        BY <1>1, <1>8
    <2>2. ASSUME NEW k \in Nat, k + 1 <= n PROVE bfs[k + 1] = Further(bfs[k])
        <3>1. PICK j \in 0 .. n : j = k + 1 /\ j # 0 /\ j - 1 = k
            BY <1>1, <2>2
        <3>2. bfs[j] = Further(bfs[j - 1])
            BY <1>8, <3>1
        <3> QED
            BY <3>1, <3>2
    <2> QED
        BY <2>1, <2>2
<1>11. Sound(first, 0)
    <2>1. Cardinality({}) = 0
        BY FS_EmptySet
    <2> HIDE DEF W, E
    <2> QED
        BY <1>2, <2>1
<1>12. n \in T
    <2> HIDE DEF Sound, Further, n, first
    <2>1. 0 \in T
        BY <1>10, <1>11
    <2>2. \A k \in Nat : k \in T => k + 1 \in T
        <3> TAKE k \in Nat
        <3> HAVE k \in T
        <3>1. ASSUME k + 1 <= n PROVE Sound(bfs[k + 1], k + 1)
            <4>1. Sound(bfs[k], k)
                BY <1>1, <3>1
            <4>2. Sound(Further(bfs[k]), k + 1)
                BY <1>3, <4>1
            <4> QED
                BY <1>10, <3>1, <4>2
        <3> QED
            BY <3>1
    <2> HIDE DEF T
    <2>3. \A k \in Nat : k \in T
        BY <2>1, <2>2, Induction
    <2> QED
        BY <1>1, <2>3
<1>13. PICK b : b = bfs[n]
    OBVIOUS
<1>14. Sound(b, n)
    <2> HIDE DEF Sound, n
    <2> QED
        BY <1>1, <1>12, <1>13
<1>15. PICK D : D = DOMAIN b.prev
    OBVIOUS
<1>16. D \subseteq C /\ start \notin D /\ ToSet(b.queue) \subseteq {start} \cup D /\ (b.loop = <<>> \/ IsLoop(b.loop, E))
    BY <1>14, <1>15 DEF Searches, FoundBy
<1>17. ASSUME b.loop = <<>> PROVE FALSE
    <2>1. PICK P : P = Visited(start, b)
        OBVIOUS
    <2>2. P \subseteq C /\ P \subseteq {start} \cup D /\ \A e \in E : e.from \in P => e.to \in D
        BY <1>14, <1>15, <1>16, <1>17, <2>1 DEF Visited
    <2>3. P = C
        <3>1. CASE b.queue = <<>>
            <4>1. ToSet(b.queue) = {}
                BY <3>1 DEF ToSet
            <4>2. P = {start} \cup D
                BY <1>15, <2>1, <4>1 DEF Visited
            <4>3. P \in SUBSET C /\ P # {} /\ \A e \in E : e.from \in P => e.to \in P
                BY <2>2, <4>2
            <4> QED
                BY <4>3 DEF Together
        <3>2. CASE b.queue # <<>>
            <4>1. Cardinality(P) = Cardinality(C)
                BY <1>14, <1>17, <2>1, <3>2
            <4> QED
                BY <2>2, <4>1, FS_Subset
        <3> QED
            BY <3>1, <3>2
    <2>4. \A e \in E : e.to # start
        BY <1>16, <2>2, <2>3 DEF EdgesWithin
    <2>5. PICK X : X = C \ {start}
        OBVIOUS
    <2>6. X \in SUBSET C /\ other \in X /\ \A e \in E : e.from \in X => e.to \in X
        BY <2>4, <2>5 DEF EdgesWithin
    <2>7. X = C
        BY <2>6 DEF Together
    <2> QED
        BY <2>5, <2>7
<1> QED
    BY <1>9, <1>13, <1>16, <1>17

(***************************************************************************)
(* The cycles of a graph                                                   *)
(***************************************************************************)
LEMMA FiniteImage ==
    ASSUME NEW S, IsFiniteSet(S), NEW f
    PROVE  IsFiniteSet({f[x] : x \in S}) /\ Cardinality({f[x] : x \in S}) <= Cardinality(S)
<1> DEFINE T == {f[x] : x \in S}
           h == [x \in S |-> f[x]]
<1>1. h \in Surjection(S, T)
    BY DEF Surjection
<1> QED
    BY <1>1, FS_Surjection

LEMMA ListIsFinite ==
    ASSUME NEW L, NEW list \in Seq(L)
    PROVE  IsFiniteSet(ToSet(list))
<1>1. DOMAIN list = 1 .. Len(list) /\ Len(list) \in Nat
    OBVIOUS
<1>2. IsFiniteSet(DOMAIN list)
    BY <1>1, FS_Interval
<1> QED
    BY <1>2, FiniteImage DEF ToSet

(* The graph of the files: an edge is of the module of its file and goes   *)
(* to one that is known.                                                   *)
IsGraph(g) ==
    /\ IsList(g.edges) /\ DOMAIN g.name \subseteq Sources
    /\ \A p, q \in DOMAIN g.name : g.name[p] = g.name[q] => p = q
    /\ \A e \in ToSet(g.edges) : e.file \in DOMAIN g.name /\ e.from = g.name[e.file] /\ e.to \in g.known
    /\ Internal(g) \subseteq g.known /\ Internal(g) \subseteq ToSet(NameOrder)

(* The file of a module of the graph.                                      *)
LEMMA FileIs ==
    ASSUME NEW g, IsGraph(g), NEW p \in DOMAIN g.name
    PROVE  FileOf(g, g.name[p]) = p
BY DEF FileOf, IsGraph

LEMMA GraphIsFinite ==
    ASSUME NEW g, IsGraph(g), NEW phases
    PROVE  IsFiniteSet(Internal(g)) /\ IsFiniteSet(Links(ToSet(CycleEdges(g, phases))))
<1>1. IsFiniteSet(Sources)
    BY GraphAssumption, ListIsFinite DEF Sources, IsList
<1>2. IsFiniteSet(DOMAIN g.name)
    BY <1>1, FS_Subset DEF IsGraph
<1>3. IsFiniteSet(Internal(g))
    BY <1>2, FiniteImage DEF Internal
<1>4. IsFiniteSet(ToSet(CycleEdges(g, phases)))
    <2>1. PICK L : L = ToSet(g.edges)
        OBVIOUS
    <2>2. CycleEdges(g, phases) \in Seq(L)
        BY <2>1, CycleEdgesAre DEF IsGraph
    <2> QED
        BY <2>2, ListIsFinite
<1>5. PICK S, f : S = ToSet(CycleEdges(g, phases)) /\ f = [e \in S |-> <<e.from, e.to>>]
    OBVIOUS
<1>6. Links(S) = {f[e] : e \in S}
    BY <1>5 DEF Links
<1>7. IsFiniteSet({f[e] : e \in S})
    BY <1>4, <1>5, FiniteImage
<1> QED
    BY <1>3, <1>5, <1>6, <1>7

(* What is reached from what is reached.                                   *)
LEMMA ReachOn ==
    ASSUME NEW R, IsFiniteSet(R), NEW n, NEW m \in Reach(R, {n})
    PROVE  Reach(R, {m}) \subseteq Reach(R, {n}) /\ n \in Reach(R, {n})
<1>1. PICK X : X = Reach(R, {n})
    OBVIOUS
<1>2. n \in X /\ Closed(R, X)
    BY <1>1, ReachIs
<1>3. {m} \subseteq X
    BY <1>1
<1> QED
    BY <1>1, <1>2, <1>3, ReachIs

(* The modules that reach n and are reached from it.                       *)
Both(R, n) == {m \in Reach(R, {n}) : n \in Reach(R, {m})}

LEMMA BothSame ==
    ASSUME NEW R, IsFiniteSet(R), NEW n, NEW m \in Both(R, n)
    PROVE  Both(R, m) = Both(R, n) /\ n \in Both(R, n) /\ m \in Both(R, m)
<1>1. m \in Reach(R, {n}) /\ n \in Reach(R, {m})
    BY DEF Both
<1>2. Reach(R, {m}) = Reach(R, {n})
    <2>1. Reach(R, {m}) \subseteq Reach(R, {n})
        BY <1>1, ReachOn
    <2>2. Reach(R, {n}) \subseteq Reach(R, {m})
        BY <1>1, ReachOn
    <2> QED
        BY <2>1, <2>2
<1>3. \A x : x \in Both(R, m) <=> x \in Both(R, n)
    <2> TAKE x
    <2>1. ASSUME x \in Both(R, m) PROVE x \in Both(R, n)
        <3>1. x \in Reach(R, {m}) /\ m \in Reach(R, {x})
            BY <2>1 DEF Both
        <3>2. Reach(R, {m}) \subseteq Reach(R, {x})
            BY <3>1, ReachOn
        <3> QED
            BY <1>1, <1>2, <3>1, <3>2 DEF Both
    <2>2. ASSUME x \in Both(R, n) PROVE x \in Both(R, m)
        <3>1. x \in Reach(R, {n}) /\ n \in Reach(R, {x})
            BY <2>2 DEF Both
        <3>2. Reach(R, {n}) \subseteq Reach(R, {x})
            BY <3>1, ReachOn
        <3> QED
            BY <1>1, <1>2, <3>1, <3>2 DEF Both
    <2> QED
        BY <2>1, <2>2
<1>4. n \in Reach(R, {n}) /\ m \in Reach(R, {m})
    BY ReachIs
<1> QED
    BY <1>3, <1>4 DEF Both

(* Modules that reach each other do so among themselves.                   *)
LEMMA BothTogether ==
    ASSUME NEW R, IsFiniteSet(R), NEW n, NEW X \in SUBSET Both(R, n), X # {},
           \A r \in R : r[1] \in X /\ r[2] \in Both(R, n) => r[2] \in X
    PROVE  X = Both(R, n)
<1>1. PICK C : C = Both(R, n)
    OBVIOUS
<1>2. PICK x \in X : TRUE
    OBVIOUS
<1>3. x \in C /\ Both(R, x) = C
    BY <1>1, BothSame
<1>4. PICK A : A = Reach(R, {x})
    OBVIOUS
<1>5. Closed(R, A) /\ x \in A
    BY <1>4, ReachIs
<1> DEFINE Y == X \cup (A \ C)
<1>6. ASSUME NEW r \in R, r[1] \in Y PROVE r[2] \in Y
    <2>1. X \subseteq A
        BY <1>1, <1>3, <1>4 DEF Both
    <2>2. r[1] \in A /\ r[2] \in A
        BY <1>5, <1>6, <2>1 DEF Closed
    <2>3. CASE r[1] \in X
        BY <1>1, <2>2, <2>3
    <2>4. CASE r[1] \in A \ C
        <3>1. ASSUME r[2] \in C PROVE FALSE
            <4>1. x \in Reach(R, {r[2]})
                BY <1>3, <3>1 DEF Both
            <4>2. PICK B : B = Reach(R, {r[1]})
                OBVIOUS
            <4>3. r[1] \in B /\ Closed(R, B)
                BY <4>2, ReachIs
            <4>4. r[2] \in B
                BY <4>3 DEF Closed
            <4>5. Reach(R, {r[2]}) \subseteq B
                BY <4>2, <4>4, ReachOn
            <4>6. x \in Reach(R, {r[1]})
                BY <4>1, <4>2, <4>5
            <4> QED
                BY <1>3, <1>4, <2>4, <4>6 DEF Both
        <3> QED
            BY <2>2, <3>1
    <2> QED
        BY <1>6, <2>3, <2>4
<1>7. A \subseteq Y
    <2>1. Closed(R, Y) /\ {x} \subseteq Y
        BY <1>6 DEF Closed
    <2> HIDE DEF Y
    <2> QED
        BY <1>4, <2>1, ReachIs
<1>8. C \subseteq A
    BY <1>3, <1>4 DEF Both
<1> QED
    BY <1>1, <1>7, <1>8

(* The first of some modules by name is one of them.                       *)
LEMMA StartIs ==
    ASSUME NEW C \in SUBSET ToSet(NameOrder), C # {}
    PROVE  Start(C) \in C
<1>1. DOMAIN NameOrder \subseteq Nat
    BY GraphAssumption DEF IsList
<1>2. \A m \in C : Rank(m) \in Nat
    <2> TAKE m \in C
    <2>1. \E i \in DOMAIN NameOrder : NameOrder[i] = m
        BY DEF ToSet
    <2> QED
        BY <1>1, <2>1 DEF Rank
<1> DEFINE T == {Rank(m) : m \in C}
<1>3. T \in SUBSET Nat /\ T # {}
    BY <1>2
<1>4. PICK k \in T : \A j \in T : k <= j
    BY <1>3, LeastNumber
<1>5. PICK n \in C : k = Rank(n)
    BY <1>4
<1>6. \A m \in C : Rank(n) <= Rank(m)
    BY <1>4, <1>5
<1> QED
    BY <1>6 DEF Start

(* A component: the modules that reach each other and n, two at least.     *)
LEMMA ComponentsAre ==
    ASSUME NEW g, IsGraph(g), NEW phases, NEW R, R = Links(ToSet(CycleEdges(g, phases))), NEW C
    PROVE  C \in Components(g, phases) <=>
            \E n \in Internal(g) :
                /\ C = Both(R, n) /\ Cardinality(C) >= 2
                /\ \E m \in C : FileOf(g, m) \notin CycleExclude
<1>1. \A r \in R : r[1] \in Internal(g) /\ r[2] \in g.known
    <2> TAKE r \in R
    <2>1. PICK e \in ToSet(g.edges) : r = <<e.from, e.to>>
        BY CycleEdgesAre DEF Links, IsGraph
    <2> QED
        BY <2>1 DEF IsGraph, Internal
<1>2. IsFiniteSet(R)
    BY GraphIsFinite
<1>3. ASSUME NEW n \in g.known PROVE Reach(R, {n}) \subseteq g.known
    <2>1. {n} \subseteq g.known /\ Closed(R, g.known)
        BY <1>1, <1>3 DEF Closed
    <2> QED
        BY <1>2, <2>1, ReachIs
<1> DEFINE reach == [n \in g.known |-> Reach(R, {n})]
           Component(n) == {m \in reach[n] : n \in reach[m]}
<1>4. \A n \in g.known : Component(n) = Both(R, n)
    BY <1>3 DEF Both
<1>5. C \in Components(g, phases) <=>
        /\ \E n \in g.known : C = Component(n)
        /\ Cardinality(C) >= 2 /\ \E n \in C : FileOf(g, n) \notin CycleExclude
    BY DEF Components
<1> HIDE DEF Component
<1>6. ASSUME NEW n \in g.known, Cardinality(Both(R, n)) >= 2 PROVE n \in Internal(g)
    <2> SUFFICES ASSUME n \notin Internal(g) PROVE FALSE
        OBVIOUS
    <2>1. Closed(R, {n})
        BY <1>1 DEF Closed
    <2>2. Both(R, n) \subseteq {n}
        BY <1>2, <2>1, ReachIs DEF Both
    <2>3. IsFiniteSet({n}) /\ Cardinality({n}) = 1
        BY FS_Singleton
    <2>4. Cardinality(Both(R, n)) <= 1 /\ IsFiniteSet(Both(R, n))
        BY <2>2, <2>3, FS_Subset
    <2>5. Cardinality(Both(R, n)) \in Nat
        BY <2>4, FS_CardinalityType
    <2> QED
        BY <1>6, <2>4, <2>5
<1>7. Internal(g) \subseteq g.known
    BY DEF IsGraph
<1> QED
    BY <1>4, <1>5, <1>6, <1>7

(* Modules that reach each other are of files.                             *)
LEMMA BothInternal ==
    ASSUME NEW g, IsGraph(g), NEW phases, NEW R, R = Links(ToSet(CycleEdges(g, phases))),
           NEW n \in Internal(g)
    PROVE  Both(R, n) \subseteq Internal(g)
<1>1. \A r \in R : r[1] \in Internal(g)
    <2> TAKE r \in R
    <2>1. PICK e \in ToSet(g.edges) : r = <<e.from, e.to>>
        BY CycleEdgesAre DEF Links, IsGraph
    <2> QED
        BY <2>1 DEF IsGraph, Internal
<1>2. IsFiniteSet(R)
    BY GraphIsFinite
<1>3. ASSUME NEW m \in Both(R, n), m \notin Internal(g) PROVE FALSE
    <2>1. Closed(R, {m})
        BY <1>1, <1>3 DEF Closed
    <2>2. Reach(R, {m}) \subseteq {m}
        BY <1>2, <2>1, ReachIs
    <2>3. n \in Reach(R, {m})
        BY DEF Both
    <2> QED
        BY <1>3, <2>2, <2>3
<1> QED
    BY <1>3

(* The loop shown for a component is of its edges and passes none twice.   *)
LEMMA ComponentLoops ==
    ASSUME NEW g, IsGraph(g), NEW phases, NEW C \in Components(g, phases)
    PROVE  /\ IsLoop(ShortestCycle(g, C, phases), EdgesWithin(g, C, phases))
           /\ C \subseteq Internal(g)
<1>1. PICK R : R = Links(ToSet(CycleEdges(g, phases)))
    OBVIOUS
<1>2. PICK n \in Internal(g) : C = Both(R, n) /\ Cardinality(C) >= 2
    BY <1>1, ComponentsAre
<1>3. IsFiniteSet(R)
    BY <1>1, GraphIsFinite
<1>5. C \subseteq Internal(g)
    BY <1>1, <1>2, BothInternal
<1>6. C \subseteq Internal(g) /\ IsFiniteSet(C)
    BY <1>5, GraphIsFinite, FS_Subset
<1>7. n \in C
    BY <1>2, <1>3, ReachIs DEF Both
<1>8. Start(C) \in C
    BY <1>6, <1>7, StartIs DEF IsGraph
<1>9. \E other \in C : other # Start(C)
    <2> SUFFICES ASSUME C \subseteq {Start(C)} PROVE FALSE
        OBVIOUS
    <2>1. C = {Start(C)}
        BY <1>8
    <2>2. Cardinality(C) = 1
        BY <2>1, FS_Singleton
    <2> QED
        BY <1>2, <2>2
<1>10. PICK E : E = EdgesWithin(g, C, phases)
    OBVIOUS
<1>11. Together(C, E)
    <2> SUFFICES ASSUME NEW X \in SUBSET C, X # {}, \A e \in E : e.from \in X => e.to \in X PROVE X = C
        BY DEF Together
    <2>1. ASSUME NEW r \in R, r[1] \in X, r[2] \in C PROVE r[2] \in X
        <3>1. PICK e \in ToSet(CycleEdges(g, phases)) : r = <<e.from, e.to>>
            BY <1>1 DEF Links
        <3>2. e \in E
            BY <1>10, <2>1, <3>1 DEF EdgesWithin
        <3> QED
            BY <2>1, <3>1, <3>2
    <2> QED
        BY <1>2, <1>3, <2>1, BothTogether
<1> QED
    BY <1>6, <1>8, <1>9, <1>10, <1>11, LoopShown DEF IsGraph

(* The links of the modules at load time, and as links of their files.     *)
ModulesAtLoad(g) == Links(ToSet(CycleEdges(g, RUNTIME)))

LEMMA ReachFiles ==
    ASSUME NEW g, IsGraph(g), NEW p \in DOMAIN g.name
    PROVE  /\ IsFiniteSet(LinksAtLoad(g))
           /\ Reach(LinksAtLoad(g), {p}) =
                {q \in DOMAIN g.name : g.name[q] \in Reach(ModulesAtLoad(g), {g.name[p]})}
<1> SUFFICES ASSUME NEW R, R = Links(ToSet(CycleEdges(g, RUNTIME))), NEW links, links = LinksAtLoad(g)
             PROVE  /\ IsFiniteSet(links)
                    /\ Reach(links, {p}) = {q \in DOMAIN g.name : g.name[q] \in Reach(R, {g.name[p]})}
    BY DEF ModulesAtLoad
<1>1. PICK S : S = {x \in ToSet(CycleEdges(g, RUNTIME)) : x.to \in Internal(g)}
    OBVIOUS
<1>2. IsFiniteSet(links)
    <2>1. PICK L : L = ToSet(g.edges)
        OBVIOUS
    <2>2. CycleEdges(g, RUNTIME) \in Seq(L)
        BY <2>1, CycleEdgesAre DEF IsGraph
    <2>3. IsFiniteSet(ToSet(CycleEdges(g, RUNTIME)))
        BY <2>2, ListIsFinite
    <2>4. IsFiniteSet(S)
        BY <1>1, <2>3, FS_Subset
    <2>5. PICK f : f = [e \in S |-> <<e.file, FileOf(g, e.to)>>]
        OBVIOUS
    <2>6. links = {f[e] : e \in S}
        BY <1>1, <2>5 DEF LinksAtLoad
    <2> QED
        BY <2>4, <2>6, FiniteImage
<1>3. \A e \in ToSet(CycleEdges(g, RUNTIME)) :
            e \in ToSet(g.edges) /\ e.file \in DOMAIN g.name /\ e.from = g.name[e.file] /\ e.to \in g.known
    BY CycleEdgesAre DEF IsGraph
<1>4. \A q \in DOMAIN g.name : g.name[q] \in Internal(g) /\ FileOf(g, g.name[q]) = q
    BY FileIs DEF Internal
<1>5. \A n \in Internal(g) : FileOf(g, n) \in DOMAIN g.name /\ g.name[FileOf(g, n)] = n
    BY <1>4 DEF Internal
<1>6. PICK n, A, B : n = g.name[p] /\ A = Reach(R, {n}) /\ B = Reach(links, {p})
    OBVIOUS
<1>7. IsFiniteSet(R)
    BY GraphIsFinite
<1>8. n \in A /\ Closed(R, A) /\ p \in B /\ Closed(links, B)
    BY <1>2, <1>6, <1>7, ReachIs
<1> DEFINE X == {q \in DOMAIN g.name : g.name[q] \in A}
           Y == {m \in g.known : m \in Internal(g) => FileOf(g, m) \in B}
<1>9. B \subseteq X
    <2>1. ASSUME NEW l \in links, l[1] \in X PROVE l[2] \in X
        <3>1. PICK e \in S : l = <<e.file, FileOf(g, e.to)>>
            BY <1>1 DEF LinksAtLoad
        <3>2. <<e.from, e.to>> \in R /\ e.from \in A
            BY <1>1, <1>3, <2>1, <3>1 DEF Links
        <3>3. e.to \in A /\ e.to \in Internal(g)
            BY <1>1, <1>8, <3>1, <3>2 DEF Closed
        <3> QED
            BY <1>5, <3>1, <3>3
    <2>2. Closed(links, X) /\ {p} \subseteq X
        BY <1>6, <1>8, <2>1 DEF Closed
    <2> HIDE DEF X
    <2> QED
        BY <1>2, <1>6, <2>2, ReachIs
<1>10. A \subseteq Y
    <2>1. ASSUME NEW r \in R, r[1] \in Y PROVE r[2] \in Y
        <3>1. PICK e \in ToSet(CycleEdges(g, RUNTIME)) : r = <<e.from, e.to>>
            BY DEF Links
        <3>2. e.file \in B
            BY <1>3, <1>4, <2>1, <3>1
        <3>3. ASSUME e.to \in Internal(g) PROVE FileOf(g, e.to) \in B
            <4>1. <<e.file, FileOf(g, e.to)>> \in links
                BY <3>3 DEF LinksAtLoad
            <4> QED
                BY <1>8, <3>2, <4>1 DEF Closed
        <3> QED
            BY <1>3, <3>1, <3>3
    <2>2. n \in g.known /\ FileOf(g, n) \in B
        BY <1>4, <1>6, <1>8 DEF IsGraph
    <2>3. Closed(R, Y) /\ {n} \subseteq Y
        BY <2>1, <2>2 DEF Closed
    <2> HIDE DEF Y
    <2> QED
        BY <1>6, <1>7, <2>3, ReachIs
<1>11. X \subseteq B
    BY <1>4, <1>10
<1> QED
    BY <1>2, <1>6, <1>9, <1>11

(* The files of the modules that reach each other are a group.             *)
LEMMA GroupFiles ==
    ASSUME NEW g, IsGraph(g), NEW p \in DOMAIN g.name
    PROVE  {q \in Reach(LinksAtLoad(g), {p}) : p \in Reach(LinksAtLoad(g), {q})} =
            {FileOf(g, m) : m \in Both(ModulesAtLoad(g), g.name[p])}
<1> SUFFICES ASSUME NEW R, R = ModulesAtLoad(g), NEW links, links = LinksAtLoad(g)
             PROVE  {q \in Reach(links, {p}) : p \in Reach(links, {q})} = {FileOf(g, m) : m \in Both(R, g.name[p])}
    OBVIOUS
<1>1. \A q \in DOMAIN g.name : Reach(links, {q}) = {x \in DOMAIN g.name : g.name[x] \in Reach(R, {g.name[q]})}
    <2> TAKE q \in DOMAIN g.name
    <2> QED
        BY ReachFiles
<1>2. \A q \in DOMAIN g.name : g.name[q] \in Internal(g) /\ FileOf(g, g.name[q]) = q
    BY FileIs DEF Internal
<1>3. \A n \in Internal(g) : FileOf(g, n) \in DOMAIN g.name /\ g.name[FileOf(g, n)] = n
    BY <1>2 DEF Internal
<1>4. Both(R, g.name[p]) \subseteq Internal(g)
    BY <1>2, BothInternal DEF ModulesAtLoad
<1>5. PICK G : G = {q \in Reach(links, {p}) : p \in Reach(links, {q})}
    OBVIOUS
<1>6. G = {q \in DOMAIN g.name : g.name[q] \in Both(R, g.name[p])}
    BY <1>1, <1>5 DEF Both
<1>7. PICK B : B = Both(R, g.name[p])
    OBVIOUS
<1>8. \A q \in G : g.name[q] \in B /\ q = FileOf(g, g.name[q])
    BY <1>2, <1>6, <1>7
<1>9. \A m \in B : FileOf(g, m) \in G
    BY <1>3, <1>4, <1>6, <1>7
<1>10. G = {FileOf(g, m) : m \in B}
    BY <1>8, <1>9
<1> QED
    BY <1>5, <1>7, <1>10

(* Modules of files are as many as their files.                            *)
LEMMA AsManyFiles ==
    ASSUME NEW g, IsGraph(g), NEW C \in SUBSET Internal(g)
    PROVE  /\ Cardinality({FileOf(g, m) : m \in C}) = Cardinality(C)
           /\ Cardinality(C) \in Nat
<1>1. IsFiniteSet(C)
    BY GraphIsFinite, FS_Subset
<1>2. \A m \in C : g.name[FileOf(g, m)] = m
    BY FileIs DEF Internal
<1>3. PICK S, f : S = {FileOf(g, m) : m \in C} /\ f = [m \in C |-> FileOf(g, m)]
    OBVIOUS
<1>4. f \in Surjection(C, S)
    BY <1>3 DEF Surjection
<1>5. f \in Injection(C, S)
    BY <1>2, <1>3 DEF Injection, IsInjective
<1> QED
    BY <1>1, <1>3, <1>4, <1>5, FS_Surjection, FS_CardinalityType

(* What is reported as a cycle.                                            *)
LEMMA CyclesAre ==
    ASSUME NEW g, NEW c
    PROVE  /\ c \in Cycles(g) => \E phases \in {RUNTIME, TYPE_LEVEL} : \E C \in Components(g, phases) :
                c.modules = C /\ c.edges = ShortestCycle(g, C, phases) /\ (c.action = "warning" => phases = RUNTIME)
           /\ c \in Cycles(g) /\ c.action = "warning" => c.modules \in Components(g, RUNTIME)
           /\ \A C \in Components(g, RUNTIME) : \E x \in Cycles(g) : x.action = "warning" /\ x.modules = C
<1> DEFINE Finding(C, phases, action) == [modules |-> C, edges |-> ShortestCycle(g, C, phases), action |-> action]
           Warned == {Finding(C, RUNTIME, "warning") : C \in Components(g, RUNTIME)}
           Typed == {D \in Components(g, TYPE_LEVEL) \ Components(g, RUNTIME) :
                        IncludeTypeOnly /\ HasTypeOnlyEdge(g, D)}
<1>1. Cycles(g) = Warned \cup {Finding(C, TYPE_LEVEL, "info") : C \in Typed}
    BY DEF Cycles, CyclesIn
<1>5. ASSUME NEW D \in Components(g, RUNTIME) PROVE \E x \in Cycles(g) : x.action = "warning" /\ x.modules = D
    <2>1. PICK x : x = Finding(D, RUNTIME, "warning")
        OBVIOUS
    <2>2. x \in Warned /\ x.action = "warning" /\ x.modules = D
        BY <2>1
    <2> HIDE DEF Warned
    <2> QED
        BY <1>1, <2>2
<1>2. CASE c \in Warned
    <2>1. PICK C \in Components(g, RUNTIME) : c = Finding(C, RUNTIME, "warning")
        BY <1>2
    <2>2. c.modules = C /\ c.edges = ShortestCycle(g, C, RUNTIME)
        BY <2>1
    <2> QED
        BY <1>5, <2>2
<1>3. CASE c \in {Finding(C, TYPE_LEVEL, "info") : C \in Typed}
    <2>1. PICK C \in Components(g, TYPE_LEVEL) : c = Finding(C, TYPE_LEVEL, "info")
        BY <1>3
    <2>2. c.modules = C /\ c.edges = ShortestCycle(g, C, TYPE_LEVEL) /\ c.action # "warning"
        BY <2>1
    <2> QED
        BY <1>5, <2>2
<1>4. CASE c \notin Cycles(g)
    BY <1>4, <1>5
<1> QED
    BY <1>1, <1>2, <1>3, <1>4

(* The cycles match the links of the graph.                                *)
LEMMA CyclesMatched ==
    ASSUME NEW g, IsGraph(g), DOMAIN g.name = Existing(g.tree)
    PROVE  CyclesMatch(g, Cycles(g), LinksAtLoad(g))
<1>1. PICK links, R : links = LinksAtLoad(g) /\ R = ModulesAtLoad(g)
    OBVIOUS
<1> DEFINE Group(p) == {q \in Reach(links, {p}) : p \in Reach(links, {q})}
           FilesOf(c) == {FileOf(g, n) : n \in c.modules}
           warned == {c \in Cycles(g) : c.action = "warning"}
           Groups == {G \in {Group(p) : p \in Existing(g.tree)} :
                        Cardinality(G) > 1 /\ ~(G \subseteq CycleExclude)}
<1>2. \A p \in DOMAIN g.name : Group(p) = {FileOf(g, m) : m \in Both(R, g.name[p])}
    <2> TAKE p \in DOMAIN g.name
    <2> QED
        BY <1>1, GroupFiles
<1>3. \A n \in Internal(g) : FileOf(g, n) \in DOMAIN g.name /\ g.name[FileOf(g, n)] = n
    BY FileIs DEF Internal
<1>4. ASSUME NEW C \in Components(g, RUNTIME) PROVE {FileOf(g, m) : m \in C} \in Groups
    <2>1. PICK n \in Internal(g) : /\ C = Both(R, n) /\ Cardinality(C) >= 2
                                   /\ \E m \in C : FileOf(g, m) \notin CycleExclude
        BY <1>1, ComponentsAre DEF ModulesAtLoad
    <2>2. PICK p : p = FileOf(g, n)
        OBVIOUS
    <2>3. p \in Existing(g.tree) /\ Group(p) = {FileOf(g, m) : m \in C}
        BY <1>2, <1>3, <2>1, <2>2
    <2>4. C \subseteq Internal(g)
        BY <1>1, <2>1, BothInternal DEF ModulesAtLoad
    <2>5. Cardinality({FileOf(g, m) : m \in C}) = Cardinality(C) /\ Cardinality(C) \in Nat
        BY <2>4, AsManyFiles
    <2>6. ~({FileOf(g, m) : m \in C} \subseteq CycleExclude)
        BY <2>1
    <2> HIDE DEF Group
    <2> QED
        BY <2>1, <2>3, <2>5, <2>6
<1>5. ASSUME NEW G \in Groups PROVE \E C \in Components(g, RUNTIME) : G = {FileOf(g, m) : m \in C}
    <2>1. PICK p \in DOMAIN g.name : G = Group(p)
        OBVIOUS
    <2>2. PICK n, C : n = g.name[p] /\ C = Both(R, n)
        OBVIOUS
    <2>3. G = {FileOf(g, m) : m \in C} /\ n \in Internal(g)
        BY <1>2, <2>1, <2>2 DEF Internal
    <2>4. C \subseteq Internal(g)
        BY <1>1, <2>2, <2>3, BothInternal DEF ModulesAtLoad
    <2>5. Cardinality(G) = Cardinality(C) /\ Cardinality(C) \in Nat
        BY <2>3, <2>4, AsManyFiles
    <2>6. Cardinality(C) >= 2 /\ \E m \in C : FileOf(g, m) \notin CycleExclude
        BY <2>3, <2>5
    <2>7. C \in Components(g, RUNTIME)
        BY <1>1, <2>2, <2>3, <2>6, ComponentsAre DEF ModulesAtLoad
    <2> QED
        BY <2>3, <2>7
<1>6. {FilesOf(c) : c \in warned} = Groups
    <2> HIDE DEF Groups
    <2>1. \A c \in warned : FilesOf(c) \in Groups
        BY <1>4, CyclesAre
    <2>2. ASSUME NEW G \in Groups PROVE \E c \in warned : G = FilesOf(c)
        <3>1. PICK C \in Components(g, RUNTIME) : G = {FileOf(g, m) : m \in C}
            BY <1>5
        <3>2. PICK x \in Cycles(g) : x.action = "warning" /\ x.modules = C
            BY CyclesAre
        <3> QED
            BY <3>1, <3>2
    <2> QED
        BY <2>1, <2>2
<1>7. ASSUME NEW c \in Cycles(g)
      PROVE  /\ Len(c.edges) > 1 /\ Rotates(c.edges)
             /\ Cardinality({e.from : e \in ToSet(c.edges)}) = Len(c.edges)
             /\ \A e \in ToSet(c.edges) :
                    /\ e.file \in FilesOf(c) /\ ~e.import.inline
                    /\ c \in warned => <<e.file, FileOf(g, e.to)>> \in links
    <2>1. PICK phases \in {RUNTIME, TYPE_LEVEL} : \E C \in Components(g, phases) :
                c.modules = C /\ c.edges = ShortestCycle(g, C, phases) /\ (c.action = "warning" => phases = RUNTIME)
        BY CyclesAre
    <2>2. PICK C \in Components(g, phases) :
                c.modules = C /\ c.edges = ShortestCycle(g, C, phases) /\ (c.action = "warning" => phases = RUNTIME)
        BY <2>1
    <2>3. PICK E, loop : E = EdgesWithin(g, C, phases) /\ loop = c.edges
        OBVIOUS
    <2>4. IsLoop(loop, E) /\ C \subseteq Internal(g)
        BY <2>2, <2>3, ComponentLoops
    <2>5. loop \in Seq(E) /\ Len(loop) \in Nat /\ DOMAIN loop = 1 .. Len(loop)
        BY <2>4 DEF IsLoop
    <2>6. Cardinality({e.from : e \in ToSet(loop)}) = Len(loop)
        <3>1. PICK S, f : S = {e.from : e \in ToSet(loop)} /\ f = [i \in 1 .. Len(loop) |-> loop[i].from]
            OBVIOUS
        <3>2. f \in Surjection(1 .. Len(loop), S)
            BY <2>5, <3>1 DEF Surjection, ToSet
        <3>3. f \in Injection(1 .. Len(loop), S)
            BY <2>4, <2>5, <3>1, <3>2 DEF Injection, IsInjective, IsLoop, Surjection
        <3>4. f \in Bijection(1 .. Len(loop), S)
            BY <3>2, <3>3 DEF Bijection
        <3>5. ExistsBijection(1 .. Len(loop), S)
            BY <3>4 DEF ExistsBijection
        <3> QED
            BY <2>5, <3>1, <3>5, FS_CountingElements
    <2>7. ASSUME NEW e \in ToSet(loop)
          PROVE  e.file \in FilesOf(c) /\ ~e.import.inline /\ (c \in warned => <<e.file, FileOf(g, e.to)>> \in links)
        <3>1. e \in E
            BY <2>5 DEF ToSet
        <3>2. e \in ToSet(CycleEdges(g, phases)) /\ e.from \in C /\ e.to \in C
            BY <2>3, <3>1 DEF EdgesWithin
        <3>3. e \in ToSet(g.edges) /\ IsCycleEdge(e, phases)
            BY <3>2, CycleEdgesAre DEF IsGraph
        <3>4. e.file = FileOf(g, e.from)
            BY <3>3, FileIs DEF IsGraph
        <3>5. c \in warned => <<e.file, FileOf(g, e.to)>> \in links
            BY <1>1, <2>2, <2>4, <3>2 DEF LinksAtLoad
        <3> QED
            BY <2>2, <3>2, <3>3, <3>4, <3>5 DEF IsCycleEdge
    <2>8. Len(loop) > 1 /\ Rotates(loop)
        BY <2>4 DEF IsLoop
    <2> QED
        BY <2>3, <2>6, <2>7, <2>8
<1> HIDE DEF Groups
<1>8. {FilesOf(c) : c \in warned} = {G \in {Group(p) : p \in Existing(g.tree)} :
                        Cardinality(G) > 1 /\ ~(G \subseteq CycleExclude)}
    BY <1>6 DEF Groups
<1> HIDE DEF FilesOf, Group, warned
<1>9. CyclesMatch(g, Cycles(g), links)
    BY <1>7, <1>8 DEF CyclesMatch, FilesOf, Group, warned
<1> QED
    BY <1>1, <1>9

(***************************************************************************)
(* The graph of a tree                                                     *)
(***************************************************************************)
(* The imports of a graph's files, the computed ones if they are read.     *)
Reads(g, computed) ==
    {r \in (DOMAIN g.name) \X UNION {ToSet(g.tree[p]) : p \in DOMAIN g.name} :
        r[2] \in ToSet(g.tree[r[1]]) /\ r[2].kind = "import" /\ (computed \/ ~r[2].computed)
        /\ IsList(r[2].symbols)}

(* What an import names: the name of its module, which does not change     *)
(* while the graph grows, and what it takes of it.                         *)
Goal(g, r) == TargetName(g, r[1], r[2])
Taking(g, r) == ToSet(Narrowed(g.tree, r[1], r[2]))
Goals(g, computed) == {Goal(g, r) : r \in Reads(g, computed)}
Submodules(g, r) == {Append(Goal(g, r), x) : x \in {y \in Taking(g, r) : y # "*" /\ HasSubmodules(r[1])}}

(* It takes something that is no submodule, if known are all modules.      *)
TakesItself(g, r, known) ==
    Taking(g, r) = {} \/ \E x \in Taking(g, r) :
                            x = "*" \/ ~HasSubmodules(r[1]) \/ Append(Goal(g, r), x) \notin known

(* Where the edges of an import may go, and where some do.                 *)
May(g, r) == Submodules(g, r) \cup {n \in {Goal(g, r)} : TakesItself(g, r, g.known)}
Must(g, computed, r) ==
    (Submodules(g, r) \cap g.known)
    \cup {n \in {Goal(g, r)} : TakesItself(g, r, g.known \cup Goals(g, computed))}

WordsOf(g, computed) ==
    (UNION {Taking(g, r) : r \in Reads(g, computed)})
    \cup (UNION {{s.name : s \in ToSet(g.tree[p])} : p \in DOMAIN g.name})
EdgesFrom(g, computed, r) ==
    {Edge(g, r[1], q[1], q[2], r[2]) : q \in May(g, r) \X SUBSET WordsOf(g, computed)}
EdgesOf(g, computed) == UNION {EdgesFrom(g, computed, r) : r \in Reads(g, computed)}

(* The graphs that grow from a graph.                                      *)
Grown(g, computed) ==
    {h \in [tree : {g.tree}, name : {g.name}, known : SUBSET (g.known \cup Goals(g, computed)),
            edges : Seq(EdgesOf(g, computed))] :
        g.known \subseteq h.known /\ \A e \in ToSet(h.edges) : e.to \in h.known}

(* What an import asks, if it does: x of its module, and of a module it    *)
(* takes, or of its module as a whole, the attributes of its binding.      *)
OfModule(g, r) == IF r[2].bindings = << >> THEN {} ELSE Accessed(g, r[1], Head(r[2].bindings))
Asked(g, computed, r) ==
    {a \in {<<Goal(g, r), OfModule(g, r)>>} : Taking(g, r) = {}}
    \cup {<<Goal(g, r), {x}>> : x \in {y \in Taking(g, r) :
            y = "*" \/ ~HasSubmodules(r[1]) \/ Append(Goal(g, r), y) \notin g.known \cup Goals(g, computed)}}
    \cup {<<Append(Goal(g, r), Narrowed(g.tree, r[1], r[2])[i]), Accessed(g, r[1], Binding(r[2], i))>> :
            i \in {j \in DOMAIN Narrowed(g.tree, r[1], r[2]) :
                /\ Narrowed(g.tree, r[1], r[2])[j] # "*" /\ HasSubmodules(r[1])
                /\ Append(Goal(g, r), Narrowed(g.tree, r[1], r[2])[j]) \in g.known}}

(* The edges an import must have are there, and ask what it asks.          *)
Shown(edges, r, n) == \E e \in edges : e.file = r[1] /\ e.import = r[2] /\ e.to = n
AsksFor(edges, r, to, names) ==
    \E e \in edges : e.file = r[1] /\ e.import = r[2] /\ e.to = to /\ names \subseteq e.symbols
AllShown(g, computed, edges, r) ==
    /\ \A n \in Must(g, computed, r) : Shown(edges, r, n)
    /\ \A a \in Asked(g, computed, r) : AsksFor(edges, r, a[1], a[2])

LEMMA StillShown ==
    ASSUME NEW g, NEW computed, NEW edges, NEW more, edges \subseteq more, NEW r, AllShown(g, computed, edges, r)
    PROVE  AllShown(g, computed, more, r)
BY DEF AllShown, Shown, AsksFor

(* The attributes of a name are words of the file.                         *)
LEMMA AccessedWords ==
    ASSUME NEW g, NEW computed, NEW p \in DOMAIN g.name, IsList(g.tree[p]), NEW binding
    PROVE  Accessed(g, p, binding) \subseteq WordsOf(g, computed)
<1>1. PICK list, L, W, K : list = g.tree[p] /\ L = ToSet(list) /\ W = {s \in L : s.kind = "attr"} /\ K = Those(list, W)
    OBVIOUS
<1>2. ToSet(K) = L \cap W
    BY <1>1, ThoseKept DEF IsList
<1>3. Statements(g.tree, p, "attr") = K
    BY <1>1 DEF Statements
<1>4. Accessed(g, p, binding) = {s.name : s \in {a \in ToSet(K) : a.of = binding}}
    BY <1>3 DEF Accessed
<1>5. {s.name : s \in L} \subseteq WordsOf(g, computed)
    BY <1>1 DEF WordsOf
<1> QED
    BY <1>2, <1>4, <1>5

(* The edges of an import are those it may have, to what is known or to    *)
(* its module, and those it must have.                                     *)
LEMMA ImportEdgesAre ==
    ASSUME NEW g, NEW computed, NEW h \in Grown(g, computed), NEW p, NEW s,
           <<p, s>> \in Reads(g, computed), IsList(g.tree[p]),
           NEW more, more = ImportEdges(h, p, s, TargetName(h, p, s), Narrowed(h.tree, p, s))
    PROVE  /\ more \in Seq(EdgesOf(g, computed))
           /\ \A e \in ToSet(more) : e.to \in h.known \cup Goals(g, computed)
           /\ AllShown(g, computed, ToSet(more), <<p, s>>)
<1>1. h.name = g.name /\ h.tree = g.tree /\ g.known \subseteq h.known /\ h.known \subseteq g.known \cup Goals(g, computed)
    BY DEF Grown
<1>2. p \in DOMAIN g.name /\ IsList(s.symbols)
    BY DEF Reads
<1>3. PICK r, target, symbols : r = <<p, s>> /\ target = TargetName(g, p, s) /\ symbols = Narrowed(g.tree, p, s)
    OBVIOUS
<1>4. TargetName(h, p, s) = target /\ Narrowed(h.tree, p, s) = symbols
    BY <1>1, <1>3 DEF TargetName, NameOr, Keyed, Scoped, Resolve
<1>5. \A to, words : Edge(h, p, to, words, s) = Edge(g, p, to, words, s)
    BY <1>1 DEF Edge
<1>6. \A binding : Accessed(h, p, binding) \subseteq WordsOf(g, computed)
    BY <1>1, <1>2, AccessedWords DEF Accessed
<1>7. ASSUME NEW to \in May(g, r), NEW words \in SUBSET WordsOf(g, computed)
      PROVE  Edge(h, p, to, words, s) \in EdgesOf(g, computed)
    <2>1. PICK q : q = <<to, words>>
        OBVIOUS
    <2>2. q \in May(g, r) \X SUBSET WordsOf(g, computed)
        BY <2>1
    <2>3. Edge(g, r[1], q[1], q[2], r[2]) \in EdgesFrom(g, computed, r)
        BY <2>2 DEF EdgesFrom
    <2>4. Edge(g, p, to, words, s) \in EdgesFrom(g, computed, r)
        BY <1>3, <2>1, <2>3
    <2> QED
        BY <1>3, <1>5, <2>4 DEF EdgesOf
<1>8. IsList(symbols) /\ ToSet(symbols) = Taking(g, r) /\ target = Goal(g, r) /\ target \in Goals(g, computed)
    <2>1. IsList(symbols)
        BY <1>2, <1>3 DEF Narrowed, IsList, ToSet
    <2>2. ToSet(symbols) = Taking(g, r) /\ target = Goal(g, r)
        BY <1>3 DEF Taking, Goal
    <2> QED
        BY <1>3, <2>1, <2>2 DEF Goals
<1>9. /\ DOMAIN symbols = 1 .. Len(symbols) /\ Len(symbols) \in Nat
      /\ \A i \in DOMAIN symbols : symbols[i] \in Taking(g, r)
      /\ \A x \in Taking(g, r) : \E i \in DOMAIN symbols : x = symbols[i]
      /\ symbols = << >> <=> Taking(g, r) = {}
    <2>1. /\ DOMAIN symbols = 1 .. Len(symbols) /\ Len(symbols) \in Nat /\ symbols \in Seq(ToSet(symbols))
          /\ ToSet(symbols) = {symbols[i] : i \in DOMAIN symbols}
        BY <1>8 DEF IsList, ToSet
    <2>2. symbols = << >> <=> ToSet(symbols) = {}
        <3>1. CASE Len(symbols) = 0
            BY <2>1, <3>1
        <3>2. CASE Len(symbols) # 0
            <4>1. 1 \in DOMAIN symbols
                BY <2>1, <3>2
            <4>2. symbols # << >>
                BY <3>2
            <4> QED
                BY <2>1, <4>1, <4>2
        <3> QED
            BY <3>1, <3>2
    <2> QED
        BY <1>8, <2>1, <2>2
<1> DEFINE Sub(i) == Append(target, symbols[i])
           IsSub(i) == symbols[i] # "*" /\ HasSubmodules(p) /\ Sub(i) \in h.known
           rest == {symbols[i] : i \in {j \in DOMAIN symbols : ~IsSub(j)}}
           OfFirst == IF s.bindings = << >> THEN {} ELSE Accessed(h, p, Head(s.bindings))
           Qualified(i) == Edge(h, p, Sub(i), Accessed(h, p, Binding(s, i)), s)
           subs == Those([i \in DOMAIN symbols |-> i], {i \in DOMAIN symbols : IsSub(i)})
           first == [k \in DOMAIN subs |-> Qualified(subs[k])]
           last == CASE symbols = << >> -> <<Edge(h, p, target, OfFirst, s)>>
                     [] symbols # << >> /\ rest # {} -> <<Edge(h, p, target, rest, s)>>
                     [] OTHER -> << >>
           D == EdgesOf(g, computed)
<1>10. more = first \o last
    BY <1>4 DEF ImportEdges
<1>11. \A i \in DOMAIN symbols : IsSub(i) => Qualified(i) \in D
    <2> TAKE i \in DOMAIN symbols
    <2> HAVE IsSub(i)
    <2>1. Sub(i) \in May(g, r)
        BY <1>3, <1>8, <1>9 DEF May, Submodules
    <2> QED
        BY <1>6, <1>7, <2>1
<1>12. /\ \A to, words : LET e == Edge(h, p, to, words, s)
                        IN  e.file = r[1] /\ e.import = r[2] /\ e.to = to /\ e.symbols = words
    BY <1>3 DEF Edge
<1>13. /\ first \in Seq(D)
       /\ \A e \in ToSet(first) : e.to \in h.known
       /\ \A i \in DOMAIN symbols : IsSub(i) =>
                /\ Shown(ToSet(first), r, Sub(i))
                /\ AsksFor(ToSet(first), r, Sub(i), Accessed(h, p, Binding(s, i)))
    <2>1. PICK ids, W : ids = [i \in DOMAIN symbols |-> i] /\ W = {i \in DOMAIN symbols : IsSub(i)}
        OBVIOUS
    <2>2. ids \in Seq(DOMAIN symbols) /\ ToSet(ids) = DOMAIN symbols
        BY <1>9, <2>1 DEF ToSet
    <2>3. subs \in Seq(W) /\ ToSet(subs) = W
        <3>1. subs = Those(ids, W)
            BY <2>1
        <3>2. W \subseteq DOMAIN symbols
            BY <2>1
        <3>3. ToSet(Those(ids, W)) = DOMAIN symbols \cap W /\ Those(ids, W) \in Seq(W)
            BY <2>2, ThoseKept
        <3> QED
            BY <3>1, <3>2, <3>3
    <2> HIDE DEF subs, Qualified, D
    <2>4. Len(subs) \in Nat /\ DOMAIN subs = 1 .. Len(subs) /\ \A k \in DOMAIN subs : subs[k] \in W
        BY <2>3
    <2>5. \A k \in 1 .. Len(subs) : Qualified(subs[k]) \in D
        BY <1>11, <2>1, <2>4
    <2>6. first \in Seq(D)
        BY <2>4, <2>5
    <2>7. ToSet(first) = {Qualified(i) : i \in W}
        BY <2>3 DEF ToSet
    <2>8. \A i \in W : /\ Qualified(i).to = Sub(i) /\ Qualified(i).file = r[1] /\ Qualified(i).import = r[2]
                      /\ Sub(i) \in h.known /\ Qualified(i).symbols = Accessed(h, p, Binding(s, i))
        BY <1>12, <2>1 DEF Qualified
    <2> HIDE DEF first, Sub
    <2>9. \A i \in W : /\ Shown(ToSet(first), r, Sub(i))
                      /\ AsksFor(ToSet(first), r, Sub(i), Accessed(h, p, Binding(s, i)))
        BY <2>7, <2>8 DEF Shown, AsksFor
    <2>10. \A e \in ToSet(first) : e.to \in h.known
        BY <2>7, <2>8
    <2> QED
        BY <2>1, <2>6, <2>9, <2>10
<1>14. symbols = << >> \/ rest # {} => target \in May(g, r)
    <2>1. CASE symbols = << >>
        BY <1>3, <1>8, <1>9, <2>1 DEF May, TakesItself
    <2>2. CASE rest # {}
        <3>1. PICK i \in DOMAIN symbols : ~IsSub(i)
            BY <2>2
        <3>2. symbols[i] = "*" \/ ~HasSubmodules(r[1]) \/ Append(Goal(g, r), symbols[i]) \notin g.known
            BY <1>1, <1>3, <1>8, <3>1
        <3> HIDE DEF IsSub
        <3>3. symbols[i] \in Taking(g, r)
            BY <1>9
        <3>4. TakesItself(g, r, g.known)
            BY <3>2, <3>3 DEF TakesItself
        <3> QED
            BY <1>8, <3>4 DEF May
    <2> QED
        BY <2>1, <2>2
<1>15. TakesItself(g, r, g.known \cup Goals(g, computed)) => symbols = << >> \/ rest # {}
    <2> SUFFICES ASSUME TakesItself(g, r, g.known \cup Goals(g, computed)), symbols # << >>
                 PROVE  rest # {}
        OBVIOUS
    <2>1. PICK x \in Taking(g, r) :
            x = "*" \/ ~HasSubmodules(r[1]) \/ Append(Goal(g, r), x) \notin g.known \cup Goals(g, computed)
        BY <1>9 DEF TakesItself
    <2>2. PICK i \in DOMAIN symbols : x = symbols[i]
        BY <1>9
    <2>3. ~IsSub(i)
        BY <1>1, <1>3, <1>8, <2>1, <2>2
    <2> QED
        BY <2>2, <2>3
<1>16. /\ last \in Seq(D)
       /\ \A e \in ToSet(last) : e.to = target
       /\ symbols = << >> \/ rest # {} => Shown(ToSet(last), r, target)
       /\ symbols = << >> => AsksFor(ToSet(last), r, target, OfFirst)
       /\ symbols # << >> /\ rest # {} => AsksFor(ToSet(last), r, target, rest)
    <2>1. OfFirst \subseteq WordsOf(g, computed)
        BY <1>6
    <2>2. rest \subseteq WordsOf(g, computed)
        BY <1>3, <1>9 DEF WordsOf
    <2> DEFINE a == Edge(h, p, target, OfFirst, s)
               b == Edge(h, p, target, rest, s)
    <2>3. a.to = target /\ b.to = target /\ a.file = r[1] /\ b.file = r[1] /\ a.import = r[2] /\ b.import = r[2]
          /\ a.symbols = OfFirst /\ b.symbols = rest
        BY <1>12
    <2>4. symbols = << >> \/ rest # {} => a \in D /\ b \in D
        BY <1>7, <1>14, <2>1, <2>2
    <2>5. last = CASE symbols = << >> -> <<a>> [] symbols # << >> /\ rest # {} -> <<b>> [] OTHER -> << >>
        OBVIOUS
    <2> HIDE DEF last, a, b, D, rest
    <2>6. ASSUME NEW x, x \in D, x.to = target, x.file = r[1], x.import = r[2], last = <<x>>
          PROVE  /\ last \in Seq(D) /\ (\A e \in ToSet(last) : e.to = target) /\ Shown(ToSet(last), r, target)
                 /\ AsksFor(ToSet(last), r, target, x.symbols)
        <3>1. ToSet(last) = {x} /\ last \in Seq(D)
            BY <2>6 DEF ToSet
        <3> QED
            BY <2>6, <3>1 DEF Shown, AsksFor
    <2>7. CASE symbols = << >>
        BY <2>3, <2>4, <2>5, <2>6, <2>7
    <2>8. CASE symbols # << >> /\ rest # {}
        BY <2>3, <2>4, <2>5, <2>6, <2>8
    <2>9. CASE symbols # << >> /\ rest = {}
        <3>1. last = << >>
            BY <2>5, <2>9
        <3> QED
            BY <2>9, <3>1 DEF ToSet
    <2> QED
        BY <2>7, <2>8, <2>9
<1> HIDE DEF first, last, D, Sub, rest
<1>17. more \in Seq(D) /\ ToSet(more) = ToSet(first) \cup ToSet(last)
    BY <1>10, <1>13, <1>16, SetOfEnds
<1>18. \A e \in ToSet(more) : e.to \in h.known \cup Goals(g, computed)
    BY <1>8, <1>13, <1>16, <1>17
<1>19. ASSUME NEW n \in Must(g, computed, r) PROVE Shown(ToSet(more), r, n)
    <2>1. CASE n \in Submodules(g, r) \cap g.known
        <3>1. PICK x \in Taking(g, r) : n = Append(Goal(g, r), x) /\ x # "*" /\ HasSubmodules(r[1])
            BY <2>1 DEF Submodules
        <3>2. PICK i \in DOMAIN symbols : x = symbols[i]
            BY <1>9
        <3>3. n = Sub(i) /\ IsSub(i)
            BY <1>1, <1>3, <1>8, <2>1, <3>1, <3>2 DEF Sub
        <3>4. Shown(ToSet(first), r, n)
            BY <1>13, <3>3
        <3> QED
            BY <1>17, <3>4 DEF Shown
    <2>2. CASE n = target /\ TakesItself(g, r, g.known \cup Goals(g, computed))
        <3>1. Shown(ToSet(last), r, target)
            BY <1>15, <1>16, <2>2
        <3> QED
            BY <1>17, <2>2, <3>1 DEF Shown
    <2> QED
        BY <1>8, <2>1, <2>2 DEF Must
<1>20. ASSUME NEW a \in Asked(g, computed, r) PROVE AsksFor(ToSet(more), r, a[1], a[2])
    <2>1. /\ Goal(g, r) = target /\ r[1] = p /\ r[2] = s /\ Narrowed(g.tree, r[1], r[2]) = symbols
          /\ \A binding : Accessed(h, p, binding) = Accessed(g, p, binding)
        BY <1>1, <1>3, <1>8 DEF Accessed
    <2>2. ASSUME AsksFor(ToSet(first), r, a[1], a[2]) \/ AsksFor(ToSet(last), r, a[1], a[2])
          PROVE  AsksFor(ToSet(more), r, a[1], a[2])
        BY <1>17, <2>2 DEF AsksFor
    <2>3. CASE a = <<Goal(g, r), OfModule(g, r)>> /\ Taking(g, r) = {}
        <3>1. OfModule(g, r) = OfFirst /\ symbols = << >>
            BY <1>9, <2>1, <2>3 DEF OfModule
        <3> HIDE DEF OfFirst
        <3> QED
            BY <1>16, <2>1, <2>2, <2>3, <3>1
    <2>4. CASE \E x \in Taking(g, r) :
                /\ a = <<Goal(g, r), {x}>>
                /\ x = "*" \/ ~HasSubmodules(r[1]) \/ Append(Goal(g, r), x) \notin g.known \cup Goals(g, computed)
        <3>1. PICK x \in Taking(g, r) :
                /\ a = <<Goal(g, r), {x}>>
                /\ x = "*" \/ ~HasSubmodules(r[1]) \/ Append(Goal(g, r), x) \notin g.known \cup Goals(g, computed)
            BY <2>4
        <3>2. PICK i \in DOMAIN symbols : x = symbols[i]
            BY <1>9
        <3>3. ~IsSub(i)
            BY <1>1, <2>1, <3>1, <3>2 DEF Sub
        <3>4. x \in rest /\ symbols # << >>
            BY <1>9, <3>2, <3>3 DEF rest
        <3>5. AsksFor(ToSet(last), r, target, rest)
            BY <1>16, <3>4
        <3>6. AsksFor(ToSet(last), r, target, {x})
            BY <3>4, <3>5 DEF AsksFor
        <3> QED
            BY <2>1, <2>2, <3>1, <3>6
    <2>5. CASE \E i \in DOMAIN symbols :
                /\ a = <<Append(Goal(g, r), symbols[i]), Accessed(g, p, Binding(s, i))>>
                /\ symbols[i] # "*" /\ HasSubmodules(p) /\ Append(Goal(g, r), symbols[i]) \in g.known
        <3>1. PICK i \in DOMAIN symbols :
                /\ a = <<Append(Goal(g, r), symbols[i]), Accessed(g, p, Binding(s, i))>>
                /\ symbols[i] # "*" /\ HasSubmodules(p) /\ Append(Goal(g, r), symbols[i]) \in g.known
            BY <2>5
        <3>2. IsSub(i) /\ Sub(i) = a[1] /\ a[2] = Accessed(h, p, Binding(s, i))
            BY <1>1, <2>1, <3>1 DEF Sub
        <3>3. AsksFor(ToSet(first), r, Sub(i), Accessed(h, p, Binding(s, i)))
            BY <1>13, <3>2
        <3> QED
            BY <2>2, <3>2, <3>3
    <2> QED
        <3>1. PICK goal, taking, attrs : goal = Goal(g, r) /\ taking = Taking(g, r) /\ attrs = OfModule(g, r)
            OBVIOUS
        <3>2. a \in {x \in {<<goal, attrs>>} : taking = {}}
                \/ a \in {<<goal, {x}>> : x \in {y \in taking :
                        y = "*" \/ ~HasSubmodules(p) \/ Append(goal, y) \notin g.known \cup Goals(g, computed)}}
                \/ a \in {<<Append(goal, symbols[i]), Accessed(g, p, Binding(s, i))>> :
                        i \in {j \in DOMAIN symbols :
                            symbols[j] # "*" /\ HasSubmodules(p) /\ Append(goal, symbols[j]) \in g.known}}
            BY <2>1, <3>1 DEF Asked
        <3> QED
            BY <2>1, <2>3, <2>4, <2>5, <3>1, <3>2
<1>21. AllShown(g, computed, ToSet(more), r)
    BY <1>19, <1>20 DEF AllShown
<1> QED
    BY <1>3, <1>17, <1>18, <1>21 DEF D

(* The edges that may be added, each of an import of its file.             *)
LEMMA EdgesOfAre ==
    ASSUME NEW g, NEW computed, NEW e \in EdgesOf(g, computed)
    PROVE  /\ <<e.file, e.import>> \in Reads(g, computed) /\ e.file \in DOMAIN g.name
           /\ e.to \in May(g, <<e.file, e.import>>)
           /\ e.from = g.name[e.file]
           /\ e.decl = (e.import.decl \/ IsContainment(e.file, e.from, e.to))
<1>1. PICK r \in Reads(g, computed) : e \in EdgesFrom(g, computed, r)
    BY DEF EdgesOf
<1>2. PICK q \in May(g, r) \X SUBSET WordsOf(g, computed) : e = Edge(g, r[1], q[1], q[2], r[2])
    BY <1>1 DEF EdgesFrom
<1>3. /\ e.to = q[1] /\ e.file = r[1] /\ e.import = r[2] /\ e.from = g.name[r[1]]
      /\ e.decl = (r[2].decl \/ IsContainment(r[1], g.name[r[1]], q[1]))
    BY <1>2 DEF Edge
<1>4. q[1] \in May(g, r) /\ r = <<r[1], r[2]>> /\ r[1] \in DOMAIN g.name
    BY <1>2 DEF Reads
<1> QED
    BY <1>1, <1>3, <1>4

(* An import adds its edges.                                               *)
LEMMA ImportAdds ==
    ASSUME NEW g, NEW computed, NEW h \in Grown(g, computed), NEW p, NEW s,
           <<p, s>> \in Reads(g, computed), IsList(g.tree[p]),
           NEW x, x = AddImport(h, p, s)
    PROVE  /\ x \in Grown(g, computed)
           /\ ToSet(h.edges) \subseteq ToSet(x.edges)
           /\ AllShown(g, computed, ToSet(x.edges), <<p, s>>)
<1>1. PICK more, E, T : /\ more = ImportEdges(h, p, s, TargetName(h, p, s), Narrowed(h.tree, p, s))
                         /\ E = EdgesOf(g, computed) /\ T = g.known \cup Goals(g, computed)
    OBVIOUS
<1>2. /\ more \in Seq(E)
      /\ \A e \in ToSet(more) : e.to \in h.known \cup Goals(g, computed)
      /\ AllShown(g, computed, ToSet(more), <<p, s>>)
    BY <1>1, ImportEdgesAre
<1>3. PICK edges, known : edges = h.edges \o more /\ known = h.known \cup {e.to : e \in ToSet(more)}
    OBVIOUS
<1>4. /\ h \in [tree : {g.tree}, name : {g.name}, known : SUBSET T, edges : Seq(E)]
      /\ g.known \subseteq h.known /\ \A e \in ToSet(h.edges) : e.to \in h.known
    BY <1>1 DEF Grown
<1>5. edges \in Seq(E) /\ ToSet(edges) = ToSet(h.edges) \cup ToSet(more)
    BY <1>2, <1>3, <1>4, SetOfEnds
<1>8. known \in SUBSET T /\ g.known \subseteq known /\ \A e \in ToSet(edges) : e.to \in known
    BY <1>1, <1>2, <1>3, <1>4, <1>5
<1>10. x = [h EXCEPT !.edges = edges, !.known = known]
    BY <1>1, <1>3 DEF AddImport, Extended
<1>11. x.edges = edges /\ x.known = known /\ x \in [tree : {g.tree}, name : {g.name}, known : SUBSET T, edges : Seq(E)]
    BY <1>4, <1>5, <1>8, <1>10
<1>12. x \in Grown(g, computed)
    BY <1>1, <1>8, <1>11 DEF Grown
<1>13. AllShown(g, computed, ToSet(x.edges), <<p, s>>)
    BY <1>2, <1>5, <1>11, StillShown
<1> QED
    BY <1>5, <1>11, <1>12, <1>13

(* The imports of a file add theirs, one after the other.                  *)
LEMMA ImportsAdd ==
    ASSUME NEW g, NEW computed, NEW h \in Grown(g, computed), NEW p \in DOMAIN g.name,
           IsTree(g.tree), p \in DOMAIN g.tree,
           NEW x, x = AddImports(h, p, computed)
    PROVE  /\ x \in Grown(g, computed)
           /\ ToSet(h.edges) \subseteq ToSet(x.edges)
           /\ \A s : <<p, s>> \in Reads(g, computed) => AllShown(g, computed, ToSet(x.edges), <<p, s>>)
<1> DEFINE imports == Those(h.tree[p], {s \in ToSet(h.tree[p]) : s.kind = "import" /\ (computed \/ ~s.computed)})
           n == Len(imports)
           W == Grown(g, computed)
           step == [k \in 1 .. n |-> [a \in W |-> AddImport(a, p, imports[k])]]
           Iterates(it) == it = [S \in SUBSET DOMAIN imports |->
                                    IF S = {} THEN h
                                    ELSE AddImport(it[S \ {Max(S)}], p, imports[Max(S)])]
           it == CHOOSE it : Iterates(it)
           Done(a, k) == /\ a \in W /\ ToSet(h.edges) \subseteq ToSet(a.edges)
                         /\ \A j \in 1 .. k : AllShown(g, computed, ToSet(a.edges), <<p, imports[j]>>)
           T == {k \in Nat : k <= n => Done(it[1 .. k], k)}
<1>1. h.tree = g.tree
    BY DEF Grown
<1>2. IsList(g.tree[p]) /\ \A s \in ToSet(g.tree[p]) : s.kind = "import" => IsList(s.symbols)
    BY DEF IsTree, IsText
<1>3. /\ n \in Nat /\ DOMAIN imports = 1 .. n
      /\ \A k \in 1 .. n : imports[k] \in {s \in ToSet(g.tree[p]) : s.kind = "import" /\ (computed \/ ~s.computed)}
      /\ \A s \in ToSet(g.tree[p]) : s.kind = "import" /\ (computed \/ ~s.computed) => \E k \in 1 .. n : s = imports[k]
    <2>1. PICK list, L, K : /\ list = g.tree[p] /\ L = ToSet(list)
                            /\ K = {s \in L : s.kind = "import" /\ (computed \/ ~s.computed)}
        OBVIOUS
    <2>2. Those(list, K) \in Seq(K) /\ ToSet(Those(list, K)) = K
        <3>1. ToSet(Those(list, K)) = L \cap K /\ Those(list, K) \in Seq(K)
            BY <1>2, <2>1, ThoseKept DEF IsList
        <3> QED
            BY <2>1, <3>1
    <2>3. imports = Those(list, K)
        BY <1>1, <2>1
    <2> HIDE DEF imports
    <2>4. n \in Nat /\ DOMAIN imports = 1 .. n /\ \A k \in 1 .. n : imports[k] \in K
        BY <2>2, <2>3
    <2>5. K = {s \in ToSet(g.tree[p]) : s.kind = "import" /\ (computed \/ ~s.computed)}
        BY <2>1
    <2>6. \A s \in K : \E k \in 1 .. n : s = imports[k]
        BY <2>2, <2>3, <2>4 DEF ToSet
    <2> HIDE DEF n
    <2> QED
        BY <2>4, <2>5, <2>6
<1> HIDE DEF imports
<1>4. \A k \in 1 .. n : <<p, imports[k]>> \in Reads(g, computed)
    <2> TAKE k \in 1 .. n
    <2>1. PICK r : r = <<p, imports[k]>>
        OBVIOUS
    <2>2. /\ r \in (DOMAIN g.name) \X UNION {ToSet(g.tree[q]) : q \in DOMAIN g.name}
          /\ r[2] \in ToSet(g.tree[r[1]]) /\ r[2].kind = "import" /\ (computed \/ ~r[2].computed) /\ IsList(r[2].symbols)
        BY <1>2, <1>3, <2>1
    <2> QED
        BY <2>1, <2>2 DEF Reads
<1>5. \A k \in 1 .. n : \A a \in W :
        LET b == AddImport(a, p, imports[k])
        IN  /\ b \in W /\ ToSet(a.edges) \subseteq ToSet(b.edges)
            /\ AllShown(g, computed, ToSet(b.edges), <<p, imports[k]>>)
    BY <1>2, <1>4, ImportAdds
<1>6. \E f : Iterates(f)
    <2>1. step \in Advances(n, W)
        <3> HIDE DEF n, W
        <3> QED
            BY <1>5 DEF Advances
    <2>2. PICK f \in [SUBSET (1 .. n) -> W] : Folds(f, h, n, step)
        <3> HIDE DEF step, n
        <3> QED
            BY <1>3, <2>1, Folding
    <2>3. ASSUME NEW S \in SUBSET (1 .. n), S # {}
          PROVE  f[S] = AddImport(f[S \ {Max(S)}], p, imports[Max(S)])
        <3>1. Max(S) \in 1 .. n
            BY <1>3, <2>3, Greatest
        <3>2. f[S \ {Max(S)}] \in W
            OBVIOUS
        <3>3. f[S] = step[Max(S)][f[S \ {Max(S)}]]
            BY <2>2, <2>3 DEF Folds
        <3> HIDE DEF W, n
        <3> QED
            BY <3>1, <3>2, <3>3
    <2>4. f[{}] = h
        BY <2>2 DEF Folds
    <2>5. Iterates(f)
        <3> HIDE DEF n, step, W
        <3> QED
            BY <1>3, <2>3, <2>4
    <2> QED
        BY <2>5
<1>7. Iterates(it)
    BY <1>6
<1>8. x = it[DOMAIN imports]
    BY DEF AddImports, FoldLeft, MapThenFoldSet, imports
<1> HIDE DEF step, n, it
<1>9. 0 \in T
    <2>1. 1 .. 0 = {}
        OBVIOUS
    <2>2. it[{}] = h
        BY <1>7
    <2>3. Done(h, 0)
        BY <2>1
    <2> QED
        BY <2>1, <2>2, <2>3
<1> HIDE DEF W
<1>10. ASSUME NEW k \in Nat, k \in T, k + 1 <= n PROVE Done(it[1 .. k + 1], k + 1)
    <2>1. Max(1 .. k + 1) = k + 1 /\ (1 .. k + 1) \ {k + 1} = 1 .. k /\ 1 .. k + 1 # {}
        BY Initial
    <2>2. 1 .. k + 1 \in SUBSET DOMAIN imports
        BY <1>3, <1>10
    <2>3. it[1 .. k + 1] = AddImport(it[1 .. k], p, imports[k + 1])
        BY <1>7, <2>1, <2>2
    <2>4. Done(it[1 .. k], k) /\ k + 1 \in 1 .. n
        BY <1>3, <1>10
    <2>5. PICK a, b : a = it[1 .. k] /\ b = it[1 .. k + 1]
        OBVIOUS
    <2>6. b \in W /\ ToSet(a.edges) \subseteq ToSet(b.edges) /\ AllShown(g, computed, ToSet(b.edges), <<p, imports[k + 1]>>)
        BY <1>5, <2>3, <2>4, <2>5
    <2>7. \A j \in 1 .. k : AllShown(g, computed, ToSet(b.edges), <<p, imports[j]>>)
        BY <2>4, <2>5, <2>6, StillShown
    <2>8. \A j \in 1 .. k + 1 : j \in 1 .. k \/ j = k + 1
        OBVIOUS
    <2>9. Done(b, k + 1)
        BY <2>4, <2>5, <2>6, <2>7, <2>8
    <2> QED
        BY <2>5, <2>9
<1>11. n \in T
    <2>1. \A k \in Nat : k \in T => k + 1 \in T
        BY <1>10
    <2> HIDE DEF T
    <2> QED
        BY <1>3, <1>9, <2>1, Induction
<1>12. Done(x, n)
    BY <1>3, <1>8, <1>11
<1>13. ASSUME NEW s, <<p, s>> \in Reads(g, computed) PROVE AllShown(g, computed, ToSet(x.edges), <<p, s>>)
    <2>1. PICK r : r = <<p, s>> /\ r \in Reads(g, computed)
        BY <1>13
    <2>2. s \in ToSet(g.tree[p]) /\ s.kind = "import" /\ (computed \/ ~s.computed)
        BY <2>1 DEF Reads
    <2>3. PICK k \in 1 .. n : s = imports[k]
        BY <1>3, <2>2
    <2> QED
        BY <1>12, <2>3
<1> QED
    BY <1>12, <1>13 DEF W

(* The nodes of the files, each of its own name.                           *)
LEMMA NodesAre ==
    ASSUME NEW tree, NEW g, g = NodesOf(tree, Parsed(tree)), NEW computed
    PROVE  /\ g.tree = tree /\ DOMAIN g.name = Nodes(Parsed(tree)) /\ DOMAIN g.name \subseteq Sources \cap DOMAIN tree
           /\ \A p, q \in DOMAIN g.name : g.name[p] = g.name[q] => p = q
           /\ Internal(g) \subseteq g.known /\ Internal(g) \subseteq ToSet(NameOrder)
           /\ g \in Grown(g, computed)
<1>1. PICK files : files = Parsed(tree)
    OBVIOUS
<1>2. files \subseteq Sources \cap DOMAIN tree
    BY <1>1 DEF Parsed
<1>3. /\ g.tree = tree /\ g.name = [p \in Nodes(files) |-> Identity(files, p)]
      /\ g.known = {Identity(files, p) : p \in files} /\ g.edges = <<>>
    BY <1>1 DEF NodesOf
<1>4. Nodes(files) \subseteq files
    BY DEF Nodes
<1>5. \A p \in Sources : Position(p) \in DOMAIN Files /\ Files[Position(p)] = p
    <2> TAKE p \in Sources
    <2>1. \E i \in DOMAIN Files : Files[i] = p
        BY DEF Sources, ToSet
    <2> QED
        BY <2>1 DEF Position
<1>6. DOMAIN Files \subseteq Nat
    BY GraphAssumption DEF IsList
<1>7. ASSUME NEW p \in Nodes(files), NEW q \in Nodes(files), Identity(files, p) = Identity(files, q) PROVE p = q
    <2>1. Position(p) >= Position(q) /\ Position(q) >= Position(p)
        BY <1>4, <1>7 DEF Nodes
    <2>2. p \in Sources /\ q \in Sources
        BY <1>2, <1>4
    <2>3. Position(p) = Position(q)
        BY <1>5, <1>6, <2>1, <2>2
    <2> QED
        BY <1>5, <2>2, <2>3
<1>8. \A p \in files : Identity(files, p) \in ToSet(NameOrder)
    BY <1>2, GraphAssumption DEF Identity
<1>9. Internal(g) \subseteq g.known /\ Internal(g) \subseteq ToSet(NameOrder)
    BY <1>3, <1>4, <1>8 DEF Internal
<1>10. g \in Grown(g, computed)
    <2>1. g = [tree |-> g.tree, name |-> g.name, known |-> g.known, edges |-> g.edges]
        BY DEF NodesOf
    <2>2. g.edges \in Seq(EdgesOf(g, computed)) /\ ToSet(g.edges) = {}
        BY <1>3 DEF ToSet
    <2>3. PICK X, E : X = SUBSET (g.known \cup Goals(g, computed)) /\ E = EdgesOf(g, computed)
        OBVIOUS
    <2>4. g.known \in X /\ g.edges \in Seq(E)
        BY <2>2, <2>3
    <2>5. g \in [tree : {g.tree}, name : {g.name}, known : X, edges : Seq(E)]
        BY <2>1, <2>4
    <2> QED
        BY <2>2, <2>3, <2>5 DEF Grown
<1> QED
    BY <1>1, <1>2, <1>3, <1>4, <1>7, <1>9, <1>10

(* The graph of a tree: it grew from the nodes of the files, and has the   *)
(* edges their imports must have.                                          *)
LEMMA Built ==
    ASSUME NEW tree, IsTree(tree), NEW computed, NEW g, g = NodesOf(tree, Parsed(tree)),
           NEW h, h = Build(tree, computed)
    PROVE  /\ IsGraph(h) /\ h.tree = tree /\ DOMAIN h.name = Nodes(Parsed(tree))
           /\ h \in Grown(g, computed)
           /\ \A r \in Reads(g, computed) : AllShown(g, computed, ToSet(h.edges), r)
<1> DEFINE n == Len(Files)
           W == Grown(g, computed)
           Read(a, p) == IF p \in DOMAIN a.name THEN AddImports(a, p, computed) ELSE a
           step == [k \in 1 .. n |-> [a \in W |-> Read(a, Files[k])]]
           Iterates(it) == it = [S \in SUBSET DOMAIN Files |->
                                    IF S = {} THEN g ELSE Read(it[S \ {Max(S)}], Files[Max(S)])]
           it == CHOOSE it : Iterates(it)
           FileShown(a, p) == \A s : <<p, s>> \in Reads(g, computed) => AllShown(g, computed, ToSet(a.edges), <<p, s>>)
           Done(a, k) == a \in W /\ \A j \in 1 .. k : FileShown(a, Files[j])
           T == {k \in Nat : k <= n => Done(it[1 .. k], k)}
<1>1. n \in Nat /\ DOMAIN Files = 1 .. n
    BY GraphAssumption DEF IsList
<1>2. /\ g.tree = tree /\ DOMAIN g.name = Nodes(Parsed(tree)) /\ DOMAIN g.name \subseteq Sources \cap DOMAIN tree
      /\ \A p, q \in DOMAIN g.name : g.name[p] = g.name[q] => p = q
      /\ Internal(g) \subseteq g.known /\ Internal(g) \subseteq ToSet(NameOrder)
      /\ g \in W
    BY NodesAre
<1>3. ASSUME NEW a \in W, NEW p
      PROVE  LET b == Read(a, p) IN b \in W /\ ToSet(a.edges) \subseteq ToSet(b.edges) /\ FileShown(b, p)
    <2>1. a.name = g.name
        BY DEF Grown
    <2>2. CASE p \in DOMAIN a.name
        <3>1. PICK b : b = AddImports(a, p, computed)
            OBVIOUS
        <3>2. IsTree(g.tree) /\ p \in DOMAIN g.name /\ p \in DOMAIN g.tree
            BY <1>2, <2>1, <2>2
        <3>3. b \in W /\ ToSet(a.edges) \subseteq ToSet(b.edges) /\ FileShown(b, p)
            BY <3>1, <3>2, ImportsAdd
        <3> QED
            BY <2>2, <3>1, <3>3
    <2>3. CASE p \notin DOMAIN a.name
        <3>1. \A s : <<p, s>> \notin Reads(g, computed)
            BY <2>1, <2>3 DEF Reads
        <3> QED
            BY <2>3, <3>1
    <2> QED
        BY <2>2, <2>3
<1> HIDE DEF W, FileShown
<1>5. \E f : Iterates(f)
    <2>4. step \in Advances(n, W)
        <3> HIDE DEF n, Read
        <3> QED
            BY <1>3 DEF Advances
    <2>1. PICK f \in [SUBSET (1 .. n) -> W] : Folds(f, g, n, step)
        <3> HIDE DEF step, n
        <3> QED
            BY <1>1, <1>2, <2>4, Folding
    <2> HIDE DEF Read
    <2>2. ASSUME NEW S \in SUBSET (1 .. n), S # {}
          PROVE  f[S] = Read(f[S \ {Max(S)}], Files[Max(S)])
        <3>1. Max(S) \in 1 .. n
            BY <1>1, <2>2, Greatest
        <3>2. f[S \ {Max(S)}] \in W
            OBVIOUS
        <3>3. f[S] = step[Max(S)][f[S \ {Max(S)}]]
            BY <2>1, <2>2 DEF Folds
        <3> HIDE DEF n
        <3> QED
            BY <3>1, <3>2, <3>3
    <2>3. f[{}] = g
        BY <2>1 DEF Folds
    <2>5. Iterates(f)
        <3> HIDE DEF n, step
        <3> QED
            BY <1>1, <2>2, <2>3
    <2> QED
        BY <2>5
<1>6. Iterates(it)
    BY <1>5
<1>7. h = it[DOMAIN Files]
    BY DEF Build, FoldLeft, MapThenFoldSet
<1> HIDE DEF step, n, it, Read
<1>8. 0 \in T
    <2>1. 1 .. 0 = {}
        OBVIOUS
    <2>2. it[{}] = g
        BY <1>6
    <2>3. Done(g, 0)
        BY <1>2, <2>1
    <2> QED
        BY <2>1, <2>2, <2>3
<1>9. ASSUME NEW k \in Nat, k \in T, k + 1 <= n PROVE Done(it[1 .. k + 1], k + 1)
    <2>1. Max(1 .. k + 1) = k + 1 /\ (1 .. k + 1) \ {k + 1} = 1 .. k /\ 1 .. k + 1 # {}
        BY Initial
    <2>2. 1 .. k + 1 \in SUBSET DOMAIN Files
        BY <1>1, <1>9
    <2>3. it[1 .. k + 1] = Read(it[1 .. k], Files[k + 1])
        BY <1>6, <2>1, <2>2
    <2>4. Done(it[1 .. k], k)
        BY <1>1, <1>9
    <2>5. PICK a, b : a = it[1 .. k] /\ b = it[1 .. k + 1]
        OBVIOUS
    <2>6. b \in W /\ ToSet(a.edges) \subseteq ToSet(b.edges) /\ FileShown(b, Files[k + 1])
        BY <1>3, <2>3, <2>4, <2>5
    <2>7. \A j \in 1 .. k : FileShown(b, Files[j])
        BY <2>4, <2>5, <2>6, StillShown DEF FileShown
    <2>8. \A j \in 1 .. k + 1 : j \in 1 .. k \/ j = k + 1
        OBVIOUS
    <2>9. Done(b, k + 1)
        BY <2>6, <2>7, <2>8
    <2> QED
        BY <2>5, <2>9
<1>10. n \in T
    <2>1. \A k \in Nat : k \in T => k + 1 \in T
        BY <1>9
    <2> HIDE DEF T
    <2> QED
        BY <1>1, <1>8, <2>1, Induction
<1>12. Done(h, n)
    BY <1>1, <1>7, <1>10
<1>13. /\ h.name = g.name /\ h.tree = g.tree /\ g.known \subseteq h.known /\ h.edges \in Seq(EdgesOf(g, computed))
       /\ \A e \in ToSet(h.edges) : e.to \in h.known
    BY <1>12 DEF W, Grown
<1>14. IsList(h.edges)
    <2>1. PICK E : E = EdgesOf(g, computed)
        OBVIOUS
    <2>2. Len(h.edges) \in Nat /\ h.edges \in [1 .. Len(h.edges) -> E]
        BY <1>13, <2>1
    <2>3. h.edges \in [1 .. Len(h.edges) -> ToSet(h.edges)]
        BY <2>2 DEF ToSet
    <2> QED
        BY <2>2, <2>3 DEF IsList
<1>15. \A e \in ToSet(h.edges) : e.file \in DOMAIN h.name /\ e.from = h.name[e.file] /\ e.to \in h.known
    <2> TAKE e \in ToSet(h.edges)
    <2>1. e \in EdgesOf(g, computed)
        BY <1>13 DEF ToSet
    <2> QED
        BY <1>13, <2>1, EdgesOfAre
<1>16. Internal(h) = Internal(g)
    BY <1>13 DEF Internal
<1>17. ASSUME NEW r \in Reads(g, computed) PROVE AllShown(g, computed, ToSet(h.edges), r)
    <2>1. r = <<r[1], r[2]>> /\ r[1] \in Sources
        BY <1>2 DEF Reads
    <2>2. PICK j \in 1 .. n : r[1] = Files[j]
        BY <1>1, <2>1 DEF Sources, ToSet
    <2>3. FileShown(h, r[1])
        BY <1>12, <2>2
    <2> QED
        BY <2>1, <2>3 DEF FileShown
<1> QED
    BY <1>2, <1>12, <1>13, <1>14, <1>15, <1>16, <1>17 DEF IsGraph, W

(***************************************************************************)
(* What names mean                                                         *)
(***************************************************************************)
NameIn(tree, p) == Identity(Parsed(tree), p)

(* To p the name means one file at most, and no other file is called so.   *)
Means(tree, p, n) ==
    /\ \A q \in Existing(tree) : n \in {LogicalName[q], NameIn(tree, q)} => q \in Named(tree, p, n)
    /\ \A q, r \in Named(tree, p, n) : q = r
    /\ p \notin DOMAIN PathKey => \A q \in Named(tree, p, n) : NameIn(tree, q) = n

(* No name is taken for another: those of imports and of what they take    *)
(* mean what they say, relative ones start from a file that has its own    *)
(* name, and no name leads through a package of another language.  Rust is *)
(* left out, where a module that names its submodule does not load it.     *)
ClearNames(tree) ==
    \A p \in Existing(tree) : Language[p] # "rust" /\ \A s \in ImportsOf(tree, p) :
        /\ s.dots # 0 => p \notin DOMAIN PathKey /\ NameIn(tree, p) = LogicalName[p]
        /\ Means(tree, p, Absolute(p, s))
        /\ HasSubmodules(p) => \A x \in ToSet(s.symbols) :
                /\ Means(tree, p, Append(Absolute(p, s), x))
                /\ x = "*" => Named(tree, p, Append(Absolute(p, s), x)) = {}
        /\ \A q \in Existing(tree) :
                IsPrefix(LogicalName[q], Absolute(p, s)) /\ (HasSubmodules(p) \/ HasSubmodules(q))
                    => Language[q] = Language[p]

LEMMA ImportsOfAre ==
    ASSUME NEW tree, IsTree(tree), NEW p \in DOMAIN tree
    PROVE  /\ ImportsOf(tree, p) = {s \in ToSet(tree[p]) : s.kind = "import"}
           /\ \A s \in ImportsOf(tree, p) : IsList(s.symbols)
<1>1. PICK list, L, W : list = tree[p] /\ L = ToSet(list) /\ W = {s \in L : s.kind = "import"}
    OBVIOUS
<1>2. IsList(list) /\ \A s \in W : IsList(s.symbols)
    BY <1>1 DEF IsTree, IsText
<1>3. ToSet(Those(list, W)) = L \cap W
    BY <1>1, <1>2, ThoseKept DEF IsList
<1>4. ImportsOf(tree, p) = ToSet(Those(list, W))
    BY <1>1 DEF ImportsOf, Statements
<1> QED
    BY <1>1, <1>2, <1>3, <1>4

(* What the graph reads of a tree.                                         *)
LEMMA ReadsAre ==
    ASSUME NEW tree, IsTree(tree), NEW computed, NEW g, g = NodesOf(tree, Parsed(tree)),
           Nodes(Parsed(tree)) = Parsed(tree), NEW p, NEW s
    PROVE  <<p, s>> \in Reads(g, computed)
                <=> p \in Parsed(tree) /\ s \in ImportsOf(tree, p) /\ (computed \/ ~s.computed)
<1>1. g.tree = tree /\ DOMAIN g.name = Parsed(tree) /\ Parsed(tree) \subseteq DOMAIN tree
    BY DEF NodesOf, Parsed
<1>2. p \in Parsed(tree) =>
        ImportsOf(tree, p) = {x \in ToSet(tree[p]) : x.kind = "import"} /\ \A x \in ImportsOf(tree, p) : IsList(x.symbols)
    BY <1>1, ImportsOfAre
<1>3. PICK r : r = <<p, s>>
    OBVIOUS
<1>4. r \in Reads(g, computed) <=>
        /\ p \in Parsed(tree) /\ s \in UNION {ToSet(tree[q]) : q \in Parsed(tree)}
        /\ s \in ToSet(tree[p]) /\ s.kind = "import" /\ (computed \/ ~s.computed) /\ IsList(s.symbols)
    BY <1>1, <1>3 DEF Reads
<1>5. p \in Parsed(tree) /\ s \in ToSet(tree[p]) => s \in UNION {ToSet(tree[q]) : q \in Parsed(tree)}
    OBVIOUS
<1> QED
    BY <1>2, <1>3, <1>4, <1>5

(* An import goes to the file its name means.                              *)
LEMMA GoalIs ==
    ASSUME NEW tree, ClearNames(tree), Nodes(Parsed(tree)) = Parsed(tree),
           NEW g, g = NodesOf(tree, Parsed(tree)),
           NEW p \in Parsed(tree), NEW s \in ImportsOf(tree, p)
    PROVE  /\ \A q \in Parsed(tree) : g.name[q] = Goal(g, <<p, s>>) <=> q \in Named(tree, p, Absolute(p, s))
           /\ p \notin DOMAIN PathKey => Goal(g, <<p, s>>) = Absolute(p, s)
           /\ Goal(g, <<p, s>>) \notin Internal(g) => Goal(g, <<p, s>>) = Absolute(p, s)
<1>1. PICK n, goal, F, N : /\ n = Absolute(p, s) /\ goal = TargetName(g, p, s) /\ F = Parsed(tree)
                           /\ N = Named(tree, p, n)
    OBVIOUS
<1>2. goal = Goal(g, <<p, s>>)
    BY <1>1 DEF Goal
<1>3. F \subseteq Existing(tree) /\ DOMAIN g.name = F /\ \A q \in F : g.name[q] = NameIn(tree, q)
    BY <1>1 DEF Parsed, Existing, NodesOf, NameIn
<1>4. /\ \A q \in Existing(tree) : n \in {LogicalName[q], NameIn(tree, q)} => q \in N
      /\ \A q, r \in N : q = r
      /\ p \notin DOMAIN PathKey => \A q \in N : NameIn(tree, q) = n
      /\ s.dots # 0 => p \notin DOMAIN PathKey /\ NameIn(tree, p) = LogicalName[p]
    BY <1>1, <1>3 DEF ClearNames, Means
<1>5. Resolve(g, p, s) = n
    <2>1. CASE s.dots = 0
        BY <1>1, <2>1 DEF Resolve, Absolute
    <2>2. CASE s.dots # 0
        <3>1. g.name[p] = LogicalName[p]
            BY <1>1, <1>3, <1>4, <2>2
        <3> QED
            BY <1>1, <2>2, <3>1 DEF Resolve, Absolute, Package
    <2> QED
        BY <2>1, <2>2
<1>6. \A q \in N : LastOf({q}) = q
    BY DEF LastOf
<1>7. \A X : X \subseteq N => X = {} \/ \E q \in N : X = {q}
    BY <1>4
<1>8. \A X, otherwise : X \subseteq N /\ X \subseteq F =>
        \/ X = {} /\ NameOr(g, X, otherwise) = otherwise
        \/ \E q \in N \cap F : X = {q} /\ NameOr(g, X, otherwise) = g.name[q]
    BY <1>6, <1>7 DEF NameOr
<1>9. CASE p \in DOMAIN PathKey
    <2>1. s.target = n
        BY <1>1, <1>4, <1>9 DEF Absolute
    <2>2. N = {q \in Existing(tree) : q \in DOMAIN PathKey /\ PathKey[q] = n}
        BY <1>1, <1>9 DEF Named
    <2>3. Keyed(g, p, s.target) = N \cap F
        BY <1>3, <1>9, <2>1, <2>2 DEF Keyed
    <2>4. Scoped(g, p, n) \subseteq N \cap F
        BY <1>3, <1>4 DEF Scoped
    <2>5. CASE N \cap F = {}
        <3>1. goal = n
            BY <1>1, <1>5, <2>3, <2>4, <2>5 DEF TargetName, NameOr
        <3>2. \A q \in F : g.name[q] # goal
            BY <1>3, <1>4, <2>5, <3>1
        <3> QED
            BY <1>1, <1>2, <1>9, <2>5, <3>1, <3>2
    <2>6. CASE N \cap F # {}
        <3>1. PICK q \in N \cap F : N \cap F = {q} /\ NameOr(g, N \cap F, NameOr(g, Scoped(g, p, n), n)) = g.name[q]
            BY <1>8, <2>6
        <3>2. goal = g.name[q]
            BY <1>1, <1>5, <2>3, <3>1 DEF TargetName
        <3>3. \A r \in F : g.name[r] = goal => r = q
            BY <1>3, <3>1, <3>2, NodesAre
        <3>4. goal \in Internal(g)
            BY <1>3, <3>1, <3>2 DEF Internal
        <3> QED
            BY <1>1, <1>2, <1>4, <1>9, <3>1, <3>2, <3>3, <3>4
    <2> QED
        BY <2>5, <2>6
<1>10. CASE p \notin DOMAIN PathKey
    <2>1. N = {q \in Existing(tree) : Language[q] = Language[p] /\ Root[q] = Root[p] /\ LogicalName[q] = n}
        BY <1>1, <1>10 DEF Named
    <2>2. Keyed(g, p, s.target) = {}
        BY <1>10 DEF Keyed
    <2>3. Scoped(g, p, n) = N \cap F
        BY <1>3, <2>1 DEF Scoped
    <2>4. goal = NameOr(g, N \cap F, n)
        BY <1>1, <1>5, <2>2, <2>3 DEF TargetName, NameOr
    <2>5. goal = n
        BY <1>3, <1>4, <1>8, <1>10, <2>4
    <2>6. \A q \in F : g.name[q] = n <=> q \in N
        BY <1>3, <1>4, <1>10
    <2> QED
        BY <1>1, <1>2, <2>5, <2>6
<1> QED
    BY <1>9, <1>10

(* The files an import takes something of.                                 *)
Sub(tree, p, s, x) == IF HasSubmodules(p) THEN Named(tree, p, Append(Absolute(p, s), x)) ELSE {}

LEMMA LoadsAre ==
    ASSUME NEW tree, NEW p, NEW s, IsList(s.symbols), NEW q
    PROVE  q \in Loads(tree, p, s) <=>
                \/ s.symbols = << >> /\ q \in Named(tree, p, Absolute(p, s))
                \/ \E x \in ToSet(s.symbols) :
                    q \in (IF Sub(tree, p, s, x) = {} THEN Named(tree, p, Absolute(p, s)) ELSE Sub(tree, p, s, x))
<1>1. PICK n, N : n = Absolute(p, s) /\ N = Named(tree, p, n)
    OBVIOUS
<1> DEFINE Part(i) == IF HasSubmodules(p) THEN Named(tree, p, Append(n, s.symbols[i])) ELSE {}
           Attrs(b) == {a.name : a \in {x \in ToSet(Statements(tree, p, "attr")) : x.of = b}}
           Members(i) ==
               IF s.symbols[i] = "*" /\ i \in DOMAIN s.bindings /\ ~s.reexport
                  /\ s.bindings[i] \notin Names(tree, p, "use")
               THEN Attrs(s.bindings[i]) ELSE {s.symbols[i]}
           Of(files, names) == files \X ({""} \cup names)
           First == UNION {Attrs(s.bindings[i]) : i \in DOMAIN s.bindings \cap {1}}
           OfAll == IF s.symbols = << >> THEN Of(N, First) ELSE {}
           OfOne(i) == IF Part(i) = {} THEN Of(N, Members(i)) ELSE Of(Part(i), Attrs(Binding(s, i)))
<1>2. Taken(tree, p, s) = OfAll \cup UNION {OfOne(i) : i \in DOMAIN s.symbols}
    BY <1>1 DEF Taken
<1>3. ASSUME NEW files, NEW names PROVE q \in {t[1] : t \in Of(files, names)} <=> q \in files
    <2>1. ASSUME q \in files PROVE q \in {t[1] : t \in Of(files, names)}
        <3>1. PICK t : t = <<q, "">>
            OBVIOUS
        <3>2. t \in Of(files, names) /\ t[1] = q
            BY <2>1, <3>1
        <3> QED
            BY <3>2
    <2> QED
        BY <2>1
<1> HIDE DEF Of, First, Members, Attrs
<1>4. (\E t \in OfAll : q = t[1]) <=> s.symbols = << >> /\ q \in N
    BY <1>3
<1>5. \A i \in DOMAIN s.symbols :
        (\E t \in OfOne(i) : q = t[1]) <=> q \in (IF Part(i) = {} THEN N ELSE Part(i))
    BY <1>3
<1>6. \A i \in DOMAIN s.symbols : Part(i) = Sub(tree, p, s, s.symbols[i])
    BY <1>1 DEF Sub
<1> HIDE DEF OfAll, OfOne, Part
<1>7. q \in Loads(tree, p, s) <=> (\E t \in OfAll : q = t[1]) \/ \E i \in DOMAIN s.symbols : \E t \in OfOne(i) : q = t[1]
    BY <1>2 DEF Loads
<1>8. ToSet(s.symbols) = {s.symbols[i] : i \in DOMAIN s.symbols}
    BY DEF ToSet, IsList
<1> QED
    BY <1>1, <1>4, <1>5, <1>6, <1>7, <1>8

(* What an import takes by name, unless it is a namespace.                 *)
LEMMA TakingIs ==
    ASSUME NEW tree, NEW g, g = NodesOf(tree, Parsed(tree)), NEW p, NEW s, IsList(s.symbols)
    PROVE  \/ Taking(g, <<p, s>>) = ToSet(s.symbols)
           \/ Taking(g, <<p, s>>) = {} /\ ToSet(s.symbols) = {"*"}
<1>1. PICK symbols : symbols = Narrowed(tree, p, s)
    OBVIOUS
<1>2. Taking(g, <<p, s>>) = ToSet(symbols)
    BY <1>1 DEF Taking, NodesOf
<1>3. symbols = s.symbols \/ (symbols = << >> /\ s.symbols = <<"*">>)
    BY <1>1 DEF Narrowed
<1> QED
    BY <1>2, <1>3 DEF ToSet

LEMMA NothingTaken ==
    ASSUME NEW list, IsList(list)
    PROVE  ToSet(list) = {} <=> list = << >>
<1>1. DOMAIN list = 1 .. Len(list) /\ Len(list) \in Nat /\ list \in Seq(ToSet(list))
    BY DEF IsList
<1>2. CASE Len(list) = 0
    BY <1>1, <1>2 DEF ToSet
<1>3. CASE Len(list) # 0
    <2>1. 1 \in DOMAIN list /\ list # << >>
        BY <1>1, <1>3
    <2> QED
        BY <2>1 DEF ToSet
<1> QED
    BY <1>1, <1>2, <1>3

(* An edge to a file is of an import that takes something of the file.     *)
LEMMA EdgesLoad ==
    ASSUME NEW tree, IsTree(tree), ClearNames(tree), Whole(tree), NEW computed,
           NEW e \in ToSet(Build(tree, computed).edges),
           NEW q \in Existing(tree), e.to = Build(tree, computed).name[q]
    PROVE  /\ e.file \in Existing(tree) /\ e.import \in ImportsOf(tree, e.file)
           /\ computed \/ ~e.import.computed
           /\ q \in Loads(tree, e.file, e.import)
<1>1. PICK g, h : g = NodesOf(tree, Parsed(tree)) /\ h = Build(tree, computed)
    OBVIOUS
<1>2. Parsed(tree) = Existing(tree) /\ Nodes(Parsed(tree)) = Parsed(tree)
    BY DEF Whole, Nodes, Parsed, Existing
<1>3. h \in Grown(g, computed)
    BY <1>1, Built
<1>4. h.name = g.name /\ e \in EdgesOf(g, computed)
    BY <1>1, <1>3 DEF Grown, ToSet
<1>5. PICK p, s, r : p = e.file /\ s = e.import /\ r = <<p, s>>
    OBVIOUS
<1>6. r \in Reads(g, computed) /\ e.to \in May(g, r)
    BY <1>4, <1>5, EdgesOfAre
<1>7. p \in Parsed(tree) /\ s \in ImportsOf(tree, p) /\ (computed \/ ~s.computed)
    BY <1>1, <1>2, <1>5, <1>6, ReadsAre
<1>8. IsList(s.symbols)
    BY <1>7, ImportsOfAre DEF Parsed
<1>9. PICK n, N : n = Absolute(p, s) /\ N = Named(tree, p, n)
    OBVIOUS
<1>10. /\ \A x \in Parsed(tree) : g.name[x] = Goal(g, r) <=> x \in N
       /\ p \notin DOMAIN PathKey => Goal(g, r) = n
    BY <1>1, <1>2, <1>5, <1>7, <1>9, GoalIs
<1>11. /\ DOMAIN g.name = Parsed(tree) /\ g.known = {NameIn(tree, x) : x \in Parsed(tree)}
       /\ \A x \in Parsed(tree) : g.name[x] = NameIn(tree, x)
    BY <1>1, <1>2 DEF NodesOf, NameIn
<1>12. HasSubmodules(p) => p \notin DOMAIN PathKey
    BY GraphAssumption DEF HasSubmodules
<1>13. ASSUME NEW x \in ToSet(s.symbols), HasSubmodules(p)
       PROVE  /\ \A y \in Existing(tree) : y \in Named(tree, p, Append(n, x)) <=> NameIn(tree, y) = Append(n, x)
              /\ x = "*" => Named(tree, p, Append(n, x)) = {}
    <2>1. Means(tree, p, Append(n, x)) /\ (x = "*" => Named(tree, p, Append(n, x)) = {})
        BY <1>2, <1>7, <1>9, <1>13 DEF ClearNames
    <2> QED
        BY <1>12, <1>13, <2>1 DEF Means
<1>14. Taking(g, r) = ToSet(s.symbols) \/ (Taking(g, r) = {} /\ ToSet(s.symbols) = {"*"})
    BY <1>1, <1>5, <1>8, TakingIs
<1>15. \A x \in ToSet(s.symbols) : x = "*" => Sub(tree, p, s, x) = {}
    BY <1>9, <1>13 DEF Sub
<1>16. CASE e.to \in Submodules(g, r)
    <2>1. PICK x \in Taking(g, r) : e.to = Append(Goal(g, r), x) /\ HasSubmodules(p)
        BY <1>5, <1>16 DEF Submodules
    <2>2. x \in ToSet(s.symbols) /\ e.to = Append(n, x)
        BY <1>10, <1>12, <1>14, <2>1
    <2>3. NameIn(tree, q) = Append(n, x)
        BY <1>1, <1>2, <1>4, <1>11, <2>2
    <2>4. q \in Sub(tree, p, s, x)
        BY <1>9, <1>13, <2>1, <2>2, <2>3 DEF Sub
    <2>5. q \in Loads(tree, p, s)
        BY <1>8, <2>2, <2>4, LoadsAre
    <2> QED
        BY <1>2, <1>5, <1>7, <2>5
<1>17. CASE e.to = Goal(g, r) /\ TakesItself(g, r, g.known)
    <2>1. q \in N
        BY <1>1, <1>2, <1>4, <1>10, <1>17
    <2>2. CASE s.symbols = << >>
        BY <1>2, <1>5, <1>7, <1>8, <1>9, <2>1, <2>2, LoadsAre
    <2>3. CASE \E x \in ToSet(s.symbols) : Sub(tree, p, s, x) = {}
        BY <1>2, <1>5, <1>7, <1>8, <1>9, <2>1, <2>3, LoadsAre
    <2>4. CASE s.symbols # << >> /\ Taking(g, r) = {}
        <3>1. \E x \in ToSet(s.symbols) : x = "*"
            BY <1>8, <1>14, <2>4, NothingTaken
        <3> QED
            BY <1>15, <2>3, <3>1
    <2>5. CASE Taking(g, r) # {}
        <3>1. PICK x \in ToSet(s.symbols) : x = "*" \/ ~HasSubmodules(p) \/ Append(Goal(g, r), x) \notin g.known
            BY <1>5, <1>14, <1>17, <2>5 DEF TakesItself
        <3>2. CASE x = "*" \/ ~HasSubmodules(p)
            BY <1>15, <2>3, <3>2 DEF Sub
        <3>3. CASE HasSubmodules(p) /\ Append(Goal(g, r), x) \notin g.known
            <4>1. Append(n, x) \notin g.known
                BY <1>10, <1>12, <3>3
            <4>2. \A y \in Existing(tree) : y \notin Named(tree, p, Append(n, x))
                BY <1>2, <1>11, <1>13, <3>3, <4>1
            <4>3. Sub(tree, p, s, x) = {}
                BY <1>9, <4>2 DEF Sub, Named
            <4> QED
                BY <2>3, <4>3
        <3> QED
            BY <3>1, <3>2, <3>3
    <2> QED
        BY <2>2, <2>4, <2>5
<1> QED
    BY <1>6, <1>16, <1>17 DEF May

LEMMA AppendedAfter ==
    ASSUME NEW n, IsList(n), NEW x
    PROVE  IsStrictPrefix(n, Append(n, x))
<1>1. PICK m, S : m = Append(n, x) /\ S = ToSet(n) \cup {x}
    OBVIOUS
<1>2. n \in Seq(S) /\ x \in S /\ Len(n) \in Nat /\ DOMAIN n = 1 .. Len(n)
    <2>1. n \in Seq(ToSet(n)) /\ ToSet(n) \subseteq S
        BY <1>1 DEF IsList
    <2>2. n \in Seq(S)
        BY <2>1, SeqMonotonic
    <2> QED
        BY <1>1, <2>2
<1>3. m \in Seq(S) /\ Len(m) = Len(n) + 1 /\ \A i \in 1 .. Len(n) : m[i] = n[i]
    BY <1>1, <1>2
<1>4. SubSeq(n, 1, Len(n)) = [i \in 1 .. Len(n) |-> n[i]] /\ SubSeq(m, 1, Len(n)) = [i \in 1 .. Len(n) |-> m[i]]
    <2>1. \A f \in Seq(S) : Len(n) \in 0 .. Len(f) =>
            SubSeq(f, 1, Len(n)) \in Seq(S) /\ Len(SubSeq(f, 1, Len(n))) = Len(n)
            /\ \A i \in 1 .. Len(n) : SubSeq(f, 1, Len(n))[i] = f[i]
        BY <1>2
    <2>2. PICK a, b : a = SubSeq(n, 1, Len(n)) /\ b = SubSeq(m, 1, Len(n))
        OBVIOUS
    <2>3. /\ a \in Seq(S) /\ Len(a) = Len(n) /\ \A i \in 1 .. Len(n) : a[i] = n[i]
          /\ b \in Seq(S) /\ Len(b) = Len(n) /\ \A i \in 1 .. Len(n) : b[i] = m[i]
        BY <1>2, <1>3, <2>1, <2>2
    <2> QED
        BY <2>2, <2>3
<1>5. m # n
    BY <1>2, <1>3
<1>6. Len(n) <= Len(m) /\ SubSeq(n, 1, Len(n)) = SubSeq(m, 1, Len(n))
    <2>1. [i \in 1 .. Len(n) |-> n[i]] = [i \in 1 .. Len(n) |-> m[i]]
        BY <1>3
    <2> QED
        BY <1>2, <1>3, <1>4, <2>1
<1> QED
    BY <1>1, <1>5, <1>6 DEF IsStrictPrefix, IsPrefix

(* A submodule taken is one the graph knows, and where no import fails it  *)
(* knows no module of the name of what is taken of a file.                 *)
LEMMA SubmoduleIs ==
    ASSUME NEW tree, IsTree(tree), ClearNames(tree), Nodes(Parsed(tree)) = Parsed(tree),
           NEW g, g = NodesOf(tree, Parsed(tree)), NEW p \in Parsed(tree), NEW s \in ImportsOf(tree, p),
           NEW x \in ToSet(s.symbols), NEW q \in Parsed(tree), q \in Sub(tree, p, s, x)
    PROVE  /\ HasSubmodules(p) /\ x # "*"
           /\ g.name[q] = Append(Goal(g, <<p, s>>), x) /\ g.name[q] \in g.known
<1>1. p \in Existing(tree)
    BY DEF Parsed, Existing
<1>2. HasSubmodules(p) /\ q \in Named(tree, p, Append(Absolute(p, s), x))
    BY DEF Sub
<1>3. p \notin DOMAIN PathKey
    BY <1>2, GraphAssumption DEF HasSubmodules
<1>4. Goal(g, <<p, s>>) = Absolute(p, s)
    BY <1>3, GoalIs
<1>5. Means(tree, p, Append(Absolute(p, s), x)) /\ (x = "*" => Named(tree, p, Append(Absolute(p, s), x)) = {})
    BY <1>1, <1>2 DEF ClearNames
<1>6. x # "*" /\ NameIn(tree, q) = Append(Absolute(p, s), x)
    BY <1>2, <1>3, <1>5 DEF Means
<1>7. g.name[q] = NameIn(tree, q) /\ g.name[q] \in g.known
    BY DEF NodesOf, NameIn
<1> QED
    BY <1>2, <1>4, <1>6, <1>7

LEMMA NoSubmodule ==
    ASSUME NEW tree, IsTree(tree), ClearNames(tree), ~Dangling(tree), Nodes(Parsed(tree)) = Parsed(tree),
           NEW computed, NEW g, g = NodesOf(tree, Parsed(tree)),
           NEW p \in Parsed(tree), NEW s \in ImportsOf(tree, p), HasSubmodules(p),
           NEW x \in ToSet(s.symbols), Sub(tree, p, s, x) = {}, NEW q \in Named(tree, p, Absolute(p, s))
    PROVE  Append(Goal(g, <<p, s>>), x) \notin g.known \cup Goals(g, computed)
<1>1. PICK n, m : n = Absolute(p, s) /\ m = Append(n, x)
    OBVIOUS
<1>2. Parsed(tree) \subseteq Existing(tree)
    BY DEF Parsed, Existing
<1>3. \A y : HasSubmodules(y) => y \notin DOMAIN PathKey
    BY GraphAssumption DEF HasSubmodules
<1>4. Named(tree, p, m) = {} /\ Goal(g, <<p, s>>) = n
    BY <1>1, <1>3, GoalIs DEF Sub
<1>5. Means(tree, p, m)
    BY <1>1, <1>2 DEF ClearNames
<1>6. \A y \in Existing(tree) : m # NameIn(tree, y)
    BY <1>4, <1>5 DEF Means
<1>7. /\ DOMAIN g.name = Parsed(tree) /\ g.known = {NameIn(tree, y) : y \in Parsed(tree)}
      /\ \A y \in Parsed(tree) : g.name[y] = NameIn(tree, y)
    BY DEF NodesOf, NameIn
<1>8. m \notin g.known /\ m \notin Internal(g)
    BY <1>2, <1>6, <1>7 DEF Internal
<1>9. ASSUME m \in Goals(g, computed) PROVE FALSE
    <2>1. PICK r2 \in Reads(g, computed) : m = Goal(g, r2)
        BY <1>9 DEF Goals
    <2>2. PICK p2, s2 : r2 = <<p2, s2>>
        BY DEF Reads
    <2>3. p2 \in Parsed(tree) /\ s2 \in ImportsOf(tree, p2)
        BY <2>1, <2>2, ReadsAre
    <2>4. m = Absolute(p2, s2)
        BY <1>8, <2>1, <2>2, <2>3, GoalIs
    <2>5. p \notin DOMAIN PathKey
        BY <1>3
    <2>6. q \in Existing(tree) /\ Language[q] = Language[p] /\ LogicalName[q] = n
        BY <1>1, <2>5 DEF Named
    <2>7. IsStrictPrefix(LogicalName[q], m)
        BY <1>1, <2>6, AppendedAfter, GraphAssumption DEF Existing
    <2>8. HasSubmodules(q)
        BY <2>6 DEF HasSubmodules
    <2>9. IsPrefix(LogicalName[q], Absolute(p2, s2))
        BY <2>4, <2>7 DEF IsStrictPrefix
    <2>10. Language[q] = Language[p2]
        BY <1>2, <2>3, <2>6, <2>8, <2>9 DEF ClearNames
    <2>11. HasSubmodules(p2)
        BY <2>8, <2>10 DEF HasSubmodules
    <2>12. Named(tree, p2, m) = {}
        <3>1. Means(tree, p2, m)
            BY <1>2, <2>3, <2>4 DEF ClearNames
        <3>2. Named(tree, p2, m) \subseteq Existing(tree)
            BY DEF Named
        <3> QED
            BY <1>3, <1>6, <2>11, <3>1, <3>2 DEF Means
    <2> QED
        BY <1>2, <2>3, <2>4, <2>6, <2>7, <2>10, <2>11, <2>12 DEF Dangling
<1> QED
    BY <1>1, <1>4, <1>8, <1>9

(* A file an import takes something of has an edge, if no import fails.    *)
LEMMA LoadsHaveEdges ==
    ASSUME NEW tree, IsTree(tree), ClearNames(tree), ~Dangling(tree), Nodes(Parsed(tree)) = Parsed(tree),
           NEW computed, NEW p \in Parsed(tree), NEW s \in ImportsOf(tree, p), computed \/ ~s.computed,
           NEW q \in Parsed(tree), q \in Loads(tree, p, s)
    PROVE  Shown(ToSet(Build(tree, computed).edges), <<p, s>>, Build(tree, computed).name[q])
<1>1. PICK g, h, r : g = NodesOf(tree, Parsed(tree)) /\ h = Build(tree, computed) /\ r = <<p, s>>
    OBVIOUS
<1>2. r \in Reads(g, computed)
    BY <1>1, ReadsAre
<1>3. h \in Grown(g, computed) /\ AllShown(g, computed, ToSet(h.edges), r)
    BY <1>1, <1>2, Built
<1>4. h.name = g.name
    BY <1>3 DEF Grown
<1>5. SUFFICES g.name[q] \in Must(g, computed, r)
    BY <1>1, <1>3, <1>4 DEF AllShown
<1>6. IsList(s.symbols)
    BY ImportsOfAre DEF Parsed
<1>7. PICK N : N = Named(tree, p, Absolute(p, s))
    OBVIOUS
<1>8. Taking(g, r) = ToSet(s.symbols) \/ (Taking(g, r) = {} /\ ToSet(s.symbols) = {"*"})
    BY <1>1, <1>6, TakingIs
<1>9. CASE \E x \in ToSet(s.symbols) : q \in Sub(tree, p, s, x)
    <2>1. PICK x \in ToSet(s.symbols) : q \in Sub(tree, p, s, x)
        BY <1>9
    <2>2. HasSubmodules(p) /\ x # "*" /\ g.name[q] = Append(Goal(g, r), x) /\ g.name[q] \in g.known
        BY <1>1, <2>1, SubmoduleIs
    <2>3. x \in Taking(g, r)
        BY <1>8, <2>2
    <2>4. g.name[q] \in Submodules(g, r)
        BY <1>1, <2>2, <2>3 DEF Submodules
    <2> QED
        BY <2>2, <2>4 DEF Must
<1>10. CASE q \in N /\ (s.symbols = << >> \/ \E x \in ToSet(s.symbols) : Sub(tree, p, s, x) = {})
    <2>1. g.name[q] = Goal(g, r)
        BY <1>1, <1>7, <1>10, GoalIs
    <2>2. SUFFICES TakesItself(g, r, g.known \cup Goals(g, computed))
        BY <2>1 DEF Must
    <2>3. CASE Taking(g, r) = {}
        BY <2>3 DEF TakesItself
    <2>4. CASE Taking(g, r) # {}
        <3>1. Taking(g, r) = ToSet(s.symbols) /\ s.symbols # << >>
            BY <1>6, <1>8, <2>4, NothingTaken
        <3>2. PICK x \in ToSet(s.symbols) : Sub(tree, p, s, x) = {}
            BY <1>10, <3>1
        <3>3. HasSubmodules(p) => Append(Goal(g, r), x) \notin g.known \cup Goals(g, computed)
            BY <1>1, <1>7, <1>10, <3>2, NoSubmodule
        <3> QED
            BY <1>1, <3>1, <3>3 DEF TakesItself
    <2> QED
        BY <2>3, <2>4
<1> QED
    BY <1>6, <1>7, <1>9, <1>10, LoadsAre

LEMMA LoadsExist ==
    ASSUME NEW tree, IsTree(tree), NEW p \in Existing(tree), NEW s \in ImportsOf(tree, p)
    PROVE  Loads(tree, p, s) \subseteq Existing(tree)
<1>1. IsList(s.symbols)
    BY ImportsOfAre DEF Existing
<1>2. \A n : Named(tree, p, n) \subseteq Existing(tree)
    BY DEF Named
<1>3. \A x : Sub(tree, p, s, x) \subseteq Existing(tree)
    BY <1>2 DEF Sub
<1> QED
    BY <1>1, <1>2, <1>3, LoadsAre

(* The module graph of a tree links the files its imports link.            *)
LEMMA LinkedAtLoad ==
    ASSUME NEW tree, NEW p, NEW q
    PROVE  <<p, q>> \in ImportsAtLoad(tree) <=>
                /\ p \in Existing(tree) /\ p # q
                /\ \E s \in ImportsOf(tree, p) : AtLoad(s) /\ q \in Loads(tree, p, s)
<1> DEFINE OfFile(x) == UNION {{x} \X Loads(tree, x, s) : s \in {y \in ImportsOf(tree, x) : AtLoad(y)}}
<1>1. PICK l : l = <<p, q>>
    OBVIOUS
<1>2. Linked(tree, AtLoad) = UNION {OfFile(x) : x \in Existing(tree)}
    BY DEF Linked
<1>3. \A x : l \in OfFile(x) <=> x = p /\ \E s \in ImportsOf(tree, x) : AtLoad(s) /\ q \in Loads(tree, x, s)
    BY <1>1
<1> HIDE DEF OfFile
<1>4. l \in ImportsAtLoad(tree) <=> p # q /\ \E x \in Existing(tree) : l \in OfFile(x)
    BY <1>1, <1>2 DEF ImportsAtLoad
<1> QED
    BY <1>1, <1>3, <1>4

LEMMA LinksAreImports ==
    ASSUME NEW tree, IsTree(tree), ClearNames(tree), ~Dangling(tree), Whole(tree)
    PROVE  LinksAtLoad(Build(tree, FALSE)) = ImportsAtLoad(tree)
<1>1. PICK g, h : g = NodesOf(tree, Parsed(tree)) /\ h = Build(tree, FALSE)
    OBVIOUS
<1>2. Parsed(tree) = Existing(tree) /\ Nodes(Parsed(tree)) = Parsed(tree)
    BY DEF Whole, Nodes, Parsed, Existing
<1>3. h \in Grown(g, FALSE) /\ IsGraph(h) /\ DOMAIN h.name = Existing(tree)
    BY <1>1, <1>2, Built
<1>4. \A e \in ToSet(h.edges) : e \in EdgesOf(g, FALSE)
    <2>1. PICK E : E = EdgesOf(g, FALSE)
        OBVIOUS
    <2>2. h.edges \in Seq(E)
        BY <1>3, <2>1 DEF Grown
    <2>3. h.edges \in [1 .. Len(h.edges) -> E]
        BY <2>2
    <2> QED
        BY <2>1, <2>3 DEF ToSet
<1>5. \A e \in ToSet(CycleEdges(h, RUNTIME)) : e \in ToSet(h.edges) /\ IsCycleEdge(e, RUNTIME)
    BY <1>3, CycleEdgesAre DEF IsGraph
<1>6. \A e \in ToSet(h.edges) : IsCycleEdge(e, RUNTIME) => e \in ToSet(CycleEdges(h, RUNTIME))
    BY <1>3, CycleEdgesAre DEF IsGraph
<1>7. ASSUME NEW e \in ToSet(h.edges)
      PROVE  e.file \in Existing(tree) /\ e.from = h.name[e.file] /\ (e.decl <=> e.import.decl)
    <2>1. e.decl = (e.import.decl \/ IsContainment(e.file, e.from, e.to))
        BY <1>4, <1>7, EdgesOfAre
    <2>2. e.file \in Existing(tree) /\ e.from = h.name[e.file]
        BY <1>3, <1>7 DEF IsGraph
    <2>3. Language[e.file] # "rust"
        BY <2>2 DEF ClearNames
    <2>4. ~IsContainment(e.file, e.from, e.to)
        BY <2>3 DEF IsContainment
    <2> QED
        BY <2>1, <2>2, <2>4
<1>8. \A n \in Internal(h) : FileOf(h, n) \in Existing(tree) /\ h.name[FileOf(h, n)] = n
    BY <1>3, FileIs DEF Internal
<1>9. ASSUME NEW e \in ToSet(CycleEdges(h, RUNTIME)), e.to \in Internal(h)
      PROVE  <<e.file, FileOf(h, e.to)>> \in ImportsAtLoad(tree)
    <2>1. PICK p, q, s : p = e.file /\ q = FileOf(h, e.to) /\ s = e.import
        OBVIOUS
    <2>2. e \in ToSet(h.edges) /\ IsCycleEdge(e, RUNTIME)
        BY <1>5
    <2>3. q \in Existing(tree) /\ e.to = h.name[q]
        BY <1>8, <1>9, <2>1
    <2>4. p \in Existing(tree) /\ s \in ImportsOf(tree, p) /\ ~s.computed /\ q \in Loads(tree, p, s)
        BY <1>1, <2>1, <2>2, <2>3, EdgesLoad
    <2>5. AtLoad(s)
        BY <1>7, <2>1, <2>2, <2>4 DEF IsCycleEdge, AtLoad, RUNTIME
    <2>6. p # q
        BY <1>7, <2>1, <2>2, <2>3 DEF IsCycleEdge
    <2> QED
        BY <2>1, <2>4, <2>5, <2>6, LinkedAtLoad
<1>10. ASSUME NEW l \in ImportsAtLoad(tree) PROVE l \in LinksAtLoad(h)
    <2>1. PICK p, q : l = <<p, q>> /\ q \in Existing(tree)
        <3>1. \A x \in Existing(tree) : \A s \in ImportsOf(tree, x) : Loads(tree, x, s) \subseteq Existing(tree)
            BY LoadsExist
        <3> QED
            BY <3>1 DEF ImportsAtLoad, Linked
    <2>2. p \in Existing(tree) /\ p # q
        BY <2>1, LinkedAtLoad
    <2>3. PICK s \in ImportsOf(tree, p) : AtLoad(s) /\ q \in Loads(tree, p, s)
        BY <2>1, LinkedAtLoad
    <2>4. Shown(ToSet(h.edges), <<p, s>>, h.name[q])
        BY <1>1, <1>2, <2>1, <2>2, <2>3, LoadsHaveEdges DEF AtLoad
    <2>5. PICK e \in ToSet(h.edges) : e.file = p /\ e.import = s /\ e.to = h.name[q]
        BY <2>4 DEF Shown
    <2>6. e.from = h.name[p] /\ e.from # e.to
        BY <1>3, <1>7, <2>1, <2>2, <2>5 DEF IsGraph
    <2>7. IsCycleEdge(e, RUNTIME)
        BY <1>7, <2>3, <2>5, <2>6 DEF IsCycleEdge, AtLoad, RUNTIME
    <2>8. e \in ToSet(CycleEdges(h, RUNTIME)) /\ e.to \in Internal(h)
        BY <1>3, <1>6, <2>1, <2>5, <2>7 DEF Internal
    <2>9. FileOf(h, e.to) = q
        BY <1>3, <2>1, <2>5, FileIs
    <2> QED
        BY <2>1, <2>5, <2>8, <2>9 DEF LinksAtLoad
<1>11. LinksAtLoad(h) \subseteq ImportsAtLoad(tree)
    BY <1>9 DEF LinksAtLoad
<1> QED
    BY <1>1, <1>10, <1>11

(***************************************************************************)
(* The report of a change                                                  *)
(***************************************************************************)
(* Modules in a cycle are in one in a graph that has all of its edges.     *)
LEMMA ComponentKept ==
    ASSUME NEW g, IsGraph(g), NEW h, IsGraph(h), NEW phases, NEW C \in Components(g, phases),
           \A e \in EdgesWithin(g, C, phases) :
                /\ e.file \in DOMAIN h.name /\ FileOf(g, e.to) \in DOMAIN h.name
                /\ \E x \in ToSet(CycleEdges(h, phases)) :
                        x.from = h.name[e.file] /\ x.to = h.name[FileOf(g, e.to)]
    PROVE  \E D \in Components(h, phases) : {FileOf(g, n) : n \in C} \subseteq {FileOf(h, m) : m \in D}
<1>1. PICK R, Q : R = Links(ToSet(CycleEdges(g, phases))) /\ Q = Links(ToSet(CycleEdges(h, phases)))
    OBVIOUS
<1>2. PICK n0 \in Internal(g) : C = Both(R, n0) /\ Cardinality(C) >= 2 /\ \E m \in C : FileOf(g, m) \notin CycleExclude
    BY <1>1, ComponentsAre
<1>3. IsFiniteSet(R) /\ IsFiniteSet(Q)
    BY <1>1, GraphIsFinite
<1>4. C \subseteq Internal(g)
    BY <1>1, <1>2, BothInternal
<1>5. n0 \in C
    BY <1>2, <1>3, ReachIs DEF Both
<1>6. \A n \in Internal(g) : FileOf(g, n) \in DOMAIN g.name /\ g.name[FileOf(g, n)] = n
    BY FileIs DEF Internal
<1> DEFINE f(n) == h.name[FileOf(g, n)]
<1>7. ASSUME NEW r \in R, r[1] \in C, r[2] \in C
      PROVE  FileOf(g, r[1]) \in DOMAIN h.name /\ FileOf(g, r[2]) \in DOMAIN h.name /\ <<f(r[1]), f(r[2])>> \in Q
    <2>1. PICK e \in ToSet(CycleEdges(g, phases)) : r = <<e.from, e.to>>
        BY <1>1 DEF Links
    <2>2. e \in EdgesWithin(g, C, phases) /\ e.from = r[1] /\ e.to = r[2]
        BY <1>7, <2>1 DEF EdgesWithin
    <2>3. e \in ToSet(g.edges)
        BY CycleEdgesAre DEF IsGraph
    <2>4. FileOf(g, e.from) = e.file
        BY <2>3, FileIs DEF IsGraph
    <2>5. e.file \in DOMAIN h.name /\ FileOf(g, e.to) \in DOMAIN h.name
        BY <2>2
    <2>6. PICK x \in ToSet(CycleEdges(h, phases)) : x.from = h.name[e.file] /\ x.to = h.name[FileOf(g, e.to)]
        BY <2>2
    <2>7. <<x.from, x.to>> \in Q
        BY <1>1 DEF Links
    <2> QED
        BY <2>2, <2>4, <2>5, <2>6, <2>7
<1>8. \A X \in SUBSET C : X # {} /\ (\A r \in R : r[1] \in X /\ r[2] \in C => r[2] \in X) => X = C
    BY <1>2, <1>3, BothTogether
<1>9. ASSUME NEW n \in C PROVE FileOf(g, n) \in DOMAIN h.name
    <2> DEFINE X == {m \in C : FileOf(g, m) \in DOMAIN h.name}
    <2>1. \E r \in R : r[1] \in C /\ r[2] \in C
        <3> SUFFICES ASSUME \A r \in R : ~ (r[1] \in C /\ r[2] \in C) PROVE FALSE
            OBVIOUS
        <3>1. {n0} = C
            <4>1. PICK Z \in SUBSET C : Z = {n0}
                BY <1>5
            <4>2. Z # {} /\ \A r \in R : r[1] \in Z /\ r[2] \in C => r[2] \in Z
                BY <1>5, <4>1
            <4> QED
                BY <1>8, <4>1, <4>2
        <3>2. Cardinality(C) = 1
            BY <3>1, FS_Singleton
        <3> QED
            BY <1>2, <3>2
    <2>2. X # {}
        BY <1>7, <2>1
    <2>3. X = C
        BY <1>7, <1>8, <2>2
    <2> QED
        BY <2>3
<1>10. ASSUME NEW n \in C, NEW m \in C PROVE f(m) \in Reach(Q, {f(n)})
    <2> DEFINE X == {x \in C : f(x) \in Reach(Q, {f(n)})}
    <2>1. n \in X
        BY <1>3, ReachIs
    <2>2. Closed(Q, Reach(Q, {f(n)}))
        BY <1>3, ReachIs
    <2>3. ASSUME NEW r \in R, r[1] \in X, r[2] \in C PROVE r[2] \in X
        <3>1. PICK y : y = <<f(r[1]), f(r[2])>> /\ y \in Q
            BY <1>7, <2>3
        <3>2. y[2] \in Reach(Q, {f(n)})
            BY <2>2, <2>3, <3>1 DEF Closed
        <3> QED
            BY <2>3, <3>1, <3>2
    <2>4. X = C
        BY <1>8, <2>1, <2>3
    <2> QED
        BY <2>4
<1>11. PICK D : D = Both(Q, f(n0))
    OBVIOUS
<1>12. \A n \in C : f(n) \in D
    BY <1>5, <1>10, <1>11 DEF Both
<1>13. f(n0) \in Internal(h)
    BY <1>5, <1>9 DEF Internal
<1>14. D \subseteq Internal(h)
    BY <1>1, <1>11, <1>13, BothInternal
<1>15. \A n \in C : FileOf(h, f(n)) = FileOf(g, n)
    BY <1>9, FileIs
<1>16. {FileOf(g, n) : n \in C} \subseteq {FileOf(h, m) : m \in D}
    BY <1>12, <1>15
<1>17. Cardinality(D) >= 2
    <2>1. PICK F, G : F = {FileOf(g, n) : n \in C} /\ G = {FileOf(h, m) : m \in D}
        OBVIOUS
    <2>2. Cardinality(F) = Cardinality(C) /\ Cardinality(G) = Cardinality(D) /\ Cardinality(C) \in Nat /\ Cardinality(D) \in Nat
        BY <1>4, <1>14, <2>1, AsManyFiles
    <2>3. IsFiniteSet(G)
        <3>1. IsFiniteSet(D)
            BY <1>14, GraphIsFinite, FS_Subset
        <3>2. PICK F2 : F2 = [m \in D |-> FileOf(h, m)]
            OBVIOUS
        <3>3. G = {F2[m] : m \in D}
            BY <2>1, <3>2
        <3> QED
            BY <3>1, <3>3, FiniteImage
    <2>4. Cardinality(F) <= Cardinality(G)
        BY <1>16, <2>1, <2>3, FS_Subset
    <2> QED
        BY <1>2, <2>2, <2>4
<1>18. \E m \in D : FileOf(h, m) \notin CycleExclude
    BY <1>2, <1>12, <1>15
<1>19. D \in Components(h, phases)
    BY <1>1, <1>11, <1>13, <1>17, <1>18, ComponentsAre
<1> QED
    BY <1>16, <1>19

(* When a cycle of type-only imports is reported.                          *)
LEMMA TypedCycles ==
    ASSUME NEW g, NEW c
    PROVE  /\ c \in Cycles(g) /\ c.modules \notin Components(g, RUNTIME) =>
                IncludeTypeOnly /\ HasTypeOnlyEdge(g, c.modules) /\ c.modules \in Components(g, TYPE_LEVEL)
           /\ \A D \in Components(g, TYPE_LEVEL) : IncludeTypeOnly /\ HasTypeOnlyEdge(g, D) =>
                \E x \in Cycles(g) : x.modules = D
<1> DEFINE Finding(C, phases, action) == [modules |-> C, edges |-> ShortestCycle(g, C, phases), action |-> action]
           Warned == {Finding(C, RUNTIME, "warning") : C \in Components(g, RUNTIME)}
           Typed == {D \in Components(g, TYPE_LEVEL) \ Components(g, RUNTIME) :
                        IncludeTypeOnly /\ HasTypeOnlyEdge(g, D)}
           Informed == {Finding(C, TYPE_LEVEL, "info") : C \in Typed}
<1>1. Cycles(g) = Warned \cup Informed
    BY DEF Cycles, CyclesIn
<1>2. ASSUME c \in Cycles(g), c.modules \notin Components(g, RUNTIME) PROVE c.modules \in Typed
    <2>1. c \in Informed
        BY <1>1, <1>2
    <2> QED
        BY <2>1
<1>3. ASSUME NEW D \in Components(g, TYPE_LEVEL), IncludeTypeOnly, HasTypeOnlyEdge(g, D)
      PROVE  \E x \in Cycles(g) : x.modules = D
    <2>1. CASE D \in Components(g, RUNTIME)
        BY <2>1, CyclesAre
    <2>2. CASE D \in Typed
        <3>1. PICK x : x = Finding(D, TYPE_LEVEL, "info")
            OBVIOUS
        <3>2. x \in Informed /\ x.modules = D
            BY <2>2, <3>1
        <3> QED
            BY <1>1, <3>2
    <2> QED
        BY <1>3, <2>1, <2>2
<1> QED
    BY <1>2, <1>3

(* Every module of a component imports another of it.                      *)
LEMMA MembersLead ==
    ASSUME NEW g, IsGraph(g), NEW phases, NEW C \in Components(g, phases), NEW n \in C
    PROVE  \E e \in EdgesWithin(g, C, phases) : e.from = n
<1>1. PICK R : R = Links(ToSet(CycleEdges(g, phases)))
    OBVIOUS
<1>2. PICK n0 \in Internal(g) : C = Both(R, n0) /\ Cardinality(C) >= 2
    BY <1>1, ComponentsAre
<1>3. IsFiniteSet(R)
    BY <1>1, GraphIsFinite
<1>4. \E r \in R : r[1] = n /\ r[2] \in C
    <2> SUFFICES ASSUME \A r \in R : ~ (r[1] = n /\ r[2] \in C) PROVE FALSE
        OBVIOUS
    <2>1. PICK X \in SUBSET C : X = {n}
        OBVIOUS
    <2>2. X # {} /\ \A r \in R : r[1] \in X /\ r[2] \in C => r[2] \in X
        BY <2>1
    <2>3. X = C
        BY <1>2, <1>3, <2>2, BothTogether
    <2>4. Cardinality(C) = 1
        BY <2>1, <2>3, FS_Singleton
    <2> QED
        BY <1>2, <2>4
<1>5. PICK r \in R : r[1] = n /\ r[2] \in C
    BY <1>4
<1>6. PICK e \in ToSet(CycleEdges(g, phases)) : r = <<e.from, e.to>>
    BY <1>1 DEF Links
<1>7. e \in EdgesWithin(g, C, phases) /\ e.from = n
    BY <1>5, <1>6 DEF EdgesWithin
<1> QED
    BY <1>7

LEMMA MembersOfFiles ==
    ASSUME NEW g, IsGraph(g), NEW phases, NEW C \in Components(g, phases)
    PROVE  C \subseteq Internal(g)
<1>1. PICK R : R = Links(ToSet(CycleEdges(g, phases)))
    OBVIOUS
<1>2. PICK n \in Internal(g) : C = Both(R, n)
    BY <1>1, ComponentsAre
<1> QED
    BY <1>1, <1>2, BothInternal

(* An edge is of a statement of its file.                                  *)
LEMMA EdgesAreImports ==
    ASSUME NEW tree, IsTree(tree), NEW computed, NEW h, h = Build(tree, computed)
    PROVE  \A e \in ToSet(h.edges) :
                /\ e.file \in DOMAIN h.name /\ e.file \in Sources \cap DOMAIN tree /\ e.from = h.name[e.file]
                /\ e.import \in ToSet(tree[e.file])
                /\ e.decl = (e.import.decl \/ IsContainment(e.file, e.from, e.to))
<1> TAKE e \in ToSet(h.edges)
<1>1. PICK g, E : g = NodesOf(tree, Parsed(tree)) /\ E = EdgesOf(g, computed)
    OBVIOUS
<1>2. h \in Grown(g, computed) /\ IsGraph(h)
    BY <1>1, Built
<1>3. h.edges \in Seq(E) /\ h.name = g.name
    BY <1>1, <1>2 DEF Grown
<1>4. h.edges \in [1 .. Len(h.edges) -> E]
    BY <1>3
<1>5. e \in EdgesOf(g, computed)
    BY <1>1, <1>4 DEF ToSet
<1>6. PICK r : r = <<e.file, e.import>>
    OBVIOUS
<1>7. /\ r \in Reads(g, computed) /\ e.file \in DOMAIN g.name /\ e.from = g.name[e.file]
      /\ e.decl = (e.import.decl \/ IsContainment(e.file, e.from, e.to))
    BY <1>5, <1>6, EdgesOfAre
<1>8. g.tree = tree /\ DOMAIN g.name \subseteq Sources \cap DOMAIN tree
    BY <1>1, NodesAre
<1>9. e.import \in ToSet(g.tree[e.file])
    BY <1>6, <1>7 DEF Reads
<1> QED
    BY <1>3, <1>7, <1>8, <1>9

(* The files of modules of the graph h have no statement that is new.      *)
NothingNew(old, new, h, modules) ==
    \A n \in modules : \A s \in ToSet(new[FileOf(h, n)]) :
        FileOf(h, n) \in DOMAIN old /\ s \in ToSet(old[FileOf(h, n)])

(* The modules of a cycle of h were together in one of g.                  *)
WereTogether(g, h, modules) ==
    \E b \in Cycles(g) : \A n \in modules : \E m \in b.modules : FileOf(h, n) = FileOf(g, m)

(* Modules that import each other before and after: where the files of a   *)
(* cycle keep their imports, and none means another file, they were in one *)
(* together.                                                               *)
LEMMA CyclesTogether ==
    ASSUME NEW old, IsTree(old), ClearNames(old), ~Dangling(old), Whole(old),
           NEW new, IsTree(new), ClearNames(new), Whole(new), ~Retargeted(old, new),
           NEW c \in Cycles(Build(new, FALSE)),
           NothingNew(old, new, Build(new, FALSE), c.modules)
    PROVE  WereTogether(Build(old, FALSE), Build(new, FALSE), c.modules)
<1>0. PICK g, h : g = Build(old, FALSE) /\ h = Build(new, FALSE)
    OBVIOUS
<1>15. c \in Cycles(h) /\ \A n \in c.modules : \A s \in ToSet(new[FileOf(h, n)]) :
                    FileOf(h, n) \in DOMAIN old /\ s \in ToSet(old[FileOf(h, n)])
    BY <1>0 DEF NothingNew
<1>16. SUFFICES \E b \in Cycles(g) : \A n \in c.modules : \E m \in b.modules : FileOf(h, n) = FileOf(g, m)
    BY <1>0 DEF WereTogether
<1>1. /\ Parsed(old) = Existing(old) /\ Nodes(Parsed(old)) = Parsed(old)
      /\ Parsed(new) = Existing(new) /\ Nodes(Parsed(new)) = Parsed(new)
    BY DEF Whole, Nodes, Parsed, Existing
<1>2. IsGraph(g) /\ DOMAIN g.name = Existing(old) /\ IsGraph(h) /\ DOMAIN h.name = Existing(new)
    BY <1>0, <1>1, Built
<1>3. PICK C : C = c.modules
    OBVIOUS
<1>4. C \subseteq Internal(h) /\ (C \in Components(h, RUNTIME) \/ C \in Components(h, TYPE_LEVEL))
    <2>1. PICK phases \in {RUNTIME, TYPE_LEVEL} : C \in Components(h, phases)
        BY <1>3, <1>15, CyclesAre
    <2>2. C \subseteq Internal(h)
        BY <1>2, <2>1, MembersOfFiles
    <2> QED
        BY <2>1, <2>2
<1>5. \A n \in Internal(h) : FileOf(h, n) \in Existing(new) /\ h.name[FileOf(h, n)] = n
    BY <1>2, FileIs DEF Internal
<1>6. \A p \in Existing(new) : FileOf(h, h.name[p]) = p
    BY <1>2, FileIs
<1>7. \A e \in ToSet(h.edges) : /\ e.file \in Existing(new) /\ e.from = h.name[e.file]
                                 /\ e.import \in ToSet(new[e.file]) /\ (e.decl <=> e.import.decl)
    <2>0. \A e \in ToSet(h.edges) :
                /\ e.file \in DOMAIN h.name /\ e.file \in Sources \cap DOMAIN new /\ e.from = h.name[e.file]
                /\ e.import \in ToSet(new[e.file])
                /\ e.decl = (e.import.decl \/ IsContainment(e.file, e.from, e.to))
        BY ZenonT(30), <1>0, EdgesAreImports
    <2> TAKE e \in ToSet(h.edges)
    <2>1. /\ e.file \in DOMAIN h.name /\ e.from = h.name[e.file] /\ e.import \in ToSet(new[e.file])
          /\ e.decl = (e.import.decl \/ IsContainment(e.file, e.from, e.to))
        BY <2>0
    <2>2. ~IsContainment(e.file, e.from, e.to)
        BY <1>2, <2>1 DEF ClearNames, IsContainment
    <2> QED
        BY <1>2, <2>1, <2>2
<1>8. \A e \in ToSet(g.edges) : e.file \in Existing(old) /\ e.from = g.name[e.file] /\ (e.decl <=> e.import.decl)
    <2>0. \A e \in ToSet(g.edges) :
                /\ e.file \in DOMAIN g.name /\ e.file \in Sources \cap DOMAIN old /\ e.from = g.name[e.file]
                /\ e.import \in ToSet(old[e.file])
                /\ e.decl = (e.import.decl \/ IsContainment(e.file, e.from, e.to))
        BY ZenonT(30), <1>0, EdgesAreImports
    <2> TAKE e \in ToSet(g.edges)
    <2>1. /\ e.file \in DOMAIN g.name /\ e.from = g.name[e.file]
          /\ e.decl = (e.import.decl \/ IsContainment(e.file, e.from, e.to))
        BY <2>0
    <2>2. ~IsContainment(e.file, e.from, e.to)
        BY <1>2, <2>1 DEF ClearNames, IsContainment
    <2> QED
        BY <1>2, <2>1, <2>2
<1>9. /\ \A phases : \A e \in ToSet(CycleEdges(h, phases)) : e \in ToSet(h.edges) /\ IsCycleEdge(e, phases)
      /\ \A phases : \A e \in ToSet(g.edges) : IsCycleEdge(e, phases) => e \in ToSet(CycleEdges(g, phases))
    <2>1. IsList(g.edges) /\ IsList(h.edges)
        BY <1>2 DEF IsGraph
    <2> QED
        BY <2>1, CycleEdgesAre
<1>10. ASSUME NEW phases, C \in Components(h, phases), NEW n \in C PROVE FileOf(h, n) \in Existing(old)
    <2>1. PICK e \in EdgesWithin(h, C, phases) : e.from = n
        BY <1>2, <1>10, MembersLead
    <2>2. e \in ToSet(h.edges)
        BY <1>9 DEF EdgesWithin
    <2>3. FileOf(h, n) = e.file
        BY <1>6, <1>7, <2>1, <2>2
    <2>4. e.import \in ToSet(new[FileOf(h, n)])
        BY <1>7, <2>2, <2>3
    <2> QED
        BY <1>3, <1>4, <1>5, <1>15, <2>4 DEF Existing
(* The edge of the same import in the graph before.                        *)
<1>11. ASSUME NEW phases, C \in Components(h, phases), NEW e \in EdgesWithin(h, C, phases)
       PROVE  /\ e.file \in DOMAIN g.name /\ FileOf(h, e.to) \in DOMAIN g.name
              /\ \E x \in ToSet(CycleEdges(g, phases)) :
                    /\ x.from = g.name[e.file] /\ x.to = g.name[FileOf(h, e.to)]
                    /\ x.import = e.import
    <2>1. PICK p, q, s : p = e.file /\ q = FileOf(h, e.to) /\ s = e.import
        OBVIOUS
    <2>2. e \in ToSet(h.edges) /\ IsCycleEdge(e, phases) /\ e.from \in C /\ e.to \in C
        BY <1>9 DEF EdgesWithin
    <2>3. q \in Existing(new) /\ e.to = h.name[q] /\ q \in Existing(old)
        BY <1>4, <1>5, <1>10, <1>11, <2>1, <2>2
    <2>4. p = FileOf(h, e.from) /\ p \in Existing(new)
        BY <1>6, <1>7, <2>1, <2>2
    <2>5. p \in Existing(old)
        BY <1>10, <1>11, <2>2, <2>4
    <2>6. s \in ImportsOf(new, p) /\ ~s.computed /\ q \in Loads(new, p, s)
        BY <1>0, <2>1, <2>2, <2>3, EdgesLoad
    <2>7. s \in ToSet(old[p])
        BY <1>3, <1>7, <1>15, <2>1, <2>2, <2>4
    <2>8. s \in ImportsOf(old, p)
        BY <2>4, <2>5, <2>6, <2>7, ImportsOfAre DEF Existing
    <2>9. q \in Loads(old, p, s)
        BY <2>3, <2>4, <2>5, <2>6, <2>8 DEF Retargeted
    <2>10. Shown(ToSet(g.edges), <<p, s>>, g.name[q])
        BY <1>0, <1>1, <2>3, <2>5, <2>6, <2>8, <2>9, LoadsHaveEdges
    <2>11. PICK x \in ToSet(g.edges) : x.file = p /\ x.import = s /\ x.to = g.name[q]
        BY <2>10 DEF Shown
    <2>12. x.from = g.name[p] /\ (x.decl <=> s.decl) /\ (e.decl <=> s.decl)
        BY <1>7, <1>8, <2>1, <2>2, <2>11
    <2>13. p # q
        BY <1>7, <2>1, <2>2, <2>3 DEF IsCycleEdge
    <2>14. x.from # x.to
        BY <1>2, <2>3, <2>5, <2>11, <2>12, <2>13 DEF IsGraph
    <2>15. IsCycleEdge(x, phases)
        BY <2>1, <2>2, <2>11, <2>12, <2>14 DEF IsCycleEdge
    <2>16. x \in ToSet(CycleEdges(g, phases))
        BY <1>9, <2>15
    <2> QED
        BY <1>2, <2>1, <2>3, <2>5, <2>11, <2>12, <2>16
<1>12. ASSUME NEW phases, C \in Components(h, phases)
       PROVE  \E D \in Components(g, phases) : {FileOf(h, n) : n \in C} \subseteq {FileOf(g, m) : m \in D}
    BY <1>2, <1>11, <1>12, ComponentKept
<1>13. CASE C \in Components(h, RUNTIME)
    <2>1. PICK D \in Components(g, RUNTIME) : {FileOf(h, n) : n \in C} \subseteq {FileOf(g, m) : m \in D}
        BY <1>12, <1>13
    <2>2. PICK b \in Cycles(g) : b.modules = D
        BY CyclesAre
    <2> QED
        BY <1>3, <2>1, <2>2
<1>14. CASE C \notin Components(h, RUNTIME)
    <2>1. IncludeTypeOnly /\ HasTypeOnlyEdge(h, C) /\ C \in Components(h, TYPE_LEVEL)
        BY <1>3, <1>14, <1>15, TypedCycles
    <2>2. PICK D \in Components(g, TYPE_LEVEL) : {FileOf(h, n) : n \in C} \subseteq {FileOf(g, m) : m \in D}
        BY <1>12, <2>1
    <2>3. D \subseteq Internal(g)
        BY <1>2, MembersOfFiles
    <2>4. \A n \in C : FileOf(h, n) \in DOMAIN g.name /\ g.name[FileOf(h, n)] \in D
        <3> TAKE n \in C
        <3>1. PICK m \in D : FileOf(h, n) = FileOf(g, m)
            BY <2>2
        <3>2. FileOf(g, m) \in DOMAIN g.name /\ g.name[FileOf(g, m)] = m
            BY <1>2, <2>3, FileIs DEF Internal
        <3> QED
            BY <3>1, <3>2
    <2>5. PICK e \in ToSet(CycleEdges(h, TYPE_LEVEL)) : e.from \in C /\ e.to \in C /\ e.import.phase = "types"
        BY <2>1 DEF HasTypeOnlyEdge
    <2>6. e \in EdgesWithin(h, C, TYPE_LEVEL)
        BY <2>5 DEF EdgesWithin
    <2>7. PICK x \in ToSet(CycleEdges(g, TYPE_LEVEL)) :
                x.from = g.name[e.file] /\ x.to = g.name[FileOf(h, e.to)] /\ x.import = e.import
        BY <1>11, <2>1, <2>6
    <2>8. e.file = FileOf(h, e.from)
        BY <1>6, <1>7, <1>9
    <2>9. HasTypeOnlyEdge(g, D)
        BY <2>4, <2>5, <2>7, <2>8 DEF HasTypeOnlyEdge
    <2>10. PICK b \in Cycles(g) : b.modules = D
        BY <2>1, <2>9, TypedCycles
    <2> QED
        BY <1>3, <2>2, <2>10
<1> QED
    BY <1>13, <1>14

(* git shows every statement that is new, and every one that is gone,      *)
(* where nothing was renamed.                                              *)
LEMMA ChangeIsShown ==
    ASSUME NEW old, NEW new, NEW extra, Renames(old, new, extra) = {},
           NEW changed, changed = ChangedLines(old, new, extra),
           NEW p \in Sources, NEW s
    PROVE  /\ p \in DOMAIN new /\ s \in ToSet(new[p]) /\ ~Touches(changed, p, s)
                    => p \in DOMAIN old /\ s \in ToSet(old[p])
           /\ p \in DOMAIN new /\ s \in ToSet(new[p]) /\ ~TouchesFile(changed, p)
                    => p \in DOMAIN old /\ s \in ToSet(old[p])
           /\ p \in DOMAIN old /\ s \in ToSet(old[p]) /\ s \notin changed.removed
                    => p \in DOMAIN new /\ s \in ToSet(new[p])
<1> DEFINE Old(q) == IF q \in DOMAIN old THEN ToSet(old[q]) ELSE {}
           New(q) == IF q \in DOMAIN new THEN ToSet(new[q]) ELSE {}
<1>1. PICK shown : shown = DOMAIN old \cup extra
    OBVIOUS
<1>2. /\ changed.whole = (DOMAIN new \ shown) \cap Sources
      /\ changed.touched = [q \in {x \in shown : New(x) \ Old(x) # {}} |-> New(q) \ Old(q)]
      /\ changed.removed = UNION {Old(q) \ New(q) : q \in shown}
    BY <1>1 DEF ChangedLines, Untracked
<1>3. p \in DOMAIN new /\ p \notin shown => p \in changed.whole
    BY <1>2
<1>4. ASSUME p \in shown, s \in New(p) \ Old(p) PROVE p \in DOMAIN changed.touched /\ s \in changed.touched[p]
    BY <1>2, <1>4
<1>5. ASSUME p \in DOMAIN old, s \in Old(p) \ New(p) PROVE s \in changed.removed
    BY <1>1, <1>2, <1>5
<1>6. p \in DOMAIN new /\ s \in ToSet(new[p]) => s \in New(p)
    OBVIOUS
<1>7. s \in Old(p) => p \in DOMAIN old /\ s \in ToSet(old[p])
    OBVIOUS
<1>8. ASSUME p \in DOMAIN new, s \in ToSet(new[p]), ~ (p \in DOMAIN old /\ s \in ToSet(old[p]))
      PROVE  Touches(changed, p, s) /\ TouchesFile(changed, p)
    <2>1. CASE p \notin shown
        BY <1>3, <1>8, <2>1 DEF Touches, TouchesFile
    <2>2. CASE p \in shown
        BY <1>4, <1>6, <1>7, <1>8, <2>2 DEF Touches, TouchesFile
    <2> QED
        BY <2>1, <2>2
<1>9. ASSUME p \in DOMAIN old, s \in ToSet(old[p]), s \notin changed.removed
      PROVE  p \in DOMAIN new /\ s \in ToSet(new[p])
    BY <1>5, <1>9
<1> QED
    BY <1>8, <1>9

(* What the report of a change leaves out.                                 *)
LEMMA LeftOut ==
    ASSUME NEW g, NEW changed, NEW after, after = ReportOn(g), NEW kept, kept = Apply(after, changed)
    PROVE  /\ after.graph = g /\ after.cycles = Cycles(g)
           /\ \A c \in after.cycles \ kept.cycles : ~CycleKept(g, c, changed)
           /\ \A v \in after.boundaries \ kept.boundaries :
                v.edge \in ToSet(g.edges) /\ ~Touches(changed, v.edge.file, v.edge.import)
           /\ \A f \in after.deadCode \ kept.deadCode : ~DeadCodeKept(f, changed)
<1>1. after = [graph |-> g, cycles |-> Cycles(g), boundaries |-> Violations(g), deadCode |-> Detect(g)]
    BY DEF ReportOn
<1>2. /\ kept.cycles = {c \in Cycles(g) : CycleKept(g, c, changed)}
      /\ kept.boundaries = {v \in Violations(g) : BoundaryKept(v, changed)}
      /\ kept.deadCode = {f \in Detect(g) : DeadCodeKept(f, changed)}
    BY <1>1 DEF Apply
<1>3. \A v \in Violations(g) : v.edge \in ToSet(g.edges)
    BY DEF Violations
<1> QED
    BY <1>1, <1>2, <1>3 DEF BoundaryKept

(***************************************************************************)
(* Test selection                                                          *)
(***************************************************************************)
(* Assets are apart from modules: no file and no package an import asks    *)
(* for is named as one.                                                    *)
AssetsApart(tree) ==
    \A a \in DOMAIN AssetName :
        /\ \A q \in Existing(tree) :
                /\ AssetName[a] \notin {LogicalName[q], NameIn(tree, q)}
                /\ q \in DOMAIN PathKey => PathKey[q] # AssetName[a]
        /\ \A p \in Existing(tree) : HasSubmodules(p) => \A s \in ImportsOf(tree, p) :
                AssetName[a] \notin {Absolute(p, s)} \cup {Append(Absolute(p, s), x) : x \in ToSet(s.symbols)}

(* Imports that run, and how a file runs another.                          *)
Imports(tree, p, q) == \E s \in ImportsOf(tree, p) : Runtime(s) /\ q \in Loads(tree, p, s)
GlobsOf(tree, p) == UNION {s.matches : s \in ToSet(Statements(tree, p, "glob"))}
Names1(tree, p, q) ==
    q \in DOMAIN AssetName /\ \E s \in ImportsOf(tree, p) : Runtime(s) /\ Absolute(p, s) = AssetName[q]
Unsure(tree, p) == Statements(tree, p, "opaque") # << >>

LEMMA LinkedIs ==
    ASSUME NEW tree, NEW p, NEW q
    PROVE  <<p, q>> \in Linked(tree, Runtime) <=> p \in Existing(tree) /\ Imports(tree, p, q)
<1> DEFINE OfFile(x) == UNION {{x} \X Loads(tree, x, s) : s \in {y \in ImportsOf(tree, x) : Runtime(y)}}
<1>1. PICK l : l = <<p, q>>
    OBVIOUS
<1>2. Linked(tree, Runtime) = UNION {OfFile(x) : x \in Existing(tree)}
    BY DEF Linked
<1>3. \A x : l \in OfFile(x) <=> x = p /\ Imports(tree, x, q)
    BY <1>1 DEF Imports
<1> HIDE DEF OfFile
<1> QED
    BY <1>1, <1>2, <1>3

LEMMA BesideIs ==
    ASSUME NEW tree, NEW changed, NEW p, NEW q
    PROVE  q \in RunsBeside(tree, changed, p) <=>
                \/ q \in GlobsOf(tree, p) \cap Existing(tree)
                \/ Unsure(tree, p) /\ q \in Tested \cap DOMAIN tree \cap changed
                \/ Names1(tree, p, q)
BY DEF RunsBeside, GlobsOf, Unsure, Names1

LEMMA RunsAre ==
    ASSUME NEW tree, NEW changed, NEW p, NEW q
    PROVE  <<p, q>> \in Runs(tree, changed) <=>
                /\ p \in Existing(tree)
                /\ \/ Imports(tree, p, q)
                   \/ q \in GlobsOf(tree, p) \cap Existing(tree)
                   \/ Unsure(tree, p) /\ q \in Tested \cap DOMAIN tree \cap changed
                   \/ Names1(tree, p, q)
<1>1. PICK l : l = <<p, q>>
    OBVIOUS
<1>2. l \in UNION {{x} \X RunsBeside(tree, changed, x) : x \in Existing(tree)}
            <=> p \in Existing(tree) /\ q \in RunsBeside(tree, changed, p)
    BY <1>1
<1>3. l \in Runs(tree, changed) <=>
            l \in Linked(tree, Runtime) \/ (p \in Existing(tree) /\ q \in RunsBeside(tree, changed, p))
    BY <1>2 DEF Runs
<1> QED
    BY <1>1, <1>3, LinkedIs, BesideIs

LEMMA SourcesFinite == IsFiniteSet(Sources)
BY GraphAssumption, ListIsFinite DEF Sources, IsList

LEMMA LinkedFinite ==
    ASSUME NEW tree, IsTree(tree)
    PROVE  IsFiniteSet(Linked(tree, Runtime)) /\ Linked(tree, Runtime) \subseteq Sources \X Sources
<1>1. \A p \in Existing(tree) : \A s \in ImportsOf(tree, p) : Loads(tree, p, s) \subseteq Existing(tree)
    BY LoadsExist
<1>2. Existing(tree) \subseteq Sources
    BY DEF Existing
<1>3. Linked(tree, Runtime) \subseteq Sources \X Sources
    BY <1>1, <1>2 DEF Linked
<1> QED
    BY <1>3, SourcesFinite, FS_Product, FS_Subset

LEMMA RunsFinite ==
    ASSUME NEW tree, IsTree(tree), NEW changed
    PROVE  IsFiniteSet(Runs(tree, changed))
<1>1. PICK S : S = Sources \cup DOMAIN AssetName
    OBVIOUS
<1>2. IsFiniteSet(S)
    BY <1>1, SourcesFinite, ImpactAssumption, FS_Union
<1>3. Linked(tree, Runtime) \subseteq S \X S
    BY <1>1, LinkedFinite
<1>4. \A p : \A q \in RunsBeside(tree, changed, p) : q \in S
    BY <1>1, BesideIs DEF Existing, Tested, Names1
<1>5. Existing(tree) \subseteq S
    BY <1>1 DEF Existing
<1>6. Runs(tree, changed) \subseteq S \X S
    BY <1>3, <1>4, <1>5 DEF Runs
<1> QED
    BY <1>2, <1>6, FS_Product, FS_Subset

(* The walk goes from what an edge leads to, or a glob matches.            *)
LEMMA ReverseIs ==
    ASSUME NEW g, IsGraph(g)
    PROVE  /\ IsFiniteSet(ReverseEdges(g))
           /\ \A e \in ToSet(g.edges) : e.import.phase # "types" => <<e.to, e.from>> \in ReverseEdges(g)
           /\ \A p \in DOMAIN g.name : \A q \in GlobsOf(g.tree, p) \cap DOMAIN g.name :
                    <<g.name[q], g.name[p]>> \in ReverseEdges(g)
           /\ \A r \in ReverseEdges(g) :
                \/ \E e \in ToSet(g.edges) : e.import.phase # "types" /\ r = <<e.to, e.from>>
                \/ \E p \in DOMAIN g.name : \E q \in GlobsOf(g.tree, p) \cap DOMAIN g.name :
                        r = <<g.name[q], g.name[p]>>
<1> DEFINE Matching(p) == {<<g.name[q], g.name[p]>> : q \in GlobsOf(g.tree, p) \cap DOMAIN g.name}
<1>1. PICK E, A, B : /\ E = {x \in ToSet(g.edges) : x.import.phase # "types"}
                     /\ A = {<<e.to, e.from>> : e \in E}
                     /\ B = UNION {Matching(p) : p \in DOMAIN g.name}
    OBVIOUS
<1>2. ReverseEdges(g) = A \cup B
    BY <1>1 DEF ReverseEdges, GlobsOf
<1>3. \A r : r \in B <=> \E p \in DOMAIN g.name : \E q \in GlobsOf(g.tree, p) \cap DOMAIN g.name :
                        r = <<g.name[q], g.name[p]>>
    BY <1>1
<1>4. IsFiniteSet(A)
    <2>1. PICK L : L = ToSet(g.edges)
        OBVIOUS
    <2>2. g.edges \in Seq(L)
        BY <2>1 DEF IsGraph, IsList
    <2>3. IsFiniteSet(E)
        BY <1>1, <2>1, <2>2, ListIsFinite, FS_Subset
    <2>4. PICK f : f = [e \in E |-> <<e.to, e.from>>]
        OBVIOUS
    <2>5. A = {f[e] : e \in E}
        BY <1>1, <2>4
    <2> QED
        BY <2>3, <2>5, FiniteImage
<1>5. IsFiniteSet(B)
    <2>1. IsFiniteSet(Internal(g))
        BY GraphIsFinite
    <2>2. B \subseteq Internal(g) \X Internal(g)
        BY <1>3 DEF Internal
    <2> QED
        BY <2>1, <2>2, FS_Product, FS_Subset
<1>6. IsFiniteSet(A \cup B)
    BY <1>4, <1>5, FS_Union
<1> QED
    BY <1>1, <1>2, <1>3, <1>6

(* What a changed path seeds.                                              *)
LEMMA PlaceIs ==
    ASSUME NEW g, NEW tree, NEW p
    PROVE  /\ p \in DOMAIN g.name => Place(g, tree, p).seeds = {g.name[p]}
           /\ p \notin DOMAIN g.name /\ IsAsset(g, p) => Place(g, tree, p).seeds = {AssetName[p]}
           /\ \A n \in Place(g, tree, p).seeds :
                \/ p \in DOMAIN g.name /\ n = g.name[p]
                \/ IsAsset(g, p) /\ n = AssetName[p]
<1> DEFINE placed == DOMAIN g.name \cup {a \in DOMAIN AssetName : IsAsset(g, a)}
<1>1. IsAsset(g, p) => p \in placed
    BY DEF IsAsset
<1>2. DOMAIN g.name \subseteq placed
    OBVIOUS
<1>3. Place(g, tree, p) =
        CASE p \in DOMAIN g.name -> [seeds |-> {g.name[p]}, as |-> "graph"]
          [] p \notin DOMAIN g.name /\ IsAsset(g, p) -> [seeds |-> {AssetName[p]}, as |-> "assets"]
          [] p \in Tested \ (placed \cup DOMAIN tree) -> [seeds |-> {}, as |-> "missing"]
          [] p \in DOMAIN tree \ (placed \cup GlobalTriggers) -> [seeds |-> {}, as |-> "unmapped"]
          [] OTHER -> [seeds |-> {}, as |-> "ignored"]
    BY DEF Place
<1> HIDE DEF placed
<1>4. p \in DOMAIN g.name => Place(g, tree, p) = [seeds |-> {g.name[p]}, as |-> "graph"]
    BY <1>2, <1>3
<1>5. p \notin DOMAIN g.name /\ IsAsset(g, p) => Place(g, tree, p) = [seeds |-> {AssetName[p]}, as |-> "assets"]
    BY <1>1, <1>3
<1>6. p \notin DOMAIN g.name /\ ~IsAsset(g, p) =>
            \E as \in {"missing", "unmapped", "ignored"} : Place(g, tree, p) = [seeds |-> {}, as |-> as]
    BY <1>3
<1> QED
    BY <1>4, <1>5, <1>6

LEMMA SeedsAre ==
    ASSUME NEW g, NEW tree, NEW changed, NEW n
    PROVE  n \in Seeds(g, tree, changed) <=>
                \/ \E p \in changed : n \in Place(g, tree, p).seeds
                \/ changed \cap Tested # {} /\ \E p \in Opaque(tree) \cap DOMAIN g.name : n = g.name[p]
BY DEF Seeds

(* Where the edges of a file's imports go, but for files.                  *)
LEMMA EdgesAway ==
    ASSUME NEW tree, IsTree(tree), ClearNames(tree), Nodes(Parsed(tree)) = Parsed(tree), NEW computed,
           NEW e \in ToSet(Build(tree, computed).edges), e.to \notin Internal(Build(tree, computed))
    PROVE  LET n == Absolute(e.file, e.import) IN
           /\ e.file \in Parsed(tree) /\ e.import \in ImportsOf(tree, e.file)
           /\ \/ e.to = n
              \/ HasSubmodules(e.file) /\ \E x \in ToSet(e.import.symbols) : e.to = Append(n, x)
<1>1. PICK g, h, E : g = NodesOf(tree, Parsed(tree)) /\ h = Build(tree, computed) /\ E = EdgesOf(g, computed)
    OBVIOUS
<1>2. h \in Grown(g, computed)
    BY <1>1, Built
<1>3. h.edges \in Seq(E) /\ h.name = g.name
    BY <1>1, <1>2 DEF Grown
<1>4. h.edges \in [1 .. Len(h.edges) -> E]
    BY <1>3
<1>5. e \in EdgesOf(g, computed)
    BY <1>1, <1>4 DEF ToSet
<1>6. PICK p, s, r : p = e.file /\ s = e.import /\ r = <<p, s>>
    OBVIOUS
<1>7. r \in Reads(g, computed) /\ e.to \in May(g, r)
    BY <1>5, <1>6, EdgesOfAre
<1>8. p \in Parsed(tree) /\ s \in ImportsOf(tree, p)
    BY <1>1, <1>6, <1>7, ReadsAre
<1>9. IsList(s.symbols)
    BY <1>8, ImportsOfAre DEF Parsed
<1>10. /\ p \notin DOMAIN PathKey => Goal(g, r) = Absolute(p, s)
       /\ Goal(g, r) \notin Internal(g) => Goal(g, r) = Absolute(p, s)
    BY <1>1, <1>6, <1>8, GoalIs
<1>11. HasSubmodules(p) => p \notin DOMAIN PathKey
    BY GraphAssumption DEF HasSubmodules
<1>12. Internal(g) = Internal(h)
    BY <1>3 DEF Internal
<1>13. CASE e.to \in Submodules(g, r)
    <2>1. PICK x \in Taking(g, r) : e.to = Append(Goal(g, r), x) /\ HasSubmodules(p)
        BY <1>6, <1>13 DEF Submodules
    <2>2. x \in ToSet(s.symbols)
        BY <1>1, <1>6, <1>9, <2>1, TakingIs
    <2> QED
        BY <1>6, <1>8, <1>10, <1>11, <2>1, <2>2
<1>14. CASE e.to = Goal(g, r)
    BY <1>1, <1>6, <1>8, <1>10, <1>12, <1>14
<1> QED
    BY <1>7, <1>13, <1>14 DEF May

(* Where no name means an asset too, an edge to an asset is of an import   *)
(* of it.                                                                  *)
LEMMA EdgesToAssets ==
    ASSUME NEW tree, IsTree(tree), ClearNames(tree), AssetsApart(tree), Nodes(Parsed(tree)) = Parsed(tree),
           NEW computed, NEW e \in ToSet(Build(tree, computed).edges),
           e.to \notin Internal(Build(tree, computed)),
           NEW a \in DOMAIN AssetName, e.to = AssetName[a]
    PROVE  /\ e.file \in Existing(tree) /\ e.import \in ImportsOf(tree, e.file)
           /\ Absolute(e.file, e.import) = AssetName[a]
<1>1. PICK p, s : p = e.file /\ s = e.import
    OBVIOUS
<1>2. /\ p \in Parsed(tree) /\ s \in ImportsOf(tree, p)
      /\ e.to = Absolute(p, s) \/ (HasSubmodules(p) /\ \E x \in ToSet(s.symbols) : e.to = Append(Absolute(p, s), x))
    BY <1>1, EdgesAway
<1>3. p \in Existing(tree)
    BY <1>2 DEF Parsed, Existing
<1>4. HasSubmodules(p) => \A x \in ToSet(s.symbols) : AssetName[a] # Append(Absolute(p, s), x)
    BY <1>2, <1>3 DEF AssetsApart
<1> QED
    BY <1>1, <1>2, <1>3, <1>4

(* An import of a text runs or is of types only.                           *)
LEMMA Phases ==
    ASSUME NEW tree, IsTree(tree), NEW p \in DOMAIN tree, NEW s \in ImportsOf(tree, p)
    PROVE  s.phase \in TYPE_LEVEL /\ (s.phase # "types" => Runtime(s))
<1>1. s \in ToSet(tree[p]) /\ s.kind = "import"
    BY ImportsOfAre
<1> QED
    BY <1>1 DEF IsTree, IsText, TYPE_LEVEL, Runtime

(* The step the walk takes back along an edge, a file takes forward.       *)
LEMMA EdgesRun ==
    ASSUME NEW tree, IsTree(tree), ClearNames(tree), AssetsApart(tree), Whole(tree), NEW changed,
           NEW g, g = Build(tree, TRUE), NEW e \in ToSet(g.edges), e.import.phase # "types"
    PROVE  /\ e.file \in DOMAIN g.name /\ e.from = g.name[e.file]
           /\ \A q \in DOMAIN g.name : e.to = g.name[q] => <<e.file, q>> \in Runs(tree, changed)
           /\ \A a \in DOMAIN AssetName : e.to = AssetName[a] /\ e.to \notin Internal(g)
                    => <<e.file, a>> \in Runs(tree, changed)
<1>1. PICK p, s : p = e.file /\ s = e.import
    OBVIOUS
<1>2. IsGraph(g) /\ DOMAIN g.name = Existing(tree) /\ Nodes(Parsed(tree)) = Parsed(tree)
    BY ZenonT(30), Built DEF Whole, Nodes, Parsed, Existing
<1>3. p \in DOMAIN g.name /\ e.from = g.name[p]
    BY <1>1, <1>2 DEF IsGraph
<1>4. ASSUME NEW q \in DOMAIN g.name, e.to = g.name[q] PROVE <<p, q>> \in Runs(tree, changed)
    <2>1. s \in ImportsOf(tree, p) /\ q \in Loads(tree, p, s)
        BY <1>1, <1>2, <1>4, EdgesLoad
    <2>2. Runtime(s)
        BY <1>1, <1>2, <1>3, <2>1, Phases DEF Existing
    <2>3. Imports(tree, p, q)
        BY <2>1, <2>2 DEF Imports
    <2> QED
        BY <1>2, <1>3, <2>3, RunsAre
<1>5. ASSUME NEW a \in DOMAIN AssetName, e.to = AssetName[a], e.to \notin Internal(g)
      PROVE  <<p, a>> \in Runs(tree, changed)
    <2>1. p \in Existing(tree) /\ s \in ImportsOf(tree, p) /\ Absolute(p, s) = AssetName[a]
        BY <1>1, <1>2, <1>5, EdgesToAssets
    <2>2. Runtime(s)
        BY <1>1, <2>1, Phases DEF Existing
    <2>3. Names1(tree, p, a)
        BY <2>1, <2>2 DEF Names1
    <2> QED
        BY <2>1, <2>3, RunsAre
<1> QED
    BY <1>1, <1>3, <1>4, <1>5

(* What the walk reaches runs something that changed, where no source was  *)
(* deleted.                                                                *)
LEMMA ReachedRun ==
    ASSUME NEW tree, IsTree(tree), ClearNames(tree), AssetsApart(tree), Whole(tree),
           NEW changed, changed \cap Tested \subseteq DOMAIN tree,
           NEW t \in DOMAIN Build(tree, TRUE).name,
           Build(tree, TRUE).name[t] \in
                Reach(ReverseEdges(Build(tree, TRUE)), Seeds(Build(tree, TRUE), tree, changed))
    PROVE  Reach(Runs(tree, changed), {t}) \cap changed # {}
<1>1. PICK g, runs, back, seeds : /\ g = Build(tree, TRUE) /\ runs = Runs(tree, changed)
                                  /\ back = ReverseEdges(g) /\ seeds = Seeds(g, tree, changed)
    OBVIOUS
<1>2. IsGraph(g) /\ DOMAIN g.name = Existing(tree) /\ g.tree = tree
    BY <1>1, Built DEF Whole, Existing
<1>3. IsFiniteSet(runs) /\ IsFiniteSet(back)
    BY <1>1, <1>2, RunsFinite, ReverseIs
<1> DEFINE Affects1(p) == Reach(runs, {p}) \cap changed # {}
<1>4. \A p : p \in changed => Affects1(p)
    BY <1>3, ReachIs
<1>5. ASSUME NEW p, NEW q, <<p, q>> \in runs, Affects1(q) PROVE Affects1(p)
    <2>1. q \in Reach(runs, {p})
        <3>1. PICK X : X = Reach(runs, {p})
            OBVIOUS
        <3>2. p \in X /\ Closed(runs, X)
            BY <1>3, <3>1, ReachIs
        <3> QED
            BY <1>5, <3>1, <3>2 DEF Closed
    <2>2. Reach(runs, {q}) \subseteq Reach(runs, {p})
        BY <1>3, <2>1, ReachOn
    <2> QED
        BY <1>5, <2>2
<1> HIDE DEF Affects1
<1>6. PICK X : X = {n \in Internal(g) : \E p \in DOMAIN g.name : n = g.name[p] /\ Affects1(p)}
                    \cup ({AssetName[a] : a \in (DOMAIN AssetName) \cap changed} \ Internal(g))
    OBVIOUS
<1>7. /\ \A p \in DOMAIN g.name : g.name[p] \in X <=> Affects1(p)
      /\ \A n \in X : n \notin Internal(g) => \E a \in (DOMAIN AssetName) \cap changed : n = AssetName[a]
      /\ \A a \in (DOMAIN AssetName) \cap changed : AssetName[a] \notin Internal(g) => AssetName[a] \in X
    BY <1>2, <1>6 DEF IsGraph, Internal
<1>8. seeds \subseteq X
    <2>1. ASSUME NEW p \in changed, NEW n \in Place(g, tree, p).seeds PROVE n \in X
        <3>1. CASE p \in DOMAIN g.name /\ n = g.name[p]
            BY <1>4, <1>7, <2>1, <3>1
        <3>2. CASE IsAsset(g, p) /\ n = AssetName[p]
            BY <1>7, <2>1, <3>2 DEF IsAsset
        <3> QED
            BY <2>1, <3>1, <3>2, PlaceIs
    <2>2. ASSUME changed \cap Tested # {}, NEW p \in Opaque(tree) \cap DOMAIN g.name PROVE g.name[p] \in X
        <3>1. PICK q \in changed \cap Tested : TRUE
            BY <2>2
        <3>2. q \in Tested \cap DOMAIN tree \cap changed /\ Unsure(tree, p)
            BY <2>2, <3>1 DEF Opaque, Unsure
        <3>3. <<p, q>> \in runs
            BY <1>1, <1>2, <2>2, <3>2, RunsAre
        <3> QED
            BY <1>4, <1>5, <1>7, <2>2, <3>1, <3>3
    <2>3. ASSUME NEW n \in seeds PROVE n \in X
        <3>0. n \in Seeds(g, tree, changed)
            BY <1>1, <2>3
        <3>1. \/ \E p \in changed : n \in Place(g, tree, p).seeds
              \/ changed \cap Tested # {} /\ \E p \in Opaque(tree) \cap DOMAIN g.name : n = g.name[p]
            BY <3>0, SeedsAre
        <3> QED
            BY <2>1, <2>2, <3>1
    <2> QED
        BY <2>3
<1>9. Closed(back, X)
    <2> SUFFICES ASSUME NEW r \in back, r[1] \in X PROVE r[2] \in X
        BY DEF Closed
    <2>1. CASE \E e \in ToSet(g.edges) : e.import.phase # "types" /\ r = <<e.to, e.from>>
        <3>1. PICK e \in ToSet(g.edges) : e.import.phase # "types" /\ r = <<e.to, e.from>>
            BY <2>1
        <3>2. /\ e.file \in DOMAIN g.name /\ e.from = g.name[e.file]
              /\ \A q \in DOMAIN g.name : e.to = g.name[q] => <<e.file, q>> \in runs
              /\ \A a \in DOMAIN AssetName : e.to = AssetName[a] /\ e.to \notin Internal(g)
                        => <<e.file, a>> \in runs
            BY <1>1, <3>1, EdgesRun
        <3>3. CASE e.to \in Internal(g)
            <4>1. PICK q \in DOMAIN g.name : e.to = g.name[q]
                BY <3>3 DEF Internal
            <4> QED
                BY <1>5, <1>7, <3>1, <3>2, <4>1
        <3>4. CASE e.to \notin Internal(g)
            <4>1. PICK a \in (DOMAIN AssetName) \cap changed : e.to = AssetName[a]
                BY <1>7, <3>1, <3>4
            <4> QED
                BY <1>4, <1>5, <1>7, <3>1, <3>2, <3>4, <4>1
        <3> QED
            BY <3>3, <3>4
    <2>2. ASSUME NEW p \in DOMAIN g.name, NEW q \in GlobsOf(g.tree, p) \cap DOMAIN g.name,
                 r = <<g.name[q], g.name[p]>>
          PROVE  r[2] \in X
        <3>1. <<p, q>> \in runs
            BY <1>1, <1>2, <2>2, RunsAre
        <3> QED
            BY <1>5, <1>7, <2>2, <3>1
    <2> QED
        BY <1>1, <1>2, <2>1, <2>2, ReverseIs
<1>10. Reach(back, seeds) \subseteq X
    BY <1>3, <1>8, <1>9, ReachIs
<1>11. g.name[t] \in X
    BY <1>1, <1>10
<1>12. Affects1(t)
    BY <1>1, <1>7, <1>11
<1> QED
    BY <1>1, <1>12 DEF Affects1

(* What a file says depends on its text only.                              *)
LEMMA SameText ==
    ASSUME NEW old, NEW new, NEW p, old[p] = new[p]
    PROVE  /\ ImportsOf(old, p) = ImportsOf(new, p) /\ GlobsOf(old, p) = GlobsOf(new, p)
           /\ Unsure(old, p) = Unsure(new, p)
BY DEF ImportsOf, GlobsOf, Unsure, Statements

(* The change can be placed in the graph: no source was deleted, and what  *)
(* does not parse was not changed and imports nothing.                     *)
NothingHidden(old, new) == ~ChangeFallback(old, new) /\ ~HidesTests(old, new)
NoRust(tree) == \A p \in Existing(tree) : Language[p] # "rust"

LEMMA UnchangedIs ==
    ASSUME NEW old, NEW new, NEW tree \in {old, new}, NEW p \in Existing(tree), p \notin ChangedPaths(old, new)
    PROVE  p \in Existing(old) /\ p \in Existing(new) /\ old[p] = new[p]
BY DEF ChangedPaths, Deleted, Existing

LEMMA ChangedAreParsed ==
    ASSUME NEW old, NEW new, NothingHidden(old, new), NEW tree \in {old, new}, NoRust(tree),
           NEW p \in Existing(tree), p \in ChangedPaths(old, new) \/ p \notin DOMAIN new
    PROVE  p \in Parsed(new) /\ p \in Tested
<1>1. p \in Tested
    BY DEF NoRust, Existing, Tested
<1>2. p \in DOMAIN new
    BY <1>1 DEF NothingHidden, ChangeFallback, Deleted, Existing
<1>3. p \in Parsed(new)
    BY <1>2 DEF NothingHidden, HidesTests, Existing
<1> QED
    BY <1>1, <1>3

(* Only a file that parses runs others.                                    *)
LEMMA ActiveAreParsed ==
    ASSUME NEW old, NEW new, NothingHidden(old, new), IsTree(new), NEW p \in Existing(new),
           \/ ImportsOf(new, p) # {} \/ GlobsOf(new, p) # {} \/ Unsure(new, p)
    PROVE  p \in Parsed(new)
<1>1. PICK list, L : list = new[p] /\ L = ToSet(list)
    OBVIOUS
<1>2. IsList(list)
    BY <1>1 DEF IsTree, IsText, Existing
<1>3. ASSUME NEW kind, Statements(new, p, kind) # << >> PROVE \E s \in L : s.kind = kind
    <2>1. PICK W : W = {s \in L : s.kind = kind}
        OBVIOUS
    <2>2. Statements(new, p, kind) = Those(list, W)
        BY <1>1, <2>1 DEF Statements
    <2>3. ToSet(Those(list, W)) = L \cap W /\ Those(list, W) \in Seq(W)
        BY <1>1, <1>2, ThoseKept DEF IsList
    <2>4. Those(list, W)[1] \in ToSet(Those(list, W))
        BY <1>3, <2>2, <2>3 DEF ToSet
    <2> QED
        BY <2>1, <2>3, <2>4
<1>4. \A kind : ToSet(Statements(new, p, kind)) # {} => Statements(new, p, kind) # << >>
    BY DEF ToSet
<1>5. \E s \in L : s.kind \in {"import", "glob", "opaque"}
    BY <1>3, <1>4 DEF ImportsOf, GlobsOf, Unsure
<1>6. MayImport(new, p)
    BY <1>1, <1>5 DEF MayImport
<1> QED
    BY <1>6 DEF NothingHidden, HidesTests, Existing

(* A file an unchanged import loads, it still loads, or a new file in its  *)
(* place.                                                                  *)
LEMMA LoadsStay ==
    ASSUME NEW old, NEW new, IsTree(old), IsTree(new), NEW p \in Existing(old) \cap Existing(new), old[p] = new[p],
           NEW s \in ImportsOf(new, p), NEW q \in Existing(new), q \in Loads(old, p, s)
    PROVE  q \in Loads(new, p, s) \/ \E z \in Loads(new, p, s) : z \in Existing(new) \ Existing(old)
<1>1. IsList(s.symbols)
    BY ImportsOfAre DEF Existing
<1>2. \A n : \A x \in Existing(new) : x \in Named(old, p, n) => x \in Named(new, p, n)
    BY DEF Named
<1>3. \A n : \A x \in Named(new, p, n) : x \in Existing(new) /\ (x \in Existing(old) => x \in Named(old, p, n))
    BY DEF Named
<1>4. /\ \A x : q \in Sub(old, p, s, x) => q \in Sub(new, p, s, x)
      /\ \A x : \A z \in Sub(new, p, s, x) : z \in Existing(new) /\ (z \in Existing(old) => z \in Sub(old, p, s, x))
    BY <1>2, <1>3 DEF Sub
<1>5. CASE s.symbols = << >> /\ q \in Named(old, p, Absolute(p, s))
    BY <1>1, <1>2, <1>5, LoadsAre
<1>6. ASSUME NEW x \in ToSet(s.symbols),
             q \in (IF Sub(old, p, s, x) = {} THEN Named(old, p, Absolute(p, s)) ELSE Sub(old, p, s, x))
      PROVE  q \in Loads(new, p, s) \/ \E z \in Loads(new, p, s) : z \in Existing(new) \ Existing(old)
    <2>1. CASE q \in Sub(old, p, s, x)
        <3>1. q \in Sub(new, p, s, x)
            BY <1>4, <2>1
        <3> QED
            BY <1>1, <3>1, LoadsAre
    <2>2. CASE Sub(old, p, s, x) = {} /\ q \in Named(old, p, Absolute(p, s))
        <3>1. q \in Named(new, p, Absolute(p, s))
            BY <1>2, <2>2
        <3>2. CASE Sub(new, p, s, x) = {}
            BY <1>1, <3>1, <3>2, LoadsAre
        <3>3. CASE Sub(new, p, s, x) # {}
            <4>1. PICK z \in Sub(new, p, s, x) : z \in Existing(new) \ Existing(old)
                BY <1>4, <2>2, <3>3
            <4>2. z \in Loads(new, p, s)
                BY <1>1, <4>1, LoadsAre
            <4> QED
                BY <4>1, <4>2
        <3> QED
            BY <3>2, <3>3
    <2> QED
        BY <1>6, <2>1, <2>2
<1> QED
    BY <1>1, <1>5, <1>6, LoadsAre

(* What a file loads is a step of the walks, back to it and on from it.    *)
LEMMA LoadsAreWalked ==
    ASSUME NEW tree, IsTree(tree), ClearNames(tree), ~Dangling(tree), Nodes(Parsed(tree)) = Parsed(tree),
           NEW g, g = Build(tree, TRUE), NEW p \in Parsed(tree), NEW q \in Parsed(tree), Imports(tree, p, q)
    PROVE  <<g.name[q], g.name[p]>> \in ReverseEdges(g) /\ <<p, q>> \in RuntimeLinks(g)
<1>1. PICK s \in ImportsOf(tree, p) : Runtime(s) /\ q \in Loads(tree, p, s)
    BY DEF Imports
<1>2. IsGraph(g) /\ DOMAIN g.name = Parsed(tree)
    BY Built
<1>3. Shown(ToSet(g.edges), <<p, s>>, g.name[q])
    BY <1>1, LoadsHaveEdges
<1>4. PICK e \in ToSet(g.edges) : e.file = p /\ e.import = s /\ e.to = g.name[q]
    BY <1>3 DEF Shown
<1>5. e.from = g.name[p] /\ e.to \in Internal(g) /\ FileOf(g, e.to) = q
    <2>1. FileOf(g, g.name[q]) = q
        BY <1>2, FileIs
    <2> QED
        BY <1>2, <1>4, <2>1 DEF IsGraph, Internal
<1>6. e.import.phase = "runtime"
    BY <1>1, <1>4 DEF Runtime
<1>7. <<g.name[q], g.name[p]>> \in ReverseEdges(g)
    BY <1>2, <1>4, <1>5, <1>6, ReverseIs
<1>8. <<p, q>> \in RuntimeLinks(g)
    BY <1>4, <1>5, <1>6 DEF RuntimeLinks
<1> QED
    BY <1>7, <1>8

(* So is an asset a file names, which then has its node.                   *)
LEMMA AssetsAreWalked ==
    ASSUME NEW tree, IsTree(tree), ClearNames(tree), AssetsApart(tree), Nodes(Parsed(tree)) = Parsed(tree),
           NEW h, h = Build(tree, TRUE), NEW p \in Parsed(tree), NEW a, Names1(tree, p, a)
    PROVE  <<AssetName[a], h.name[p]>> \in ReverseEdges(h) /\ IsAsset(h, a) /\ a \notin DOMAIN h.name
<1>1. PICK s \in ImportsOf(tree, p) : Runtime(s) /\ Absolute(p, s) = AssetName[a] /\ a \in DOMAIN AssetName
    BY DEF Names1
<1>2. IsGraph(h) /\ DOMAIN h.name = Parsed(tree)
    BY Built
<1>3. PICK g, r : g = NodesOf(tree, Parsed(tree)) /\ r = <<p, s>>
    OBVIOUS
<1>4. r \in Reads(g, TRUE)
    BY <1>1, <1>3, ReadsAre
<1>5. h \in Grown(g, TRUE) /\ AllShown(g, TRUE, ToSet(h.edges), r)
    BY <1>3, <1>4, Built
<1>6. h.name = g.name
    BY <1>5 DEF Grown
<1>7. \A q \in Parsed(tree) : g.name[q] = NameIn(tree, q)
    BY <1>3 DEF NodesOf, NameIn
<1>8. Parsed(tree) \subseteq Existing(tree)
    BY DEF Parsed, Existing
<1>9. ~HasSubmodules(p)
    BY <1>1, <1>8 DEF AssetsApart
<1>10. AssetName[a] \notin Internal(g)
    BY <1>1, <1>2, <1>6, <1>7, <1>8 DEF AssetsApart, Internal
<1>11. Named(tree, p, AssetName[a]) = {}
    BY <1>1 DEF AssetsApart, Named
<1>12. \A q \in Parsed(tree) : g.name[q] # Goal(g, r)
    BY <1>1, <1>3, <1>11, GoalIs
<1>13. Goal(g, r) \notin Internal(g)
    BY <1>2, <1>6, <1>12 DEF Internal
<1>14. Goal(g, r) = AssetName[a]
    BY <1>1, <1>3, <1>13, GoalIs
<1>15. TakesItself(g, r, g.known \cup Goals(g, TRUE))
    BY <1>3, <1>9 DEF TakesItself
<1>16. AssetName[a] \in Must(g, TRUE, r)
    BY <1>14, <1>15 DEF Must
<1>17. PICK e \in ToSet(h.edges) : e.file = p /\ e.import = s /\ e.to = AssetName[a]
    BY <1>3, <1>5, <1>16 DEF AllShown, Shown
<1>18. e.from = h.name[p] /\ e.to \in h.known
    BY <1>2, <1>17 DEF IsGraph
<1>19. <<AssetName[a], h.name[p]>> \in ReverseEdges(h)
    <2>1. e.import.phase # "types"
        BY <1>1, <1>17 DEF Runtime
    <2> QED
        BY <1>2, <1>17, <1>18, <2>1, ReverseIs
<1>20. IsAsset(h, a)
    BY <1>1, <1>6, <1>10, <1>17, <1>18 DEF IsAsset, Internal
<1>21. a \notin DOMAIN h.name
    BY <1>1, <1>2, ImpactAssumption DEF IsGraph
<1> QED
    BY <1>19, <1>20, <1>21

(* What the theorem asks of the trees, and a plan that is not the whole    *)
(* suite of the change.                                                    *)
Placeable(old, new) ==
    /\ IsTree(old) /\ IsTree(new) /\ NoRust(old) /\ NoRust(new)
    /\ ClearNames(new) /\ AssetsApart(new) /\ ~Dangling(new)
    /\ Nodes(Parsed(new)) = Parsed(new) /\ NothingHidden(old, new)

(* What an unchanged file loads, in either tree, the working tree has, and *)
(* the file loads it there, or something that changed.                     *)
LEMMA LoadedStay ==
    ASSUME NEW old, NEW new, Placeable(old, new), NEW tree \in {old, new},
           NEW p \in Existing(tree), p \notin ChangedPaths(old, new), NEW q, Imports(tree, p, q)
    PROVE  /\ p \in Parsed(new) /\ q \in Existing(new)
           /\ \/ Imports(new, p, q)
              \/ \E z \in Existing(new) \cap ChangedPaths(old, new) : Imports(new, p, z)
<1>1. p \in Existing(old) /\ p \in Existing(new) /\ old[p] = new[p]
    BY UnchangedIs
<1>2. PICK s \in ImportsOf(tree, p) : Runtime(s) /\ q \in Loads(tree, p, s)
    BY DEF Imports
<1>3. s \in ImportsOf(new, p) /\ s \in ImportsOf(old, p)
    BY <1>1, <1>2, SameText
<1>4. IsTree(old) /\ IsTree(new) /\ NothingHidden(old, new) /\ NoRust(tree)
    BY DEF Placeable
<1>5. p \in Parsed(new)
    BY <1>1, <1>3, <1>4, ActiveAreParsed
<1>6. q \in Existing(tree)
    BY <1>2, <1>4, LoadsExist
<1>7. q \in Existing(new)
    <2>1. CASE q \in DOMAIN new
        BY <1>6, <2>1 DEF Existing
    <2>2. CASE q \notin DOMAIN new
        BY <1>4, <1>6, <2>2, ChangedAreParsed DEF Parsed
    <2> QED
        BY <2>1, <2>2
<1>8. CASE q \in Loads(new, p, s)
    BY <1>2, <1>3, <1>5, <1>7, <1>8 DEF Imports
<1>9. CASE q \notin Loads(new, p, s)
    <2>1. q \in Loads(old, p, s)
        BY <1>2, <1>9
    <2>2. PICK z \in Loads(new, p, s) : z \in Existing(new) \ Existing(old)
        BY <1>1, <1>3, <1>4, <1>7, <1>9, <2>1, LoadsStay
    <2>3. z \in ChangedPaths(old, new)
        BY <2>2 DEF ChangedPaths, Existing
    <2> QED
        BY <1>2, <1>3, <1>5, <1>7, <2>2, <2>3 DEF Imports
<1> QED
    BY <1>8, <1>9

(* The walk of a plan reaches what changed.                                *)
ReachedFrom(g, new, changed) == Reach(ReverseEdges(g), Seeds(g, new, changed))

LEMMA ChangedAreReached ==
    ASSUME NEW old, NEW new, Placeable(old, new), NEW tree \in {old, new},
           NEW changed, changed = ChangedPaths(old, new), NEW g, g = Build(new, TRUE),
           NEW p \in Existing(tree) \cap changed
    PROVE  p \in DOMAIN g.name /\ g.name[p] \in ReachedFrom(g, new, changed)
<1>1. IsGraph(g) /\ DOMAIN g.name = Parsed(new)
    BY Built DEF Placeable
<1>2. p \in Parsed(new)
    <2>1. NothingHidden(old, new) /\ NoRust(tree)
        BY DEF Placeable
    <2> QED
        BY <2>1, ChangedAreParsed
<1>3. Place(g, new, p).seeds = {g.name[p]}
    BY <1>1, <1>2, PlaceIs
<1>4. g.name[p] \in Seeds(g, new, changed)
    BY <1>3, SeedsAre
<1>5. IsFiniteSet(ReverseEdges(g))
    BY <1>1, ReverseIs
<1>6. Seeds(g, new, changed) \subseteq ReachedFrom(g, new, changed)
    BY <1>5, ReachIs DEF ReachedFrom
<1> QED
    BY <1>1, <1>2, <1>4, <1>6

IsReached(g, new, changed, p) == p \in DOMAIN g.name /\ g.name[p] \in ReachedFrom(g, new, changed)
Matters(g, new, changed, p) == p \in changed \/ IsReached(g, new, changed, p)

(* An unchanged file that runs something reached, or something that        *)
(* changed, is reached.                                                    *)
LEMMA RunsAreWalked ==
    ASSUME NEW old, NEW new, Placeable(old, new), NEW tree \in {old, new},
           NEW changed, changed = ChangedPaths(old, new), NEW g, g = Build(new, TRUE),
           NEW p \in Existing(tree), p \notin changed, NEW q, <<p, q>> \in Runs(tree, changed),
           Matters(g, new, changed, q)
    PROVE  IsReached(g, new, changed, p)
<1>0. PICK reached : reached = ReachedFrom(g, new, changed)
    OBVIOUS
<1>14. q \in changed \/ (q \in DOMAIN g.name /\ g.name[q] \in reached)
    BY <1>0 DEF Matters, IsReached
<1>15. SUFFICES p \in DOMAIN g.name /\ g.name[p] \in reached
    BY <1>0 DEF IsReached
<1>1. /\ IsTree(old) /\ IsTree(new) /\ NoRust(tree) /\ ClearNames(new) /\ AssetsApart(new) /\ ~Dangling(new)
      /\ Nodes(Parsed(new)) = Parsed(new) /\ NothingHidden(old, new)
    BY DEF Placeable
<1>2. IsGraph(g) /\ DOMAIN g.name = Parsed(new) /\ g.tree = new
    BY <1>1, Built
<1>3. p \in Existing(old) /\ p \in Existing(new) /\ old[p] = new[p]
    BY UnchangedIs
<1>4. /\ ImportsOf(tree, p) = ImportsOf(new, p) /\ GlobsOf(tree, p) = GlobsOf(new, p)
      /\ Unsure(tree, p) = Unsure(new, p)
    BY <1>3, SameText
<1>5. PICK back, seeds : back = ReverseEdges(g) /\ seeds = Seeds(g, new, changed)
    OBVIOUS
<1>6. seeds \subseteq reached /\ Closed(back, reached)
    <2>1. IsFiniteSet(back)
        BY <1>2, <1>5, ReverseIs
    <2>2. reached = Reach(back, seeds)
        BY <1>0, <1>5 DEF ReachedFrom
    <2> QED
        BY <2>1, <2>2, ReachIs
<1>7. \A n, m : <<n, m>> \in back /\ n \in reached => m \in reached
    BY <1>6 DEF Closed
<1>8. \A x \in Existing(new) \cap changed : x \in DOMAIN g.name /\ g.name[x] \in reached
    BY <1>0, ChangedAreReached
<1>9. \A x \in Existing(tree) \cap changed : x \in DOMAIN g.name /\ g.name[x] \in reached
    BY <1>0, ChangedAreReached
<1>10. CASE Imports(tree, p, q)
    <2>1. p \in Parsed(new) /\ q \in Existing(new)
          /\ (Imports(new, p, q) \/ \E z \in Existing(new) \cap changed : Imports(new, p, z))
        BY <1>10, LoadedStay
    <2>2. q \in DOMAIN g.name /\ g.name[q] \in reached
        BY <1>8, <1>14, <2>1
    <2>3. PICK z \in DOMAIN g.name : g.name[z] \in reached /\ Imports(new, p, z)
        BY <1>8, <2>1, <2>2
    <2>4. <<g.name[z], g.name[p]>> \in back
        BY <1>1, <1>2, <1>5, <2>1, <2>3, LoadsAreWalked
    <2> QED
        BY <1>2, <1>7, <2>1, <2>3, <2>4
<1>11. CASE q \in GlobsOf(tree, p) \cap Existing(tree)
    <2>1. q \in DOMAIN g.name /\ g.name[q] \in reached
        BY <1>9, <1>11, <1>14
    <2>2. p \in Parsed(new)
        BY <1>1, <1>3, <1>4, <1>11, ActiveAreParsed
    <2>3. <<g.name[q], g.name[p]>> \in back
        BY <1>2, <1>4, <1>5, <1>11, <2>1, <2>2, ReverseIs
    <2> QED
        BY <1>2, <1>7, <2>1, <2>2, <2>3
<1>12. CASE Unsure(tree, p) /\ q \in Tested \cap DOMAIN tree \cap changed
    <2>1. p \in Parsed(new)
        BY <1>1, <1>3, <1>4, <1>12, ActiveAreParsed
    <2>2. p \in Opaque(new)
        BY <1>1, <1>3, <1>4, <1>12 DEF Opaque, Unsure, NoRust, Tested, Existing
    <2>3. g.name[p] \in Seeds(g, new, changed)
        <3>1. changed \cap Tested # {}
            BY <1>12
        <3> QED
            BY <1>2, <2>1, <2>2, <3>1, SeedsAre
    <2> QED
        BY <1>2, <1>5, <1>6, <2>1, <2>3
<1>13. CASE Names1(tree, p, q)
    <2>1. Names1(new, p, q) /\ ImportsOf(new, p) # {} /\ q \in DOMAIN AssetName
        BY <1>4, <1>13 DEF Names1
    <2>2. p \in Parsed(new)
        BY <1>1, <1>3, <2>1, ActiveAreParsed
    <2>3. <<AssetName[q], g.name[p]>> \in back /\ IsAsset(g, q) /\ q \notin DOMAIN g.name
        BY <1>1, <1>5, <2>1, <2>2, AssetsAreWalked
    <2>4. q \in changed /\ Place(g, new, q).seeds = {AssetName[q]}
        BY <1>14, <2>3, PlaceIs
    <2>5. AssetName[q] \in Seeds(g, new, changed)
        BY <2>4, SeedsAre
    <2> QED
        BY <1>2, <1>5, <1>6, <1>7, <2>2, <2>3, <2>5
<1> QED
    BY <1>10, <1>11, <1>12, <1>13, RunsAre

(* So a test the walk does not reach, of which nothing changed, runs       *)
(* nothing that did.                                                       *)
RunsNothing(tree, changed, t) == Reach(Runs(tree, changed), {t}) \cap changed = {}

LEMMA UnreachedRun ==
    ASSUME NEW old, NEW new, Placeable(old, new), NEW tree \in {old, new},
           NEW changed, changed = ChangedPaths(old, new), NEW g, g = Build(new, TRUE),
           NEW t \in Existing(tree), t \notin changed,
           ~IsReached(g, new, changed, t)
    PROVE  RunsNothing(tree, changed, t)
<1>1. PICK runs : runs = Runs(tree, changed)
    OBVIOUS
<1>2. IsTree(tree)
    BY DEF Placeable
<1>3. IsFiniteSet(runs)
    BY <1>1, <1>2, RunsFinite
<1>4. PICK W : W = {p \in Existing(tree) \cup DOMAIN AssetName : ~Matters(g, new, changed, p)}
    OBVIOUS
<1>5. \A a \in DOMAIN AssetName : a \notin Existing(tree)
    BY ImpactAssumption DEF Existing
<1>6. ASSUME NEW p, NEW q, <<p, q>> \in runs, p \in W PROVE q \in W
    <2>1. p \in Existing(tree) /\ p \notin changed
        BY <1>1, <1>4, <1>6, RunsAre DEF Matters
    <2>2. q \in Existing(tree) \cup DOMAIN AssetName
        <3>1. Imports(tree, p, q) => q \in Existing(tree)
            BY <1>2, <2>1, LoadsExist DEF Imports
        <3>2. q \in Tested \cap DOMAIN tree \cap changed => q \in Existing(tree)
            BY DEF Tested, Existing
        <3>3. Names1(tree, p, q) => q \in DOMAIN AssetName
            BY DEF Names1
        <3> QED
            BY <1>1, <1>6, <3>1, <3>2, <3>3, RunsAre
    <2>3. ASSUME Matters(g, new, changed, q) PROVE IsReached(g, new, changed, p)
        BY <1>1, <1>6, <2>1, <2>3, RunsAreWalked
    <2>4. ~Matters(g, new, changed, q)
        BY <1>4, <1>6, <2>3 DEF Matters
    <2> QED
        BY <1>4, <2>2, <2>4
<1>7. \A r \in runs : r = <<r[1], r[2]>>
    BY <1>1 DEF Runs, Linked
<1>8. Closed(runs, W)
    BY <1>6, <1>7 DEF Closed
<1>9. {t} \subseteq W
    BY <1>4 DEF Matters
<1>10. Reach(runs, {t}) \subseteq W
    BY <1>3, <1>8, <1>9, ReachIs
<1> QED
    BY <1>1, <1>4, <1>10 DEF Matters, RunsNothing

(* A setup file that does not make the plan the whole suite loads nothing  *)
(* that changed.                                                           *)
LEMMA SetupUnchanged ==
    ASSUME NEW old, NEW new, Placeable(old, new), NEW tree \in {old, new},
           NEW changed, changed = ChangedPaths(old, new), NEW g, g = Build(new, TRUE),
           ~SetupFallback(g, changed)
    PROVE  SetupLoads(tree) \cap changed = {}
<1>1. PICK links, walk : links = Linked(tree, Runtime) /\ walk = RuntimeLinks(g)
    OBVIOUS
<1>2. /\ IsTree(tree) /\ IsTree(new) /\ ClearNames(new) /\ ~Dangling(new)
      /\ Nodes(Parsed(new)) = Parsed(new) /\ NothingHidden(old, new) /\ NoRust(new)
    BY DEF Placeable
<1>3. IsGraph(g) /\ DOMAIN g.name = Parsed(new)
    BY <1>2, Built
<1>4. IsFiniteSet(links)
    BY <1>1, <1>2, LinkedFinite
<1>5. IsFiniteSet(walk)
    <2>1. \A n \in Internal(g) : FileOf(g, n) \in DOMAIN g.name
        BY <1>3, FileIs DEF Internal
    <2>2. walk \subseteq (DOMAIN g.name) \X (DOMAIN g.name)
        <3>1. \A e \in ToSet(g.edges) : e.file \in DOMAIN g.name
            BY <1>3 DEF IsGraph
        <3>2. \A l \in walk : \E e \in ToSet(g.edges) : e.to \in Internal(g) /\ l = <<e.file, FileOf(g, e.to)>>
            BY <1>1 DEF RuntimeLinks
        <3>3. ASSUME NEW l \in walk PROVE l \in (DOMAIN g.name) \X (DOMAIN g.name)
            <4>1. PICK e \in ToSet(g.edges) : e.to \in Internal(g) /\ l = <<e.file, FileOf(g, e.to)>>
                BY <3>2
            <4> QED
                BY <2>1, <3>1, <4>1
        <3> QED
            BY <3>3
    <2>3. IsFiniteSet(DOMAIN g.name)
        BY <1>3, SourcesFinite, FS_Subset DEF IsGraph
    <2> QED
        BY <2>2, <2>3, FS_Product, FS_Subset
<1>6. /\ \A p \in Setup : p \notin changed /\ changed \cap Dependencies(g, {p}) = {}
    BY DEF SetupFallback
<1>7. \A p \in Setup \cap DOMAIN g.name : p \in Dependencies(g, {p})
    BY <1>1, <1>5, ReachIs DEF Dependencies
<1>8. ASSUME NEW x \in Setup, NEW p \in Dependencies(g, {x}), NEW q, <<p, q>> \in walk
      PROVE  q \in Dependencies(g, {x})
    <2>1. PICK X : X = Dependencies(g, {x})
        OBVIOUS
    <2>2. Closed(walk, X)
        BY <1>1, <1>5, <2>1, ReachIs DEF Dependencies
    <2> QED
        BY <1>8, <2>1, <2>2 DEF Closed
<1> DEFINE Covered(p) == \E x \in Setup : p \in Dependencies(g, {x})
<1>9. \A p : Covered(p) => p \notin changed
    BY <1>6
<1>10. \A p, q : Covered(p) /\ <<p, q>> \in walk => Covered(q)
    BY <1>8
<1> HIDE DEF Covered
<1>11. PICK D : D = {p \in Existing(tree) : p \notin changed /\ (p \in Parsed(new) => Covered(p))}
    OBVIOUS
<1>12. Setup \cap Existing(tree) \subseteq D
    BY <1>3, <1>6, <1>7, <1>11 DEF Covered
<1>13. ASSUME NEW p, NEW q, <<p, q>> \in links, p \in D PROVE q \in D
    <2>1. p \in Existing(tree) /\ Imports(tree, p, q)
        BY <1>1, <1>13, LinkedIs
    <2>2. p \notin ChangedPaths(old, new)
        BY <1>11, <1>13
    <2>3. /\ p \in Parsed(new) /\ q \in Existing(new)
          /\ (Imports(new, p, q) \/ \E z \in Existing(new) \cap ChangedPaths(old, new) : Imports(new, p, z))
        BY <2>1, <2>2, LoadedStay
    <2>4. Covered(p)
        BY <1>11, <1>13, <2>3
    <2>5. \A z \in Parsed(new) : Imports(new, p, z) => Covered(z)
        BY <1>1, <1>2, <1>10, <2>3, <2>4, LoadsAreWalked
    <2>6. \A z \in Existing(new) \cap changed : z \in Parsed(new)
        BY <1>2, ChangedAreParsed
    <2>7. Imports(new, p, q)
        BY <1>9, <2>3, <2>5, <2>6
    <2>8. q \notin changed
        BY <1>9, <2>3, <2>5, <2>6, <2>7
    <2>9. q \in Existing(tree)
        BY <1>2, <2>1, LoadsExist DEF Imports
    <2> QED
        BY <1>11, <2>5, <2>7, <2>8, <2>9
<1>14. \A l \in links : l = <<l[1], l[2]>>
    BY <1>1 DEF Linked
<1>15. Closed(links, D)
    BY <1>13, <1>14 DEF Closed
<1>16. Reach(links, Setup \cap Existing(tree)) \subseteq D
    BY <1>4, <1>12, <1>15, ReachIs
<1> QED
    BY <1>1, <1>11, <1>16 DEF SetupLoads

(***************************************************************************)
(* The trees of a developer                                                *)
(***************************************************************************)
TreesInv ==
    /\ repository \in Repositories
    /\ IsTree(head) /\ IsTree(work)
    /\ added \subseteq DOMAIN work \ DOMAIN head

LEMMA OnPathsIsTree ==
    ASSUME NEW tree, IsTree(tree), NEW S
    PROVE  IsTree(OnPaths(tree, S)) /\ DOMAIN OnPaths(tree, S) = DOMAIN tree \cap S
BY DEF OnPaths, IsTree

(* Texts stay lists, and only what git does not have can be added.         *)
THEOREM TreesAreKept == Spec => []TreesInv
<1>1. Init => TreesInv
    BY RepositoriesAssumption DEF Init, TreesInv
<1>2. TreesInv /\ [Next]_vars => TreesInv'
    <2> SUFFICES ASSUME TreesInv, [Next]_vars PROVE TreesInv'
        OBVIOUS
    <2>1. ASSUME NEW p \in DOMAIN repository.texts, NEW text \in ToSet(repository.texts[p]), Write(p, text)
          PROVE  TreesInv'
        <3>1. IsText(text)
            BY RepositoriesAssumption DEF TreesInv
        <3>2. IsTree(work')
            BY <2>1, <3>1 DEF Write, TreesInv, IsTree
        <3>3. DOMAIN work \subseteq DOMAIN work'
            BY <2>1 DEF Write
        <3> QED
            BY <2>1, <3>2, <3>3 DEF Write, TreesInv
    <2>2. ASSUME NEW p \in DOMAIN work, Delete(p) PROVE TreesInv'
        BY <2>2, OnPathsIsTree DEF Delete, TreesInv
    <2>3. ASSUME NEW p \in DOMAIN work, Add(p) PROVE TreesInv'
        BY <2>3 DEF Add, TreesInv
    <2>4. CASE Commit
        BY <2>4, OnPathsIsTree DEF Commit, TreesInv
    <2>5. CASE UNCHANGED vars
        BY <2>5 DEF vars, TreesInv
    <2> QED
        BY <2>1, <2>2, <2>3, <2>4, <2>5 DEF Next
<1> QED
    BY <1>1, <1>2, PTL DEF Spec

(* In a tree whose files all have their nodes the cycles reported are those *)
(* of the imports the graph holds, whatever is called what: the modules of  *)
(* a warning import each other at load time, none is missing, and the loop  *)
(* shown is real.                                                           *)
THEOREM CyclesOfTheGraph ==
    Spec => [](Whole(work) =>
                LET Match(g) == CyclesMatch(g, Cycles(g), LinksAtLoad(g)) IN Match(Build(work, FALSE)))
<1>1. TreesInv => (Whole(work) => LET Match(g) == CyclesMatch(g, Cycles(g), LinksAtLoad(g)) IN Match(Build(work, FALSE)))
    <2> SUFFICES ASSUME TreesInv, Whole(work)
                 PROVE  LET Match(g) == CyclesMatch(g, Cycles(g), LinksAtLoad(g)) IN Match(Build(work, FALSE))
        OBVIOUS
    <2>1. PICK g : g = Build(work, FALSE)
        OBVIOUS
    <2>2. IsGraph(g) /\ g.tree = work /\ DOMAIN g.name = Existing(g.tree)
        BY <2>1, Built DEF TreesInv, Whole, Existing
    <2>3. CyclesMatch(g, Cycles(g), LinksAtLoad(g))
        BY <2>2, CyclesMatched
    <2> QED
        BY <2>1, <2>3
<1> QED
    BY <1>1, TreesAreKept, PTL

(* CyclesAreExact, for every tree and every change, where no name is taken *)
(* for another and no import is known to fail: the files of a cycle        *)
(* warning import each other while they load, as the languages read them,  *)
(* and are all that do; the loop shown is real and passes no module twice. *)
THEOREM CyclesExact == Spec => [](ClearNames(work) /\ ~Dangling(work) => CyclesAreExact)
<1>1. TreesInv => (ClearNames(work) /\ ~Dangling(work) => CyclesAreExact)
    <2> SUFFICES ASSUME TreesInv, ClearNames(work), ~Dangling(work), Whole(work)
                 PROVE  CyclesAreExact
        BY DEF CyclesAreExact
    <2>1. PICK g : g = Build(work, FALSE)
        OBVIOUS
    <2>2. IsGraph(g) /\ g.tree = work /\ DOMAIN g.name = Existing(g.tree)
        BY <2>1, Built DEF TreesInv, Whole, Existing
    <2>3. LinksAtLoad(g) = ImportsAtLoad(work)
        BY <2>1, LinksAreImports DEF TreesInv
    <2>4. CyclesMatch(g, Cycles(g), ImportsAtLoad(work))
        BY <2>2, <2>3, CyclesMatched
    <2> QED
        BY <2>1, <2>3, <2>4 DEF CyclesAreExact
<1> QED
    BY <1>1, TreesAreKept, PTL

(* IntroducedIsKept, for every change, where no name is taken for another  *)
(* and no import failed before it: a cycle, a forbidden import and the     *)
(* loss of a definition's last mention are in the report of the change     *)
(* that brought them.                                                      *)
THEOREM IntroducedKept ==
    Spec => [](ClearNames(head) /\ ClearNames(work) /\ ~Dangling(head) => IntroducedIsKept)
<1>1. TreesInv => (ClearNames(head) /\ ClearNames(work) /\ ~Dangling(head) => IntroducedIsKept)
    <2> SUFFICES ASSUME TreesInv, ClearNames(head), ClearNames(work), ~Dangling(head),
                        Whole(head), Whole(work), Renames(head, work, added) = {}, ~Retargeted(head, work),
                        NEW before, before = Report(head), NEW after, after = Report(work),
                        NEW kept, kept = Apply(after, ChangedLines(head, work, added))
                 PROVE  KeepsIntroduced(before, after, kept)
        BY DEF IntroducedIsKept
    <2>1. PICK g, h, changed : /\ g = Build(head, FALSE) /\ h = Build(work, FALSE)
                               /\ changed = ChangedLines(head, work, added)
        OBVIOUS
    <2>2. /\ before.graph = g /\ before.cycles = Cycles(g)
          /\ after.graph = h /\ after.cycles = Cycles(h)
          /\ \A c \in after.cycles \ kept.cycles : ~CycleKept(h, c, changed)
          /\ \A v \in after.boundaries \ kept.boundaries :
                v.edge \in ToSet(h.edges) /\ ~Touches(changed, v.edge.file, v.edge.import)
          /\ \A f \in after.deadCode \ kept.deadCode : ~DeadCodeKept(f, changed)
        <3>1. before = ReportOn(g) /\ after = ReportOn(h) /\ kept = Apply(after, changed)
            BY <2>1 DEF Report
        <3>2. before.graph = g /\ before.cycles = Cycles(g)
            BY <3>1 DEF ReportOn
        <3> HIDE DEF TreesInv
        <3> QED
            BY <3>1, <3>2, LeftOut
    <2>3. IsTree(head) /\ IsTree(work)
        BY DEF TreesInv
    <2>4. ASSUME NEW c \in after.cycles \ kept.cycles
          PROVE  \E b \in before.cycles : {FileOf(after.graph, n) : n \in c.modules} \subseteq {FileOf(before.graph, m) : m \in b.modules}
        <3>1. c \in Cycles(h) /\ \A n \in c.modules : ~TouchesFile(changed, FileOf(h, n))
            BY <2>2, <2>4 DEF CycleKept
        <3>2. \A n \in c.modules : FileOf(h, n) \in Existing(work)
            <4>1. IsGraph(h) /\ DOMAIN h.name = Existing(work)
                BY <2>1, <2>3, Built DEF Whole, Existing
            <4>2. PICK phases \in {RUNTIME, TYPE_LEVEL} : c.modules \in Components(h, phases)
                BY <3>1, CyclesAre
            <4>3. c.modules \subseteq Internal(h)
                BY <4>1, <4>2, MembersOfFiles
            <4> QED
                BY <4>1, <4>3, FileIs DEF Internal
        <3>3. \A n \in c.modules : \A s \in ToSet(work[FileOf(h, n)]) :
                    FileOf(h, n) \in DOMAIN head /\ s \in ToSet(head[FileOf(h, n)])
            BY <2>1, <3>1, <3>2, ChangeIsShown DEF Existing
        <3>4. WereTogether(Build(head, FALSE), Build(work, FALSE), c.modules)
            <4>1. c \in Cycles(Build(work, FALSE))
                BY <2>1, <3>1
            <4>2. NothingNew(head, work, Build(work, FALSE), c.modules)
                BY <2>1, <3>3 DEF NothingNew
            <4> QED
                BY <2>3, <4>1, <4>2, CyclesTogether
        <3>5. PICK b \in Cycles(g) : \A n \in c.modules : \E m \in b.modules : FileOf(h, n) = FileOf(g, m)
            BY <2>1, <3>4 DEF WereTogether
        <3> QED
            BY <2>2, <3>5
    <2>5. ASSUME NEW v \in after.boundaries \ kept.boundaries
          PROVE  v.edge.file \in DOMAIN head /\ v.edge.import \in ToSet(head[v.edge.file])
        <3>1. v.edge \in ToSet(h.edges) /\ ~Touches(changed, v.edge.file, v.edge.import)
            BY <2>2
        <3>2. \A e \in ToSet(h.edges) : e.file \in Sources \cap DOMAIN work /\ e.import \in ToSet(work[e.file])
            BY <2>1, <2>3, EdgesAreImports
        <3> QED
            BY <2>1, <3>1, <3>2, ChangeIsShown
    <2>6. ASSUME NEW f \in after.deadCode \ kept.deadCode, NEW n \in f.symbols, f.symbols = {n},
                 NEW p \in Existing(head) \ {f.file}, NEW s \in ToSet(head[p]), n \in Words(s)
          PROVE  p \in Existing(work) \ {f.file} /\ s \in ToSet(work[p])
        <3>1. ~DeadCodeKept(f, changed)
            BY <2>2
        <3>2. s \notin changed.removed
            BY <2>6, <3>1 DEF DeadCodeKept, RemovedMentions
        <3> QED
            BY <2>1, <3>2, ChangeIsShown DEF Existing
    <2> QED
        BY <2>4, <2>5, <2>6 DEF KeepsIntroduced
<1> QED
    BY <1>1, TreesAreKept, PTL

(* SelectedAreAffected, for every tree and every change, where no name is  *)
(* taken for another and none of a module for an asset's: every test of a  *)
(* plan that is not the whole suite runs a changed file, or may.           *)
THEOREM SelectedAffected == Spec => [](ClearNames(work) /\ AssetsApart(work) => SelectedAreAffected)
<1>1. TreesInv => (ClearNames(work) /\ AssetsApart(work) => SelectedAreAffected)
    <2> SUFFICES ASSUME TreesInv, ClearNames(work), AssetsApart(work), Whole(work),
                        NEW plan, plan = Plan(head, work), NEW changed, changed = ChangedPaths(head, work),
                        NEW runs, runs = Runs(work, changed), ~plan.full, NEW t \in plan.selected
                 PROVE  Affects(work, runs, {}, changed)[t] # {}
        BY DEF SelectedAreAffected
    <2>1. PICK g : g = Build(work, TRUE)
        OBVIOUS
    <2>2. DOMAIN g.name = Existing(work) /\ IsTree(work)
        BY <2>1, Built DEF TreesInv, Whole, Existing
    <2>3. ~ChangeFallback(head, work) /\ plan.selected = Affected(g, work, changed)
        BY <2>1 DEF Plan, PlanOn
    <2>4. changed \cap Tested \subseteq DOMAIN work
        BY <2>3 DEF ChangeFallback, ChangedPaths, Deleted
    <2>5. \/ t \in Tests \cap DOMAIN g.name /\ g.name[t] \in Reach(ReverseEdges(g), Seeds(g, work, changed))
          \/ t \in Tests \cap changed \cap DOMAIN work
        BY <2>3 DEF Affected
    <2>6. t \in TestsOf(work)
        BY <2>2, <2>5 DEF TestsOf, Existing
    <2>7. Affects(work, runs, {}, changed)[t] = (Reach(runs, {t}) \cup {}) \cap changed
        BY <2>6 DEF Affects
    <2>8. CASE t \in Tests \cap changed \cap DOMAIN work
        <3>1. IsFiniteSet(runs)
            BY <2>2, RunsFinite
        <3>2. t \in Reach(runs, {t})
            BY <3>1, ReachIs
        <3> QED
            BY <2>7, <2>8, <3>2
    <2>9. CASE t \in DOMAIN g.name /\ g.name[t] \in Reach(ReverseEdges(g), Seeds(g, work, changed))
        <3>1. Reach(runs, {t}) \cap changed # {}
            BY <2>1, <2>2, <2>4, <2>9, ReachedRun
        <3> QED
            BY <2>7, <3>1
    <2> QED
        BY <2>5, <2>8, <2>9
<1> QED
    BY <1>1, TreesAreKept, PTL

(* AffectedTestsSelected, for every tree and every change, where no name   *)
(* is taken for another and none of a module for an asset's, and no import *)
(* is known to fail: a test that runs a changed file, in HEAD or in the    *)
(* working tree, is selected.                                              *)
THEOREM TestsSelected ==
    Spec => [](NoRust(head) /\ ClearNames(work) /\ AssetsApart(work) => AffectedTestsSelected)
<1>1. TreesInv => (NoRust(head) /\ ClearNames(work) /\ AssetsApart(work) => AffectedTestsSelected)
    <2> SUFFICES ASSUME TreesInv, NoRust(head), ClearNames(work), AssetsApart(work), ~Dangling(work),
                        Nodes(Parsed(work)) = Parsed(work),
                        NEW plan, plan = Plan(head, work), NEW changed, changed = ChangedPaths(head, work),
                        NEW tree \in {head, work}, NEW affects,
                        affects = Affects(tree, Runs(tree, changed), SetupLoads(tree), changed),
                        NEW t \in DOMAIN affects \cap TestsOf(work), t \notin plan.selected
                 PROVE  affects[t] = {}
        BY DEF AffectedTestsSelected
    <2>1. PICK g : g = Build(work, TRUE)
        OBVIOUS
    <2>2. /\ plan.full => plan.selected = Tests \cap DOMAIN work
          /\ ~plan.full => /\ ~ChangeFallback(head, work) /\ ~HidesTests(head, work) /\ ~SetupFallback(g, changed)
                           /\ plan.selected = Affected(g, work, changed)
        BY <2>1 DEF Plan, PlanOn
    <2>3. ~plan.full
        BY <2>2 DEF TestsOf
    <2>4. NoRust(work)
        BY DEF ClearNames, NoRust
    <2>5. Placeable(head, work)
        BY <2>2, <2>3, <2>4 DEF Placeable, NothingHidden, TreesInv
    <2>6. t \in TestsOf(tree) /\ affects[t] = (Reach(Runs(tree, changed), {t}) \cup SetupLoads(tree)) \cap changed
        BY DEF Affects
    <2>7. t \in Existing(tree)
        BY <2>6, ImpactAssumption DEF TestsOf, Existing
    <2>8. t \notin changed
        BY <2>2, <2>3 DEF Affected, TestsOf
    <2>11. ~IsReached(g, work, changed, t)
        BY <2>2, <2>3 DEF Affected, IsReached, ReachedFrom, TestsOf
    <2>9. RunsNothing(tree, changed, t)
        BY <2>1, <2>5, <2>7, <2>8, <2>11, UnreachedRun
    <2>10. SetupLoads(tree) \cap changed = {}
        BY ZenonT(30), <2>1, <2>2, <2>3, <2>5, SetupUnchanged
    <2> QED
        BY <2>6, <2>9, <2>10 DEF RunsNothing
<1> QED
    BY <1>1, TreesAreKept, PTL

(***************************************************************************)
(* What is reported unreferenced                                           *)
(***************************************************************************)
(* An edge to the file asks for what the import takes of it, by name or    *)
(* with all the rest.                                                      *)
AskedFor(h, p, s, t) ==
    \E e \in ToSet(h.edges) :
        /\ e.file = p /\ e.import = s /\ e.to = h.name[t[1]]
        /\ t[2] = "" \/ t[2] \in e.symbols \/ "*" \in ToSet(s.symbols) \cap e.symbols

LEMMA AskedWhole ==
    ASSUME NEW g, NEW computed, NEW r, NEW x, x \in Taking(g, r),
           x = "*" \/ ~HasSubmodules(r[1]) \/ Append(Goal(g, r), x) \notin g.known \cup Goals(g, computed)
    PROVE  <<Goal(g, r), {x}>> \in Asked(g, computed, r)
BY DEF Asked

LEMMA TakenIsAsked ==
    ASSUME NEW tree, IsTree(tree), ClearNames(tree), ~Dangling(tree), Nodes(Parsed(tree)) = Parsed(tree),
           NEW h, h = Build(tree, FALSE),
           NEW p \in Parsed(tree), NEW s \in ImportsOf(tree, p), ~s.computed,
           NEW t \in Taken(tree, p, s), t[1] \in Parsed(tree)
    PROVE  AskedFor(h, p, s, t)
<1>1. PICK g, r : g = NodesOf(tree, Parsed(tree)) /\ r = <<p, s>>
    OBVIOUS
<1>2. r \in Reads(g, FALSE)
    BY <1>1, ReadsAre
<1>3. h \in Grown(g, FALSE) /\ AllShown(g, FALSE, ToSet(h.edges), r)
    BY <1>1, <1>2, Built
<1>4. h.name = g.name
    BY <1>3 DEF Grown
<1>5. SUFFICES ASSUME NEW q, q = t[1], NEW v, v = t[2]
               PROVE  \E names : /\ <<g.name[q], names>> \in Asked(g, FALSE, r)
                                 /\ v = "" \/ v \in names \/ "*" \in ToSet(s.symbols) \cap names
    <2>1. PICK names : /\ <<g.name[t[1]], names>> \in Asked(g, FALSE, r)
                       /\ t[2] = "" \/ t[2] \in names \/ "*" \in ToSet(s.symbols) \cap names
        BY <1>5
    <2>2. AsksFor(ToSet(h.edges), r, g.name[t[1]], names)
        <3>1. PICK a : a = <<g.name[t[1]], names>>
            OBVIOUS
        <3>2. AsksFor(ToSet(h.edges), r, a[1], a[2])
            BY <1>3, <2>1, <3>1 DEF AllShown
        <3> QED
            BY <3>1, <3>2
    <2> QED
        BY <1>1, <1>4, <2>1, <2>2 DEF AsksFor, AskedFor
<1>6. IsList(s.symbols)
    BY ImportsOfAre DEF Parsed
<1>7. PICK n, N, symbols : n = Absolute(p, s) /\ N = Named(tree, p, n) /\ symbols = Narrowed(tree, p, s)
    OBVIOUS
<1>8. g.tree = tree
    BY <1>1 DEF NodesOf
<1> DEFINE Part(i) == IF HasSubmodules(p) THEN Named(tree, p, Append(n, s.symbols[i])) ELSE {}
           Attrs(b) == {a.name : a \in {x \in ToSet(Statements(tree, p, "attr")) : x.of = b}}
           Members(i) ==
               IF s.symbols[i] = "*" /\ i \in DOMAIN s.bindings /\ ~s.reexport
                  /\ s.bindings[i] \notin Names(tree, p, "use")
               THEN Attrs(s.bindings[i]) ELSE {s.symbols[i]}
           Of(files, names) == files \X ({""} \cup names)
           First == UNION {Attrs(s.bindings[i]) : i \in DOMAIN s.bindings \cap {1}}
           OfAll == IF s.symbols = << >> THEN Of(N, First) ELSE {}
           OfOne(i) == IF Part(i) = {} THEN Of(N, Members(i)) ELSE Of(Part(i), Attrs(Binding(s, i)))
<1>9. t \in OfAll \cup UNION {OfOne(i) : i \in DOMAIN s.symbols}
    BY <1>7 DEF Taken
<1>10. ASSUME NEW files, NEW names, t \in Of(files, names) PROVE q \in files /\ (v = "" \/ v \in names)
    BY <1>5, <1>10
<1>11. \A b : Attrs(b) = Accessed(g, p, b)
    BY <1>8 DEF Accessed
<1>12. \A i \in DOMAIN s.symbols : Part(i) = Sub(tree, p, s, s.symbols[i])
    BY <1>7 DEF Sub
<1> HIDE DEF Of, Attrs, Part
<1>13. q \in N => g.name[q] = Goal(g, r)
    BY <1>1, <1>5, <1>7, GoalIs
<1>14. \A i \in DOMAIN s.symbols : s.symbols[i] \in ToSet(s.symbols)
    BY DEF ToSet
<1>15. symbols # s.symbols => /\ symbols = << >> /\ s.symbols = <<"*">> /\ Len(s.bindings) = 1 /\ ~s.reexport
                              /\ s.bindings[1] \notin Names(tree, p, "use")
    BY <1>7 DEF Narrowed
<1>16. symbols = << >> => Taking(g, r) = {}
    <2>1. Narrowed(g.tree, r[1], r[2]) = symbols
        BY <1>1, <1>7, <1>8
    <2> QED
        BY <2>1 DEF Taking, ToSet
<1>17. symbols = s.symbols => Taking(g, r) = ToSet(s.symbols)
    BY <1>1, <1>7, <1>8 DEF Taking
<1>18. ASSUME q \in N, symbols = << >>, v = "" \/ (s.bindings # << >> /\ v \in Attrs(s.bindings[1]))
       PROVE  \E names : /\ <<g.name[q], names>> \in Asked(g, FALSE, r)
                         /\ v = "" \/ v \in names \/ "*" \in ToSet(s.symbols) \cap names
    <2>1. <<Goal(g, r), OfModule(g, r)>> \in Asked(g, FALSE, r)
        BY <1>16, <1>18 DEF Asked
    <2>2. v = "" \/ v \in OfModule(g, r)
        <3>1. Head(s.bindings) = s.bindings[1]
            OBVIOUS
        <3>2. s.bindings # << >> => OfModule(g, r) = Accessed(g, p, s.bindings[1])
            BY <1>1, <3>1 DEF OfModule
        <3> QED
            BY <1>11, <1>18, <3>2
    <2> QED
        BY <1>13, <1>18, <2>1, <2>2
<1>19. CASE t \in OfAll
    <2>1. s.symbols = << >> /\ t \in Of(N, First)
        BY <1>19
    <2>2. symbols = << >>
        BY <1>15, <2>1
    <2>3. q \in N /\ (v = "" \/ v \in First)
        BY <1>10, <2>1
    <2>4. v \in First => s.bindings # << >> /\ v \in Attrs(s.bindings[1])
        OBVIOUS
    <2> HIDE DEF First
    <2> QED
        BY <1>18, <2>2, <2>3, <2>4
<1>20. CASE \E i \in DOMAIN s.symbols : t \in OfOne(i)
    <2>1. PICK i \in DOMAIN s.symbols : t \in OfOne(i)
        BY <1>20
    <2>2. PICK x : x = s.symbols[i] /\ x \in ToSet(s.symbols)
        BY <1>14
    <2>3. CASE Part(i) = {}
        <3>1. q \in N /\ (v = "" \/ v \in Members(i))
            BY <1>10, <2>1, <2>3
        <3>2. CASE symbols # s.symbols
            <4>1. i = 1 /\ s.symbols[i] = "*" /\ 1 \in DOMAIN s.bindings /\ s.bindings # << >>
                BY <1>15, <2>1, <3>2
            <4>2. Members(i) = Attrs(s.bindings[1])
                BY <1>15, <3>2, <4>1
            <4> HIDE DEF Members
            <4> QED
                BY <1>15, <1>18, <3>1, <3>2, <4>1, <4>2
        <3>3. CASE symbols = s.symbols
            <4>1. v = "" \/ v = x \/ x = "*"
                BY <2>2, <3>1
            <4>2. HasSubmodules(p) => Append(Goal(g, r), x) \notin g.known \cup Goals(g, FALSE)
                BY <1>1, <1>7, <1>12, <2>2, <2>3, <3>1, NoSubmodule
            <4>3. <<Goal(g, r), {x}>> \in Asked(g, FALSE, r)
                BY <1>1, <1>17, <2>2, <3>3, <4>2, AskedWhole
            <4>4. v = "" \/ v \in {x} \/ "*" \in ToSet(s.symbols) \cap {x}
                BY <2>2, <4>1
            <4> QED
                BY <1>13, <3>1, <4>3, <4>4
        <3> QED
            BY <3>2, <3>3
    <2>4. CASE Part(i) # {}
        <3>1. q \in Part(i) /\ (v = "" \/ v \in Attrs(Binding(s, i)))
            BY <1>10, <2>1, <2>4
        <3>2. q \in Sub(tree, p, s, x)
            BY <1>12, <2>2, <3>1
        <3>3. HasSubmodules(p) /\ x # "*" /\ g.name[q] = Append(Goal(g, r), x) /\ g.name[q] \in g.known
            BY <1>1, <1>5, <2>2, <3>2, SubmoduleIs
        <3>4. symbols = s.symbols
            BY <1>15, <2>1, <2>2, <3>3
        <3>5. <<Append(Goal(g, r), symbols[i]), Accessed(g, p, Binding(s, i))>> \in Asked(g, FALSE, r)
            <4>1. Narrowed(g.tree, r[1], r[2]) = symbols /\ r[1] = p /\ r[2] = s
                BY <1>1, <1>7, <1>8
            <4>2. PICK a, goal : goal = Goal(g, r) /\ a = <<Append(goal, symbols[i]), Accessed(g, p, Binding(s, i))>>
                OBVIOUS
            <4>3. a \in {<<Append(goal, symbols[j]), Accessed(g, p, Binding(s, j))>> :
                            j \in {k \in DOMAIN symbols :
                                symbols[k] # "*" /\ HasSubmodules(p) /\ Append(goal, symbols[k]) \in g.known}}
                BY <2>1, <2>2, <3>3, <3>4, <4>2
            <4> QED
                BY <4>1, <4>2, <4>3 DEF Asked
        <3>6. <<g.name[q], Accessed(g, p, Binding(s, i))>> \in Asked(g, FALSE, r)
            BY <2>2, <3>3, <3>4, <3>5
        <3> QED
            BY <1>11, <3>1, <3>6
    <2> QED
        BY <2>3, <2>4
<1> HIDE DEF OfAll, OfOne
<1> QED
    BY <1>9, <1>19, <1>20

(* All of a module is taken by a `*` only.                                 *)
LEMMA StarTaken ==
    ASSUME NEW tree, IsTree(tree), NEW p \in DOMAIN tree, NEW s \in ImportsOf(tree, p),
           NEW t \in Taken(tree, p, s), t[2] = "*"
    PROVE  "*" \in ToSet(s.symbols)
<1>1. PICK n, N : n = Absolute(p, s) /\ N = Named(tree, p, n)
    OBVIOUS
<1> DEFINE Part(i) == IF HasSubmodules(p) THEN Named(tree, p, Append(n, s.symbols[i])) ELSE {}
           Attrs(b) == {a.name : a \in {x \in ToSet(Statements(tree, p, "attr")) : x.of = b}}
           Members(i) ==
               IF s.symbols[i] = "*" /\ i \in DOMAIN s.bindings /\ ~s.reexport
                  /\ s.bindings[i] \notin Names(tree, p, "use")
               THEN Attrs(s.bindings[i]) ELSE {s.symbols[i]}
           Of(files, names) == files \X ({""} \cup names)
           First == UNION {Attrs(s.bindings[i]) : i \in DOMAIN s.bindings \cap {1}}
           OfAll == IF s.symbols = << >> THEN Of(N, First) ELSE {}
           OfOne(i) == IF Part(i) = {} THEN Of(N, Members(i)) ELSE Of(Part(i), Attrs(Binding(s, i)))
<1>2. t \in OfAll \cup UNION {OfOne(i) : i \in DOMAIN s.symbols}
    BY <1>1 DEF Taken
<1>3. \A b : "*" \notin Attrs(b)
    <2>1. PICK list, L, W : list = tree[p] /\ L = ToSet(list) /\ W = {x \in L : x.kind = "attr"}
        OBVIOUS
    <2>2. IsList(list) /\ \A x \in W : x.name # "*"
        BY <2>1 DEF IsTree, IsText
    <2>3. ToSet(Those(list, W)) = L \cap W
        BY <2>1, <2>2, ThoseKept DEF IsList
    <2>4. ToSet(Statements(tree, p, "attr")) \subseteq W
        BY <2>1, <2>3 DEF Statements
    <2> QED
        BY <2>2, <2>4
<1>4. \A files, names : t \in Of(files, names) => "*" \in names
    OBVIOUS
<1>5. \A i \in DOMAIN s.symbols : s.symbols[i] \in ToSet(s.symbols)
    BY DEF ToSet
<1> HIDE DEF Of, Attrs, Part
<1>6. "*" \notin First
    BY <1>3
<1>7. t \notin OfAll
    <2> HIDE DEF First
    <2> QED
        BY <1>4, <1>6
<1>8. PICK i \in DOMAIN s.symbols : t \in OfOne(i)
    BY <1>2, <1>7
<1>9. "*" \in Members(i)
    <2> HIDE DEF Members
    <2> QED
        BY <1>3, <1>4, <1>8
<1> QED
    BY <1>3, <1>5, <1>9

(* What the files of a tree name is finite.                                *)
LEMMA WordsFinite ==
    ASSUME NEW tree, IsTree(tree), NEW computed, NEW g, g = NodesOf(tree, Parsed(tree))
    PROVE  IsFiniteSet(WordsOf(g, computed))
<1>1. PICK P : P = DOMAIN g.name
    OBVIOUS
<1>2. g.tree = tree /\ P \subseteq Sources \cap DOMAIN tree
    BY <1>1, NodesAre
<1>3. IsFiniteSet(P)
    BY <1>2, SourcesFinite, FS_Subset
<1>4. \A p \in P : IsFiniteSet(ToSet(tree[p]))
    BY <1>2, ListIsFinite DEF IsTree, IsText, IsList
<1>5. PICK texts : texts = [p \in P |-> ToSet(tree[p])]
    OBVIOUS
<1>6. PICK A : A = UNION {texts[p] : p \in P}
    OBVIOUS
<1>7. IsFiniteSet(A)
    <2>1. IsFiniteSet({texts[p] : p \in P})
        BY <1>3, FiniteImage
    <2> QED
        BY <1>4, <1>5, <1>6, <2>1, FS_UNION
<1>8. IsFiniteSet(Reads(g, computed))
    <2>1. A = UNION {ToSet(g.tree[p]) : p \in DOMAIN g.name}
        BY <1>1, <1>2, <1>5, <1>6
    <2>2. Reads(g, computed) \subseteq P \X A
        BY <1>1, <2>1 DEF Reads
    <2> QED
        BY <1>3, <1>7, <2>2, FS_Product, FS_Subset
<1>9. PICK R, takes : R = Reads(g, computed) /\ takes = [r \in R |-> Taking(g, r)]
    OBVIOUS
<1>10. \A r \in R : IsFiniteSet(takes[r])
    <2> TAKE r \in R
    <2>1. PICK p, s : r = <<p, s>> /\ IsList(s.symbols)
        BY <1>9 DEF Reads
    <2>2. Taking(g, r) \subseteq ToSet(s.symbols)
        BY <2>1, TakingIs
    <2>3. IsFiniteSet(ToSet(s.symbols))
        BY <2>1, ListIsFinite DEF IsList
    <2> QED
        BY <1>9, <2>2, <2>3, FS_Subset
<1>11. IsFiniteSet(UNION {takes[r] : r \in R})
    <2>1. IsFiniteSet({takes[r] : r \in R})
        BY <1>8, <1>9, FiniteImage
    <2> QED
        BY <1>10, <2>1, FS_UNION
<1>12. PICK named : named = [s \in A |-> s.name]
    OBVIOUS
<1>13. IsFiniteSet({named[s] : s \in A})
    BY <1>7, FiniteImage
<1>14. WordsOf(g, computed) \subseteq (UNION {takes[r] : r \in R}) \cup {named[s] : s \in A}
    <2>1. ASSUME NEW x, x \in UNION {Taking(g, r) : r \in Reads(g, computed)}
          PROVE  x \in UNION {takes[r] : r \in R}
        BY <1>9, <2>1
    <2>2. ASSUME NEW p \in DOMAIN g.name, NEW s \in ToSet(g.tree[p]) PROVE s.name \in {named[a] : a \in A}
        <3>1. s \in A
            BY <1>1, <1>2, <1>5, <1>6
        <3> QED
            BY <1>12, <3>1
    <2> QED
        BY <2>1, <2>2 DEF WordsOf
<1> QED
    BY <1>11, <1>13, <1>14, FS_Union, FS_Subset

(* The pairs of files a kind of import links are those of the graph.       *)
LEMMA FileLinksAre ==
    ASSUME NEW tree, IsTree(tree), ClearNames(tree), ~Dangling(tree), Whole(tree),
           NEW h, h = Build(tree, FALSE)
    PROVE  /\ FileLinks(h) = Linked(tree, IsStatic) /\ IsFiniteSet(FileLinks(h))
           /\ FileLinks(h) \subseteq Existing(tree) \X Existing(tree)
<1>1. Parsed(tree) = Existing(tree) /\ Nodes(Parsed(tree)) = Parsed(tree)
    BY DEF Whole, Nodes, Parsed, Existing
<1>2. IsGraph(h) /\ DOMAIN h.name = Existing(tree)
    BY <1>1, Built
<1>3. \A n \in Internal(h) : FileOf(h, n) \in Existing(tree) /\ h.name[FileOf(h, n)] = n
    BY <1>2, FileIs DEF Internal
<1> DEFINE OfFile(x) == UNION {{x} \X Loads(tree, x, s) : s \in {y \in ImportsOf(tree, x) : IsStatic(y)}}
<1>4. Linked(tree, IsStatic) = UNION {OfFile(x) : x \in Existing(tree)}
    BY DEF Linked
<1>5. ASSUME NEW l
      PROVE  l \in Linked(tree, IsStatic) <=>
                \E p \in Existing(tree) : \E s \in ImportsOf(tree, p) : \E q \in Loads(tree, p, s) :
                    ~s.computed /\ l = <<p, q>>
    <2>1. \A x : l \in OfFile(x) <=> \E s \in ImportsOf(tree, x) : \E q \in Loads(tree, x, s) :
                                        ~s.computed /\ l = <<x, q>>
        BY DEF IsStatic
    <2> HIDE DEF OfFile
    <2> QED
        BY <1>4, <2>1
<1>6. ASSUME NEW e \in ToSet(h.edges), e.to \in Internal(h)
      PROVE  <<e.file, FileOf(h, e.to)>> \in Linked(tree, IsStatic)
    <2>1. PICK q : q = FileOf(h, e.to) /\ q \in Existing(tree) /\ e.to = h.name[q]
        BY <1>3, <1>6
    <2>2. /\ e.file \in Existing(tree) /\ e.import \in ImportsOf(tree, e.file) /\ ~e.import.computed
          /\ q \in Loads(tree, e.file, e.import)
        BY <2>1, EdgesLoad
    <2> QED
        BY <1>5, <2>1, <2>2
<1>7. ASSUME NEW p \in Existing(tree), NEW s \in ImportsOf(tree, p), NEW q \in Loads(tree, p, s), ~s.computed
      PROVE  <<p, q>> \in FileLinks(h) /\ q \in Existing(tree)
    <2>1. q \in Existing(tree)
        BY LoadsExist
    <2>2. Shown(ToSet(h.edges), <<p, s>>, h.name[q])
        BY <1>1, <1>7, <2>1, LoadsHaveEdges
    <2>3. PICK e \in ToSet(h.edges) : e.file = p /\ e.to = h.name[q]
        BY <2>2 DEF Shown
    <2>4. e.to \in Internal(h) /\ FileOf(h, e.to) = q
        BY <1>2, <2>1, <2>3, FileIs DEF Internal
    <2> QED
        BY <2>1, <2>3, <2>4 DEF FileLinks, Edges
<1>8. PICK X, F : X = Linked(tree, IsStatic) /\ F = FileLinks(h)
    OBVIOUS
<1>9. ASSUME NEW l \in X PROVE l \in F /\ l \in Existing(tree) \X Existing(tree)
    <2>1. PICK p \in Existing(tree) : \E s \in ImportsOf(tree, p) : \E q \in Loads(tree, p, s) :
                                            ~s.computed /\ l = <<p, q>>
        BY <1>5, <1>8, <1>9
    <2>2. PICK s \in ImportsOf(tree, p) : \E q \in Loads(tree, p, s) : ~s.computed /\ l = <<p, q>>
        BY <2>1
    <2>3. PICK q \in Loads(tree, p, s) : ~s.computed /\ l = <<p, q>>
        BY <2>2
    <2>4. <<p, q>> \in F /\ q \in Existing(tree)
        BY <1>7, <1>8, <2>3
    <2> QED
        BY <2>3, <2>4
<1>10. F \subseteq X
    BY <1>6, <1>8 DEF FileLinks, Edges
<1>11. X = F /\ X \subseteq Existing(tree) \X Existing(tree)
    BY <1>9, <1>10
<1>12. IsFiniteSet(Existing(tree))
    BY SourcesFinite, FS_Subset DEF Existing
<1>13. IsFiniteSet(X)
    BY <1>11, <1>12, FS_Product, FS_Subset
<1> QED
    BY <1>8, <1>11, <1>13

(* The graph of a tree links the files its imports link, and asks for what *)
(* they take.                                                              *)
LinksOf(h, tree) ==
    /\ IsGraph(h) /\ DOMAIN h.name = Existing(tree)
    /\ FileLinks(h) = Linked(tree, IsStatic) /\ IsFiniteSet(FileLinks(h))
    /\ FileLinks(h) \subseteq Existing(tree) \X Existing(tree)

(* What the roles are, and which modules have an importer.                 *)
LEMMA RolesAre ==
    ASSUME NEW tree, NEW h, LinksOf(h, tree), NEW role, role = Roles(h), NEW p \in Existing(tree)
    PROVE  /\ role[p] \in {"root", "test", "module"}
           /\ role[p] = "module" <=> FirstRole(p) = "module" /\ p \notin Promoted(h)
           /\ role[p] = "module" => p \notin Entries \cup ConfigFiles \cup TestSources
           /\ role[p] = "test" <=> p \in TestSources \ (Entries \cup ConfigFiles)
           /\ p \in Entries \cup ConfigFiles => role[p] = "root"
<1>1. p \in ModulesOf(h)
    BY DEF LinksOf, ModulesOf
<1>2. PICK X : X = Promoted(h)
    OBVIOUS
<1>3. X \subseteq {q \in ModulesOf(h) : FirstRole(q) = "module"}
    BY <1>2 DEF Promoted
<1>4. role = [q \in ModulesOf(h) |-> IF q \in X THEN "root" ELSE FirstRole(q)]
    BY <1>2 DEF Roles
<1>5. role[p] = IF p \in X THEN "root" ELSE FirstRole(p)
    BY <1>1, <1>4
<1>6. p \in X => FirstRole(p) = "module"
    BY <1>3
<1>7. /\ FirstRole(p) \in {"root", "test", "module"}
      /\ FirstRole(p) = "module" <=> p \notin Entries \cup ConfigFiles \cup TestSources
      /\ FirstRole(p) = "test" <=> p \in TestSources \ (Entries \cup ConfigFiles)
      /\ p \in Entries \cup ConfigFiles => FirstRole(p) = "root"
    BY DEF FirstRole
<1> QED
    BY <1>2, <1>5, <1>6, <1>7

LEMMA ImportersAre ==
    ASSUME NEW tree, NEW h, LinksOf(h, tree), NEW p \in Existing(tree)
    PROVE  HasInternalImporter(h, p) <=> \E l \in FileLinks(h) : l[2] = p /\ l[1] # p
<1>1. IsGraph(h) /\ DOMAIN h.name = Existing(tree)
    BY DEF LinksOf
<1>2. \A e \in Edges(h) : e.to = h.name[p] <=> e.to \in Internal(h) /\ FileOf(h, e.to) = p
    BY <1>1, FileIs DEF Internal
<1>3. ASSUME NEW e \in Into(h, p), e.file # p PROVE \E l \in FileLinks(h) : l[2] = p /\ l[1] # p
    <2>1. e \in Edges(h) /\ e.to \in Internal(h) /\ FileOf(h, e.to) = p
        BY <1>2 DEF Into
    <2>2. <<e.file, FileOf(h, e.to)>> \in FileLinks(h)
        BY <2>1 DEF FileLinks
    <2> QED
        BY <1>3, <2>1, <2>2
<1>4. ASSUME NEW l \in FileLinks(h), l[2] = p, l[1] # p PROVE \E e \in Into(h, p) : e.file # p
    <2>1. PICK e \in Edges(h) : e.to \in Internal(h) /\ l = <<e.file, FileOf(h, e.to)>>
        BY DEF FileLinks
    <2>2. e \in Into(h, p)
        BY <1>2, <1>4, <2>1 DEF Into
    <2> QED
        BY <1>4, <2>1, <2>2
<1> QED
    BY <1>3, <1>4 DEF HasInternalImporter

(* The walk reaches what production runs, and what it does not reach no    *)
(* root does.                                                              *)
LEMMA WalkIs ==
    ASSUME NEW tree, NEW h, LinksOf(h, tree), NEW role, role = Roles(h), NEW reach, reach = Walk(h, role)
    PROVE  /\ ProductionFiles(tree) \subseteq reach.prod /\ ProductionFiles(tree) \subseteq Existing(tree)
           /\ \A p \in Existing(tree) : role[p] = "module" /\ p \in reach.orphans => p \notin Rooted(tree)
<1> DEFINE With(r) == {p \in ModulesOf(h) : role[p] = r}
<1>1. PICK L, M, U, P, T : /\ L = FileLinks(h) /\ M = Existing(tree)
                           /\ U = {p \in With("module") : ~HasInternalImporter(h, p)}
                           /\ P = Reach(L, With("root") \cup U) /\ T = Reach(L, With("test"))
    OBVIOUS
<1>2. reach.prod = P \cup (With("module") \ (P \cup T)) /\ reach.orphans = U \cup (With("module") \ (P \cup T))
    BY <1>1 DEF Walk
<1>3. ModulesOf(h) = M /\ L = Linked(tree, IsStatic) /\ IsFiniteSet(L) /\ L \subseteq M \X M
    BY <1>1 DEF LinksOf, ModulesOf
<1>4. /\ With("root") \cup U \subseteq P /\ Closed(L, P)
      /\ With("test") \subseteq T /\ Closed(L, T)
    BY <1>1, <1>3, ReachIs
<1>5. PICK S, R : /\ S = (Entries \cup ConfigFiles \cup ((Sources \ TestSources) \ {l[2] : l \in {k \in L : k[1] # k[2]}})) \cap M
                  /\ R = (Entries \cup ConfigFiles \cup TestSources) \cap M
    OBVIOUS
<1>6. ProductionFiles(tree) = Reach(L, S) /\ Rooted(tree) = Reach(L, R)
    BY <1>1, <1>3, <1>5 DEF ProductionFiles, Rooted
<1>7. ASSUME NEW p \in S PROVE p \in With("root") \cup U
    <2>1. p \in M
        BY <1>5
    <2>2. role[p] \in {"root", "test", "module"} /\ (p \in Entries \cup ConfigFiles => role[p] = "root")
          /\ (role[p] = "test" => p \in TestSources \ (Entries \cup ConfigFiles))
        BY <1>1, <2>1, RolesAre
    <2>3. HasInternalImporter(h, p) <=> \E l \in L : l[2] = p /\ l[1] # p
        BY <1>1, <2>1, ImportersAre
    <2>4. CASE p \in Entries \cup ConfigFiles
        BY <1>3, <2>1, <2>2, <2>4
    <2>5. CASE p \notin Entries \cup ConfigFiles
        <3>1. p \notin TestSources /\ p \notin {l[2] : l \in {k \in L : k[1] # k[2]}}
            BY <1>5, <2>5
        <3>2. ~HasInternalImporter(h, p)
            BY <2>3, <3>1
        <3> QED
            BY <1>1, <1>3, <2>1, <2>2, <3>1, <3>2
    <2> QED
        BY <2>4, <2>5
<1>8. Reach(L, S) \subseteq P
    <2>1. S \subseteq P
        BY <1>4, <1>7
    <2> QED
        BY <1>3, <1>4, <2>1, ReachIs
<1>9. Reach(L, S) \subseteq M
    <2>1. S \subseteq M /\ Closed(L, M)
        BY <1>3, <1>5 DEF Closed
    <2> QED
        BY <1>3, <2>1, ReachIs
<1>10. ASSUME NEW p \in U PROVE p \notin Reach(L, R)
    <2>1. PICK X, Y : X = Reach(L, R) /\ Y = X \ {p}
        OBVIOUS
    <2>2. R \subseteq X /\ Closed(L, X)
        BY <1>3, <2>1, ReachIs
    <2>3. p \in M /\ role[p] = "module" /\ ~HasInternalImporter(h, p)
        BY <1>1, <1>3
    <2>4. p \notin R
        <3>1. p \notin Entries \cup ConfigFiles \cup TestSources
            BY <1>1, <2>3, RolesAre
        <3> QED
            BY <1>5, <3>1
    <2>5. \A l \in L : l[2] = p => l[1] = p
        BY <1>1, <2>3, ImportersAre
    <2>6. R \subseteq Y /\ Closed(L, Y)
        BY <2>1, <2>2, <2>4, <2>5 DEF Closed
    <2>7. X \subseteq Y
        BY <1>3, <2>1, <2>6, ReachIs
    <2> QED
        BY <2>1, <2>7
<1>11. Reach(L, R) \subseteq P \cup T
    <2>1. R \subseteq With("root") \cup With("test")
        <3> SUFFICES ASSUME NEW p \in R PROVE p \in With("root") \cup With("test")
            OBVIOUS
        <3>1. p \in M /\ p \in Entries \cup ConfigFiles \cup TestSources
            BY <1>5
        <3>2. role[p] = "root" \/ role[p] = "test"
            BY <1>1, <3>1, RolesAre
        <3> QED
            BY <1>3, <3>1, <3>2
    <2>2. R \subseteq P \cup T /\ Closed(L, P \cup T)
        BY <1>4, <2>1 DEF Closed
    <2> QED
        BY <1>3, <2>2, ReachIs
<1> QED
    BY <1>1, <1>2, <1>6, <1>8, <1>9, <1>10, <1>11

(* What is asked of a module: what its importers ask, and what is asked of *)
(* those that re-export it.                                                *)
AsksFinitely(h) == \A e \in Edges(h) : IsFiniteSet(e.symbols) /\ IsFiniteSet(ToSet(e.import.symbols))

(* What an edge asks is in the demand of the file it leads to.             *)
IsMet(h, role, reach, d, e) ==
    /\ ~e.import.reexport => Direct(role, reach, e).prod \subseteq d[FileOf(h, e.to)].prod
    /\ e.import.reexport /\ e.from # e.to =>
        \A n \in d[e.file].prod : Forwards(e.import, n) \subseteq d[FileOf(h, e.to)].prod

LEMMA DemandIs ==
    ASSUME NEW h, IsGraph(h), AsksFinitely(h),
           NEW role, NEW reach, NEW d, d = Inbound(h, role, reach),
           NEW e \in Edges(h), e.to \in Internal(h)
    PROVE  IsMet(h, role, reach, d, e)
<1> DEFINE inner == {x \in Edges(h) : x.to \in Internal(h)}
           reexports == {x \in inner : x.import.reexport /\ x.from # x.to}
           direct == {<<FileOf(h, x.to), Direct(role, reach, x)>> : x \in {y \in inner : ~y.import.reexport}}
           words == [x \in inner |-> x.symbols \cup ToSet(x.import.symbols)]
           names == {"*"} \cup UNION {x.symbols \cup ToSet(x.import.symbols) : x \in inner}
           Passed(x, n) == {FileOf(h, x.to)} \X Forwards(x.import, n)
           passes == UNION {UNION {{<<x.file, n>>} \X Passed(x, n) : n \in names} : x \in reexports}
           all == UNION {Passed(x, "*") : x \in {y \in reexports : y.file \in ForwardsAll(h, role, reach)}}
           start == all \cup UNION {{x[1]} \X x[2].prod : x \in direct}
           prod == Reach(passes, start)
<1>1. \A p \in ModulesOf(h) : d[p].prod = {n \in names : <<p, n>> \in prod}
    BY DEF Inbound
<1>2. ModulesOf(h) = DOMAIN h.name /\ \A x \in inner : FileOf(h, x.to) \in DOMAIN h.name /\ x.file \in DOMAIN h.name
    <2>1. \A n \in Internal(h) : FileOf(h, n) \in DOMAIN h.name
        BY FileIs DEF Internal
    <2> QED
        BY <2>1 DEF ModulesOf, IsGraph, Edges
<1>3. IsFiniteSet(names)
    <2>1. IsFiniteSet(inner)
        <3>1. IsFiniteSet(Edges(h))
            BY ListIsFinite DEF Edges, IsGraph, IsList
        <3> QED
            BY <3>1, FS_Subset
    <2>2. IsFiniteSet({words[x] : x \in inner})
        <3> HIDE DEF inner
        <3> QED
            BY <2>1, FiniteImage
    <2>3. \A x \in inner : IsFiniteSet(words[x])
        BY FS_Union DEF AsksFinitely
    <2>4. IsFiniteSet(UNION {words[x] : x \in inner})
        <3> HIDE DEF inner, words
        <3> QED
            BY <2>2, <2>3, FS_UNION
    <2>5. names = {"*"} \cup UNION {words[x] : x \in inner}
        OBVIOUS
    <2> HIDE DEF names, words, inner
    <2> QED
        BY <2>4, <2>5, FS_Singleton, FS_Union
<1>4. \A x \in inner : x.symbols \subseteq names /\ ToSet(x.import.symbols) \subseteq names
    OBVIOUS
<1>5. \A x \in inner : \A n \in names : Forwards(x.import, n) \subseteq names
    <2> TAKE x \in inner
    <2>1. \A i \in DOMAIN x.import.symbols : x.import.symbols[i] \in names
        <3> HIDE DEF names
        <3> QED
            BY <1>4 DEF ToSet
    <2> HIDE DEF names
    <2> QED
        BY <2>1 DEF Forwards
<1>6. PICK M, pairs : M = DOMAIN h.name /\ pairs = M \X names
    OBVIOUS
<1>7. IsFiniteSet(passes)
    <2>1. IsFiniteSet(pairs)
        <3> HIDE DEF names
        <3>1. IsFiniteSet(M)
            BY <1>6, SourcesFinite, FS_Subset DEF IsGraph
        <3> QED
            BY <1>3, <1>6, <3>1, FS_Product
    <2>2. passes \subseteq pairs \X pairs
        <3>1. ASSUME NEW x \in reexports, NEW n \in names PROVE {<<x.file, n>>} \X Passed(x, n) \subseteq pairs \X pairs
            <4>1. x \in inner
                OBVIOUS
            <4> HIDE DEF names, inner, reexports
            <4> QED
                BY <1>2, <1>5, <1>6, <4>1
        <3> HIDE DEF names, reexports, Passed
        <3> QED
            BY <3>1
    <2> HIDE DEF passes
    <2> QED
        BY <2>1, <2>2, FS_Product, FS_Subset
<1>8. start \subseteq prod /\ Closed(passes, prod)
    <2> HIDE DEF passes, start
    <2> QED
        BY <1>7, ReachIs
<1>9. e \in inner /\ e.file \in M /\ FileOf(h, e.to) \in M
    <2>1. e \in inner
        OBVIOUS
    <2> HIDE DEF inner
    <2> QED
        BY <1>2, <1>6, <2>1
<1>10. PICK q : q = FileOf(h, e.to)
    OBVIOUS
<1>11. ASSUME ~e.import.reexport, NEW n \in Direct(role, reach, e).prod PROVE n \in d[q].prod
    <2>1. PICK x : x = <<q, Direct(role, reach, e)>>
        OBVIOUS
    <2>2. x \in direct
        BY <1>9, <1>10, <1>11, <2>1
    <2>3. <<q, n>> \in {x[1]} \X x[2].prod
        BY <1>11, <2>1
    <2>4. <<q, n>> \in prod
        <3>1. <<q, n>> \in start
            <4> HIDE DEF direct, all
            <4> QED
                BY <2>2, <2>3
        <3> QED
            BY <1>8, <3>1
    <2>5. n \in e.symbols
        BY <1>11 DEF Direct
    <2>6. n \in names
        <3> HIDE DEF names, inner
        <3> QED
            BY <1>4, <1>9, <2>5
    <2> HIDE DEF names, prod
    <2> QED
        BY <1>1, <1>2, <1>6, <1>9, <1>10, <2>4, <2>6
<1>12. ASSUME e.import.reexport, e.from # e.to, NEW n \in d[e.file].prod, NEW m \in Forwards(e.import, n)
       PROVE  m \in d[q].prod
    <2>1. n \in names /\ <<e.file, n>> \in prod
        <3> HIDE DEF names, prod
        <3> QED
            BY <1>1, <1>2, <1>6, <1>9, <1>12
    <2>2. m \in names
        <3> HIDE DEF names, inner
        <3> QED
            BY <1>5, <1>9, <1>12, <2>1
    <2>3. PICK r : r = <<<<e.file, n>>, <<q, m>>>>
        OBVIOUS
    <2>4. r \in {<<e.file, n>>} \X Passed(e, n)
        BY <1>10, <1>12, <2>3
    <2>5. e \in reexports
        BY <1>9, <1>12
    <2>6. r \in passes
        <3> HIDE DEF reexports, names, Passed
        <3> QED
            BY <2>1, <2>4, <2>5
    <2>7. <<q, m>> \in prod
        <3> HIDE DEF passes, prod
        <3> QED
            BY <1>8, <2>1, <2>3, <2>6 DEF Closed
    <2> HIDE DEF names, prod
    <2> QED
        BY <1>1, <1>2, <1>6, <1>9, <1>10, <2>2, <2>7
<1> QED
    BY <1>10, <1>11, <1>12 DEF IsMet

(* What the lines of a tree say is finite.                                 *)
LEMMA LineWords ==
    ASSUME NEW text, IsText(text), NEW s \in ToSet(text)
    PROVE  IsFiniteSet(Words(s))
<1>1. \A list : IsList(list) => IsFiniteSet(ToSet(list))
    BY ListIsFinite DEF IsList
<1>2. CASE s.kind = "import"
    <2>1. IsFiniteSet(ToSet(s.target)) /\ IsFiniteSet(ToSet(s.symbols)) /\ IsFiniteSet(ToSet(s.bindings))
        BY <1>1, <1>2 DEF IsText
    <2>2. Words(s) = ToSet(s.target) \cup ToSet(s.symbols) \cup ToSet(s.bindings)
        BY <1>2 DEF Words
    <2> QED
        BY <2>1, <2>2, FS_Union
<1>3. CASE s.kind \in {"attr", "path", "result"}
    <2>1. Words(s) = {s.of} \cup {s.name}
        BY <1>3 DEF Words
    <2>2. IsFiniteSet({s.of}) /\ IsFiniteSet({s.name})
        BY FS_Singleton
    <2> QED
        BY <2>1, <2>2, FS_Union
<1>4. CASE s.kind \in {"def", "use", "all", "self", "method", "property", "string"}
    <2>1. Words(s) = {s.name}
        BY <1>4 DEF Words
    <2> QED
        BY <2>1, FS_Singleton
<1>5. CASE s.kind = "class"
    <2>1. Words(s) = {s.name} \cup s.bases /\ IsFiniteSet(s.bases)
        BY <1>5 DEF Words, IsText
    <2>2. IsFiniteSet({s.name})
        BY FS_Singleton
    <2> QED
        BY <2>1, <2>2, FS_Union
<1>6. CASE s.kind \in {"hint", "returns"}
    <2>1. Words(s) = {s.name} \cup ToSet(s.types) /\ IsFiniteSet(ToSet(s.types))
        BY <1>1, <1>6 DEF Words, IsText
    <2>2. IsFiniteSet({s.name})
        BY FS_Singleton
    <2> QED
        BY <2>1, <2>2, FS_Union
<1>7. CASE /\ s.kind # "import" /\ s.kind \notin {"attr", "path", "result"}
           /\ s.kind \notin {"def", "use", "all", "self", "method", "property", "string"}
           /\ s.kind # "class" /\ s.kind \notin {"hint", "returns"}
    <2>1. Words(s) = {}
        BY <1>7 DEF Words
    <2> QED
        BY <2>1, FS_EmptySet
<1> QED
    BY <1>2, <1>3, <1>4, <1>5, <1>6, <1>7

(* The files of a tree and what they say.                                  *)
LinesOf(tree) == UNION {ToSet(tree[p]) : p \in Existing(tree)}
VocabularyOf(tree) == (UNION {Words(s) : s \in LinesOf(tree)}) \cup {"*", "default"}

LEMMA LinesFinite ==
    ASSUME NEW tree, IsTree(tree)
    PROVE  IsFiniteSet(Existing(tree)) /\ IsFiniteSet(LinesOf(tree)) /\ IsFiniteSet(VocabularyOf(tree))
<1>1. PICK M, lines : M = Existing(tree) /\ lines = [p \in M |-> ToSet(tree[p])]
    OBVIOUS
<1>2. IsFiniteSet(M) /\ M \subseteq DOMAIN tree
    BY <1>1, SourcesFinite, FS_Subset DEF Existing
<1>3. \A p \in M : IsFiniteSet(lines[p])
    BY <1>1, <1>2, ListIsFinite DEF IsTree, IsText, IsList
<1>4. PICK A : A = UNION {lines[p] : p \in M}
    OBVIOUS
<1>5. IsFiniteSet(A)
    <2>1. IsFiniteSet({lines[p] : p \in M})
        BY <1>2, FiniteImage
    <2> QED
        BY <1>3, <1>4, <2>1, FS_UNION
<1>6. A = LinesOf(tree)
    BY <1>1, <1>4 DEF LinesOf
<1>7. PICK words : words = [s \in A |-> Words(s)]
    OBVIOUS
<1>8. \A s \in A : IsFiniteSet(words[s])
    <2> SUFFICES ASSUME NEW p \in M, NEW s \in ToSet(tree[p]) PROVE IsFiniteSet(Words(s))
        BY <1>1, <1>4, <1>7
    <2>1. IsText(tree[p])
        BY <1>2 DEF IsTree
    <2> QED
        BY <2>1, LineWords
<1>9. IsFiniteSet(UNION {words[s] : s \in A})
    <2>1. IsFiniteSet({words[s] : s \in A})
        BY <1>5, FiniteImage
    <2> QED
        BY <1>8, <2>1, FS_UNION
<1>10. VocabularyOf(tree) = (UNION {words[s] : s \in A}) \cup ({"*"} \cup {"default"})
    BY <1>6, <1>7 DEF VocabularyOf
<1>11. IsFiniteSet({"*"} \cup {"default"})
    <2>1. IsFiniteSet({"*"}) /\ IsFiniteSet({"default"})
        BY FS_Singleton
    <2> QED
        BY <2>1, FS_Union
<1>12. IsFiniteSet(VocabularyOf(tree))
    <2>1. PICK X, Y : X = UNION {words[s] : s \in A} /\ Y = {"*"} \cup {"default"}
        OBVIOUS
    <2>2. IsFiniteSet(X \cup Y)
        BY <1>9, <1>11, <2>1, FS_Union
    <2> QED
        BY <1>10, <2>1, <2>2
<1> QED
    BY <1>1, <1>2, <1>5, <1>6, <1>12

(* A re-export passes a name on from a file to one it imports.             *)
Passes(tree, r, q, s, i) ==
    \E t \in Named(tree, q, Absolute(q, s)) :
        IF PassesAll(s, i) THEN \E n \in VocabularyOf(tree) : r = <<<<q, n>>, <<t, n>>>>
        ELSE \E n \in {Binding(s, i), "*"} : r = <<<<q, n>>, <<t, s.symbols[i]>>>>

LEMMA OriginIs ==
    ASSUME NEW tree, NEW r \in Origin(tree)
    PROVE  \E q \in Existing(tree) : \E s \in ImportsOf(tree, q) : \E i \in DOMAIN s.symbols :
                s.reexport /\ Passes(tree, r, q, s, i)
<1> DEFINE names(q) == (UNION {Words(s) : s \in ToSet(tree[q])}) \cup {"*", "default"}
           From(q, s, i) ==
                LET targets == Named(tree, q, Absolute(q, s))
                    exported == IF i \in DOMAIN s.bindings THEN s.bindings[i] ELSE s.symbols[i]
                IN  IF s.symbols[i] = "*" /\ i \notin DOMAIN s.bindings
                    THEN UNION {{<< <<q, n>>, <<t, n>> >> :
                                 n \in UNION {names(f) : f \in Existing(tree)}} : t \in targets}
                    ELSE {<< <<q, n>>, <<t, s.symbols[i]>> >> : n \in {exported, "*"}, t \in targets}
<1>1. Origin(tree) = UNION {UNION {UNION {From(q, s, i) : i \in DOMAIN s.symbols} :
                                   s \in {x \in ImportsOf(tree, q) : x.reexport}} : q \in Existing(tree)}
    BY DEF Origin
<1>2. UNION {names(f) : f \in Existing(tree)} \subseteq VocabularyOf(tree)
    <2> SUFFICES ASSUME NEW f \in Existing(tree), NEW n \in names(f) PROVE n \in VocabularyOf(tree)
        OBVIOUS
    <2>1. CASE n \in {"*", "default"}
        BY <2>1 DEF VocabularyOf
    <2>2. CASE n \notin {"*", "default"}
        <3>1. PICK s \in ToSet(tree[f]) : n \in Words(s)
            BY <2>2
        <3>2. s \in LinesOf(tree)
            BY <3>1 DEF LinesOf
        <3> QED
            BY <3>1, <3>2 DEF VocabularyOf
    <2> QED
        BY <2>1, <2>2
<1>3. ASSUME NEW q, NEW s, NEW i, r \in From(q, s, i) PROVE Passes(tree, r, q, s, i)
    <2>1. CASE PassesAll(s, i)
        <3>1. r \in UNION {{<< <<q, n>>, <<t, n>> >> : n \in UNION {names(f) : f \in Existing(tree)}} :
                            t \in Named(tree, q, Absolute(q, s))}
            BY <1>3, <2>1 DEF PassesAll
        <3> HIDE DEF names
        <3> QED
            BY <1>2, <2>1, <3>1 DEF Passes
    <2>2. CASE ~PassesAll(s, i)
        <3>1. r \in {<< <<q, n>>, <<t, s.symbols[i]>> >> :
                      n \in {Binding(s, i), "*"}, t \in Named(tree, q, Absolute(q, s))}
            BY <1>3, <2>2 DEF PassesAll, Binding
        <3> QED
            BY <2>2, <3>1 DEF Passes
    <2> QED
        BY <2>1, <2>2
<1> HIDE DEF From
<1> QED
    BY <1>1, <1>3

LEMMA OriginFinite ==
    ASSUME NEW tree, IsTree(tree)
    PROVE  IsFiniteSet(Origin(tree))
<1>1. PICK V, M, X : V = VocabularyOf(tree) /\ M = Existing(tree) /\ X = M \X V
    OBVIOUS
<1>2. IsFiniteSet(X \X X)
    BY <1>1, LinesFinite, FS_Product
<1>3. ASSUME NEW r \in Origin(tree) PROVE r \in X \X X
    <2>1. PICK q \in M : \E s \in ImportsOf(tree, q) : \E i \in DOMAIN s.symbols :
                            s.reexport /\ Passes(tree, r, q, s, i)
        BY <1>1, OriginIs
    <2>2. PICK s \in ImportsOf(tree, q) : \E i \in DOMAIN s.symbols : s.reexport /\ Passes(tree, r, q, s, i)
        BY <2>1
    <2>3. PICK i \in DOMAIN s.symbols : Passes(tree, r, q, s, i)
        BY <2>2
    <2>4. s \in ToSet(tree[q]) /\ s.kind = "import"
        <3>1. q \in DOMAIN tree
            BY <1>1 DEF Existing
        <3> QED
            BY <3>1, ImportsOfAre
    <2>5. Words(s) \subseteq V /\ "*" \in V
        <3>1. s \in LinesOf(tree)
            BY <1>1, <2>4 DEF LinesOf
        <3> QED
            BY <1>1, <3>1 DEF VocabularyOf
    <2>6. s.symbols[i] \in V /\ Binding(s, i) \in V
        <3>1. Words(s) = ToSet(s.target) \cup ToSet(s.symbols) \cup ToSet(s.bindings)
            BY <2>4 DEF Words
        <3> QED
            BY <2>3, <2>5, <3>1 DEF ToSet, Binding
    <2>7. PICK t \in Named(tree, q, Absolute(q, s)) :
            IF PassesAll(s, i) THEN \E n \in V : r = <<<<q, n>>, <<t, n>>>>
            ELSE \E n \in {Binding(s, i), "*"} : r = <<<<q, n>>, <<t, s.symbols[i]>>>>
        BY <1>1, <2>3 DEF Passes
    <2>8. t \in M
        BY <1>1 DEF Named
    <2>9. PICK n, m \in V : r = <<<<q, n>>, <<t, m>>>>
        BY <2>5, <2>6, <2>7
    <2> QED
        BY <1>1, <2>8, <2>9
<1>4. Origin(tree) \subseteq X \X X
    BY <1>3
<1> QED
    BY <1>2, <1>4, FS_Subset

(* A re-export is literal, of another file and of no package: only         *)
(* JavaScript and TypeScript have them.  An import of types takes no `*`.  *)
PlainImports(tree) ==
    \A p \in Existing(tree) : \A s \in ImportsOf(tree, p) :
        IF s.reexport THEN ~s.computed /\ ~HasSubmodules(p) /\ p \notin Named(tree, p, Absolute(p, s))
        ELSE s.phase = "types" => "*" \notin ToSet(s.symbols)

(* Production runs no file of a test runner's, but for its entry points.   *)
TestsApart(tree) == ProductionFiles(tree) \cap TestSources \subseteq Entries \cup ConfigFiles

LEMMA GraphLinks ==
    ASSUME NEW tree, IsTree(tree), ClearNames(tree), ~Dangling(tree), Whole(tree), NEW h, h = Build(tree, FALSE)
    PROVE  /\ LinksOf(h, tree) /\ h.tree = tree
           /\ AsksFinitely(h)
<1>1. PICK g, W : g = NodesOf(tree, Parsed(tree)) /\ W = WordsOf(g, FALSE)
    OBVIOUS
<1>2. IsGraph(h) /\ h.tree = tree /\ DOMAIN h.name = Existing(tree) /\ h \in Grown(g, FALSE)
    BY <1>1, Built DEF Whole, Existing
<1>3. IsFiniteSet(W)
    BY <1>1, WordsFinite
<1>4. ASSUME NEW e \in Edges(h) PROVE IsFiniteSet(e.symbols) /\ IsFiniteSet(ToSet(e.import.symbols))
    <2>1. e \in EdgesOf(g, FALSE)
        <3>1. h.edges \in Seq(EdgesOf(g, FALSE))
            BY <1>2 DEF Grown
        <3>2. \A E : \A list \in Seq(E) : \A i \in DOMAIN list : list[i] \in E
            OBVIOUS
        <3> QED
            BY <3>1, <3>2 DEF Edges, ToSet
    <2>2. PICK r \in Reads(g, FALSE) : e \in EdgesFrom(g, FALSE, r)
        BY <2>1 DEF EdgesOf
    <2>3. PICK q \in May(g, r) \X SUBSET W : e = Edge(g, r[1], q[1], q[2], r[2])
        BY <1>1, <2>2 DEF EdgesFrom
    <2>4. e.symbols \subseteq W /\ IsList(e.import.symbols)
        BY <2>3 DEF Edge, Reads
    <2> QED
        BY <1>3, <2>4, FS_Subset, ListIsFinite DEF IsList
<1>5. /\ FileLinks(h) = Linked(tree, IsStatic) /\ IsFiniteSet(FileLinks(h))
      /\ FileLinks(h) \subseteq Existing(tree) \X Existing(tree)
    BY FileLinksAre
<1> QED
    BY <1>2, <1>4, <1>5 DEF LinksOf, AsksFinitely

(* What production uses is asked for.                                      *)
LEMMA UsedIsAsked ==
    ASSUME NEW tree, IsTree(tree), ClearNames(tree), ~Dangling(tree), Whole(tree),
           PlainImports(tree), TestsApart(tree),
           NEW h, h = Build(tree, FALSE), NEW role, role = Roles(h), NEW reach, reach = Walk(h, role),
           NEW d, d = Inbound(h, role, reach), NEW u \in UsedNames(tree)
    PROVE  u[2] = "" \/ Asks(d[u[1]].prod, u[2])
<1>1. PICK M, P, R : M = Existing(tree) /\ P = ProductionFiles(tree) /\ R = Origin(tree)
    OBVIOUS
<1>2. LinksOf(h, tree) /\ AsksFinitely(h)
    BY GraphLinks
<1>3. IsGraph(h) /\ DOMAIN h.name = M
    BY <1>1, <1>2 DEF LinksOf
<1>4. Parsed(tree) = M /\ Nodes(Parsed(tree)) = Parsed(tree) /\ M \subseteq DOMAIN tree
    BY <1>1 DEF Whole, Nodes, Parsed, Existing
<1>5. \A q \in M : h.name[q] \in Internal(h) /\ FileOf(h, h.name[q]) = q
    BY <1>3, FileIs DEF Internal
<1>6. P \subseteq reach.prod /\ P \subseteq M
    BY <1>1, <1>2, WalkIs
<1> DEFINE asked(p) == UNION {Taken(tree, p, s) : s \in {x \in ImportsOf(tree, p) : IsStatic(x) /\ ~x.reexport}}
           S == UNION {asked(p) : p \in P}
           Good(v) == v[2] = "" \/ Asks(d[v[1]].prod, v[2])
           X == {v \in UsedNames(tree) : Good(v)}
<1>7. UsedNames(tree) = Reach(R, S)
    BY <1>1 DEF UsedNames
<1>8. IsFiniteSet(R)
    BY <1>1, OriginFinite
<1>9. ASSUME NEW p \in P, NEW s \in ImportsOf(tree, p), ~s.computed, ~s.reexport, NEW t \in Taken(tree, p, s)
      PROVE  Good(t)
    <2>1. p \in M
        BY <1>6
    <2>2. t[1] \in M
        <3>1. t[1] \in Loads(tree, p, s)
            BY DEF Loads
        <3> QED
            BY <1>1, <2>1, <3>1, LoadsExist
    <2>3. AskedFor(h, p, s, t)
        BY <1>4, <1>9, <2>1, <2>2, TakenIsAsked
    <2>4. PICK e \in Edges(h) : /\ e.file = p /\ e.import = s /\ e.to = h.name[t[1]]
                                /\ t[2] = "" \/ t[2] \in e.symbols \/ "*" \in ToSet(s.symbols) \cap e.symbols
        BY <2>3 DEF AskedFor, Edges
    <2>5. Direct(role, reach, e).prod \subseteq d[t[1]].prod
        <3>1. e.to \in Internal(h) /\ FileOf(h, e.to) = t[1] /\ ~e.import.reexport
            BY <1>5, <1>9, <2>2, <2>4
        <3>2. IsMet(h, role, reach, d, e)
            BY <1>2, <1>3, <3>1, DemandIs
        <3> QED
            BY <3>1, <3>2 DEF IsMet
    <2>6. ~IsTestImporter(role, reach, p)
        <3>1. p \in TestSources => p \in Entries \cup ConfigFiles
            BY <1>1 DEF TestsApart
        <3>2. role[p] # "test"
            BY <1>1, <1>2, <2>1, <3>1, RolesAre
        <3> QED
            BY <1>6, <3>2 DEF IsTestImporter
    <2>7. s.phase = "types" => "*" \notin ToSet(s.symbols)
        BY <1>1, <1>9, <2>1 DEF PlainImports
    <2>8. t[2] = "*" => "*" \in ToSet(s.symbols)
        BY <1>4, <2>1, StarTaken
    <2>9. Direct(role, reach, e).prod =
            IF "*" \in e.symbols /\ s.phase = "types" THEN e.symbols \ {"*"} ELSE e.symbols
        BY <2>4, <2>6 DEF Direct
    <2>10. t[2] = "" \/ Asks(Direct(role, reach, e).prod, t[2])
        BY <2>4, <2>7, <2>8, <2>9 DEF Asks
    <2> QED
        BY <2>5, <2>10 DEF Asks
<1>10. S \subseteq X
    <2>1. S \subseteq Reach(R, S)
        BY <1>8, ReachIs
    <2>2. ASSUME NEW t \in S PROVE Good(t)
        <3>1. PICK p \in P : t \in asked(p)
            OBVIOUS
        <3>2. PICK s \in ImportsOf(tree, p) : ~s.computed /\ ~s.reexport /\ t \in Taken(tree, p, s)
            BY <3>1 DEF IsStatic
        <3> HIDE DEF Good
        <3> QED
            BY <1>9, <3>2
    <2> HIDE DEF S, Good
    <2> QED
        BY <1>7, <2>1, <2>2
<1>11. ASSUME NEW r \in R, r[1] \in X PROVE Good(r[2])
    <2>1. PICK q \in M : \E s \in ImportsOf(tree, q) : \E i \in DOMAIN s.symbols :
                            s.reexport /\ Passes(tree, r, q, s, i)
        BY <1>1, OriginIs
    <2>2. PICK s \in ImportsOf(tree, q) : \E i \in DOMAIN s.symbols : s.reexport /\ Passes(tree, r, q, s, i)
        BY <2>1
    <2>3. PICK i \in DOMAIN s.symbols : s.reexport /\ Passes(tree, r, q, s, i)
        BY <2>2
    <2>4. PICK t \in Named(tree, q, Absolute(q, s)) :
            IF PassesAll(s, i) THEN \E n \in VocabularyOf(tree) : r = <<<<q, n>>, <<t, n>>>>
            ELSE \E n \in {Binding(s, i), "*"} : r = <<<<q, n>>, <<t, s.symbols[i]>>>>
        BY <2>3 DEF Passes
    <2>5. t \in M /\ q # t /\ ~s.computed /\ ~HasSubmodules(q)
        BY <1>1, <2>3, <2>4 DEF PlainImports, Named
    <2>6. t \in Loads(tree, q, s)
        <3>1. IsList(s.symbols)
            BY <1>4, ImportsOfAre
        <3>2. s.symbols[i] \in ToSet(s.symbols) /\ Sub(tree, q, s, s.symbols[i]) = {}
            BY <2>3, <2>5 DEF ToSet, Sub
        <3> QED
            BY <2>4, <3>1, <3>2, LoadsAre
    <2>7. Shown(ToSet(h.edges), <<q, s>>, h.name[t])
        BY <1>4, <2>5, <2>6, LoadsHaveEdges
    <2>8. PICK e \in Edges(h) : e.file = q /\ e.import = s /\ e.to = h.name[t]
        BY <2>7 DEF Shown, Edges
    <2>9. e.from # e.to
        BY <1>3, <2>5, <2>8 DEF IsGraph, Edges
    <2>10. \A n \in d[q].prod : Forwards(s, n) \subseteq d[t].prod
        <3>1. e.to \in Internal(h) /\ FileOf(h, e.to) = t /\ e.import.reexport
            BY <1>5, <2>3, <2>5, <2>8
        <3>2. \A n \in d[e.file].prod : Forwards(e.import, n) \subseteq d[FileOf(h, e.to)].prod
            <4>1. IsMet(h, role, reach, d, e)
                BY <1>2, <1>3, <3>1, DemandIs
            <4> QED
                BY <2>9, <3>1, <4>1 DEF IsMet
        <3> QED
            BY <2>8, <3>1, <3>2
    <2>11. Good(r[1])
        BY <1>11
    <2>12. CASE PassesAll(s, i)
        <3>1. PICK n : r = <<<<q, n>>, <<t, n>>>>
            BY <2>4, <2>12
        <3>2. \A m \in d[q].prod : m \in d[t].prod
            <4> TAKE m \in d[q].prod
            <4>1. m \in Forwards(s, m)
                BY <2>12 DEF Forwards
            <4> QED
                BY <2>10, <4>1
        <3> QED
            BY <2>11, <3>1, <3>2 DEF Asks
    <2>13. CASE ~PassesAll(s, i)
        <3>1. PICK n \in {Binding(s, i), "*"} : r = <<<<q, n>>, <<t, s.symbols[i]>>>>
            BY <2>4, <2>13
        <3>2. n # ""
            <4>1. IsText(tree[q]) /\ s \in ToSet(tree[q]) /\ s.kind = "import"
                BY <1>4, ImportsOfAre DEF IsTree
            <4>2. "" \notin ToSet(s.symbols) \cup ToSet(s.bindings)
                BY <4>1 DEF IsText
            <4>3. Binding(s, i) \in ToSet(s.symbols) \cup ToSet(s.bindings)
                BY <2>3 DEF Binding, ToSet
            <4> QED
                BY <4>2, <4>3
        <3>3. PICK m \in d[q].prod : m \in {Binding(s, i), "*"}
            BY <2>11, <3>1, <3>2 DEF Asks
        <3>4. s.symbols[i] \in Forwards(s, m)
            BY <2>3, <2>13, <3>3 DEF Forwards
        <3> QED
            BY <2>10, <3>1, <3>3, <3>4 DEF Asks
    <2> QED
        BY <2>12, <2>13
<1>12. Closed(R, X)
    <2>1. Closed(R, Reach(R, S))
        BY <1>8, ReachIs
    <2> HIDE DEF Good, S
    <2> QED
        BY <1>7, <1>11, <2>1 DEF Closed
<1>13. Reach(R, S) \subseteq X
    <2> HIDE DEF X, S
    <2> QED
        BY <1>8, <1>10, <1>12, ReachIs
<1>14. UsedNames(tree) \subseteq X
    BY <1>7, <1>13
<1> QED
    BY <1>14

(* Definitions of one name in a file are all its default export, or none.  *)
DefaultsAgree(tree) ==
    \A p \in Existing(tree) : \A s, t \in ToSet(Statements(tree, p, "def")) :
        s.name = t.name => s.default = t.default

(* What a finding of unused symbols says holds.                            *)
SymbolRight(tree, f, used) ==
    /\ f.reached = "orphan" => f.file \notin Rooted(tree)
    /\ f.reached = "tests" => f.file \notin ProductionFiles(tree)
    /\ \A s \in ToSet(Statements(tree, f.file, "def")) :
        s.name \in f.symbols =>
            {<<f.file, n>> : n \in {s.name, "*"} \cup IF s.default THEN {"default"} ELSE {}} \cap used = {}

(* The definitions a file is found to have for nobody.                     *)
Unasked(tree, p, f, reach, d) ==
    /\ f.file = p /\ f.reached = Reached(reach, p) /\ "*" \notin d.prod
    /\ \A n \in f.symbols : \E s \in ToSet(tree[p]) :
        s.kind = "def" /\ s.name = n /\ ~IsAsked(s, d.prod)

LEMMA FindingsUnasked ==
    ASSUME NEW h, NEW tree, h.tree = tree, NEW p, IsList(tree[p]), NEW reach, NEW d, NEW callees,
           NEW f \in ModuleFindings(h, p, reach, d, callees)
    PROVE  Unasked(tree, p, f, reach, d)
<1> DEFINE reached == Reached(reach, p)
           counted == Counted(d, p)
           IsDead(s) ==
                /\ s.kind = "def" /\ (s.variable => UnusedVariables)
                /\ s.decorator = "none" /\ ~(d.typeStar /\ s.callee \in callees)
                /\ ~s.entrypoint /\ s.name \notin DynamicClasses(h.tree, p) /\ ~SkipSymbol(h, p, s, counted)
           W == {s \in ToSet(h.tree[p]) : IsDead(s)}
           dead == Those(h.tree[p], W)
           Finding(s, symbols) == [file |-> p, at |-> s, symbols |-> symbols, reached |-> reached,
                                   grade |-> Grade(reached, d, s)]
           names == {s.name : s \in ToSet(dead)}
<1>1. d.prod \subseteq counted
    BY DEF Counted
<1>2. ToSet(dead) \subseteq W
    <2>1. PICK list, L, X : list = h.tree[p] /\ L = ToSet(list) /\ X = W
        OBVIOUS
    <2>2. ToSet(Those(list, X)) = L \cap X
        BY <2>1, ThoseKept DEF IsList
    <2> HIDE DEF W
    <2> QED
        BY <2>1, <2>2
<1>3. "*" \notin counted /\ f \in {Finding(s, {s.name}) : s \in ToSet(dead)} \cup {Finding(Head(dead), names)}
    <2>1. f \in IF (reached = "orphan" /\ (~OrphanModules \/ p \in TestSupport)) \/ "*" \in counted \/ dead = << >>
                THEN {}
                ELSE IF reached = "root" THEN {Finding(s, {s.name}) : s \in ToSet(dead)}
                ELSE {Finding(Head(dead), names)}
        BY Zenon DEF ModuleFindings
    <2> HIDE DEF dead, Finding, counted, reached
    <2> QED
        BY <2>1
<1>4. f.file = p /\ f.reached = reached /\ f.symbols \subseteq names
    <2> HIDE DEF dead, reached
    <2> QED
        BY <1>3
<1>5. ASSUME NEW s \in W PROVE s.kind = "def" /\ s \in ToSet(tree[p]) /\ ~IsAsked(s, d.prod)
    <2>1. s.kind = "def" /\ ~IsAsked(s, counted)
        BY DEF SkipSymbol
    <2> HIDE DEF counted, IsDead
    <2> QED
        BY <1>1, <2>1 DEF IsAsked, Asks
<1> HIDE DEF W, dead, counted, reached
<1> QED
    BY <1>1, <1>2, <1>3, <1>4, <1>5 DEF Unasked, reached

(* No finding of unused symbols names one that is used.                    *)
LEMMA SymbolsRight ==
    ASSUME NEW tree, IsTree(tree), ClearNames(tree), ~Dangling(tree), Whole(tree),
           PlainImports(tree), TestsApart(tree), DefaultsAgree(tree),
           NEW h, h = Build(tree, FALSE), NEW f \in DeadCodeFindings(h)
    PROVE  f.reached \in {"orphan", "tests", "root"} /\ SymbolRight(tree, f, UsedNames(tree))
<1>1. PICK role, reach, d, callees :
        /\ role = Roles(h) /\ reach = Walk(h, role) /\ d = Inbound(h, role, reach)
        /\ callees = ManifestCallees(h, d)
    OBVIOUS
<1>2. PICK p \in {q \in ModulesOf(h) : role[q] = "module"} : f \in ModuleFindings(h, p, reach, d[p], callees)
    BY <1>1 DEF DeadCodeFindings
<1>3. LinksOf(h, tree) /\ h.tree = tree
    BY GraphLinks
<1>4. p \in Existing(tree) /\ p \in DOMAIN tree /\ role[p] = "module"
    BY <1>2, <1>3 DEF LinksOf, ModulesOf, Existing
<1>5. IsText(tree[p]) /\ IsList(tree[p])
    BY <1>4 DEF IsTree, IsText
<1>6. Unasked(tree, p, f, reach, d[p])
    BY <1>2, <1>3, <1>5, FindingsUnasked
<1>7. f.file = p /\ f.reached = Reached(reach, p)
    BY <1>6 DEF Unasked
<1>8. f.reached \in {"orphan", "tests", "root"} /\ (f.reached = "orphan" => p \in reach.orphans)
      /\ (f.reached = "tests" => p \notin reach.prod)
    BY <1>7 DEF Reached
<1>9. /\ ProductionFiles(tree) \subseteq reach.prod
      /\ p \in reach.orphans => p \notin Rooted(tree)
    BY <1>1, <1>3, <1>4, WalkIs
<1>10. ToSet(Statements(tree, p, "def")) = {s \in ToSet(tree[p]) : s.kind = "def"}
    <2>1. PICK list, L, W : list = tree[p] /\ L = ToSet(list) /\ W = {s \in L : s.kind = "def"}
        OBVIOUS
    <2>2. ToSet(Those(list, W)) = L \cap W
        BY <1>5, <2>1, ThoseKept DEF IsList
    <2> QED
        BY <2>1, <2>2 DEF Statements
<1>11. ASSUME NEW s \in ToSet(Statements(tree, p, "def")), s.name \in f.symbols,
              NEW n, n \in {s.name, "*"} \/ (s.default /\ n = "default"), <<p, n>> \in UsedNames(tree)
       PROVE  FALSE
    <2>1. PICK t \in ToSet(tree[p]) : t.kind = "def" /\ t.name = s.name /\ ~IsAsked(t, d[p].prod)
        BY <1>6, <1>11 DEF Unasked
    <2>2. t.default = s.default /\ s.name \notin {"", "*"}
        <3>1. t \in ToSet(Statements(tree, p, "def"))
            BY <1>10, <2>1
        <3>2. s \in ToSet(tree[p]) /\ s.kind = "def"
            BY <1>10
        <3> QED
            BY <1>4, <1>5, <2>1, <3>1, <3>2 DEF DefaultsAgree, IsText
    <2>3. n = "" \/ Asks(d[p].prod, n)
        <3>1. PICK u : u = <<p, n>> /\ u \in UsedNames(tree)
            BY <1>11
        <3>2. u[2] = "" \/ Asks(d[u[1]].prod, u[2])
            BY <1>1, <3>1, UsedIsAsked
        <3> QED
            BY <3>1, <3>2
    <2>4. "*" \notin d[p].prod
        BY <1>6 DEF Unasked
    <2> QED
        BY <1>11, <2>1, <2>2, <2>3, <2>4 DEF IsAsked, Asks
<1>12. \A s \in ToSet(Statements(tree, p, "def")) : s.name \in f.symbols =>
            {<<p, n>> : n \in {s.name, "*"} \cup IF s.default THEN {"default"} ELSE {}} \cap UsedNames(tree) = {}
    BY <1>11
<1> QED
    BY <1>7, <1>8, <1>9, <1>12 DEF SymbolRight

(* Classes of one name have the same bases, and in a file a name is said   *)
(* to be of one class at most.                                             *)
ClassesClear(tree) ==
    /\ \A c, d \in AllOf(tree, Existing(tree), "class") : c.is.name = d.is.name => c.is.bases = d.is.bases
    /\ \A p \in Existing(tree) : \A h, k \in ToSet(Statements(tree, p, "hint")) :
        h.name = k.name =>
            \A x \in ToSet(h.types) \cap ClassNames(tree, Existing(tree)),
               y \in ToSet(k.types) \cap ClassNames(tree, Existing(tree)) : x = y

LEMMA StatementsAre ==
    ASSUME NEW tree, IsTree(tree), NEW p \in DOMAIN tree, NEW kind
    PROVE  /\ IsList(Statements(tree, p, kind))
           /\ ToSet(Statements(tree, p, kind)) = {s \in ToSet(tree[p]) : s.kind = kind}
<1>1. PICK list, L, W, K : list = tree[p] /\ L = ToSet(list) /\ W = {s \in L : s.kind = kind} /\ K = Those(list, W)
    OBVIOUS
<1>2. IsList(list)
    BY <1>1 DEF IsTree, IsText
<1>3. ToSet(K) = L \cap W /\ K \in Seq(W)
    BY <1>1, <1>2, ThoseKept DEF IsList
<1>4. ToSet(K) = W /\ IsList(K)
    BY <1>1, <1>3 DEF IsList
<1> QED
    BY <1>1, <1>4 DEF Statements

(* A receiver has one class, which a hint of its name says.                *)
LEMMA TypeIs ==
    ASSUME NEW types, IsList(types), NEW classes
    PROVE  TypeClass(classes, types) = {} \/ \E k \in ToSet(types) \cap classes : TypeClass(classes, types) = {k}
<1>1. PICK T, known : T = ToSet(types) /\ known = Those(types, classes)
    OBVIOUS
<1>2. known \in Seq(classes) /\ ToSet(known) = T \cap classes
    BY <1>1, ThoseKept DEF IsList
<1>3. known # << >> => Head(known) = known[1] /\ 1 \in DOMAIN known
    BY <1>2
<1>4. known # << >> => Head(known) \in T \cap classes
    BY <1>2, <1>3 DEF ToSet
<1> QED
    BY <1>1, <1>4 DEF TypeClass

(* A receiver has no class or one that a hint of its file names.           *)
LEMMA ReceiverIs ==
    ASSUME NEW tree, IsTree(tree), NEW p \in DOMAIN tree, NEW classes, NEW name
    PROVE  \/ Receiver(tree, classes, p, name) = {}
           \/ \E h \in ToSet(Statements(tree, p, "hint")) :
                h.name = name /\ \E k \in ToSet(h.types) \cap classes : Receiver(tree, classes, p, name) = {k}
<1>1. PICK all, A, W, hints : /\ all = Statements(tree, p, "hint") /\ A = ToSet(all)
                              /\ W = {h \in A : h.name = name /\ TypeClass(classes, h.types) # {}}
                              /\ hints = Those(all, W)
    OBVIOUS
<1>2. IsList(all) /\ A \subseteq {s \in ToSet(tree[p]) : s.kind = "hint"}
    BY <1>1, StatementsAre
<1>3. hints \in Seq(W) /\ ToSet(hints) = A \cap W
    BY <1>1, <1>2, ThoseKept DEF IsList
<1>4. hints # << >> => Last(hints) \in W
    BY <1>3 DEF Last
<1>5. \A h \in A : IsList(h.types)
    BY <1>2 DEF IsTree, IsText
<1>6. Receiver(tree, classes, p, name) = IF hints = << >> THEN {} ELSE TypeClass(classes, Last(hints).types)
    BY <1>1 DEF Receiver
<1>7. ASSUME NEW h \in W, TypeClass(classes, h.types) = Receiver(tree, classes, p, name)
      PROVE  \E k \in ToSet(h.types) \cap classes : Receiver(tree, classes, p, name) = {k}
    BY <1>1, <1>5, <1>7, TypeIs
<1>8. CASE hints # << >>
    <2>1. Last(hints) \in W /\ TypeClass(classes, Last(hints).types) = Receiver(tree, classes, p, name)
        BY <1>4, <1>6, <1>8
    <2> QED
        BY <1>1, <1>7, <2>1
<1> QED
    BY <1>6, <1>8

(* The class a name stands for is one of the name.                         *)
LEMMA FirstIs ==
    ASSUME NEW tree, NEW S \in SUBSET Sources, NEW n \in ClassNames(tree, S)
    PROVE  FirstClass(tree, S, n) \in AllOf(tree, S, "class") /\ FirstClass(tree, S, n).is.name = n
<1>1. PICK named : named = {c \in AllOf(tree, S, "class") : c.is.name = n}
    OBVIOUS
<1>2. named # {} /\ \A c \in named : c.file \in Sources
    BY <1>1 DEF ClassNames, AllOf
<1>3. \A p \in Sources : Position(p) \in Nat
    <2> TAKE p \in Sources
    <2>1. \E i \in DOMAIN Files : Files[i] = p
        BY DEF Sources, ToSet
    <2>2. DOMAIN Files \subseteq Nat
        BY GraphAssumption DEF IsList
    <2> QED
        BY <2>1, <2>2 DEF Position
<1>4. PICK T : T = {Position(c.file) : c \in named}
    OBVIOUS
<1>5. T \in SUBSET Nat /\ T # {}
    BY <1>2, <1>3, <1>4
<1>6. PICK m \in T : \A k \in T : m <= k
    BY <1>5, LeastNumber
<1>7. PICK c \in named : \A d \in named : Position(c.file) <= Position(d.file)
    BY <1>4, <1>6
<1>8. FirstClass(tree, S, n) \in named
    BY <1>1, <1>7 DEF FirstClass
<1> QED
    BY <1>1, <1>8

(* What is below a class by the bases its files give is a descendant of it *)
(* by those of the classes that are looked at.                             *)
BelowIn(tree, S) == UNION {c.bases \X {c.name} : c \in UNION {ToSet(Statements(tree, p, "class")) : p \in S}}

(* The classes below one by any class of its name are those by the first.  *)
LEMMA BelowDescends ==
    ASSUME NEW tree, IsTree(tree), ClassesClear(tree), NEW S \in SUBSET Existing(tree),
           NEW classes, classes = ClassNames(tree, S), NEW inherits, inherits = Inherits(tree, S, classes),
           NEW k \in classes
    PROVE  Reach(BelowIn(tree, S), {k}) \subseteq WithDescendants(inherits, k)
<1>1. PICK V, B, D, X : /\ V = VocabularyOf(tree) /\ B = BelowIn(tree, S)
                        /\ D = {<<r[2], r[1]>> : r \in inherits} /\ X = Reach(D, {k})
    OBVIOUS
<1>2. WithDescendants(inherits, k) = X
    BY <1>1 DEF WithDescendants
<1>3. S \subseteq Sources /\ S \subseteq DOMAIN tree
    BY DEF Existing
<1>4. ASSUME NEW p \in S, NEW c \in ToSet(Statements(tree, p, "class"))
      PROVE  c.name \in V /\ c.bases \subseteq V
    <2>1. c \in ToSet(tree[p]) /\ c.kind = "class"
        BY <1>3, StatementsAre
    <2>2. c \in LinesOf(tree)
        BY <2>1 DEF LinesOf
    <2>3. Words(c) = {c.name} \cup c.bases
        BY <2>1 DEF Words
    <2> QED
        BY <1>1, <2>2, <2>3 DEF VocabularyOf
<1>5. IsFiniteSet(V)
    BY <1>1, LinesFinite
<1>6. IsFiniteSet(V \X V)
    BY <1>5, FS_Product
<1>7. IsFiniteSet(B)
    <2>1. B \subseteq V \X V
        BY <1>1, <1>4 DEF BelowIn
    <2> QED
        BY <1>6, <2>1, FS_Subset
<1>8. classes \subseteq V
    BY <1>4 DEF ClassNames, AllOf
<1>9. D \subseteq classes \X classes
    BY <1>1 DEF Inherits
<1>10. IsFiniteSet(D)
    BY <1>6, <1>8, <1>9, FS_Subset
<1>11. k \in X /\ Closed(D, X)
    BY <1>1, <1>10, ReachIs
<1>12. X \subseteq classes
    <2>1. {k} \subseteq classes /\ Closed(D, classes)
        BY <1>9 DEF Closed
    <2> QED
        BY <1>1, <1>10, <2>1, ReachIs
<1>13. ASSUME NEW r \in B, r[1] \in X PROVE r[2] \in X
    <2>1. PICK p \in S : \E c \in ToSet(Statements(tree, p, "class")) : r \in c.bases \X {c.name}
        BY <1>1 DEF BelowIn
    <2>2. PICK c \in ToSet(Statements(tree, p, "class")) : r \in c.bases \X {c.name}
        BY <2>1
    <2>3. PICK entry : entry = [file |-> p, is |-> c]
        OBVIOUS
    <2>4. entry \in AllOf(tree, S, "class") /\ entry.is = c
        BY <2>3 DEF AllOf
    <2>5. c.name \in classes /\ r[2] = c.name /\ r[1] \in c.bases /\ r[1] \in classes
        BY <1>12, <1>13, <2>2, <2>4 DEF ClassNames
    <2>6. PICK first : first = FirstClass(tree, S, c.name) /\ first \in AllOf(tree, S, "class") /\ first.is.name = c.name
        BY <1>3, <2>5, FirstIs
    <2>7. AllOf(tree, S, "class") \subseteq AllOf(tree, Existing(tree), "class")
        BY DEF AllOf
    <2>8. first.is.bases = c.bases
        BY <2>4, <2>6, <2>7 DEF ClassesClear
    <2>9. Bases(tree, S, c.name) = c.bases
        BY <2>6, <2>8 DEF Bases
    <2>10. <<c.name, r[1]>> \in inherits
        BY <2>5, <2>9 DEF Inherits
    <2>11. <<r[1], c.name>> \in D
        <3>1. PICK l : l = <<c.name, r[1]>> /\ l \in inherits
            BY <2>10
        <3>2. <<l[2], l[1]>> \in D
            BY <1>1, <3>1
        <3> QED
            BY <3>1, <3>2
    <2>12. \A a, b : <<a, b>> \in D /\ a \in X => b \in X
        BY <1>11 DEF Closed
    <2> QED
        BY <1>13, <2>5, <2>11, <2>12
<1>14. {k} \subseteq X /\ Closed(B, X)
    BY <1>11, <1>13 DEF Closed
<1>15. Reach(B, {k}) \subseteq X
    BY <1>7, <1>14, ReachIs
<1> QED
    BY <1>1, <1>2, <1>15

(* A member that may be used counts as used of its class, or of any.       *)
LEMMA MembersCount ==
    ASSUME NEW tree, IsTree(tree), ClassesClear(tree), NEW S \in SUBSET Existing(tree),
           NEW u \in UsedMembers(tree, S)
    PROVE  u \in Usage(tree, S).typed \/ u[2] \in Usage(tree, S).unresolved
<1> DEFINE Facts(kind) == UNION {ToSet(Statements(tree, p, kind)) : p \in S}
           classes == {c.name : c \in Facts("class")}
           below == UNION {c.bases \X {c.name} : c \in Facts("class")}
           Known(p, name) == classes \cap UNION {ToSet(h.types) :
                                h \in {x \in ToSet(Statements(tree, p, "hint")) : x.name = name}}
           Having(p, name) == IF Known(p, name) = {} THEN classes ELSE Reach(below, Known(p, name))
           anywhere == {s.name : s \in Facts("self") \cup Facts("path") \cup Facts("result") \cup Facts("string")}
           OfFile(p) == UNION {Having(p, a.of) \X {a.name} : a \in ToSet(Statements(tree, p, "attr"))}
<1>1. UsedMembers(tree, S) = (classes \X anywhere) \cup UNION {OfFile(p) : p \in S}
    BY DEF UsedMembers
<1>2. PICK N, inherits : N = ClassNames(tree, S) /\ inherits = Inherits(tree, S, N)
    OBVIOUS
<1>3. classes = N
    <2>1. N = {e.is.name : e \in AllOf(tree, S, "class")}
        BY <1>2 DEF ClassNames
    <2>2. ASSUME NEW e \in AllOf(tree, S, "class") PROVE e.is \in Facts("class")
        BY DEF AllOf
    <2>3. ASSUME NEW c \in Facts("class") PROVE \E e \in AllOf(tree, S, "class") : e.is = c
        <3>1. PICK p \in S : c \in ToSet(Statements(tree, p, "class"))
            OBVIOUS
        <3>2. PICK e : e = [file |-> p, is |-> c]
            OBVIOUS
        <3>3. e \in AllOf(tree, S, "class") /\ e.is = c
            BY <3>1, <3>2 DEF AllOf
        <3> QED
            BY <3>3
    <2> HIDE DEF Facts
    <2>4. \A x : x \in classes <=> x \in N
        <3>1. ASSUME NEW e \in AllOf(tree, S, "class") PROVE e.is.name \in classes
            BY <2>2
        <3>2. ASSUME NEW c \in Facts("class") PROVE c.name \in N
            BY <2>1, <2>3
        <3> QED
            BY <2>1, <3>1, <3>2
    <2> HIDE DEF classes
    <2> QED
        BY <2>4
<1>4. below = BelowIn(tree, S)
    BY DEF BelowIn
<1>5. /\ Usage(tree, S).unresolved = UnresolvedNames(tree, S, N)
      /\ Usage(tree, S).typed = TypedUses(inherits, UNION {Accesses(tree, N, p) : p \in S})
    BY <1>2 DEF Usage
<1>6. S \subseteq DOMAIN tree
    BY DEF Existing
<1> DEFINE Unknown(p) == {a.name : a \in {x \in ToSet(Statements(tree, p, "attr")) : Receiver(tree, N, p, x.of) = {}}}
           Open(p) == Unknown(p) \cup Names(tree, p, "self") \cup Names(tree, p, "path") \cup Names(tree, p, "result")
                        \cup Names(tree, p, "string")
<1>7. UnresolvedNames(tree, S, N) = UNION {Open(p) : p \in S}
    BY DEF UnresolvedNames
<1>8. anywhere \subseteq UNION {Open(p) : p \in S}
    <2> HIDE DEF Unknown
    <2> QED
        BY DEF Names
<1>9. ASSUME NEW p \in S, NEW a \in ToSet(Statements(tree, p, "attr")), NEW c \in Having(p, a.of)
      PROVE  <<c, a.name>> \in TypedUses(inherits, UNION {Accesses(tree, N, q) : q \in S}) \/ a.name \in Open(p)
    <2>1. CASE Receiver(tree, N, p, a.of) = {}
        BY <2>1
    <2>2. CASE Receiver(tree, N, p, a.of) # {}
        <3>1. PICK h \in ToSet(Statements(tree, p, "hint")) :
                h.name = a.of /\ \E k \in ToSet(h.types) \cap N : Receiver(tree, N, p, a.of) = {k}
            BY <1>6, <2>2, ReceiverIs
        <3>2. PICK k \in ToSet(h.types) \cap N : Receiver(tree, N, p, a.of) = {k}
            BY <3>1
        <3>3. N \subseteq ClassNames(tree, Existing(tree))
            BY <1>2 DEF ClassNames, AllOf
        <3>4. \A g \in ToSet(Statements(tree, p, "hint")) : g.name = a.of => \A x \in ToSet(g.types) \cap N : x = k
            BY <3>1, <3>2, <3>3 DEF ClassesClear
        <3>5. Known(p, a.of) = {k}
            <4>1. \A x \in Known(p, a.of) : x = k
                <5> HIDE DEF classes
                <5> QED
                    BY <1>3, <3>4
            <4>2. k \in Known(p, a.of)
                <5> HIDE DEF classes
                <5> QED
                    BY <1>3, <3>1, <3>2
            <4> HIDE DEF Known
            <4> QED
                BY <4>1, <4>2
        <3>6. c \in Reach(BelowIn(tree, S), {k})
            <4> HIDE DEF Known, classes, below
            <4> QED
                BY <1>4, <1>9, <3>5
        <3>7. c \in WithDescendants(inherits, k)
            <4>1. Reach(BelowIn(tree, S), {k}) \subseteq WithDescendants(inherits, k)
                BY <1>2, <3>2, BelowDescends
            <4> QED
                BY <3>6, <4>1
        <3>8. <<k, a.name>> \in Accesses(tree, N, p)
            <4>1. <<k, a.name>> \in Receiver(tree, N, p, a.of) \X {a.name}
                BY <3>2
            <4> QED
                BY <4>1 DEF Accesses
        <3>9. PICK access : access = <<k, a.name>> /\ access \in UNION {Accesses(tree, N, q) : q \in S}
            BY <3>8
        <3>10. <<c, a.name>> \in WithDescendants(inherits, access[1]) \X {access[2]}
            BY <3>7, <3>9
        <3> QED
            BY <3>9, <3>10 DEF TypedUses
    <2> QED
        BY <2>1, <2>2
<1> HIDE DEF Open
<1>10. CASE u \in classes \X anywhere
    <2>1. u[2] \in anywhere
        BY <1>10
    <2> HIDE DEF anywhere
    <2> QED
        BY <1>5, <1>7, <1>8, <2>1
<1>11. CASE \E p \in S : u \in OfFile(p)
    <2>1. PICK p \in S : \E a \in ToSet(Statements(tree, p, "attr")) : u \in Having(p, a.of) \X {a.name}
        BY <1>11
    <2>2. PICK a \in ToSet(Statements(tree, p, "attr")) : u \in Having(p, a.of) \X {a.name}
        BY <2>1
    <2> HIDE DEF Having
    <2>3. PICK c : c \in Having(p, a.of) /\ u = <<c, a.name>>
        BY <2>2
    <2> QED
        BY <1>5, <1>7, <1>9, <2>3
<1> HIDE DEF classes, anywhere, OfFile
<1> QED
    BY <1>1, <1>10, <1>11

(* What a finding of an import or a member says holds.                     *)
ImportRight(tree, f) ==
    f.symbols \cap (Names(tree, f.file, "use") \cup Names(tree, f.file, "all")
                    \cup {a.of : a \in ToSet(Statements(tree, f.file, "attr"))}) = {}
MemberRight(f, used) == {f.at.class} \X f.symbols \cap used = {}

(* No finding of the opt-in passes is of an import or a member in use.     *)
LEMMA ExtraRight ==
    ASSUME NEW tree, IsTree(tree), Whole(tree), ClassesClear(tree), NEW f \in ExtraFindings(tree)
    PROVE  \/ f.reached = "import" /\ ImportRight(tree, f)
           \/ f.reached = "method" /\ MemberRight(f, UsedMembers(tree, Existing(tree) \ TestSources))
           \/ f.reached = "property" /\ MemberRight(f, UsedMembers(tree, Existing(tree) \ IgnoredSources))
<1>1. Parsed(tree) = Existing(tree) /\ Existing(tree) \subseteq DOMAIN tree
    BY DEF Whole, Nodes, Parsed, Existing
<1>2. ReportFiles(tree) = Existing(tree) \ IgnoredSources /\ UsageFiles(tree) = Existing(tree) \ TestSources
    BY <1>1 DEF ReportFiles, UsageFiles
<1>3. CASE \E p \in ReportFiles(tree) : f \in DeadImports(tree, p)
    <2>1. PICK p \in ReportFiles(tree) : f \in DeadImports(tree, p)
        BY <1>3
    <2>2. PICK s, b :
            /\ s \in ToSet(Statements(tree, p, "import"))
            /\ b \notin {"*"} \cup Referenced(tree, p) \cup Names(tree, p, "all")
            /\ f = Dead(p, s, b)
        BY <2>1 DEF DeadImports
    <2>3. s.kind = "import"
        BY <1>1, <1>2, <2>2, StatementsAre
    <2>4. f.file = p /\ f.symbols = {b} /\ f.reached = "import"
        BY <2>2, <2>3 DEF Dead
    <2> QED
        BY <2>2, <2>4 DEF ImportRight, Referenced
<1>4. ASSUME NEW S \in SUBSET Existing(tree), NEW kind, NEW m \in AllOf(tree, ReportFiles(tree), kind),
             f = DeadMember(m), <<m.is.class, m.is.name>> \notin Usage(tree, S).typed,
             m.is.name \notin Usage(tree, S).unresolved
      PROVE  f.reached = kind /\ MemberRight(f, UsedMembers(tree, S))
    <2>1. m.is.kind = kind
        <3>1. PICK p \in ReportFiles(tree) : m.is \in ToSet(Statements(tree, p, kind))
            BY DEF AllOf
        <3> QED
            BY <1>1, <1>2, <3>1, StatementsAre
    <2>2. f.reached = kind /\ f.at = m.is /\ f.symbols = {m.is.name}
        BY <1>4, <2>1 DEF DeadMember, Dead
    <2>3. <<m.is.class, m.is.name>> \notin UsedMembers(tree, S)
        <3>1. PICK u : u = <<m.is.class, m.is.name>>
            OBVIOUS
        <3>2. u \notin Usage(tree, S).typed /\ u[2] \notin Usage(tree, S).unresolved
            BY <1>4, <3>1
        <3> QED
            BY <3>1, <3>2, MembersCount
    <2> QED
        BY <2>2, <2>3 DEF MemberRight
<1>5. CASE f \in DeadMethods(tree)
    <2>1. PICK S, v : S = UsageFiles(tree) /\ v = Usage(tree, S)
        OBVIOUS
    <2>2. PICK m \in AllOf(tree, ReportFiles(tree), "method") :
            f = DeadMember(m) /\ MethodIsDead(tree, v, m.file, m.is)
        BY <1>5, <2>1 DEF DeadMethods
    <2>3. <<m.is.class, m.is.name>> \notin v.typed /\ m.is.name \notin v.unresolved
        BY <2>2 DEF MethodIsDead
    <2>4. S \in SUBSET Existing(tree)
        BY <1>2, <2>1
    <2>5. f.reached = "method" /\ MemberRight(f, UsedMembers(tree, S))
        BY <1>4, <2>1, <2>2, <2>3, <2>4
    <2> QED
        BY <1>2, <2>1, <2>5
<1>6. CASE f \in DeadProperties(tree)
    <2>1. PICK S, v : S = ReportFiles(tree) /\ v = Usage(tree, S)
        OBVIOUS
    <2>2. PICK m \in AllOf(tree, ReportFiles(tree), "property") :
            f = DeadMember(m) /\ PropertyIsDead(tree, v, m.file, m.is)
        BY <1>6, <2>1 DEF DeadProperties
    <2>3. <<m.is.class, m.is.name>> \notin v.typed /\ m.is.name \notin v.unresolved
        BY <2>2 DEF PropertyIsDead
    <2>4. S \in SUBSET Existing(tree)
        BY <1>2, <2>1
    <2>5. f.reached = "property" /\ MemberRight(f, UsedMembers(tree, S))
        BY <1>4, <2>1, <2>2, <2>3, <2>4
    <2> QED
        BY <1>2, <2>1, <2>5
<1> QED
    BY <1>3, <1>5, <1>6 DEF ExtraFindings

(* The trees of which nothing used is found dead: no name is taken for     *)
(* another and no import is known to fail, re-exports and tests are what   *)
(* they are taken for, and a name of a file stands for one thing.          *)
Regular(tree) ==
    /\ ClearNames(tree)
    /\ ~Dangling(tree)
    /\ PlainImports(tree)
    /\ TestsApart(tree)
    /\ DefaultsAgree(tree)
    /\ ClassesClear(tree)

(* NothingUsedIsDead, for every tree and every change, where the tree is   *)
(* regular: what is reported unused or unreachable is so, by what the      *)
(* files take of each other, through re-exports and by the types of        *)
(* receivers.                                                              *)
THEOREM NothingUsedDead ==
    Spec => [](Regular(work) => NothingUsedIsDead)
<1>1. TreesInv => (Regular(work) => NothingUsedIsDead)
    <2> SUFFICES ASSUME TreesInv, ClearNames(work), ~Dangling(work), PlainImports(work), TestsApart(work),
                        DefaultsAgree(work), ClassesClear(work)
                 PROVE  NothingUsedIsDead
        BY DEF Regular
    <2> DEFINE InUse == [method |-> UsedMembers(work, Existing(work) \ TestSources),
                         property |-> UsedMembers(work, Existing(work) \ IgnoredSources)]
               Right(f) ==
                    CASE f.reached = "import" -> ImportRight(work, f)
                      [] f.reached \in DOMAIN InUse -> MemberRight(f, InUse[f.reached])
                      [] OTHER -> SymbolRight(work, f, UsedNames(work))
    <2>1. IsTree(work)
        BY DEF TreesInv
    <2>2. CASE ~Whole(work)
        BY <2>2 DEF NothingUsedIsDead
    <2>3. CASE Whole(work)
        <3>1. ASSUME NEW f \in Detect(Build(work, FALSE)) PROVE Right(f)
            <4>1. PICK h : h = Build(work, FALSE) /\ h.tree = work
                BY <2>1, <2>3, GraphLinks
            <4>2. DOMAIN InUse = {"method", "property"}
                OBVIOUS
            <4>3. CASE f \in DeadCodeFindings(h)
                <5>1. f.reached \in {"orphan", "tests", "root"} /\ SymbolRight(work, f, UsedNames(work))
                    BY <2>1, <2>3, <4>1, <4>3, SymbolsRight
                <5> HIDE DEF InUse
                <5> QED
                    BY <4>2, <5>1
            <4>4. CASE f \in ExtraFindings(work)
                <5>1. \/ f.reached = "import" /\ ImportRight(work, f)
                      \/ f.reached = "method" /\ MemberRight(f, InUse["method"])
                      \/ f.reached = "property" /\ MemberRight(f, InUse["property"])
                    BY <2>1, <2>3, <4>4, ExtraRight
                <5> HIDE DEF InUse
                <5> QED
                    BY <4>2, <5>1
            <4> QED
                BY <3>1, <4>1, <4>3, <4>4 DEF Detect
        <3>2. \A f \in Detect(Build(work, FALSE)) : Right(f)
            BY <3>1
        <3> QED
            BY <3>2, Zenon DEF NothingUsedIsDead, ImportRight, MemberRight, SymbolRight
    <2> QED
        BY <2>2, <2>3
<1> QED
    BY <1>1, TreesAreKept, PTL
=============================================================================
