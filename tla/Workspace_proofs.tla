--------------------------- MODULE Workspace_proofs ------------------------
(***************************************************************************)
(* What is proved of the state kept in and about a workspace: the sessions *)
(* that reuse parse facts (ScanSession), the files init writes and the     *)
(* configuration they make (Setup, Configuration), the search index        *)
(* (SearchIndex), and what a report shows of what makes a run fail         *)
(* (Review).                                                               *)
(***************************************************************************)
EXTENDS Workspace, RecursionTheorems, FunctionTheorems

(* A sequence less one element.                                            *)
LEMMA OneRemoved ==
    ASSUME NEW E, NEW s \in Seq(E), NEW i \in 1 .. Len(s)
    PROVE  /\ RemoveAt(s, i) \in Seq(E) /\ Len(RemoveAt(s, i)) = Len(s) - 1
           /\ ToSet(RemoveAt(s, i)) \subseteq ToSet(s)
<1> DEFINE a == SubSeq(s, 1, i - 1)
           b == SubSeq(s, i + 1, Len(s))
<1>1. /\ a \in Seq(E) /\ Len(a) = i - 1
      /\ \A j \in 1 .. i - 1 : a[j] = s[j]
    <2>1. \A j \in 1 .. i - 1 : s[j] \in E
        OBVIOUS
    <2> QED
        BY <2>1, SubSeqProperties
<1>2. /\ b \in Seq(E) /\ Len(b) = Len(s) - i
      /\ \A j \in 1 .. Len(s) - i : b[j] = s[i + j]
    <2>1. \A j \in i + 1 .. Len(s) : s[j] \in E
        OBVIOUS
    <2> QED
        BY <2>1, SubSeqProperties
<1> HIDE DEF a, b
<1>3. a \o b \in Seq(E) /\ Len(a \o b) = Len(s) - 1
    BY <1>1, <1>2
<1>4. \A j \in 1 .. Len(s) - 1 : (a \o b)[j] = IF j < i THEN s[j] ELSE s[j + 1]
    BY <1>1, <1>2
<1>5. RemoveAt(s, i) = a \o b
    BY DEF RemoveAt, a, b
<1>6. ASSUME NEW x \in ToSet(a \o b) PROVE x \in ToSet(s)
    <2>1. PICK j \in 1 .. Len(s) - 1 : x = (a \o b)[j]
        BY <1>3 DEF ToSet
    <2>2. x = s[j] \/ x = s[j + 1]
        BY <1>4, <2>1
    <2> QED
        BY <2>2 DEF ToSet
<1> QED
    BY <1>3, <1>5, <1>6

(* An entry that is written replaces the one of its key.                   *)
LEMMA EntryStored ==
    ASSUME NEW E, NEW entries \in Seq(E), NEW entry \in E
    PROVE  /\ Stored(entries, entry) \in Seq(E)
           /\ ToSet(Stored(entries, entry)) \subseteq ToSet(entries) \cup {entry}
<1> DEFINE rest == RemoveFirstMatch(entries, LAMBDA e : e.key = entry.key)
           I == {i \in 1 .. Len(entries) : entries[i].key = entry.key}
<1>1. rest \in Seq(E) /\ ToSet(rest) \subseteq ToSet(entries)
    <2>1. CASE I = {}
        BY <2>1 DEF RemoveFirstMatch
    <2>2. CASE I # {}
        <3>1. Min(I) \in 1 .. Len(entries)
            <4>1. PICK i \in I : \A j \in I : i <= j
                <5>1. I \in SUBSET Nat
                    OBVIOUS
                <5> HIDE DEF I
                <5> QED
                    BY <2>2, <5>1, LeastNumber
            <4> QED
                BY <4>1 DEF Min
        <3>2. rest = RemoveAt(entries, Min(I))
            BY <2>2 DEF RemoveFirstMatch, SelectInSeq
        <3> QED
            BY <3>1, <3>2, OneRemoved
    <2> QED
        BY <2>1, <2>2
<1> HIDE DEF rest
<1>2. Append(rest, entry) \in Seq(E) /\ ToSet(Append(rest, entry)) \subseteq ToSet(rest) \cup {entry}
    BY <1>1, AppendProperties DEF ToSet
<1> QED
    BY <1>1, <1>2 DEF Stored, rest

(* Writing one entry after the other.                                      *)
LEMMA EntriesStored ==
    ASSUME NEW E, NEW entries \in Seq(E), NEW new \in Seq(E)
    PROVE  /\ FoldLeft(Stored, entries, new) \in Seq(E)
           /\ ToSet(FoldLeft(Stored, entries, new)) \subseteq ToSet(entries) \cup ToSet(new)
<1> DEFINE n == Len(new)
           step == [k \in 1 .. n |-> [a \in Seq(E) |-> Stored(a, new[k])]]
           Iterates(it) == it = [S \in SUBSET DOMAIN new |->
                                    IF S = {} THEN entries
                                    ELSE Stored(it[S \ {Max(S)}], new[Max(S)])]
           it == CHOOSE it : Iterates(it)
           T == {k \in Nat : k <= n => /\ it[1 .. k] \in Seq(E)
                                       /\ ToSet(it[1 .. k]) \subseteq ToSet(entries) \cup ToSet(new)}
<1>1. n \in Nat /\ DOMAIN new = 1 .. n /\ \A k \in 1 .. n : new[k] \in E /\ new[k] \in ToSet(new)
    BY DEF ToSet
<1>2. step \in Advances(n, Seq(E))
    BY <1>1, EntryStored DEF Advances
<1>3. \E f : Iterates(f)
    <2>1. PICK f \in [SUBSET (1 .. n) -> Seq(E)] : Folds(f, entries, n, step)
        <3> HIDE DEF step, n
        <3> QED
            BY <1>1, <1>2, Folding
    <2>2. ASSUME NEW S \in SUBSET (1 .. n), S # {}
          PROVE  f[S] = Stored(f[S \ {Max(S)}], new[Max(S)])
        <3>1. Max(S) \in 1 .. n
            BY <1>1, <2>2, Greatest
        <3>2. f[S \ {Max(S)}] \in Seq(E)
            OBVIOUS
        <3>3. f[S] = step[Max(S)][f[S \ {Max(S)}]]
            BY <2>1, <2>2 DEF Folds
        <3> QED
            BY <3>1, <3>2, <3>3
    <2>3. f[{}] = entries
        BY <2>1 DEF Folds
    <2>4. Iterates(f)
        <3> HIDE DEF n, step
        <3> QED
            BY <1>1, <2>2, <2>3
    <2> QED
        BY <2>4
<1>4. Iterates(it)
    BY <1>3
<1>5. FoldLeft(Stored, entries, new) = it[DOMAIN new]
    BY DEF FoldLeft, MapThenFoldSet
<1> HIDE DEF step, n, it
<1>6. 0 \in T
    <2>1. 1 .. 0 = {}
        OBVIOUS
    <2>2. it[{}] = entries
        BY <1>4
    <2> QED
        BY <2>1, <2>2
<1>7. ASSUME NEW k \in Nat, k \in T, k + 1 <= n
      PROVE  /\ it[1 .. k + 1] \in Seq(E)
             /\ ToSet(it[1 .. k + 1]) \subseteq ToSet(entries) \cup ToSet(new)
    <2>1. Max(1 .. k + 1) = k + 1 /\ (1 .. k + 1) \ {k + 1} = 1 .. k /\ 1 .. k + 1 # {}
        BY Initial
    <2>2. 1 .. k + 1 \in SUBSET DOMAIN new
        BY <1>1, <1>7
    <2>3. it[1 .. k + 1] = Stored(it[1 .. k], new[k + 1])
        BY <1>4, <2>1, <2>2
    <2>4. it[1 .. k] \in Seq(E) /\ ToSet(it[1 .. k]) \subseteq ToSet(entries) \cup ToSet(new)
        BY <1>1, <1>7
    <2>5. new[k + 1] \in E /\ new[k + 1] \in ToSet(new)
        BY <1>1, <1>7
    <2>6. PICK a, e : a = it[1 .. k] /\ e = new[k + 1]
        OBVIOUS
    <2>7. a \in Seq(E) /\ e \in E
        BY <2>4, <2>5, <2>6
    <2>8. Stored(a, e) \in Seq(E) /\ ToSet(Stored(a, e)) \subseteq ToSet(a) \cup {e}
        BY ONLY <2>7, EntryStored
    <2> QED
        BY <2>3, <2>4, <2>5, <2>6, <2>8
<1>8. \A k \in Nat : k \in T => k + 1 \in T
    BY <1>1, <1>7
<1>9. n \in T
    <2> HIDE DEF T
    <2> QED
        BY <1>1, <1>6, <1>8, Induction
<1> QED
    BY <1>1, <1>5, <1>9

(* The sequence of a finite set holds elements of the set only.            *)
LEMMA Sequenced ==
    ASSUME NEW S, IsFiniteSet(S)
    PROVE  SetToSeq(S) \in Seq(S) /\ ToSet(SetToSeq(S)) \subseteq S
<1> DEFINE n == Cardinality(S)
<1>1. n \in Nat /\ ExistsBijection(1 .. n, S)
    BY FS_CardinalityType
<1>2. \E f \in [1 .. n -> S] : IsInjective(f)
    BY <1>1 DEF ExistsBijection, Bijection, Injection
<1>3. SetToSeq(S) \in [1 .. n -> S]
    BY <1>2 DEF SetToSeq
<1> HIDE DEF n
<1> QED
    BY <1>1, <1>3 DEF ToSet

-----------------------------------------------------------------------------
(* Evict, as a function of the entries it has looked at.                   *)
Evicting(entries, current, a, e) ==
    IF e.key \notin current /\ Len(entries) - Budget > a.gone
    THEN [a EXCEPT !.gone = @ + 1] ELSE [a EXCEPT !.left = Append(@, e)]

(* Of the first k entries, `left` keeps what the scan uses and no more     *)
(* than the budget, and `gone` counts the others.                          *)
Evicted(E, entries, current, k, a) ==
    /\ a \in [left : Seq(E), gone : Nat]
    /\ Len(a.left) + a.gone = k
    /\ \A i \in 1 .. k : entries[i].key \in current => entries[i] \in ToSet(a.left)
    /\ ToSet(a.left) \subseteq ToSet(entries)
    /\ a.gone < Len(entries) - Budget => \A e \in ToSet(a.left) : e.key \in current

(* The sequence with one element more.                                     *)
LEMMA OneAppended ==
    ASSUME NEW E, NEW s \in Seq(E), NEW e \in E
    PROVE  /\ Append(s, e) \in Seq(E)
           /\ Len(Append(s, e)) = Len(s) + 1
           /\ ToSet(Append(s, e)) = ToSet(s) \cup {e}
<1>1. /\ Append(s, e) \in Seq(E) /\ Len(Append(s, e)) = Len(s) + 1 /\ Len(s) \in Nat
      /\ \A i \in 1 .. Len(s) : Append(s, e)[i] = s[i]
      /\ Append(s, e)[Len(s) + 1] = e
    BY AppendProperties
<1>2. ASSUME NEW x \in ToSet(Append(s, e)) PROVE x \in ToSet(s) \cup {e}
    BY <1>1 DEF ToSet
<1>3. ASSUME NEW x \in ToSet(s) PROVE x \in ToSet(Append(s, e))
    <2>1. PICK i \in 1 .. Len(s) : x = s[i]
        BY DEF ToSet
    <2>2. i \in DOMAIN Append(s, e) /\ Append(s, e)[i] = x
        BY <1>1, <2>1
    <2> QED
        BY <2>2 DEF ToSet
<1>4. e \in ToSet(Append(s, e))
    <2>1. Len(s) + 1 \in DOMAIN Append(s, e)
        BY <1>1
    <2> QED
        BY <1>1, <2>1 DEF ToSet
<1> QED
    BY <1>1, <1>2, <1>3, <1>4

(* Looking at one entry more.                                              *)
LEMMA EvictStep ==
    ASSUME NEW E, NEW entries \in Seq(E), NEW current, NEW k \in Nat, k + 1 <= Len(entries),
           NEW a, Evicted(E, entries, current, k, a)
    PROVE  Evicted(E, entries, current, k + 1, Evicting(entries, current, a, entries[k + 1]))
<1>1. PICK e : e = entries[k + 1]
    OBVIOUS
<1>2. e \in E /\ e \in ToSet(entries) /\ Len(entries) \in Nat /\ Budget \in Nat
    BY <1>1, SessionAssumption DEF ToSet, SessionAssumption
<1>3. /\ a \in [left : Seq(E), gone : Nat]
      /\ a.left \in Seq(E) /\ a.gone \in Nat /\ Len(a.left) \in Nat
      /\ Len(a.left) + a.gone = k
      /\ \A i \in 1 .. k : entries[i].key \in current => entries[i] \in ToSet(a.left)
      /\ ToSet(a.left) \subseteq ToSet(entries)
      /\ a.gone < Len(entries) - Budget => \A x \in ToSet(a.left) : x.key \in current
    BY DEF Evicted
<1>4. CASE e.key \notin current /\ Len(entries) - Budget > a.gone
    <2> DEFINE b == [left |-> a.left, gone |-> a.gone + 1]
    <2>1. Evicting(entries, current, a, e) = b
        BY <1>3, <1>4 DEF Evicting
    <2>2. b \in [left : Seq(E), gone : Nat] /\ b.left = a.left /\ b.gone = a.gone + 1
        BY <1>3
    <2> HIDE DEF b
    <2>3. ASSUME NEW i \in 1 .. k + 1, entries[i].key \in current PROVE entries[i] \in ToSet(b.left)
        BY <1>1, <1>3, <1>4, <2>2, <2>3
    <2>4. b.gone < Len(entries) - Budget => \A x \in ToSet(b.left) : x.key \in current
        BY <1>2, <1>3, <2>2
    <2> QED
        BY <1>1, <1>3, <2>1, <2>2, <2>3, <2>4 DEF Evicted
<1>5. CASE ~ (e.key \notin current /\ Len(entries) - Budget > a.gone)
    <2> DEFINE b == [left |-> Append(a.left, e), gone |-> a.gone]
    <2>1. Evicting(entries, current, a, e) = b
        BY <1>3, <1>5 DEF Evicting
    <2>2. /\ Append(a.left, e) \in Seq(E) /\ Len(Append(a.left, e)) = Len(a.left) + 1
          /\ ToSet(Append(a.left, e)) = ToSet(a.left) \cup {e}
        BY <1>2, <1>3, OneAppended
    <2>3. /\ b \in [left : Seq(E), gone : Nat] /\ b.gone = a.gone
          /\ Len(b.left) = Len(a.left) + 1 /\ ToSet(b.left) = ToSet(a.left) \cup {e}
        BY <1>3, <2>2
    <2> HIDE DEF b
    <2>4. ASSUME NEW i \in 1 .. k + 1, entries[i].key \in current PROVE entries[i] \in ToSet(b.left)
        BY <1>1, <1>3, <2>3, <2>4
    <2>5. b.gone < Len(entries) - Budget => \A x \in ToSet(b.left) : x.key \in current
        BY <1>2, <1>3, <1>5, <2>3
    <2>6. ToSet(b.left) \subseteq ToSet(entries) /\ Len(b.left) + b.gone = k + 1
        BY <1>2, <1>3, <2>3
    <2> QED
        BY <1>1, <2>1, <2>3, <2>4, <2>5, <2>6 DEF Evicted
<1> QED
    BY <1>4, <1>5

(* Eviction keeps what the scan uses, and more only within the budget.     *)
LEMMA EvictKeeps ==
    ASSUME NEW E, NEW entries \in Seq(E), NEW current
    PROVE  /\ Evict(entries, current) \in Seq(E)
           /\ ToSet(Evict(entries, current)) \subseteq ToSet(entries)
           /\ \A e \in ToSet(entries) : e.key \in current => e \in ToSet(Evict(entries, current))
           /\ \/ Len(Evict(entries, current)) <= Budget
              \/ \A e \in ToSet(Evict(entries, current)) : e.key \in current
<1> DEFINE n == Len(entries)
           W == [left : Seq(E), gone : Nat]
           first == [left |-> << >>, gone |-> 0]
           Next1(a, k) == Evicting(entries, current, a, entries[k])
           step == [k \in 1 .. n |-> [a \in W |-> Next1(a, k)]]
           Iterates(it) == it = [S \in SUBSET DOMAIN entries |->
                                    IF S = {} THEN first ELSE Next1(it[S \ {Max(S)}], Max(S))]
           it == CHOOSE it : Iterates(it)
           T == {k \in Nat : k <= n => Evicted(E, entries, current, k, it[1 .. k])}
<1>1. n \in Nat /\ DOMAIN entries = 1 .. n /\ \A k \in 1 .. n : entries[k] \in E /\ entries[k] \in ToSet(entries)
    BY DEF ToSet
<1>2. first \in W
    OBVIOUS
<1>3. ASSUME NEW a \in W, NEW k \in 1 .. n PROVE Next1(a, k) \in W
    <2>1. a.left \in Seq(E) /\ a.gone \in Nat /\ Append(a.left, entries[k]) \in Seq(E)
        BY <1>1
    <2>2. [a EXCEPT !.gone = @ + 1] \in W
        BY <2>1
    <2>3. [a EXCEPT !.left = Append(@, entries[k])] \in W
        BY <2>1
    <2> QED
        BY <2>2, <2>3 DEF Evicting
<1> HIDE DEF W, Next1, first
<1>4. step \in Advances(n, W)
    BY <1>3 DEF Advances
<1>5. \E f : Iterates(f)
    <2>1. PICK f \in [SUBSET (1 .. n) -> W] : Folds(f, first, n, step)
        <3> HIDE DEF step, n
        <3> QED
            BY <1>1, <1>2, <1>4, Folding
    <2>2. ASSUME NEW S \in SUBSET (1 .. n), S # {}
          PROVE  f[S] = Next1(f[S \ {Max(S)}], Max(S))
        <3>1. Max(S) \in 1 .. n
            BY <1>1, <2>2, Greatest
        <3>2. f[S \ {Max(S)}] \in W
            OBVIOUS
        <3>3. f[S] = step[Max(S)][f[S \ {Max(S)}]]
            BY <2>1, <2>2 DEF Folds
        <3> QED
            BY <3>1, <3>2, <3>3
    <2>3. f[{}] = first
        BY <2>1 DEF Folds
    <2>4. Iterates(f)
        <3> HIDE DEF n, step
        <3> QED
            BY <1>1, <2>2, <2>3
    <2> QED
        BY <2>4
<1>6. Iterates(it)
    BY <1>5
<1>7. Evict(entries, current) = it[DOMAIN entries].left
    BY DEF Evict, FoldLeft, MapThenFoldSet, Next1, first, Evicting
<1> HIDE DEF step, n, it
<1>8. 0 \in T
    <2>1. 1 .. 0 = {}
        OBVIOUS
    <2>2. it[{}] = first
        BY <1>6
    <2>3. Evicted(E, entries, current, 0, first)
        BY DEF Evicted, first, ToSet
    <2> QED
        BY <2>1, <2>2, <2>3
<1>9. ASSUME NEW k \in Nat, k \in T, k + 1 <= n PROVE Evicted(E, entries, current, k + 1, it[1 .. k + 1])
    <2>1. Max(1 .. k + 1) = k + 1 /\ (1 .. k + 1) \ {k + 1} = 1 .. k /\ 1 .. k + 1 # {}
        BY Initial
    <2>2. 1 .. k + 1 \in SUBSET DOMAIN entries
        BY <1>1, <1>9
    <2>3. it[1 .. k + 1] = Next1(it[1 .. k], k + 1)
        BY <1>6, <2>1, <2>2
    <2>4. Evicted(E, entries, current, k, it[1 .. k])
        BY <1>1, <1>9
    <2> QED
        BY <1>9, <2>3, <2>4, EvictStep DEF Next1, n
<1>10. \A k \in Nat : k \in T => k + 1 \in T
    BY <1>1, <1>9
<1>11. n \in T
    <2> HIDE DEF T
    <2> QED
        BY <1>1, <1>8, <1>10, Induction
<1>12. Evicted(E, entries, current, n, it[DOMAIN entries])
    BY <1>1, <1>11
<1>13. PICK a : a = it[DOMAIN entries]
    OBVIOUS
<1>14. a \in [left : Seq(E), gone : Nat] /\ Budget \in Nat
    BY <1>12, <1>13, SessionAssumption DEF Evicted, SessionAssumption
<1>15. \A e \in ToSet(entries) : e.key \in current => e \in ToSet(a.left)
    BY <1>1, <1>12, <1>13 DEF Evicted, ToSet
<1>16. Len(a.left) <= Budget \/ \A e \in ToSet(a.left) : e.key \in current
    BY <1>12, <1>13, <1>14 DEF Evicted, n
<1> QED
    BY <1>7, <1>12, <1>13, <1>14, <1>15, <1>16 DEF Evicted

-----------------------------------------------------------------------------
(* The inductive invariant: what a state or an entry keeps is what parsing *)
(* the file and the content it is kept for gives, with some file_id, under *)
(* the build it is kept for.                                               *)
FactSet == [build : Nat, file : SourceFiles, content : Contents, id : Nat]
OfBuild(b) == {fact \in FactSet : fact.build = b}
Keys == [build : Nat, config : Configs, file : SourceFiles, content : Contents]
Genuine(e) == /\ e.fact.build = e.key.build
              /\ e.fact.file = e.key.file
              /\ e.fact.content = e.key.content
Entries == {e \in [key : Keys, fact : FactSet, sound : BOOLEAN] : Genuine(e)}
StateSet == [kept : SUBSET OfBuild(1), poisoned : BOOLEAN]
Batches == UNION {[F -> FactSet] : F \in SUBSET SourceFiles}
Scans == [pc : {"idle", "spawn", "store", "evict", "workspace", "parse", "done"},
          root : Roots \cup {NoRoot}, config : Configs, build : Nat, src : Maps(Contents),
          state : Numbers \cup {0}, batch : Batches, reused : SUBSET SourceFiles]

WorldInv ==
    /\ tree \in [Roots -> Maps(Contents)]
    /\ config \in Configs /\ build \in Nat
    /\ disk \in [Roots -> Seq(Entries)]

SessionInv ==
    /\ recent \in Seq([root : Roots, state : Numbers]) /\ Len(recent) <= MaxWorkspaces
    /\ states \in [Numbers -> StateSet]

ScanInv(s) ==
    /\ s \in Scans
    /\ s.pc # "idle" => s.root \in Roots
    /\ s.pc \in {"workspace", "parse"} => s.build = 1
    /\ s.pc = "parse" => s.state \in Numbers
    /\ s.pc \in {"store", "evict", "done"} => s.batch = FullParse(s.build, s.src)

FreshInv ==
    /\ WorldInv /\ SessionInv
    /\ scan \in [Threads -> Scans]
    /\ \A t \in Threads : ScanInv(scan[t])

-----------------------------------------------------------------------------
LEMMA FileIdIsNat ==
    ASSUME NEW src, DOMAIN src \subseteq SourceFiles, NEW f
    PROVE  FileId(src, f) \in Nat
<1> DEFINE before == {g \in DOMAIN src : g < f}
<1>1. IsFiniteSet(SourceFiles) /\ before \in SUBSET SourceFiles
    BY SessionAssumption DEF SessionAssumption
<1>2. IsFiniteSet(before)
    BY <1>1, FS_Subset
<1>3. Cardinality(before) \in Nat
    BY <1>2, FS_CardinalityType
<1> QED
    BY <1>3 DEF FileId

LEMMA MapsAre ==
    ASSUME NEW src \in Maps(Contents)
    PROVE  /\ DOMAIN src \subseteq SourceFiles
           /\ src \in [DOMAIN src -> Contents]
BY DEF Maps

LEMMA FactsAre ==
    ASSUME NEW b \in Nat, NEW src \in Maps(Contents), NEW f \in DOMAIN src
    PROVE  Facts(b, src, f) \in OfBuild(b)
BY MapsAre, FileIdIsNat DEF Facts, OfBuild, FactSet

LEMMA FullParseIs ==
    ASSUME NEW b \in Nat, NEW src \in Maps(Contents)
    PROVE  /\ FullParse(b, src) \in Batches
           /\ DOMAIN FullParse(b, src) \subseteq DOMAIN src
           /\ DOMAIN FullParse(b, src) \subseteq SourceFiles
           /\ \A f \in DOMAIN FullParse(b, src) : FullParse(b, src)[f] = Facts(b, src, f)
<1>1. Parses(src) \subseteq DOMAIN src /\ Parses(src) \in SUBSET SourceFiles
    BY MapsAre DEF Parses
<1>2. FullParse(b, src) \in [Parses(src) -> FactSet]
    BY <1>1, FactsAre DEF FullParse, OfBuild
<1> QED
    BY <1>1, <1>2 DEF FullParse, Batches

(* Restoring what is kept gives what parsing gives, if it was kept by the  *)
(* same build (spine/parser/mod.rs, parse_sources_incremental).            *)
LEMMA RestoredIsParsed ==
    ASSUME NEW b \in Nat, NEW src \in Maps(Contents), NEW kept \in SUBSET OfBuild(b)
    PROVE  Incremental(b, kept, src) = FullParse(b, src)
<1> SUFFICES ASSUME NEW f \in Parses(src), f \in Reusable(kept, src)
             PROVE  Restore(CHOOSE fact \in Hit(kept, src, f) : TRUE, FileId(src, f)) = Facts(b, src, f)
    BY DEF Incremental, FullParse
<1>1. PICK fact : fact = CHOOSE x \in Hit(kept, src, f) : TRUE
    OBVIOUS
<1>2. fact \in kept /\ fact.file = f /\ fact.content = src[f]
    BY <1>1 DEF Reusable, Hit
<1>3. fact \in FactSet /\ fact.build = b
    BY <1>2 DEF OfBuild
<1>4. [fact EXCEPT !.id = FileId(src, f)]
        = [build |-> fact.build, file |-> fact.file, content |-> fact.content, id |-> FileId(src, f)]
    BY <1>3 DEF FactSet
<1> QED
    BY <1>1, <1>2, <1>3, <1>4 DEF Restore, Facts

LEMMA ReusableAre ==
    ASSUME NEW src \in Maps(Contents), NEW kept
    PROVE  Reusable(kept, src) \in SUBSET SourceFiles
BY MapsAre DEF Reusable

(* What a child reads of its entries is of its build.                      *)
LEMMA ReadIsOfBuild ==
    ASSUME WorldInv, NEW r \in Roots, NEW b \in Nat, NEW c, NEW src
    PROVE  {entry.fact : entry \in ReadEntries(r, b, c, src)} \in SUBSET OfBuild(b)
<1> SUFFICES ASSUME NEW entry \in ReadEntries(r, b, c, src) PROVE entry.fact \in OfBuild(b)
    OBVIOUS
<1>1. PICK f \in DOMAIN src : Sound(entry, Key(b, c, src, f))
    BY DEF ReadEntries
<1>2. entry \in Entries
    BY DEF ReadEntries, ToSet, WorldInv
<1> QED
    BY <1>1, <1>2 DEF Sound, Key, Entries, Genuine, OfBuild

(* The session always has a state to give (AnalysisSession::workspace).    *)
LEMMA AStateIsFree ==
    ASSUME FreshInv, NEW order \in Seq([root : Roots, state : Numbers]), Len(order) < MaxWorkspaces
    PROVE  \E n \in Numbers \ InUse(order) : \A j \in Numbers \ InUse(order) : n <= j
<1> DEFINE listed == {order[i].state : i \in DOMAIN order}
           held == {scan[t].state : t \in Threads}
<1>1. IsFiniteSet(listed) /\ Cardinality(listed) <= Len(order)
    <2>1. Len(order) \in Nat /\ DOMAIN order = 1 .. Len(order)
        OBVIOUS
    <2>2. IsFiniteSet(DOMAIN order) /\ Cardinality(DOMAIN order) = Len(order)
        BY <2>1, FS_Interval
    <2>3. [i \in DOMAIN order |-> order[i].state] \in Surjection(DOMAIN order, listed)
        BY DEF Surjection
    <2> QED
        BY <2>2, <2>3, FS_Surjection
<1>2. IsFiniteSet(held) /\ Cardinality(held) <= Cardinality(Threads)
    <2>1. [t \in Threads |-> scan[t].state] \in Surjection(Threads, held)
        BY DEF Surjection
    <2> QED
        BY <2>1, FS_Surjection, SessionAssumption DEF SessionAssumption
<1>3. /\ Cardinality(Threads) \in Nat /\ Len(order) \in Nat /\ MaxWorkspaces \in Nat
      /\ Cardinality(listed) \in Nat /\ Cardinality(held) \in Nat
    BY <1>1, <1>2, FS_CardinalityType, SessionAssumption DEF SessionAssumption
<1>4. IsFiniteSet(Numbers) /\ Cardinality(Numbers) = MaxWorkspaces + Cardinality(Threads)
    <2> DEFINE m == MaxWorkspaces + Cardinality(Threads)
    <2>1. m \in Nat
        BY <1>3
    <2> HIDE DEF m
    <2>2. IsFiniteSet(1 .. m) /\ Cardinality(1 .. m) = m
        BY <2>1, FS_Interval
    <2> QED
        BY <2>2 DEF Numbers, m
<1> HIDE DEF listed, held
<1>5. /\ IsFiniteSet(listed \cup held)
      /\ Cardinality(listed \cup held) <= Cardinality(listed) + Cardinality(held)
    <2>1. IsFiniteSet(listed \cap held)
        BY <1>1, FS_Intersection
    <2>2. Cardinality(listed \cap held) \in Nat
        BY <2>1, FS_CardinalityType
    <2> QED
        <3>1. /\ IsFiniteSet(listed \cup held)
              /\ Cardinality(listed \cup held)
                    = Cardinality(listed) + Cardinality(held) - Cardinality(listed \cap held)
            BY <1>1, <1>2, FS_Union, Zenon
        <3> QED
            BY <1>3, <2>2, <3>1
<1>6. Numbers \ InUse(order) # {}
    <2> SUFFICES ASSUME Numbers \in SUBSET (listed \cup held) PROVE FALSE
        BY DEF InUse, listed, held
    <2>1. Cardinality(Numbers) <= Cardinality(listed \cup held)
        BY <1>5, FS_Subset
    <2>2. Cardinality(listed \cup held) \in Nat
        BY <1>5, FS_CardinalityType
    <2> QED
        BY <1>1, <1>2, <1>3, <1>4, <1>5, <2>1, <2>2
<1>7. Numbers \ InUse(order) \in SUBSET Nat
    BY <1>3 DEF Numbers
<1> HIDE DEF Numbers
<1> QED
    BY <1>6, <1>7, LeastNumber

-----------------------------------------------------------------------------
(* How the invariant is kept: by each thread's own step ...                *)
LEMMA ScansStay ==
    ASSUME FreshInv, NEW t \in Threads, NEW s, ScanInv(s), Become(t, s), WorldInv', SessionInv'
    PROVE  FreshInv'
<1>1. s \in Scans
    BY DEF ScanInv
<1>2. scan' \in [Threads -> Scans] /\ \A u \in Threads : scan'[u] = IF u = t THEN s ELSE scan[u]
    BY <1>1 DEF FreshInv, Become
<1>3. \A u \in Threads : ScanInv(scan'[u])
    BY <1>2 DEF FreshInv
<1> QED
    BY <1>2, <1>3 DEF FreshInv

LEMMA IdleScan ==
    ASSUME FreshInv
    PROVE  /\ ScanInv(Idle)
           /\ Idle.pc = "idle" /\ Idle.build = 1 /\ Idle.state = 0 /\ Idle.reused = {}
           /\ Idle = [pc |-> "idle", root |-> NoRoot, config |-> Idle.config,
                      build |-> 1, src |-> Nothing, state |-> 0, batch |-> Nothing, reused |-> {}]
<1>1. Nothing \in Maps(Contents) /\ Nothing \in Batches
    BY DEF Nothing, Maps, Batches
<1>2. (CHOOSE c \in Configs : TRUE) \in Configs
    BY DEF FreshInv, WorldInv
<1> QED
    BY <1>1, <1>2 DEF Idle, ScanInv, Scans

(* A scan that ends with a full parse by the server.                       *)
LEMMA ParsedAfresh ==
    ASSUME FreshInv, NEW s \in Scans, s.root \in Roots, NEW src \in Maps(Contents)
    PROVE  ScanInv([s EXCEPT !.pc = "done", !.build = 1, !.src = src, !.batch = FullParse(1, src), !.reused = {}])
<1>1. FullParse(1, src) \in Batches
    BY FullParseIs
<1> QED
    BY <1>1 DEF ScanInv, Scans

LEMMA InitFresh == Init => FreshInv
<1> SUFFICES ASSUME Init PROVE FreshInv
    OBVIOUS
<1>1. WorldInv
    BY DEF Init, WorldInv
<1>2. SessionInv
    BY SessionAssumption DEF Init, SessionInv, SessionAssumption, StateSet, EmptyState
<1>3. Nothing \in Maps(Contents) /\ Nothing \in Batches
    BY DEF Nothing, Maps, Batches
<1>4. (CHOOSE c \in Configs : TRUE) \in Configs
    BY <1>1 DEF WorldInv
<1>5. ScanInv(Idle)
    BY <1>3, <1>4 DEF Idle, ScanInv, Scans
<1>6. Idle \in Scans
    BY <1>5 DEF ScanInv
<1> QED
    BY <1>1, <1>2, <1>5, <1>6 DEF Init, FreshInv

LEMMA StartScanFresh ==
    ASSUME FreshInv, NEW t \in Threads, NEW r \in Roots, StartScan(t, r)
    PROVE  FreshInv'
<1> DEFINE s == IF config \in Cached
                THEN [Idle EXCEPT !.pc = "workspace", !.root = r, !.config = config, !.src = tree[r]]
                ELSE [Idle EXCEPT !.pc = "spawn", !.root = r, !.config = config]
<1>1. config \in Configs /\ tree[r] \in Maps(Contents)
    BY DEF FreshInv, WorldInv
<1>2. ScanInv(s)
    <2>1. Idle \in Scans /\ Idle.build = 1 /\ Idle.pc = "idle"
        BY IdleScan DEF ScanInv
    <2> HIDE DEF Idle
    <2> QED
        BY <1>1, <2>1 DEF ScanInv, Scans
<1>3. Become(t, s) /\ UNCHANGED <<tree, config, build, recent, states, disk, edits, faults>>
    BY DEF StartScan
<1>4. WorldInv' /\ SessionInv'
    BY <1>3 DEF FreshInv, WorldInv, SessionInv
<1> HIDE DEF s
<1> QED
    BY <1>2, <1>3, <1>4, ScansStay

LEMMA WorkspaceFresh ==
    ASSUME FreshInv, NEW t \in Threads, Workspace(t)
    PROVE  FreshInv'
<1> DEFINE R == [root : Roots, state : Numbers]
           known == Position(scan[t].root)
<1>1. /\ recent \in Seq(R) /\ Len(recent) <= MaxWorkspaces /\ Len(recent) \in Nat
      /\ MaxWorkspaces \in Nat \ {0}
    BY SessionAssumption DEF FreshInv, SessionInv, SessionAssumption
<1>2. scan[t] \in Scans /\ scan[t].root \in Roots /\ scan[t].build = 1 /\ scan[t].pc = "workspace"
    BY DEF FreshInv, ScanInv, Workspace, At
<1>3. PICK order \in {IF known = {} THEN MakeRoom
                      ELSE RemoveAt(recent, CHOOSE i \in known : TRUE)} :
         LET free == Numbers \ InUse(order)
             n == IF known = {} THEN CHOOSE k \in free : \A j \in free : k <= j
                  ELSE recent[CHOOSE i \in known : TRUE].state IN
         /\ recent' = Append(order, [root |-> scan[t].root, state |-> n])
         /\ states' = [k \in Numbers |-> IF k \in InUse(order) \cup {n} THEN states[k] ELSE EmptyState]
         /\ Become(t, [scan[t] EXCEPT !.pc = "parse", !.state = n])
    BY DEF Workspace
<1>4. order \in Seq(R) /\ Len(order) < MaxWorkspaces
    <2>1. CASE known = {}
        <3>1. order = IF Len(recent) < MaxWorkspaces THEN recent ELSE Tail(recent)
            BY <1>3, <2>1 DEF MakeRoom
        <3> QED
            BY <1>1, <3>1
    <2>2. CASE known # {}
        <3>1. (CHOOSE i \in known : TRUE) \in 1 .. Len(recent)
            BY <1>1, <2>2 DEF Position
        <3>2. PICK i : i = CHOOSE j \in known : TRUE
            OBVIOUS
        <3>3. order = RemoveAt(recent, i) /\ i \in 1 .. Len(recent)
            BY <1>3, <2>2, <3>1, <3>2
        <3>4. order \in Seq(R) /\ Len(order) = Len(recent) - 1
            BY <1>1, <3>3, OneRemoved
        <3> QED
            BY <1>1, <3>4
    <2> QED
        BY <2>1, <2>2
<1> DEFINE given == IF known = {}
                    THEN CHOOSE k \in Numbers \ InUse(order) : \A j \in Numbers \ InUse(order) : k <= j
                    ELSE recent[CHOOSE i \in known : TRUE].state
<1>5. PICK n : n = given
    <2> HIDE DEF given
    <2> QED
        OBVIOUS
<1>6. n \in Numbers
    <2>1. CASE known = {}
        <3>1. \E k \in Numbers \ InUse(order) : \A j \in Numbers \ InUse(order) : k <= j
            BY <1>4, AStateIsFree
        <3> QED
            BY <1>5, <2>1, <3>1
    <2>2. CASE known # {}
        <3>1. (CHOOSE i \in known : TRUE) \in 1 .. Len(recent)
            BY <1>1, <2>2 DEF Position
        <3>2. \A i \in 1 .. Len(recent) : recent[i] \in R
            <4> HIDE DEF R
            <4> QED
                BY <1>1
        <3> QED
            BY <1>5, <2>2, <3>1, <3>2
    <2> QED
        BY <2>1, <2>2
<1>7. /\ recent' = Append(order, [root |-> scan[t].root, state |-> n])
      /\ states' = [k \in Numbers |-> IF k \in InUse(order) \cup {n} THEN states[k] ELSE EmptyState]
      /\ Become(t, [scan[t] EXCEPT !.pc = "parse", !.state = n])
    BY <1>3, <1>5
<1> HIDE DEF known
<1>8. SessionInv'
    <2>1. recent' \in Seq(R) /\ Len(recent') <= MaxWorkspaces
        BY <1>1, <1>2, <1>4, <1>6, <1>7
    <2>2. EmptyState \in StateSet
        BY DEF EmptyState, StateSet
    <2>3. states' \in [Numbers -> StateSet]
        <3> HIDE DEF EmptyState
        <3> QED
            BY <1>7, <2>2 DEF FreshInv, SessionInv
    <2> QED
        BY <2>1, <2>3 DEF SessionInv
<1>9. ScanInv([scan[t] EXCEPT !.pc = "parse", !.state = n])
    <2>1. PICK s : s = scan[t]
        OBVIOUS
    <2>2. ScanInv([s EXCEPT !.pc = "parse", !.state = n])
        BY <1>2, <1>6, <2>1 DEF ScanInv, Scans
    <2> QED
        BY <2>1, <2>2
<1>10. WorldInv'
    BY DEF FreshInv, WorldInv, Workspace
<1> QED
    BY <1>7, <1>8, <1>9, <1>10, ScansStay

LEMMA ParseFresh ==
    ASSUME FreshInv, NEW t \in Threads, Parse(t)
    PROVE  FreshInv'
<1>1. PICK s : s = scan[t]
    OBVIOUS
<1>2. /\ s \in Scans /\ s.root \in Roots /\ s.build = 1 /\ s.pc = "parse"
      /\ s.state \in Numbers /\ s.src \in Maps(Contents)
    BY <1>1 DEF FreshInv, ScanInv, Parse, At, Scans
<1>3. PICK kept : kept = states[s.state].kept
    OBVIOUS
<1>4. kept \in SUBSET OfBuild(1) /\ states[s.state] \in StateSet
    BY <1>2, <1>3 DEF FreshInv, SessionInv, StateSet
<1>5. PICK batch : batch = FullParse(1, s.src)
    OBVIOUS
<1>6. batch \in Batches /\ \A f \in DOMAIN batch : batch[f] \in OfBuild(1)
    BY <1>2, <1>5, FullParseIs, FactsAre
<1>7. Incremental(1, kept, s.src) = batch
    BY <1>2, <1>4, <1>5, RestoredIsParsed
<1>8. ASSUME NEW reused \in SUBSET SourceFiles
      PROVE  ScanInv([s EXCEPT !.pc = "done", !.state = 0, !.batch = batch, !.reused = reused])
    BY <1>2, <1>5, <1>6 DEF ScanInv, Scans
<1>9. PICK reused \in SUBSET SourceFiles :
          Become(t, [s EXCEPT !.pc = "done", !.state = 0, !.batch = batch, !.reused = reused])
    <2>1. Reusable(kept, s.src) \in SUBSET SourceFiles /\ {} \in SUBSET SourceFiles
        BY <1>2, ReusableAre
    <2> QED
        BY <1>1, <1>3, <1>5, <1>7, <2>1 DEF Parse, Finish
<1>10. \/ UNCHANGED states
       \/ states' = [states EXCEPT ![s.state] = Replace(states[s.state], batch)]
    BY <1>1, <1>3, <1>7 DEF Parse
<1>11. Replace(states[s.state], batch) \in StateSet
    <2>1. {batch[f] : f \in DOMAIN batch} \in SUBSET OfBuild(1)
        BY <1>6
    <2> QED
        BY <1>4, <2>1 DEF Replace, StateSet
<1>12. SessionInv' /\ WorldInv'
    <2>1. UNCHANGED <<tree, config, build, recent, disk>>
        BY DEF Parse
    <2> QED
        BY <1>2, <1>10, <1>11, <2>1 DEF FreshInv, SessionInv, WorldInv
<1> QED
    BY <1>8, <1>9, <1>12, ScansStay

LEMMA PanicFresh ==
    ASSUME FreshInv, NEW t \in Threads, Panic(t)
    PROVE  FreshInv'
<1>1. PICK n : n = scan[t].state
    OBVIOUS
<1>2. n \in Numbers
    BY <1>1 DEF FreshInv, ScanInv, Panic, At
<1>3. states[n] \in StateSet
    BY <1>2 DEF FreshInv, SessionInv
<1>4. [states[n] EXCEPT !.poisoned = TRUE] \in StateSet
    BY <1>3 DEF StateSet
<1>5. /\ states' = [states EXCEPT ![n] = [@ EXCEPT !.poisoned = TRUE]]
      /\ Become(t, Idle) /\ UNCHANGED <<tree, config, build, recent, disk>>
    BY <1>1 DEF Panic
<1>6. SessionInv' /\ WorldInv'
    BY <1>4, <1>5 DEF FreshInv, SessionInv, WorldInv
<1> QED
    BY <1>5, <1>6, IdleScan, ScansStay

LEMMA SpawnFresh ==
    ASSUME FreshInv, NEW t \in Threads, Spawn(t)
    PROVE  FreshInv'
<1>1. PICK s : s = scan[t]
    OBVIOUS
<1>2. s \in Scans /\ s.root \in Roots
    BY <1>1 DEF FreshInv, ScanInv, Spawn, At
<1>3. PICK src : src = tree[s.root]
    OBVIOUS
<1>4. src \in Maps(Contents) /\ build \in Nat /\ config \in Configs
    BY <1>2, <1>3 DEF FreshInv, WorldInv
<1>5. PICK kept : kept = {entry.fact : entry \in ReadEntries(s.root, build, config, src)}
    OBVIOUS
<1>6. kept \in SUBSET OfBuild(build)
    BY <1>2, <1>4, <1>5, ReadIsOfBuild DEF FreshInv
<1>7. PICK batch : batch = FullParse(build, src)
    OBVIOUS
<1>8. batch \in Batches /\ Incremental(build, kept, src) = batch
    BY <1>4, <1>6, <1>7, FullParseIs, RestoredIsParsed
<1>9. PICK reused : reused = Reusable(kept, src)
    OBVIOUS
<1>10. reused \in SUBSET SourceFiles
    BY <1>4, <1>9, ReusableAre
<1>11. ScanInv([s EXCEPT !.pc = "store", !.config = config, !.build = build, !.src = src,
                        !.reused = reused, !.batch = batch])
    BY <1>2, <1>4, <1>7, <1>8, <1>10 DEF ScanInv, Scans
<1>12. ScanInv([s EXCEPT !.pc = "done", !.build = 1, !.src = src, !.batch = FullParse(1, src), !.reused = {}])
    BY <1>2, <1>4, ParsedAfresh
<1>13. \/ Become(t, [s EXCEPT !.pc = "store", !.config = config, !.build = build, !.src = src,
                             !.reused = reused, !.batch = batch])
       \/ Become(t, [s EXCEPT !.pc = "done", !.build = 1, !.src = src, !.batch = FullParse(1, src), !.reused = {}])
    BY <1>1, <1>3, <1>5, <1>8, <1>9 DEF Spawn, ScanUncached
<1>14. SessionInv' /\ WorldInv'
    BY DEF Spawn, FreshInv, SessionInv, WorldInv
<1> QED
    BY <1>11, <1>12, <1>13, <1>14, ScansStay

(* The entries that a child writes hold what it has parsed.                *)
LEMMA WrittenAreGenuine ==
    ASSUME FreshInv, NEW s, ScanInv(s), s.pc = "store", NEW written \in SUBSET (DOMAIN s.batch \ s.reused)
    PROVE  /\ IsFiniteSet({EntryOf(s, f) : f \in written})
           /\ {EntryOf(s, f) : f \in written} \subseteq Entries
<1>1. s \in Scans /\ s.batch = FullParse(s.build, s.src)
    BY DEF ScanInv
<1>2. s.build \in Nat /\ s.config \in Configs /\ s.src \in Maps(Contents)
    BY <1>1 DEF Scans
<1>3. written \in SUBSET SourceFiles /\ written \subseteq DOMAIN s.src
    BY <1>1, <1>2, FullParseIs
<1>4. IsFiniteSet(written)
    BY <1>3, FS_Subset, SessionAssumption DEF SessionAssumption
<1>5. [f \in written |-> EntryOf(s, f)] \in Surjection(written, {EntryOf(s, f) : f \in written})
    BY DEF Surjection
<1>6. IsFiniteSet({EntryOf(s, f) : f \in written})
    BY <1>4, <1>5, FS_Surjection
<1>7. ASSUME NEW f \in written PROVE EntryOf(s, f) \in Entries
    <2>1. s.batch[f] = Facts(s.build, s.src, f)
        BY <1>1, <1>2, FullParseIs
    <2>2. Facts(s.build, s.src, f) \in OfBuild(s.build)
        BY <1>2, <1>3, FactsAre
    <2>3. s.src[f] \in Contents /\ f \in SourceFiles
        BY <1>2, <1>3, MapsAre
    <2>4. Key(s.build, s.config, s.src, f) \in Keys
        BY <1>2, <2>3 DEF Key, Keys
    <2>5. Genuine(EntryOf(s, f))
        BY <2>1 DEF Genuine, EntryOf, Key, Facts
    <2> QED
        BY <2>1, <2>2, <2>4, <2>5 DEF EntryOf, Entries, OfBuild
<1> QED
    BY <1>6, <1>7

LEMMA StoreFresh ==
    ASSUME FreshInv, NEW t \in Threads, Store(t)
    PROVE  FreshInv'
<1>1. PICK s : s = scan[t]
    OBVIOUS
<1>2. s \in Scans /\ s.root \in Roots /\ ScanInv(s) /\ s.pc = "store"
    BY <1>1 DEF FreshInv, ScanInv, Store, At
<1>3. PICK written \in SUBSET (DOMAIN s.batch \ s.reused) :
        /\ disk' = [disk EXCEPT ![s.root] = StoredAll(disk[s.root], {EntryOf(s, f) : f \in written})]
        /\ \/ Become(t, [s EXCEPT !.pc = "done"])
           \/ Become(t, [s EXCEPT !.pc = "evict"])
           \/ Become(t, Idle)
    <2>1. PICK written \in SUBSET (DOMAIN scan[t].batch \ scan[t].reused) :
            /\ disk' = [disk EXCEPT ![scan[t].root] =
                            StoredAll(disk[scan[t].root], {EntryOf(scan[t], f) : f \in written})]
            /\ \/ Move(t, IF DOMAIN scan[t].batch \ scan[t].reused = {} THEN "done" ELSE "evict")
               \/ Become(t, Idle)
        BY Zenon DEF Store
    <2>2. Move(t, "done") \/ Move(t, "evict") \/ Become(t, Idle)
        <3>1. CASE DOMAIN scan[t].batch \ scan[t].reused = {}
            BY <2>1, <3>1
        <3>2. CASE DOMAIN scan[t].batch \ scan[t].reused # {}
            BY <2>1, <3>2
        <3> QED
            BY <3>1, <3>2
    <2>3. \/ Become(t, [s EXCEPT !.pc = "done"]) \/ Become(t, [s EXCEPT !.pc = "evict"])
          \/ Become(t, Idle)
        BY <1>1, <2>2 DEF Move
    <2>4. {EntryOf(scan[t], f) : f \in written} = {EntryOf(s, f) : f \in written}
        BY <1>1
    <2>5. disk' = [disk EXCEPT ![s.root] = StoredAll(disk[s.root], {EntryOf(s, f) : f \in written})]
        BY <1>1, <2>1, <2>4
    <2>6. written \in SUBSET (DOMAIN s.batch \ s.reused)
        BY <1>1
    <2> QED
        BY <2>3, <2>5, <2>6
<1>4. PICK new : new = {EntryOf(s, f) : f \in written}
    OBVIOUS
<1>5. IsFiniteSet(new) /\ new \subseteq Entries
    BY <1>2, <1>3, <1>4, WrittenAreGenuine
<1>6. PICK old : old = disk[s.root]
    OBVIOUS
<1>7. old \in Seq(Entries)
    BY <1>2, <1>6 DEF FreshInv, WorldInv
<1>8. StoredAll(old, new) \in Seq(Entries)
    <2>1. SetToSeq(new) \in Seq(new)
        BY <1>5, Sequenced
    <2>2. SetToSeq(new) \in Seq(Entries)
        BY <1>5, <2>1
    <2> QED
        BY <1>7, <2>2, EntriesStored DEF StoredAll
<1>9. disk' = [disk EXCEPT ![s.root] = StoredAll(old, new)]
    BY <1>3, <1>4, <1>6
<1>10. WorldInv' /\ SessionInv'
    <2>1. UNCHANGED <<tree, config, build, recent, states>>
        BY DEF Store
    <2>2. PICK entries : entries = StoredAll(old, new)
        OBVIOUS
    <2> QED
        BY <1>2, <1>8, <1>9, <2>1, <2>2 DEF FreshInv, WorldInv, SessionInv
<1>11. ScanInv([s EXCEPT !.pc = "done"]) /\ ScanInv([s EXCEPT !.pc = "evict"])
    BY <1>2 DEF ScanInv, Scans
<1> QED
    BY <1>3, <1>10, <1>11, IdleScan, ScansStay

LEMMA EvictFresh ==
    ASSUME FreshInv, NEW t \in Threads, EvictEntries(t)
    PROVE  FreshInv'
<1>1. PICK s : s = scan[t]
    OBVIOUS
<1>2. s \in Scans /\ s.root \in Roots /\ ScanInv(s) /\ s.pc = "evict"
    BY <1>1 DEF FreshInv, ScanInv, EvictEntries, At
<1>3. PICK left : left = Evict(disk[s.root], Current(s))
    OBVIOUS
<1>4. left \in Seq(Entries)
    <2>1. disk[s.root] \in Seq(Entries)
        BY <1>2 DEF FreshInv, WorldInv
    <2> QED
        BY <1>3, <2>1, EvictKeeps
<1>5. disk' = [disk EXCEPT ![s.root] = left] /\ Become(t, [s EXCEPT !.pc = "done"])
    BY <1>1, <1>3 DEF EvictEntries, Move
<1>6. WorldInv' /\ SessionInv'
    <2>1. UNCHANGED <<tree, config, build, recent, states>>
        BY DEF EvictEntries
    <2> QED
        BY <1>2, <1>4, <1>5, <2>1 DEF FreshInv, WorldInv, SessionInv
<1>7. ScanInv([s EXCEPT !.pc = "done"])
    BY <1>2 DEF ScanInv, Scans
<1> QED
    BY <1>5, <1>6, <1>7, ScansStay

LEMMA ReportFresh ==
    ASSUME FreshInv, NEW t \in Threads, Unreadable(t) \/ Report(t)
    PROVE  FreshInv'
<1>1. PICK s : s = scan[t]
    OBVIOUS
<1>2. s \in Scans /\ s.root \in Roots
    BY <1>1 DEF FreshInv, ScanInv, Unreadable, Report, At
<1>3. PICK src : src = tree[s.root]
    OBVIOUS
<1>4. src \in Maps(Contents)
    BY <1>2, <1>3 DEF FreshInv, WorldInv
<1>5. ScanInv([s EXCEPT !.pc = "done", !.build = 1, !.src = src, !.batch = FullParse(1, src), !.reused = {}])
    BY <1>2, <1>4, ParsedAfresh
<1>6. \/ Become(t, [s EXCEPT !.pc = "done", !.build = 1, !.src = src, !.batch = FullParse(1, src), !.reused = {}])
      \/ Become(t, Idle)
    BY <1>1, <1>3 DEF Unreadable, Report, ScanUncached
<1>7. WorldInv' /\ SessionInv'
    BY DEF Unreadable, Report, FreshInv, WorldInv, SessionInv
<1> QED
    BY <1>5, <1>6, <1>7, IdleScan, ScansStay

(* ... and by what happens outside the server.                             *)
LEMMA OutsideFresh ==
    ASSUME FreshInv, Edit \/ Install
    PROVE  FreshInv'
<1>1. UNCHANGED <<recent, states, scan>>
    BY DEF Edit, Install
<1>2. CASE Edit
    <2>1. tree' \in [Roots -> Maps(Contents)]
        BY <1>2 DEF Edit, FreshInv, WorldInv
    <2>2. config' \in Configs /\ build' \in Nat
        BY <1>2 DEF Edit, FreshInv, WorldInv
    <2>3. disk' \in [Roots -> Seq(Entries)]
        <3>1. CASE UNCHANGED disk
            BY <3>1 DEF FreshInv, WorldInv
        <3>2. CASE \E r \in Roots : \E i \in DOMAIN disk[r] : disk' = [disk EXCEPT ![r][i].sound = FALSE]
            <4>0. PICK r \in Roots : \E i \in DOMAIN disk[r] : disk' = [disk EXCEPT ![r][i].sound = FALSE]
                BY <3>2
            <4>1. PICK i \in DOMAIN disk[r] : disk' = [disk EXCEPT ![r][i].sound = FALSE]
                BY <4>0
            <4>2. disk[r] \in Seq(Entries)
                BY DEF FreshInv, WorldInv
            <4>3. PICK e : e = disk[r][i]
                OBVIOUS
            <4>4. e \in Entries
                BY <4>2, <4>3
            <4>5. [e EXCEPT !.sound = FALSE] \in Entries
                BY <4>4 DEF Entries, Genuine
            <4>6. PICK d : d = [e EXCEPT !.sound = FALSE]
                OBVIOUS
            <4>7. PICK s : s = [disk[r] EXCEPT ![i] = d]
                OBVIOUS
            <4>8. s \in Seq(Entries)
                BY <4>2, <4>5, <4>6, <4>7
            <4>9. disk' = [disk EXCEPT ![r] = s]
                BY <4>1, <4>3, <4>6, <4>7
            <4> QED
                BY <4>8, <4>9 DEF FreshInv, WorldInv
        <3> QED
            BY <1>2, <3>1, <3>2 DEF Edit
    <2> QED
        BY <1>1, <2>1, <2>2, <2>3 DEF FreshInv, WorldInv, SessionInv
<1>3. CASE Install
    BY <1>1, <1>3 DEF Install, FreshInv, WorldInv, SessionInv
<1> QED
    BY <1>2, <1>3

LEMMA NextFresh == FreshInv /\ [Next]_vars => FreshInv'
<1> SUFFICES ASSUME FreshInv, [Next]_vars PROVE FreshInv'
    OBVIOUS
<1>1. CASE Next
    BY <1>1, StartScanFresh, WorkspaceFresh, ParseFresh, PanicFresh, SpawnFresh, StoreFresh,
       EvictFresh, ReportFresh, OutsideFresh DEF Next
<1>2. CASE UNCHANGED vars
    BY <1>2 DEF vars, FreshInv, WorldInv, SessionInv
<1> QED
    BY <1>1, <1>2

-----------------------------------------------------------------------------
LEMMA FreshHolds == Spec => []FreshInv
<1> QED
    BY InitFresh, NextFresh, PTL DEF Spec

(* Reusing parse facts changes no result: a scan of any thread ends with   *)
(* what parsing its sources afresh gives, with any number of threads,      *)
(* workspaces and files, whatever was kept, evicted, poisoned, damaged or  *)
(* written by others meanwhile (pipeline_session.rs, spine/cache).         *)
THEOREM ReuseIsFresh == Spec => []ReusedIsFresh
<1>1. FreshInv => ReusedIsFresh
    BY DEF FreshInv, ScanInv, ReusedIsFresh, At
<1> QED
    BY <1>1, FreshHolds, PTL

(* A child's eviction leaves every entry its own scan uses, and others     *)
(* only within the budget (spine/cache/disk.rs, evict).                    *)
THEOREM EvictionIsSparing == Spec => EvictionSparesOwn
<1>1. ASSUME FreshInv, Next, NEW t \in Threads, At(t, "evict"), scan'[t].pc = "done"
      PROVE  SparesOwn(disk[scan[t].root], disk'[scan[t].root], Current(scan[t]))
    <2>1. scan[t].pc = "evict" /\ scan[t].root \in Roots /\ scan \in [Threads -> Scans]
        BY <1>1 DEF At, FreshInv, ScanInv
    <2>2. EvictEntries(t)
        BY ZenonT(30), <1>1, <2>1 DEF Next, At, Become, Move, Finish, StartScan, Workspace, Parse, Panic, Spawn, Store,
                          EvictEntries, Unreadable, Report, ScanUncached, Edit, Install
    <2>3. disk[scan[t].root] \in Seq(Entries)
        BY <1>1, <2>1 DEF FreshInv, WorldInv
    <2>4. disk'[scan[t].root] = Evict(disk[scan[t].root], Current(scan[t]))
        BY <1>1, <2>1, <2>2 DEF EvictEntries, FreshInv, WorldInv
    <2> QED
        BY <2>3, <2>4, EvictKeeps DEF SparesOwn
<1>2. FreshInv /\ [Next]_vars =>
        [\A t \in Threads : At(t, "evict") /\ scan'[t].pc = "done" =>
            SparesOwn(disk[scan[t].root], disk'[scan[t].root], Current(scan[t]))]_vars
    BY <1>1
<1>3. Spec => [][\A t \in Threads : At(t, "evict") /\ scan'[t].pc = "done" =>
            SparesOwn(disk[scan[t].root], disk'[scan[t].root], Current(scan[t]))]_vars
    BY <1>2, FreshHolds, PTL DEF Spec
<1> QED
    BY <1>3 DEF EvictionSparesOwn

-----------------------------------------------------------------------------
(* The files of an agent are those of no one else.                         *)
LEMMA PathsDiffer ==
    /\ Servers \cap (Config \cup Skills \cup {Hooks, Ignore, Dir, DirIgnore, Data}) = {}
    /\ Skills \cap (Config \cup {Hooks, Ignore, Dir, DirIgnore, Data}) = {}
<1> DEFINE ServerFiles == {None, ".mcp.json", ".claude.json", ".cursor/mcp.json", ".cline/mcp.json",
                ".cline/data/settings/cline_mcp_settings.json", ".codex/config.toml", "opencode.jsonc",
                ".config/opencode/opencode.json", ".pi/mcp.json", ".pi/agent/mcp.json"}
           SkillFiles == {None, ".claude/skills/sensez", ".cline/skills/sensez", ".codex/skills/sensez",
                ".opencode/skills/sensez", ".config/opencode/skills/sensez", ".pi/skills/sensez",
                ".pi/agent/skills/sensez"}
<1>1. ASSUME NEW a \in DOMAIN AgentSpec
      PROVE  /\ AgentSpec[a].mcp \in ServerFiles /\ AgentSpec[a].global_mcp \in ServerFiles
             /\ AgentSpec[a].skill \in SkillFiles /\ AgentSpec[a].global_skill \in SkillFiles
    BY DEF AgentSpec, None
<1>2. ASSUME NEW a \in Agents
      PROVE  /\ AgentSpec[a].mcp \in ServerFiles /\ AgentSpec[a].global_mcp \in ServerFiles
             /\ AgentSpec[a].skill \in SkillFiles /\ AgentSpec[a].global_skill \in SkillFiles
    <2> HIDE DEF ServerFiles, SkillFiles
    <2> QED
        BY <1>1, SetupAssumption
<1>3. Servers \subseteq ServerFiles \ {None} /\ Skills \subseteq SkillFiles \ {None}
    <2> HIDE DEF ServerFiles, SkillFiles
    <2> QED
        BY <1>2 DEF Servers, Skills
<1> QED
    BY <1>3 DEF Config, Hooks, Ignore, Dir, DirIgnore, Data, None

(* What a step writes, by the kind of the file.                            *)
LEMMA Writing ==
    ASSUME NEW doc, NEW plan
    PROVE  /\ \A f \in Config : Written(f, doc, plan) = WriteConfig(doc, plan)
           /\ \A f \in Servers : Written(f, doc, plan) =
                [state |-> "sound", servers |-> Register(doc.servers, McpCommand(plan))]
           /\ Written(Hooks, doc, plan) =
                [state |-> "sound", stop |-> InstallHook(doc.stop), subagent |-> OwnGroups(doc.subagent)]
           /\ Written(Ignore, doc, plan) = [state |-> "sound", lines |-> doc.lines \cup {".sensez/"}]
           /\ Written(DirIgnore, doc, plan) = [state |-> "sound", lines |-> {"*"}]
           /\ \A f \in Skills \cup {Dir, Data} :
                Written(f, doc, plan) = [state |-> "sound", lines |-> {"sensez"}]
<1>1. Hooks \notin Config /\ Ignore \notin Config \cup {Hooks} /\ DirIgnore \notin Config \cup {Hooks, Ignore}
    BY DEF Config, Hooks, Ignore, DirIgnore
<1>2. Dir \notin Config \cup {Hooks, Ignore, DirIgnore} /\ Data \notin Config \cup {Hooks, Ignore, DirIgnore}
    BY DEF Config, Hooks, Ignore, DirIgnore, Dir, Data
<1> QED
    BY <1>1, <1>2, PathsDiffer DEF Written

LEMMA SoundWritten ==
    ASSUME NEW f \in Files \ Config, NEW doc, NEW plan
    PROVE  Written(f, doc, plan).state = "sound"
BY DEF Written

LEMMA ConfigWritten ==
    ASSUME NEW f \in Config, NEW doc, NEW plan
    PROVE  Written(f, doc, plan) = WriteConfig(doc, plan)
BY Writing

Fixed(f) == [state |-> "sound", lines |-> IF f = DirIgnore THEN {"*"} ELSE {"sensez"}]

LEMMA FixedWritten ==
    ASSUME NEW f \in Skills \cup {Dir, DirIgnore, Data}, NEW doc, NEW plan
    PROVE  Written(f, doc, plan) = Fixed(f)
<1>1. f \notin Config \cup Servers \cup {Hooks, Ignore}
    <2>1. \A g \in {Dir, DirIgnore, Data} : g \notin Config \cup {Hooks, Ignore}
        BY DEF Config, Hooks, Ignore, Dir, DirIgnore, Data
    <2> QED
        BY <2>1, PathsDiffer
<1> QED
    BY <1>1 DEF Written, Fixed

(* What a step finds done, by the kind of the file.                        *)
LEMMA Doing ==
    ASSUME NEW doc
    PROVE  /\ IsDone("sensez.toml", doc) <=> doc.state # "absent"
           /\ IsDone("pyproject.toml", doc) <=> doc.form = "header"
           /\ \A f \in Servers \cup Skills \cup {Hooks} : ~IsDone(f, doc)
           /\ IsDone(Ignore, doc) <=> doc.state = "sound" /\ ".sensez/" \in doc.lines
           /\ IsDone(DirIgnore, doc) <=> doc.state # "absent"
           /\ \A f \in {Dir, Data} : IsDone(f, doc) <=> doc.state = "sound"
<1>1. \A f \in Servers \cup Skills \cup {Hooks} : f \notin Config \cup {Ignore, DirIgnore, Dir, Data}
    <2>1. Hooks \notin Config \cup {Ignore, DirIgnore, Dir, Data}
        BY DEF Config, Hooks, Ignore, DirIgnore, Dir, Data
    <2> QED
        BY <2>1, PathsDiffer
<1>2. ASSUME NEW f \in Servers \cup Skills \cup {Hooks} PROVE ~IsDone(f, doc)
    <2>1. f \notin {"sensez.toml", "pyproject.toml", Ignore, DirIgnore, Dir, Data}
        BY <1>1 DEF Config
    <2> QED
        BY <2>1 DEF IsDone
<1> QED
    BY <1>2 DEF IsDone, Ignore, DirIgnore, Dir, Data

-----------------------------------------------------------------------------
(* The groups that are the user's are a list of them.                      *)
LEMMA OwnList ==
    ASSUME NEW groups, IsList(groups)
    PROVE  IsList(OwnGroups(groups)) /\ OwnGroups(OwnGroups(groups)) = OwnGroups(groups)
<1> DEFINE own == OwnGroups(groups)
           wanted == {g \in ToSet(groups) : ~IsGate(g)}
           kept == {g \in ToSet(own) : ~IsGate(g)}
<1>1. own \in Seq(wanted) /\ ToSet(own) = ToSet(groups) \cap wanted
    BY ThoseKept DEF IsList, OwnGroups
<1>2. kept = ToSet(own)
    BY <1>1
<1>3. own \in Seq(ToSet(own))
    <2> HIDE DEF own, wanted
    <2> QED
        BY <1>1 DEF ToSet
<1>4. Those(own, kept) = own
    <2> HIDE DEF own, kept
    <2> QED
        BY <1>2, <1>3, ThoseOfWanted
<1> QED
    BY <1>3, <1>4 DEF IsList, OwnGroups

(* Installing the hook keeps the user's groups, and doing it again changes *)
(* nothing.                                                                *)
LEMMA HookInstalled ==
    ASSUME NEW groups, IsList(groups)
    PROVE  /\ IsList(InstallHook(groups))
           /\ OwnGroups(InstallHook(groups)) = OwnGroups(groups)
           /\ InstallHook(InstallHook(groups)) = InstallHook(groups)
<1> DEFINE Gates(g) == {i \in DOMAIN g : IsGate(g[i])}
           gates == Gates(groups)
           L == ToSet(groups) \cup {GateHook}
           now == InstallHook(groups)
           v == {g \in ToSet(groups) : ~IsGate(g)}
           w == {g \in ToSet(now) : ~IsGate(g)}
<1>1. IsGate(GateHook)
    BY DEF IsGate, GateHook
<1>2. groups \in Seq(L) /\ \A i \in DOMAIN groups : groups[i] \in ToSet(groups)
    BY DEF IsList, ToSet
<1>3. CASE gates = {}
    <2>1. now = Append(groups, GateHook)
        BY <1>3 DEF InstallHook
    <2>2. PICK n \in Nat : n = Len(groups) /\ DOMAIN groups = 1 .. n
        BY <1>2
    <2>3. /\ now \in Seq(L) /\ Len(now) = n + 1 /\ DOMAIN now = 1 .. n + 1
          /\ now[n + 1] = GateHook /\ \A i \in 1 .. n : now[i] = groups[i]
        <3> HIDE DEF now, L
        <3>1. GateHook \in L
            BY DEF L
        <3> QED
            BY <1>2, <2>1, <2>2, <3>1
    <2>4. IsList(now)
        BY <2>3 DEF IsList, ToSet
    <2>5. \A i \in 1 .. n + 1 : now[i] \in ToSet(now)
        BY <2>3 DEF ToSet
    <2>6. Those(groups, v) = Those(now, w)
        <3>1. \A i \in 1 .. n : groups[i] \in v /\ now[i] \in w /\ groups[i] = now[i]
            BY <1>2, <1>3, <2>2, <2>3, <2>5
        <3>2. now[n + 1] \notin w
            BY <1>1, <2>3
        <3> HIDE DEF now, v, w, L
        <3> QED
            BY <1>2, <2>2, <2>3, <3>1, <3>2, ThoseAgree
    <2>7. Gates(now) = {n + 1}
        BY <1>1, <1>3, <2>2, <2>3
    <2>8. Min({n + 1}) = n + 1
        BY DEF Min
    <2>9. InstallHook(now) = now
        <3> HIDE DEF now
        <3>1. InstallHook(now) = [now EXCEPT ![n + 1] = GateHook]
            BY <2>7, <2>8 DEF InstallHook
        <3> QED
            BY <2>3, <3>1
    <2> QED
        BY <2>4, <2>6, <2>9 DEF OwnGroups
<1>4. CASE gates # {}
    <2>1. PICK m : m = Min(gates)
        OBVIOUS
    <2>2. m \in gates
        <3>1. PICK i \in gates : \A j \in gates : i <= j
            <4>1. gates \in SUBSET Nat
                BY <1>2
            <4> HIDE DEF gates
            <4> QED
                BY <1>4, <4>1, LeastNumber
        <3> QED
            BY <2>1, <3>1 DEF Min
    <2>3. now = [groups EXCEPT ![m] = GateHook]
        BY <1>4, <2>1 DEF InstallHook
    <2>4. PICK n \in Nat : n = Len(groups) /\ DOMAIN groups = 1 .. n
        BY <1>2
    <2>5. /\ now \in Seq(L) /\ Len(now) = n /\ DOMAIN now = 1 .. n
          /\ \A i \in 1 .. n : now[i] = IF i = m THEN GateHook ELSE groups[i]
        <3>1. GateHook \in L
            OBVIOUS
        <3>2. m \in 1 .. n
            BY <2>2, <2>4
        <3> HIDE DEF now, L
        <3> QED
            BY <1>2, <2>3, <2>4, <3>1, <3>2
    <2>6. IsList(now)
        BY <2>5 DEF IsList, ToSet
    <2>7. Those(groups, v) = Those(now, w)
        <3>1. \A i \in 1 .. n : now[i] \in ToSet(now)
            BY <2>5 DEF ToSet
        <3>2. \A i \in 1 .. n : (groups[i] \in v <=> now[i] \in w) /\ (groups[i] \in v => groups[i] = now[i])
            BY <1>1, <1>2, <2>2, <2>4, <2>5, <3>1
        <3> HIDE DEF now, v, w, L
        <3> QED
            BY <1>2, <2>4, <2>5, <3>2, ThoseAgree
    <2>8. Gates(now) = gates
        BY <1>1, <2>2, <2>4, <2>5
    <2>9. InstallHook(now) = now
        <3>1. now[m] = GateHook
            BY <2>2, <2>4, <2>5
        <3> HIDE DEF now, gates
        <3>2. InstallHook(now) = [now EXCEPT ![m] = GateHook]
            BY <1>4, <2>1, <2>8 DEF InstallHook
        <3> QED
            BY <2>5, <3>1, <3>2
    <2> QED
        BY <2>6, <2>7, <2>9 DEF OwnGroups
<1> QED
    BY <1>3, <1>4
-----------------------------------------------------------------------------
(* What a step writes is a document again.                                 *)
LEMMA WrittenIsDoc ==
    ASSUME NEW f \in Files, NEW doc, NEW plan, IsDoc(f, doc)
    PROVE  IsDoc(f, Written(f, doc, plan)) /\ Written(f, doc, plan).state = "sound"
<1>1. CASE f \in Config
    <2>1. IsTable(Template(plan))
        BY DEF IsTable, Template, Flag
    <2>2. Written(f, doc, plan) = [state |-> "sound", form |-> "header", table |-> Template(plan)]
        BY <1>1, Writing DEF WriteConfig, IsDoc
    <2>3. f # Hooks
        BY <1>1 DEF Config, Hooks
    <2> QED
        BY <2>1, <2>2, <2>3 DEF IsDoc
<1>2. CASE f = Hooks
    <2>1. IsList(InstallHook(doc.stop)) /\ IsList(OwnGroups(doc.subagent))
        BY <1>2, HookInstalled, OwnList DEF IsDoc
    <2>2. f \notin Config
        BY <1>2 DEF Config, Hooks
    <2> QED
        BY <1>2, <2>1, <2>2, Writing DEF IsDoc
<1>3. CASE f \notin Config \cup {Hooks}
    <2>1. Written(f, doc, plan).state = "sound"
        BY <1>3, SoundWritten
    <2> QED
        BY <1>3, <2>1 DEF IsDoc
<1> QED
    BY <1>1, <1>2, <1>3

LEMMA EmptyIsDoc ==
    ASSUME NEW f \in Files, NEW state \in {"broken", "sound"}
    PROVE  IsDoc(f, Empty(f, state)) /\ Empty(f, state).state = state
<1>1. IsTable(NoSettings) /\ IsList(<<>>)
    BY DEF IsTable, NoSettings, IsList, ToSet
<1>2. CASE f \in Config
    <2>1. Empty(f, state) = [state |-> state, form |-> "none", table |-> NoSettings]
        <3>1. f \notin Servers \cup {Hooks}
            BY <1>2, PathsDiffer DEF Config, Hooks
        <3>2. Empty(f, state) = [NoFile EXCEPT !.state = state]
            BY <1>2, <3>1 DEF Empty
        <3> QED
            BY <3>2 DEF NoFile
    <2>2. f # Hooks
        BY <1>2 DEF Config, Hooks
    <2> QED
        BY <1>1, <2>1, <2>2 DEF IsDoc
<1>3. CASE f \in Servers
    <2>1. f \notin Config \cup {Hooks}
        BY <1>3, PathsDiffer
    <2> QED
        BY <1>3, <2>1 DEF Empty, IsDoc
<1>4. CASE f = Hooks
    <2>1. f \notin Config \cup Servers
        BY <1>4, PathsDiffer DEF Config, Hooks
    <2> QED
        BY <1>1, <1>4, <2>1 DEF Empty, IsDoc
<1>5. CASE f \notin Config \cup Servers \cup {Hooks}
    BY <1>5 DEF Empty, IsDoc
<1> QED
    BY <1>2, <1>3, <1>4, <1>5

(* A file keeps what it has itself, and what a step writes over it.        *)
UserFiles == Config \cup Servers \cup {Hooks, Ignore}

LEMMA KeepsItself ==
    ASSUME NEW f \in UserFiles, NEW doc, IsDoc(f, doc)
    PROVE  Keeps(f, doc, doc)
BY DEF Keeps, IsDoc

LEMMA WriteKeeps ==
    ASSUME NEW f \in UserFiles, NEW before, NEW doc, NEW plan,
           IsDoc(f, before), IsDoc(f, doc), ~IsDone(f, doc), ~Refuses(f, doc), Keeps(f, before, doc)
    PROVE  Keeps(f, before, Written(f, doc, plan))
<1>0. PICK now : now = Written(f, doc, plan)
    OBVIOUS
<1>1. f \notin Skills
    BY PathsDiffer DEF UserFiles
<1>2. doc.state \in {"absent", "sound"}
    BY <1>1 DEF Refuses, IsDoc
<1>3. CASE before.state = "absent"
    BY <1>3 DEF Keeps
<1>4. CASE before.state \in {"broken", "wrong"}
    BY <1>2, <1>4 DEF Keeps
<1>5. CASE before.state = "sound" /\ f \in Config
    <2>1. doc.state = "sound" /\ \A s \in DOMAIN before.table :
            s \in DOMAIN doc.table /\ doc.table[s] = before.table[s]
        BY <1>5 DEF Keeps
    <2>2. doc.form = "none" /\ doc.table = NoSettings
        <3>1. f = "sensez.toml" \/ f = "pyproject.toml"
            BY <1>5 DEF Config
        <3>2. f # "sensez.toml"
            BY <2>1, Doing
        <3> QED
            BY <1>5, <3>1, <3>2, Doing DEF IsDoc
    <2>3. DOMAIN before.table = {}
        BY <2>1, <2>2 DEF NoSettings
    <2>4. f \notin Servers \cup {Hooks}
        BY <1>5, PathsDiffer DEF Config, Hooks
    <2>5. now.state = "sound"
        BY <1>0, <1>5, <2>2, ConfigWritten DEF WriteConfig
    <2> QED
        BY <1>0, <1>5, <2>3, <2>4, <2>5 DEF Keeps
<1>6. CASE before.state = "sound" /\ f \in Servers
    <2>1. f \notin Config \cup {Hooks}
        BY <1>6, PathsDiffer
    <2>2. \A s \in DOMAIN before.servers \ {"sensez"} :
            s \in DOMAIN doc.servers /\ doc.servers[s] = before.servers[s]
        BY <1>6, <2>1 DEF Keeps
    <2>3. now.servers = Register(doc.servers, McpCommand(plan))
        <3>1. now = [state |-> "sound", servers |-> Register(doc.servers, McpCommand(plan))]
            BY <1>6, <1>0, Writing
        <3> QED
            BY <3>1
    <2>4. \A s \in DOMAIN before.servers \ {"sensez"} :
            s \in DOMAIN now.servers /\ now.servers[s] = before.servers[s]
        <3> QED
            BY <2>2, <2>3 DEF Register
    <2> QED
        BY <1>0, <1>6, <2>1, <2>4 DEF Keeps
<1>7. CASE before.state = "sound" /\ f = Hooks
    <2>1. f \notin Config \cup Servers
        BY <1>7, PathsDiffer DEF Config, Hooks
    <2>2. IsList(doc.stop) /\ IsList(doc.subagent)
        BY <1>7 DEF IsDoc
    <2>3. OwnGroups(doc.stop) = OwnGroups(before.stop) /\ OwnGroups(doc.subagent) = OwnGroups(before.subagent)
        BY <1>7, <2>1 DEF Keeps
    <2>4. now.stop = InstallHook(doc.stop) /\ now.subagent = OwnGroups(doc.subagent)
        BY <1>7, <1>0, Writing
    <2>5. OwnGroups(now.stop) = OwnGroups(doc.stop) /\ OwnGroups(now.subagent) = OwnGroups(doc.subagent)
        <3> QED
            BY <2>2, <2>4, HookInstalled, OwnList
    <2> QED
        BY <1>0, <1>7, <2>1, <2>3, <2>5 DEF Keeps
<1>8. CASE before.state = "sound" /\ f = Ignore
    <2>1. f \notin Config \cup Servers \cup {Hooks}
        BY <1>8, PathsDiffer DEF Config, Ignore, Hooks
    <2>2. before.lines \subseteq doc.lines
        BY <1>8, <2>1 DEF Keeps
    <2>3. now.lines = doc.lines \cup {".sensez/"}
        BY <1>8, <1>0, Writing
    <2> QED
        BY <1>0, <1>8, <2>1, <2>2, <2>3 DEF Keeps
<1> QED
    BY <1>3, <1>4, <1>5, <1>6, <1>7, <1>8 DEF UserFiles, IsDoc

-----------------------------------------------------------------------------
(* A step that is done, or would write what is there, is settled; it is    *)
(* once it has been taken.                                                 *)
Settled(f, doc, command) ==
    \/ IsDone(f, doc)
    \/ f \in Servers /\ doc = [state |-> "sound", servers |-> Register(doc.servers, command)]
    \/ f = Hooks /\ doc = [state |-> "sound", stop |-> InstallHook(doc.stop), subagent |-> OwnGroups(doc.subagent)]
    \/ f \in Skills /\ doc = Fixed(f)

LEMMA SettledStays ==
    ASSUME NEW f, NEW doc, NEW plan, Settled(f, doc, McpCommand(plan)), ~IsDone(f, doc)
    PROVE  Written(f, doc, plan) = doc
<1>1. CASE f \in Servers /\ doc = [state |-> "sound", servers |-> Register(doc.servers, McpCommand(plan))]
    <2>1. Written(f, doc, plan) = [state |-> "sound", servers |-> Register(doc.servers, McpCommand(plan))]
        BY <1>1, Writing
    <2> QED
        BY <1>1, <2>1
<1>2. CASE f = Hooks /\ doc = [state |-> "sound", stop |-> InstallHook(doc.stop),
                              subagent |-> OwnGroups(doc.subagent)]
    <2>1. Written(f, doc, plan) =
            [state |-> "sound", stop |-> InstallHook(doc.stop), subagent |-> OwnGroups(doc.subagent)]
        BY <1>2, Writing
    <2> QED
        BY <1>2, <2>1
<1>3. CASE f \in Skills /\ doc = Fixed(f)
    BY <1>3, FixedWritten
<1> QED
    BY <1>1, <1>2, <1>3 DEF Settled

LEMMA WriteSettles ==
    ASSUME NEW f \in Files, NEW doc, NEW plan, IsDoc(f, doc)
    PROVE  Settled(f, Written(f, doc, plan), McpCommand(plan))
<1>1. PICK now, command : now = Written(f, doc, plan) /\ command = McpCommand(plan)
    OBVIOUS
<1>2. CASE f \in Config
    <2>1. now.state = "sound" /\ now.form = "header"
        BY <1>1, <1>2, ConfigWritten, WrittenIsDoc DEF WriteConfig
    <2>2. IsDone(f, now)
        BY <1>2, <2>1, Doing DEF Config
    <2> QED
        BY <1>1, <2>2 DEF Settled
<1>3. CASE f \in Servers
    <2>1. now = [state |-> "sound", servers |-> Register(doc.servers, command)]
        BY <1>1, <1>3, Writing
    <2>2. Register(now.servers, command) = now.servers
        BY <2>1 DEF Register
    <2>3. now = [state |-> "sound", servers |-> now.servers]
        BY <2>1
    <2> QED
        BY <1>1, <1>3, <2>2, <2>3 DEF Settled
<1>4. CASE f = Hooks
    <2>1. now = [state |-> "sound", stop |-> InstallHook(doc.stop), subagent |-> OwnGroups(doc.subagent)]
        BY <1>1, <1>4, Writing
    <2>2. InstallHook(now.stop) = now.stop /\ OwnGroups(now.subagent) = now.subagent
        BY <1>4, <2>1, HookInstalled, OwnList DEF IsDoc
    <2>3. now = [state |-> "sound", stop |-> now.stop, subagent |-> now.subagent]
        BY <2>1
    <2> QED
        BY <1>1, <1>4, <2>2, <2>3 DEF Settled
<1>5. CASE f = Ignore
    <2>1. now.state = "sound" /\ ".sensez/" \in now.lines
        <3>1. now = [state |-> "sound", lines |-> doc.lines \cup {".sensez/"}]
            BY <1>1, <1>5, Writing
        <3> QED
            BY <3>1
    <2> QED
        BY <1>1, <1>5, <2>1, Doing DEF Settled
<1>6. CASE f \in {Dir, DirIgnore, Data}
    <2>1. now.state = "sound"
        BY <1>1, <1>6, FixedWritten DEF Fixed
    <2>2. IsDone(f, now)
        BY <1>6, <2>1, Doing
    <2> QED
        BY <1>1, <2>2 DEF Settled
<1>7. CASE f \in Skills
    BY <1>1, <1>7, FixedWritten DEF Settled
<1> QED
    BY <1>2, <1>3, <1>4, <1>5, <1>6, <1>7 DEF Files

(* What is in the directory is there once settled, and is written only     *)
(* where nothing is.                                                       *)
LEMMA DirSettled ==
    ASSUME NEW f \in {Dir, DirIgnore, Data}, NEW doc
    PROVE  /\ doc.state = "sound" => IsDone(f, doc)
           /\ IsDone(f, doc) => doc.state # "absent"
           /\ \A command : Settled(f, doc, command) <=> IsDone(f, doc)
           /\ IsDoc(f, doc) /\ ~IsDone(f, doc) /\ ~Refuses(f, doc) => doc.state = "absent"
<1>1. f \notin Servers \cup Skills \cup {Hooks}
    <2>1. f # Hooks
        BY DEF Hooks, Dir, DirIgnore, Data
    <2> QED
        BY <2>1, PathsDiffer
<1>2. (doc.state = "sound" => IsDone(f, doc)) /\ (IsDone(f, doc) => doc.state # "absent")
    BY Doing
<1>3. \A command : Settled(f, doc, command) <=> IsDone(f, doc)
    BY <1>1 DEF Settled
<1>4. IsDoc(f, doc) /\ ~IsDone(f, doc) /\ ~Refuses(f, doc) => doc.state = "absent"
    BY <1>1, <1>2 DEF Refuses, IsDoc
<1> QED
    BY <1>2, <1>3, <1>4

-----------------------------------------------------------------------------
(* What a plan changes are files init may write, the directory among them  *)
(* if it is for a project.                                                 *)
IsPlan(plan) == plan.agent \in Agents /\ (plan.global <=> ~git)

LEMMA PlannedFiles ==
    ASSUME NEW plan, IsPlan(plan)
    PROVE  /\ Todo(plan) \in Seq(Files \ {Data})
           /\ git => {Dir, DirIgnore} \subseteq ToSet(Todo(plan))
<1> DEFINE F == Files \ {Data}
           spec == AgentSpec[plan.agent]
           first == IF plan.into THEN "pyproject.toml" ELSE "sensez.toml"
           hook == IF plan.gate THEN <<Hooks>> ELSE << >>
           head == <<first, Dir, DirIgnore>>
           rest == IfAny(spec.mcp) \o IfAny(spec.skill) \o hook \o <<Ignore>>
<1>1. ASSUME NEW f, f # Data, f \in Servers \cup Skills \cup {None} PROVE IfAny(f) \in Seq(F)
    <2>1. f # None => f \in F
        BY <1>1 DEF Files
    <2> HIDE DEF F
    <2>2. << >> \in Seq(F) /\ (f # None => <<f>> \in Seq(F))
        BY <2>1
    <2> QED
        BY <2>2 DEF IfAny
<1>2. /\ spec.mcp \in Servers \cup {None} /\ spec.global_mcp \in Servers \cup {None}
      /\ spec.skill \in Skills \cup {None} /\ spec.global_skill \in Skills \cup {None}
    BY DEF IsPlan, Servers, Skills
<1>3. Data \notin Servers \cup Skills \cup {None}
    BY PathsDiffer DEF Data, None
<1>4. /\ IfAny(spec.mcp) \in Seq(F) /\ IfAny(spec.global_mcp) \in Seq(F)
      /\ IfAny(spec.skill) \in Seq(F) /\ IfAny(spec.global_skill) \in Seq(F)
    BY <1>1, <1>2, <1>3
<1>5. Hooks \in F /\ Ignore \in F /\ Dir \in F /\ DirIgnore \in F /\ first \in F
    BY DEF Files, Config, Hooks, Ignore, Dir, DirIgnore, Data
<1>6. hook \in Seq(F) /\ <<Ignore>> \in Seq(F) /\ head \in Seq(F)
    <2> HIDE DEF F, first
    <2> QED
        BY <1>5
<1>7. \A a, b \in Seq(F) : a \o b \in Seq(F) /\ ToSet(a) \subseteq ToSet(a \o b)
    <2>1. ASSUME NEW a \in Seq(F), NEW b \in Seq(F)
          PROVE  a \o b \in Seq(F) /\ \A i \in 1 .. Len(a) : i \in DOMAIN (a \o b) /\ (a \o b)[i] = a[i]
        OBVIOUS
    <2> QED
        BY <2>1 DEF ToSet
<1> HIDE DEF F, hook, spec
<1>8. CASE plan.global
    <2>1. Todo(plan) = (IfAny(spec.global_mcp) \o IfAny(spec.global_skill)) \o hook
        BY <1>8 DEF Todo, spec, hook
    <2>2. IfAny(spec.global_mcp) \o IfAny(spec.global_skill) \in Seq(F)
        BY <1>4, <1>7
    <2>3. Todo(plan) \in Seq(F)
        BY <1>6, <1>7, <2>1, <2>2
    <2> QED
        BY <1>8, <2>3 DEF F, IsPlan
<1>9. CASE ~plan.global
    <2> DEFINE a == head \o IfAny(spec.mcp)
               b == a \o IfAny(spec.skill)
               c == b \o hook
    <2>1. Todo(plan) = c \o <<Ignore>>
        BY <1>9 DEF Todo, spec, hook
    <2> HIDE DEF head
    <2>2. a \in Seq(F) /\ ToSet(head) \subseteq ToSet(a)
        BY <1>4, <1>6, <1>7
    <2> HIDE DEF a
    <2>3. b \in Seq(F) /\ ToSet(a) \subseteq ToSet(b)
        BY <1>4, <1>7, <2>2
    <2> HIDE DEF b
    <2>4. c \in Seq(F) /\ ToSet(b) \subseteq ToSet(c)
        BY <1>6, <1>7, <2>3
    <2> HIDE DEF c
    <2>5. Todo(plan) \in Seq(F) /\ ToSet(c) \subseteq ToSet(Todo(plan))
        BY <1>6, <1>7, <2>1, <2>4
    <2>6. {Dir, DirIgnore} \subseteq ToSet(head)
        <3>1. DOMAIN head = 1 .. 3 /\ head[2] = Dir /\ head[3] = DirIgnore
            BY DEF head
        <3>2. 2 \in 1 .. 3 /\ 3 \in 1 .. 3
            OBVIOUS
        <3> QED
            BY <3>1, <3>2 DEF ToSet
    <2> QED
        BY <2>2, <2>3, <2>4, <2>5, <2>6 DEF F
<1> QED
    BY <1>8, <1>9

(* What is decided before the first write is a plan.                       *)
LEMMA Planned ==
    ASSUME NEW plan \in (IF git THEN ProjectPlans ELSE GlobalPlans), NEW asked \in BOOLEAN
    PROVE  IsPlan([plan EXCEPT !.into = asked])
<1>1. PICK global \in BOOLEAN : (global <=> ~git) /\ plan \in PlansFor(global)
    BY DEF ProjectPlans, GlobalPlans
<1>2. PICK use \in Wanted, terminal \in BOOLEAN : plan \in PlanOf(use[1], use[2], terminal, global)
    BY <1>1 DEF PlansFor
<1>3. use[1].agent \in Agents \cup {None} /\ use[2].agent \in Agents
    BY SetupAssumption DEF Flags, Answers
<1> DEFINE agent == IF use[1].agent # None THEN use[1].agent
                    ELSE IF terminal THEN use[2].agent ELSE "claude-code"
<1>4. agent \in Agents
    BY <1>3, SetupAssumption
<1>5. PICK gate, metrics, semantic, into :
        plan = [agent |-> agent, global |-> global, gate |-> gate, metrics |-> metrics,
                semantic |-> semantic, into |-> into]
    BY <1>2 DEF PlanOf
<1> HIDE DEF agent
<1>6. [plan EXCEPT !.into = asked] = [agent |-> agent, global |-> global, gate |-> gate, metrics |-> metrics,
                semantic |-> semantic, into |-> asked]
    BY <1>5
<1> QED
    BY <1>1, <1>4, <1>6 DEF IsPlan

(* The first of what is left to do and the others.                         *)
LEMMA FirstLeft ==
    ASSUME NEW S, NEW s \in Seq(S), s # << >>
    PROVE  /\ Head(s) \in S /\ Tail(s) \in Seq(S) /\ Head(s) \in ToSet(s)
           /\ ToSet(s) \subseteq {Head(s)} \cup ToSet(Tail(s)) /\ ToSet(Tail(s)) \subseteq ToSet(s)
<1>1. PICK n \in Nat : n = Len(s) /\ DOMAIN s = 1 .. n
    OBVIOUS
<1>2. /\ 1 \in 1 .. n /\ Head(s) = s[1] /\ Head(s) \in S /\ Tail(s) \in Seq(S)
      /\ DOMAIN Tail(s) = 1 .. n - 1 /\ \A i \in 1 .. n - 1 : Tail(s)[i] = s[i + 1]
    BY <1>1
<1>3. \A i \in 1 .. n : i = 1 \/ i - 1 \in 1 .. n - 1
    OBVIOUS
<1>4. \A i \in 1 .. n - 1 : i + 1 \in 1 .. n
    OBVIOUS
<1>5. ASSUME NEW i \in 1 .. n PROVE s[i] \in {Head(s)} \cup ToSet(Tail(s))
    <2>1. CASE i = 1
        BY <1>2, <2>1
    <2>2. CASE i - 1 \in 1 .. n - 1
        <3>1. Tail(s)[i - 1] = s[i]
            BY <1>2, <2>2
        <3> QED
            BY <1>2, <2>2, <3>1 DEF ToSet
    <2> QED
        BY <1>3, <2>1, <2>2
<1>6. ToSet(s) \subseteq {Head(s)} \cup ToSet(Tail(s))
    BY <1>1, <1>5 DEF ToSet
<1>7. ToSet(Tail(s)) \subseteq ToSet(s)
    BY <1>1, <1>2, <1>4 DEF ToSet
<1> QED
    BY <1>1, <1>2, <1>6, <1>7 DEF ToSet

-----------------------------------------------------------------------------
(* The files are documents; a process that writes has read a document that *)
(* can be written and is not done; what is left to do is what its plan, or *)
(* the server, has to.                                                     *)
Busy(p) == run[p].pc # "idle"
Writes(p) == run[p].pc = "write"
Duty(p) == IF p = "server" THEN {Dir, DirIgnore, Data} ELSE ToSet(Todo(run[p].plan))

DocsInv ==
    /\ docs = [f \in Files |-> docs[f]] /\ mine = [f \in Files |-> mine[f]]
    /\ \A f \in Files : IsDoc(f, docs[f]) /\ IsDoc(f, mine[f])
RunOf(p) ==
    /\ run[p] = [pc |-> run[p].pc, todo |-> run[p].todo, doc |-> run[p].doc, plan |-> run[p].plan]
    /\ run[p].pc \in {"idle", "read", "write"}
    /\ Busy(p) => /\ run[p].todo \in Seq(Duty(p))
                  /\ IF p = "server" THEN git ELSE IsPlan(run[p].plan)
    /\ Writes(p) => /\ run[p].todo # << >> /\ IsDoc(Step(p), run[p].doc)
                    /\ ~IsDone(Step(p), run[p].doc) /\ ~Refuses(Step(p), run[p].doc)
RunInv == run = [p \in Processes |-> run[p]] /\ \A p \in Processes : RunOf(p)

(* What is due is a file; the server's is none the user changes.           *)
LEMMA DueFiles ==
    ASSUME RunInv, NEW p \in Processes, Busy(p)
    PROVE  /\ Duty(p) \subseteq Files /\ run[p].todo \in Seq(Duty(p))
           /\ p = "server" => git /\ Duty(p) \cap UserFiles = {}
           /\ p = "init" => IsPlan(run[p].plan) /\ Data \notin Duty(p)
<1>1. RunOf(p)
    BY DEF RunInv
<1>2. CASE p = "server"
    <2>1. \A f \in {Dir, DirIgnore, Data} : f \notin Config \cup {Hooks, Ignore}
        BY DEF Config, Hooks, Ignore, Dir, DirIgnore, Data
    <2> QED
        BY <1>1, <1>2, <2>1, PathsDiffer DEF RunOf, Duty, Files, UserFiles
<1>3. CASE p = "init"
    <2>1. IsPlan(run[p].plan) /\ run[p].todo \in Seq(Duty(p))
        BY <1>1, <1>3 DEF RunOf
    <2>2. Todo(run[p].plan) \in Seq(Files \ {Data})
        BY <2>1, PlannedFiles
    <2>3. ToSet(Todo(run[p].plan)) \subseteq Files \ {Data}
        BY <2>2 DEF ToSet
    <2> QED
        BY <1>3, <2>1, <2>3 DEF Duty
<1> QED
    BY <1>2, <1>3 DEF Processes

(* A process that stops, and one that goes on to its next step.            *)
LEMMA Stops ==
    ASSUME RunInv, NEW p \in Processes, Turn(p, AtRest), git' = git
    PROVE  RunInv' /\ ~Busy(p)' /\ \A q \in Processes \ {p} : run'[q] = run[q]
<1>1. run' = [q \in Processes |-> run'[q]] /\ run'[p] = AtRest /\ \A q \in Processes \ {p} : run'[q] = run[q]
    BY DEF RunInv, Turn
<1>2. RunOf(p)' /\ ~Busy(p)'
    BY <1>1 DEF RunOf, Busy, Writes, AtRest
<1>3. ASSUME NEW q \in Processes \ {p} PROVE RunOf(q)'
    BY <1>1 DEF RunInv, RunOf, Busy, Writes, Duty, Step, IsPlan
<1> QED
    BY <1>1, <1>2, <1>3 DEF RunInv

LEMMA GoesOn ==
    ASSUME RunInv, NEW p \in Processes, Busy(p), run[p].todo # << >>, GoOn(p), git' = git
    PROVE  /\ RunInv' /\ \A q \in Processes \ {p} : run'[q] = run[q]
           /\ run'[p].pc = "read" /\ run'[p].plan = run[p].plan /\ run'[p].todo = Tail(run[p].todo)
<1>1. RunOf(p)
    BY DEF RunInv
<1>2. /\ run' = [q \in Processes |-> run'[q]] /\ \A q \in Processes \ {p} : run'[q] = run[q]
      /\ run'[p] = [pc |-> "read", todo |-> Tail(run[p].todo), doc |-> << >>, plan |-> run[p].plan]
    BY <1>1 DEF RunInv, RunOf, GoOn, Turn
<1>3. Duty(p)' = Duty(p) /\ Tail(run[p].todo) \in Seq(Duty(p))
    <2>1. Tail(run[p].todo) \in Seq(Duty(p))
        BY <1>1, FirstLeft DEF RunOf
    <2> QED
        BY <1>2, <2>1 DEF Duty
<1>4. RunOf(p)'
    BY <1>1, <1>2, <1>3 DEF RunOf, Busy, Writes, IsPlan
<1>5. ASSUME NEW q \in Processes \ {p} PROVE RunOf(q)'
    BY <1>2 DEF RunInv, RunOf, Busy, Writes, Duty, Step, IsPlan
<1> QED
    BY <1>2, <1>4, <1>5 DEF RunInv

(* One file is written over, the others stay.                              *)
LEMMA OneWritten ==
    ASSUME DocsInv, NEW f \in Files, NEW doc, docs' = [docs EXCEPT ![f] = doc]
    PROVE  /\ docs' = [g \in Files |-> docs'[g]] /\ docs'[f] = doc
           /\ \A g \in Files \ {f} : docs'[g] = docs[g]
BY DEF DocsInv

LEMMA WhatIsWritten ==
    ASSUME DocsInv, RunInv, NEW p \in Processes, Write(p)
    PROVE  /\ Writes(p) /\ Busy(p) /\ RunOf(p) /\ Step(p) \in Duty(p) /\ Step(p) \in Files
           /\ docs' = [docs EXCEPT ![Step(p)] = Written(Step(p), run[p].doc, run[p].plan)]
           /\ IsDoc(Step(p), Written(Step(p), run[p].doc, run[p].plan))
<1>1. Writes(p) /\ Busy(p) /\ RunOf(p)
    BY DEF Write, Writes, Busy, RunInv
<1>2. Step(p) \in Duty(p) /\ Step(p) \in Files
    <2>1. run[p].todo \in Seq(Duty(p)) /\ run[p].todo # << >> /\ Duty(p) \subseteq Files
        BY <1>1, DueFiles DEF RunOf
    <2> QED
        BY <2>1, FirstLeft DEF Step
<1>3. IsDoc(Step(p), Written(Step(p), run[p].doc, run[p].plan))
    <2>1. IsDoc(Step(p), run[p].doc)
        BY <1>1 DEF RunOf
    <2> QED
        BY <1>2, <2>1, WrittenIsDoc
<1> QED
    BY <1>1, <1>2, <1>3 DEF Write

(* Every step keeps the files documents and the processes at their work.   *)
LEMMA WorkStep ==
    ASSUME DocsInv, RunInv, [SetupNext]_setupVars
    PROVE  DocsInv' /\ RunInv'
<1>1. docs' = docs /\ mine' = mine => DocsInv'
    BY DEF DocsInv
<1>2. run' = run /\ git' = git => RunInv'
    BY DEF RunInv, RunOf, Busy, Writes, Duty, Step, IsPlan
<1>3. ASSUME NEW plan, Start(plan) PROVE DocsInv' /\ RunInv'
    <2> DEFINE asked == plan.into /\ docs["pyproject.toml"].state # "absent"
                                    /\ docs["sensez.toml"].state = "absent"
               chosenPlan == [plan EXCEPT !.into = asked]
    <2>1. /\ asked \in BOOLEAN
          /\ Turn("init", [pc |-> "read", todo |-> Todo(chosenPlan), doc |-> << >>, plan |-> chosenPlan])
        <3>1. asked \in BOOLEAN
            OBVIOUS
        <3> QED
            BY <1>3, <3>1 DEF Start
    <2> HIDE DEF asked
    <2>2. IsPlan(chosenPlan)
        BY <1>3, <2>1, Planned DEF Start
    <2>3. PICK p : /\ IsPlan(p)
                   /\ Turn("init", [pc |-> "read", todo |-> Todo(p), doc |-> << >>, plan |-> p])
        BY <2>1, <2>2
    <2>4. Todo(p) \in Seq(ToSet(Todo(p)))
        <3>1. Todo(p) \in Seq(Files \ {Data})
            BY <2>3, PlannedFiles
        <3> QED
            BY <3>1 DEF ToSet
    <2>5. /\ run' = [q \in Processes |-> run'[q]] /\ run'["server"] = run["server"]
          /\ run'["init"] = [pc |-> "read", todo |-> Todo(p), doc |-> << >>, plan |-> p]
        BY <2>3 DEF RunInv, Turn, Processes
    <2>6. git' = git /\ docs' = docs /\ mine' = mine
        BY <1>3 DEF Start
    <2>7. RunOf("init")'
        <3>1. run'["init"].todo \in Seq(Duty("init")') /\ IsPlan(run["init"].plan)'
            BY <2>3, <2>4, <2>5, <2>6 DEF Duty, IsPlan
        <3> QED
            BY <2>5, <3>1 DEF RunOf, Busy, Writes
    <2>8. RunOf("server")'
        BY <2>5, <2>6 DEF RunInv, RunOf, Busy, Writes, Duty, Step, Processes
    <2> QED
        BY <1>1, <2>5, <2>6, <2>7, <2>8 DEF RunInv, Processes
<1>4. CASE Record
    <2>1. /\ run' = [q \in Processes |-> run'[q]] /\ run'["init"] = run["init"]
          /\ run'["server"] = [pc |-> "read", todo |-> <<Dir, DirIgnore, Data>>, doc |-> << >>, plan |-> << >>]
        BY <1>4 DEF Record, RunInv, Turn, Processes, AtRest
    <2>2. git' = git /\ docs' = docs /\ mine' = mine /\ git
        BY <1>4 DEF Record
    <2>3. RunOf("server")'
        <3>1. run'["server"].todo \in Seq(Duty("server")')
            BY <2>1 DEF Duty
        <3> QED
            BY <2>1, <2>2, <3>1 DEF RunOf, Busy, Writes
    <2>4. RunOf("init")'
        BY <2>1, <2>2 DEF RunInv, RunOf, Busy, Writes, Duty, Step, Processes, IsPlan
    <2> QED
        BY <1>1, <2>1, <2>2, <2>3, <2>4 DEF RunInv, Processes
<1>5. ASSUME NEW p \in Processes, Read(p) PROVE DocsInv' /\ RunInv'
    <2>1. /\ run[p].pc = "read" /\ run[p].todo # << >> /\ Busy(p)
          /\ git' = git /\ docs' = docs /\ mine' = mine
        BY <1>5 DEF Read, Busy
    <2>2. CASE GoOn(p)
        BY <1>1, <2>1, <2>2, GoesOn
    <2>3. CASE Turn(p, AtRest)
        BY <1>1, <2>1, <2>3, Stops
    <2>4. CASE /\ Turn(p, [run[p] EXCEPT !.pc = "write", !.doc = docs[Step(p)]])
               /\ ~IsDone(Step(p), docs[Step(p)]) /\ ~Refuses(Step(p), docs[Step(p)])
        <3>1. RunOf(p)
            BY DEF RunInv
        <3>2. /\ run' = [q \in Processes |-> run'[q]] /\ \A q \in Processes \ {p} : run'[q] = run[q]
              /\ run'[p] = [pc |-> "write", todo |-> run[p].todo, doc |-> docs[Step(p)], plan |-> run[p].plan]
            BY <2>4, <3>1 DEF RunInv, RunOf, Turn
        <3>3. IsDoc(Step(p), docs[Step(p)])
            <4>1. run[p].todo \in Seq(Duty(p)) /\ Duty(p) \subseteq Files
                BY <2>1, DueFiles
            <4>2. Step(p) \in Files
                BY <2>1, <4>1, FirstLeft DEF Step
            <4> QED
                BY <4>2 DEF DocsInv
        <3>4. RunOf(p)'
            <4>1. Duty(p)' = Duty(p) /\ Step(p)' = Step(p)
                BY <3>2 DEF Duty, Step
            <4> QED
                BY <2>1, <2>4, <3>1, <3>2, <3>3, <4>1 DEF RunOf, Busy, Writes, IsPlan
        <3>5. ASSUME NEW q \in Processes \ {p} PROVE RunOf(q)'
            BY <2>1, <3>2 DEF RunInv, RunOf, Busy, Writes, Duty, Step, IsPlan
        <3> QED
            BY <1>1, <2>1, <3>2, <3>4, <3>5 DEF RunInv
    <2> QED
        BY <1>5, <2>2, <2>3, <2>4 DEF Read
<1>6. ASSUME NEW p \in Processes, Write(p) PROVE DocsInv' /\ RunInv'
    <2>1. git' = git /\ mine' = mine /\ GoOn(p)
        BY <1>6 DEF Write
    <2>2. Busy(p) /\ run[p].todo # << >>
        BY <1>6, WhatIsWritten DEF RunOf
    <2>3. DocsInv'
        BY <1>6, <2>1, WhatIsWritten, OneWritten DEF DocsInv
    <2> QED
        BY <2>1, <2>2, <2>3, GoesOn
<1>7. ASSUME NEW p \in Processes, CutShort(p) PROVE DocsInv' /\ RunInv'
    <2>1. Busy(p) /\ Writes(p) /\ Turn(p, AtRest) /\ git' = git /\ mine' = mine
        BY <1>7 DEF CutShort, Busy, Writes
    <2>2. Step(p) \in Files
        <3>1. run[p].todo \in Seq(Duty(p)) /\ run[p].todo # << >> /\ Duty(p) \subseteq Files
            BY <2>1, DueFiles DEF RunInv, RunOf
        <3> QED
            BY <3>1, FirstLeft DEF Step
    <2>3. PICK state \in {"broken", "sound"} : docs' = [docs EXCEPT ![Step(p)] = Empty(Step(p), state)]
        BY <1>7 DEF CutShort
    <2>4. DocsInv'
        BY <2>1, <2>2, <2>3, OneWritten, EmptyIsDoc DEF DocsInv
    <2> QED
        BY <2>1, <2>4, Stops
<1>8. ASSUME NEW p \in Processes, Die(p) PROVE DocsInv' /\ RunInv'
    BY <1>1, <1>8, Stops DEF Die
<1>9. ASSUME NEW p \in Processes, Complete(p) PROVE DocsInv' /\ RunInv'
    BY <1>1, <1>9, Stops DEF Complete
<1>10. ASSUME NEW f \in DOMAIN Texts, Change(f) PROVE DocsInv' /\ RunInv'
    <2>1. PICK doc \in Texts[f] : docs' = [docs EXCEPT ![f] = doc]
        BY <1>10 DEF Change
    <2>2. f \in Files /\ IsDoc(f, doc)
        BY SetupAssumption DEF Files
    <2>3. mine' = [mine EXCEPT ![f] = docs'[f]] /\ run' = run /\ git' = git
        BY <1>10 DEF Change
    <2>4. /\ docs' = [g \in Files |-> docs'[g]] /\ docs'[f] = doc
          /\ \A g \in Files \ {f} : docs'[g] = docs[g]
        BY <2>1, <2>2, OneWritten
    <2>5. mine' = [g \in Files |-> mine'[g]] /\ mine'[f] = doc /\ \A g \in Files \ {f} : mine'[g] = mine[g]
        BY <2>2, <2>3, <2>4 DEF DocsInv
    <2>6. DocsInv'
        BY <2>2, <2>4, <2>5 DEF DocsInv
    <2> QED
        BY <1>2, <2>3, <2>6
<1>11. CASE Reinstall
    BY <1>1, <1>2, <1>11 DEF Reinstall
<1>12. CASE UNCHANGED setupVars
    BY <1>1, <1>2, <1>12 DEF setupVars
<1> QED
    BY <1>3, <1>4, <1>5, <1>6, <1>7, <1>8, <1>9, <1>10, <1>11, <1>12 DEF SetupNext

-----------------------------------------------------------------------------
(* What a process is about to write over it has read, unless the file is   *)
(* lost.                                                                   *)
HeldInv == \A p \in Processes : Writes(p) /\ Step(p) \in DOMAIN Texts \ lost => run[p].doc = docs[Step(p)]

(* Only init writes to what the user changes.                              *)
LEMMA InitWritesAlone ==
    ASSUME RunInv, NEW p \in Processes, Writes(p), Step(p) \in DOMAIN Texts
    PROVE  p = "init" /\ Step(p) \in UserFiles
<1>1. run[p].todo \in Seq(Duty(p)) /\ run[p].todo # << >> /\ (p = "server" => Duty(p) \cap UserFiles = {})
    BY DueFiles DEF Writes, Busy, RunInv, RunOf
<1>2. Step(p) \in Duty(p) /\ Step(p) \in UserFiles
    BY <1>1, FirstLeft, SetupAssumption DEF Step, UserFiles
<1> QED
    BY <1>1, <1>2 DEF Processes

LEMMA KeptStep ==
    ASSUME DocsInv, RunInv, HeldInv, MineIsKept, [SetupNext]_setupVars
    PROVE  HeldInv' /\ MineIsKept'
<1> DEFINE mineFiles == DOMAIN Texts
           HeldOf(p) == Writes(p) /\ Step(p) \in DOMAIN Texts \ lost => run[p].doc = docs[Step(p)]
<1>1. mineFiles \subseteq UserFiles /\ UserFiles \subseteq Files
    BY SetupAssumption DEF UserFiles, Files
<1>2. docs' = docs /\ mine' = mine /\ lost' = lost => MineIsKept'
    BY DEF MineIsKept
<1>3. docs' = docs /\ lost' = lost /\ run' = run => HeldInv'
    BY DEF HeldInv, Writes, Step
<1>4. ASSUME NEW q \in Processes, run'[q] = run[q], docs' = docs, lost' = lost PROVE HeldOf(q)'
    BY <1>4 DEF HeldInv, Writes, Step
<1>5. ASSUME NEW q \in Processes, run'[q].pc # "write" PROVE HeldOf(q)'
    BY <1>5 DEF Writes
<1>6. (\A q \in Processes : HeldOf(q)') => HeldInv'
    BY DEF HeldInv
<1>7. ASSUME NEW plan, Start(plan) PROVE HeldInv' /\ MineIsKept'
    <2>1. run'["server"] = run["server"] /\ run'["init"].pc = "read"
        BY <1>7 DEF Start, Turn, RunInv, Processes
    <2>2. docs' = docs /\ mine' = mine /\ lost' = lost
        BY <1>7 DEF Start
    <2> HIDE DEF HeldOf
    <2> QED
        BY <1>2, <1>4, <1>5, <1>6, <2>1, <2>2 DEF Processes
<1>8. CASE Record
    <2>1. run'["init"] = run["init"] /\ run'["server"].pc = "read"
        BY <1>8 DEF Record, Turn, RunInv, Processes, AtRest
    <2>2. docs' = docs /\ mine' = mine /\ lost' = lost
        BY <1>8 DEF Record
    <2> HIDE DEF HeldOf
    <2> QED
        BY <1>2, <1>4, <1>5, <1>6, <2>1, <2>2 DEF Processes
<1>9. ASSUME NEW p \in Processes, Read(p) PROVE HeldInv' /\ MineIsKept'
    <2>1. docs' = docs /\ mine' = mine /\ lost' = lost
        BY <1>9 DEF Read
    <2>2. \A q \in Processes \ {p} : run'[q] = run[q]
        BY <1>9 DEF Read, Turn, GoOn, RunInv
    <2>3. run'[p].pc = "write" => run'[p].doc = docs[Step(p)] /\ run'[p].todo = run[p].todo
        <3>1. run[p] = [pc |-> run[p].pc, todo |-> run[p].todo, doc |-> run[p].doc, plan |-> run[p].plan]
            BY DEF RunInv, RunOf
        <3>2. CASE GoOn(p)
            <4>1. Busy(p) /\ run[p].todo # << >> /\ git' = git
                BY <1>9 DEF Read, Busy
            <4> QED
                BY <3>2, <4>1, GoesOn
        <3>3. CASE Turn(p, AtRest)
            BY <3>3 DEF Turn, AtRest, RunInv
        <3>4. CASE Turn(p, [run[p] EXCEPT !.pc = "write", !.doc = docs[Step(p)]])
            BY <3>1, <3>4 DEF Turn, RunInv
        <3> QED
            BY <1>9, <3>2, <3>3, <3>4 DEF Read
    <2>4. HeldOf(p)'
        BY <2>1, <2>3 DEF Step, Writes
    <2> HIDE DEF HeldOf
    <2> QED
        BY <1>2, <1>4, <1>6, <2>1, <2>2, <2>4
<1>10. ASSUME NEW p \in Processes, Write(p) PROVE HeldInv' /\ MineIsKept'
    <2>1. mine' = mine /\ lost' = lost
        BY <1>10 DEF Write
    <2> DEFINE f == Step(p)
               now == Written(f, run[p].doc, run[p].plan)
    <2>2. /\ Writes(p) /\ Busy(p) /\ RunOf(p) /\ f \in Files
          /\ docs' = [docs EXCEPT ![f] = now]
        BY <1>10, WhatIsWritten
    <2>3. /\ docs'[f] = now /\ \A g \in Files \ {f} : docs'[g] = docs[g]
        <3> HIDE DEF f, now
        <3> QED
            BY <2>2, OneWritten
    <2>4. run'[p].pc = "read" /\ \A q \in Processes \ {p} : run'[q] = run[q]
        BY <1>10, <2>2, GoesOn DEF Write, RunOf
    <2>5. ASSUME NEW q \in Processes \ {p} PROVE HeldOf(q)'
        <3>1. SUFFICES ASSUME Writes(q)', Step(q)' \in DOMAIN Texts \ lost' PROVE run'[q].doc = docs'[Step(q)']
            OBVIOUS
        <3>2. Writes(q) /\ Step(q)' = Step(q) /\ Step(q) \in DOMAIN Texts \ lost
            BY <2>1, <2>4, <3>1 DEF Writes, Step
        <3>3. q = "init" /\ Step(q) \in UserFiles
            BY <3>2, InitWritesAlone
        <3>4. p = "server" /\ Duty(p) \cap UserFiles = {} /\ f \in Duty(p)
            BY <1>10, <2>2, <3>3, DueFiles, WhatIsWritten DEF Processes
        <3>5. Step(q) # f /\ Step(q) \in Files
            BY <1>1, <3>3, <3>4
        <3>6. run[q].doc = docs[Step(q)]
            BY <3>2 DEF HeldInv
        <3> QED
            BY <2>3, <2>4, <3>2, <3>5, <3>6
    <2>6. HeldInv'
        <3> HIDE DEF HeldOf
        <3> QED
            BY <1>5, <1>6, <2>4, <2>5
    <2>7. ASSUME NEW g \in DOMAIN Texts \ lost PROVE Keeps(g, mine[g], docs'[g])
        <3>1. g \in UserFiles /\ g \in Files /\ Keeps(g, mine[g], docs[g]) /\ IsDoc(g, mine[g])
            BY <1>1 DEF MineIsKept, DocsInv
        <3>2. CASE g # f
            BY <2>3, <3>1, <3>2
        <3>3. CASE g = f
            <4>1. run[p].doc = docs[g]
                BY <2>2, <3>3 DEF HeldInv
            <4>2. IsDoc(g, docs[g]) /\ ~IsDone(g, docs[g]) /\ ~Refuses(g, docs[g])
                BY <2>2, <3>3, <4>1 DEF RunOf
            <4>3. docs'[g] = Written(g, docs[g], run[p].plan)
                BY <2>3, <3>3, <4>1
            <4> QED
                BY <3>1, <4>2, <4>3, WriteKeeps
        <3> QED
            BY <3>2, <3>3
    <2>8. MineIsKept'
        BY <2>1, <2>7 DEF MineIsKept
    <2> QED
        BY <2>6, <2>8
<1>11. ASSUME NEW p \in Processes, CutShort(p) PROVE HeldInv' /\ MineIsKept'
    <2>1. mine' = mine /\ lost' = lost \cup {Step(p)} /\ Turn(p, AtRest) /\ git' = git /\ Writes(p)
        BY <1>11 DEF CutShort, Writes
    <2>2. \A g \in Files \ {Step(p)} : docs'[g] = docs[g]
        BY <1>11 DEF CutShort, DocsInv
    <2>3. run'[p].pc # "write" /\ \A q \in Processes \ {p} : run'[q] = run[q]
        BY <2>1, Stops DEF Turn, RunInv, AtRest
    <2>4. ASSUME NEW q \in Processes \ {p} PROVE HeldOf(q)'
        <3>1. SUFFICES ASSUME Writes(q)', Step(q)' \in DOMAIN Texts \ lost' PROVE run'[q].doc = docs'[Step(q)']
            OBVIOUS
        <3>2. Writes(q) /\ Step(q)' = Step(q) /\ Step(q) \in DOMAIN Texts \ lost /\ Step(q) # Step(p)
            BY <2>1, <2>3, <3>1 DEF Writes, Step
        <3>3. run[q].doc = docs[Step(q)] /\ Step(q) \in Files
            BY <1>1, <3>2 DEF HeldInv
        <3> QED
            BY <2>2, <2>3, <3>2, <3>3
    <2>5. HeldInv'
        <3> HIDE DEF HeldOf
        <3> QED
            BY <1>5, <1>6, <2>3, <2>4
    <2>6. MineIsKept'
        BY <1>1, <2>1, <2>2 DEF MineIsKept
    <2> QED
        BY <2>5, <2>6
<1>12. ASSUME NEW p \in Processes, Turn(p, AtRest), docs' = docs, mine' = mine, lost' = lost, git' = git
       PROVE  HeldInv' /\ MineIsKept'
    <2>1. run'[p].pc # "write" /\ \A q \in Processes \ {p} : run'[q] = run[q]
        BY <1>12 DEF Turn, RunInv, AtRest
    <2> HIDE DEF HeldOf
    <2> QED
        BY <1>2, <1>4, <1>5, <1>6, <1>12, <2>1
<1>13. ASSUME NEW p \in Processes, Die(p) PROVE HeldInv' /\ MineIsKept'
    BY <1>12, <1>13 DEF Die
<1>14. ASSUME NEW p \in Processes, Complete(p) PROVE HeldInv' /\ MineIsKept'
    BY <1>12, <1>14 DEF Complete
<1>15. ASSUME NEW f \in DOMAIN Texts, Change(f) PROVE HeldInv' /\ MineIsKept'
    <2>1. PICK doc \in Texts[f] : docs' = [docs EXCEPT ![f] = doc]
        BY <1>15 DEF Change
    <2>2. f \in Files /\ f \in UserFiles /\ IsDoc(f, doc)
        BY <1>1, SetupAssumption
    <2>3. /\ run' = run /\ mine' = [mine EXCEPT ![f] = docs'[f]]
          /\ lost' = IF Held(f) THEN lost \cup {f} ELSE lost \ {f}
        BY <1>15 DEF Change
    <2>4. docs'[f] = doc /\ \A g \in Files \ {f} : docs'[g] = docs[g]
        BY <2>1, <2>2, OneWritten
    <2>5. mine'[f] = doc /\ \A g \in Files \ {f} : mine'[g] = mine[g]
        BY <2>2, <2>3, <2>4 DEF DocsInv
    <2>6. ASSUME NEW q \in Processes, Writes(q), Step(q) \in DOMAIN Texts \ lost' PROVE run[q].doc = docs'[Step(q)]
        <3>1. Step(q) # f
            BY <2>3, <2>6 DEF Held, Writes
        <3>2. Step(q) \in DOMAIN Texts \ lost /\ Step(q) \in Files
            BY <1>1, <2>3, <2>6, <3>1
        <3> QED
            BY <2>4, <2>6, <3>1, <3>2 DEF HeldInv
    <2>7. HeldInv'
        BY <2>3, <2>6 DEF HeldInv, Writes, Step
    <2>8. ASSUME NEW g \in DOMAIN Texts \ lost' PROVE Keeps(g, mine'[g], docs'[g])
        <3>1. CASE g = f
            BY <2>2, <2>4, <2>5, <3>1, KeepsItself
        <3>2. CASE g # f
            BY <1>1, <2>3, <2>4, <2>5, <3>2 DEF MineIsKept
        <3> QED
            BY <3>1, <3>2
    <2> QED
        BY <2>7, <2>8 DEF MineIsKept
<1>16. CASE Reinstall
    BY <1>2, <1>3, <1>16 DEF Reinstall
<1>17. CASE UNCHANGED setupVars
    BY <1>2, <1>3, <1>17 DEF setupVars
<1> QED
    BY <1>7, <1>8, <1>9, <1>10, <1>11, <1>13, <1>14, <1>15, <1>16, <1>17 DEF SetupNext

LEMMA WorkInit == SetupInit => DocsInv /\ RunInv /\ HeldInv /\ MineIsKept
<1> SUFFICES ASSUME SetupInit PROVE DocsInv /\ RunInv /\ HeldInv /\ MineIsKept
    OBVIOUS
<1>1. DocsInv
    BY SetupAssumption DEF SetupInit, DocsInv
<1>2. \A p \in Processes : run[p] = AtRest
    BY DEF SetupInit
<1>3. RunInv
    BY <1>2 DEF SetupInit, RunInv, RunOf, AtRest, Busy, Writes
<1>4. HeldInv
    BY <1>2 DEF HeldInv, AtRest, Writes
<1>5. MineIsKept
    <2>1. DOMAIN Texts \subseteq UserFiles /\ UserFiles \subseteq Files
        BY SetupAssumption DEF UserFiles, Files
    <2>2. mine = docs
        BY DEF SetupInit
    <2> QED
        BY <1>1, <2>1, <2>2, KeepsItself DEF MineIsKept, DocsInv
<1> QED
    BY <1>1, <1>3, <1>4, <1>5

(* Setup: what the user put into a file is in it after any number of       *)
(* installs, failed ones included, unless its write was cut short or it was*)
(* changed between the read and the write of a step.                       *)
THEOREM InstallsKeepMine == SetupSpec => []MineIsKept
<1>1. SetupInit => DocsInv /\ RunInv /\ HeldInv /\ MineIsKept
    BY WorkInit
<1>2. DocsInv /\ RunInv /\ HeldInv /\ MineIsKept /\ [SetupNext]_setupVars
        => DocsInv' /\ RunInv' /\ HeldInv' /\ MineIsKept'
    BY WorkStep, KeptStep
<1> QED
    BY <1>1, <1>2, PTL DEF SetupSpec

-----------------------------------------------------------------------------
(* While nobody changes a file, init has settled what it no longer has to  *)
(* do; what it carried out last stays settled, and it does the same again; *)
(* a server writes to the directory only where nothing is.                 *)
Command == McpCommand(run["init"].plan)
LastCommand == McpCommand(last.plan)

InitSettled == Busy("init") /\ calm => \A f \in ToSet(Todo(run["init"].plan)) :
    f \in ToSet(run["init"].todo) \/ Settled(f, docs[f], Command)
LastSettled == last # << >> =>
    IsPlan(last.plan) /\ \A f \in ToSet(Todo(last.plan)) : Settled(f, docs[f], LastCommand)
SamePlan == last # << >> =>
    /\ Busy("init") => run["init"].plan = last.plan
    /\ Writes("init") => run["init"].doc = docs[Step("init")]
ServerWrites == Writes("server") /\ Step("server") # Data =>
    \/ Step("server") \in lost \/ docs[Step("server")].state = "absent"
    \/ docs[Step("server")] = Fixed(Step("server"))

(* A step of a process, seen from that process and from the other.         *)
LEMMA ReadsOne ==
    ASSUME DocsInv, RunInv, NEW p \in Processes, Read(p)
    PROVE  /\ Busy(p) /\ Step(p) \in Duty(p) /\ Step(p) \in Files
           /\ ToSet(run[p].todo) \subseteq {Step(p)} \cup ToSet(Tail(run[p].todo))
           /\ UNCHANGED <<docs, exe, git, lost, calm, last>>
           /\ \A q \in Processes \ {p} : run'[q] = run[q]
           /\ \/ /\ run'[p].pc = "read" /\ run'[p].plan = run[p].plan /\ IsDone(Step(p), docs[Step(p)])
                 /\ run'[p].todo = Tail(run[p].todo)
              \/ run'[p].pc = "idle"
              \/ /\ run'[p].pc = "write" /\ run'[p].plan = run[p].plan /\ run'[p].todo = run[p].todo
                 /\ run'[p].doc = docs[Step(p)]
                 /\ ~IsDone(Step(p), docs[Step(p)]) /\ ~Refuses(Step(p), docs[Step(p)])
<1>1. Busy(p) /\ run[p].todo # << >> /\ UNCHANGED <<docs, exe, git, lost, calm, last>>
    BY DEF Read, Busy
<1>2. run[p] = [pc |-> run[p].pc, todo |-> run[p].todo, doc |-> run[p].doc, plan |-> run[p].plan]
    BY DEF RunInv, RunOf
<1>3. run[p].todo \in Seq(Duty(p)) /\ Duty(p) \subseteq Files
    BY <1>1, DueFiles
<1>4. /\ Step(p) \in Duty(p) /\ Step(p) \in Files
      /\ ToSet(run[p].todo) \subseteq {Step(p)} \cup ToSet(Tail(run[p].todo))
    BY <1>1, <1>3, FirstLeft DEF Step
<1>5. CASE GoOn(p) /\ IsDone(Step(p), docs[Step(p)])
    BY <1>1, <1>4, <1>5, GoesOn
<1>6. CASE Turn(p, AtRest)
    BY <1>1, <1>4, <1>6 DEF Turn, AtRest, RunInv
<1>7. CASE /\ Turn(p, [run[p] EXCEPT !.pc = "write", !.doc = docs[Step(p)]])
           /\ ~IsDone(Step(p), docs[Step(p)]) /\ ~Refuses(Step(p), docs[Step(p)])
    BY <1>1, <1>2, <1>4, <1>7 DEF Turn, RunInv
<1> QED
    BY <1>5, <1>6, <1>7 DEF Read

LEMMA WritesOne ==
    ASSUME DocsInv, RunInv, NEW p \in Processes, Write(p)
    PROVE  /\ Busy(p) /\ Writes(p) /\ Step(p) \in Duty(p) /\ Step(p) \in Files
           /\ ToSet(run[p].todo) \subseteq {Step(p)} \cup ToSet(Tail(run[p].todo))
           /\ UNCHANGED <<exe, git, lost, calm, last>>
           /\ \A q \in Processes \ {p} : run'[q] = run[q]
           /\ run'[p].pc = "read" /\ run'[p].plan = run[p].plan /\ run'[p].todo = Tail(run[p].todo)
           /\ docs'[Step(p)] = Written(Step(p), run[p].doc, run[p].plan)
           /\ Settled(Step(p), docs'[Step(p)], McpCommand(run[p].plan))
           /\ docs' = [f \in Files |-> docs'[f]] /\ \A f \in Files \ {Step(p)} : docs'[f] = docs[f]
<1>1. /\ Busy(p) /\ Writes(p) /\ RunOf(p) /\ Step(p) \in Duty(p) /\ Step(p) \in Files
      /\ docs' = [docs EXCEPT ![Step(p)] = Written(Step(p), run[p].doc, run[p].plan)]
    BY WhatIsWritten
<1>2. run[p].todo \in Seq(Duty(p)) /\ run[p].todo # << >> /\ IsDoc(Step(p), run[p].doc)
    BY <1>1 DEF RunOf
<1>3. ToSet(run[p].todo) \subseteq {Step(p)} \cup ToSet(Tail(run[p].todo))
    BY <1>2, FirstLeft DEF Step
<1>4. UNCHANGED <<exe, git, lost, calm, last>> /\ GoOn(p)
    BY DEF Write
<1>5. /\ \A q \in Processes \ {p} : run'[q] = run[q]
      /\ run'[p].pc = "read" /\ run'[p].plan = run[p].plan /\ run'[p].todo = Tail(run[p].todo)
    BY <1>1, <1>2, <1>4, GoesOn
<1>6. /\ docs'[Step(p)] = Written(Step(p), run[p].doc, run[p].plan)
      /\ docs' = [f \in Files |-> docs'[f]] /\ \A f \in Files \ {Step(p)} : docs'[f] = docs[f]
    BY <1>1, OneWritten
<1>7. Settled(Step(p), Written(Step(p), run[p].doc, run[p].plan), McpCommand(run[p].plan))
    BY <1>1, <1>2, WriteSettles
<1> QED
    BY <1>1, <1>3, <1>4, <1>5, <1>6, <1>7

LEMMA CutsOne ==
    ASSUME DocsInv, RunInv, NEW p \in Processes, CutShort(p)
    PROVE  /\ UNCHANGED <<exe, git, calm>> /\ last' = << >> /\ lost' = lost \cup {Step(p)}
           /\ run'[p].pc = "idle" /\ \A q \in Processes \ {p} : run'[q] = run[q]
           /\ \A f \in Files \ {Step(p)} : docs'[f] = docs[f]
           /\ p = "server" => Step(p) = DirIgnore /\ IsDone(DirIgnore, docs'[DirIgnore])
<1>1. /\ UNCHANGED <<exe, git, calm>> /\ last' = << >> /\ lost' = lost \cup {Step(p)}
      /\ Turn(p, AtRest) /\ Busy(p) /\ run[p].todo # << >>
    BY DEF CutShort, Busy, RunInv, RunOf, Writes
<1>2. run'[p].pc = "idle" /\ \A q \in Processes \ {p} : run'[q] = run[q]
    BY <1>1 DEF Turn, AtRest, RunInv
<1>3. \A f \in Files \ {Step(p)} : docs'[f] = docs[f]
    BY DEF CutShort, DocsInv
<1>4. ASSUME p = "server" PROVE Step(p) = DirIgnore /\ IsDone(DirIgnore, docs'[DirIgnore])
    <2>1. run[p].todo \in Seq(Duty(p))
        BY <1>1, DueFiles
    <2>2. Step(p) \in {Dir, DirIgnore, Data}
        BY <1>1, <1>4, <2>1, FirstLeft DEF Step, Duty
    <2>3. Step(p) = DirIgnore
        BY <2>2 DEF CutShort
    <2>4. ~Json(DirIgnore) /\ DirIgnore \in Files
        BY PathsDiffer DEF Json, Hooks, DirIgnore, Files
    <2>5. docs'[DirIgnore] = Empty(DirIgnore, "sound")
        BY <2>3, <2>4 DEF CutShort, DocsInv
    <2>6. Empty(DirIgnore, "sound").state = "sound"
        BY <2>4, EmptyIsDoc
    <2> QED
        BY <2>3, <2>5, <2>6, DirSettled
<1> QED
    BY <1>1, <1>2, <1>3, <1>4

LEMMA ServerStep ==
    ASSUME DocsInv, RunInv, ServerWrites, [SetupNext]_setupVars
    PROVE  ServerWrites'
<1> DEFINE f == Step("server")
<1>1. Writes("server") => Busy("server") /\ f \in {Dir, DirIgnore, Data} /\ f \in Files /\ f \notin UserFiles
    <2>1. SUFFICES ASSUME Writes("server") PROVE Busy("server") /\ f \in {Dir, DirIgnore, Data} /\ f \notin UserFiles
        BY DEF Files
    <2>2. /\ Busy("server") /\ run["server"].todo \in Seq(Duty("server")) /\ run["server"].todo # << >>
          /\ Duty("server") \cap UserFiles = {}
        BY <2>1, DueFiles DEF Busy, Writes, RunInv, RunOf, Processes
    <2> QED
        BY <2>2, FirstLeft DEF Step, Duty
<1>2. run'["server"].pc # "write" => ServerWrites'
    BY DEF ServerWrites, Writes
<1>3. ASSUME run'["server"] = run["server"], lost \subseteq lost',
             Writes("server") /\ f # Data => docs'[f] = docs[f] \/ docs'[f] = Fixed(f) \/ f \in lost'
      PROVE  ServerWrites'
    BY <1>3 DEF ServerWrites, Writes, Step
<1>4. "server" \in Processes /\ "init" \in Processes /\ \A p \in Processes : p # "server" => p = "init"
    BY DEF Processes
<1>5. ASSUME NEW plan, Start(plan) PROVE ServerWrites'
    BY <1>3, <1>5 DEF Start, Turn, RunInv, Processes
<1>6. CASE Record
    BY <1>2, <1>6 DEF Record, Turn, RunInv, Processes, AtRest
<1>7. ASSUME NEW p \in Processes, Read(p) PROVE ServerWrites'
    <2>1. UNCHANGED <<docs, lost>> /\ \A q \in Processes \ {p} : run'[q] = run[q]
        BY <1>7, ReadsOne
    <2>2. CASE p # "server"
        BY <1>3, <1>4, <2>1, <2>2
    <2>3. CASE p = "server" /\ run'[p].pc = "write"
        <3>1. /\ f \in Duty(p) /\ f \in Files /\ run'[p].todo = run[p].todo
              /\ ~IsDone(f, docs[f]) /\ ~Refuses(f, docs[f])
            BY <1>7, <2>3, ReadsOne
        <3>2. IsDoc(f, docs[f]) /\ f \in {Dir, DirIgnore, Data}
            BY <2>3, <3>1 DEF DocsInv, Duty
        <3>3. docs[f].state = "absent"
            <4> HIDE DEF f
            <4> QED
                BY <3>1, <3>2, DirSettled
        <3> QED
            BY <2>1, <2>3, <3>1, <3>3 DEF ServerWrites, Step
    <2> QED
        BY <1>2, <2>2, <2>3
<1>8. ASSUME NEW p \in Processes, Write(p) PROVE ServerWrites'
    <2>1. CASE p = "server"
        BY <1>2, <1>8, <2>1, WritesOne
    <2>2. CASE p = "init"
        <3>1. /\ lost' = lost /\ run'["server"] = run["server"]
              /\ docs'[Step(p)] = Written(Step(p), run[p].doc, run[p].plan)
              /\ \A g \in Files \ {Step(p)} : docs'[g] = docs[g]
            BY <1>4, <1>8, <2>2, WritesOne
        <3>2. ASSUME f = Step(p), f \in {Dir, DirIgnore, Data} PROVE docs'[f] = Fixed(f)
            BY <3>1, <3>2, FixedWritten
        <3> HIDE DEF f
        <3> QED
            BY <1>1, <1>3, <3>1, <3>2
    <2> QED
        BY <1>4, <2>1, <2>2
<1>9. ASSUME NEW p \in Processes, CutShort(p) PROVE ServerWrites'
    <2>1. /\ lost' = lost \cup {Step(p)} /\ run'[p].pc = "idle"
          /\ \A q \in Processes \ {p} : run'[q] = run[q]
          /\ \A g \in Files \ {Step(p)} : docs'[g] = docs[g]
        BY <1>9, CutsOne
    <2>2. CASE p = "server"
        BY <1>2, <2>1, <2>2
    <2>3. CASE p = "init"
        <3>1. run'["server"] = run["server"]
            BY <1>4, <2>1, <2>3
        <3> HIDE DEF f
        <3> QED
            BY <1>1, <1>3, <2>1, <3>1
    <2> QED
        BY <1>4, <2>2, <2>3
<1>10. ASSUME NEW p \in Processes, Turn(p, AtRest), UNCHANGED <<docs, lost>> PROVE ServerWrites'
    <2>1. run'[p].pc = "idle" /\ \A q \in Processes \ {p} : run'[q] = run[q]
        BY <1>10 DEF Turn, AtRest, RunInv
    <2> HIDE DEF f
    <2> QED
        BY <1>2, <1>3, <1>4, <1>10, <2>1
<1>11. ASSUME NEW p \in Processes, Die(p) PROVE ServerWrites'
    BY <1>10, <1>11 DEF Die
<1>12. ASSUME NEW p \in Processes, Complete(p) PROVE ServerWrites'
    BY <1>10, <1>12 DEF Complete
<1>13. ASSUME NEW g \in DOMAIN Texts, Change(g) PROVE ServerWrites'
    <2>1. g \in UserFiles
        BY SetupAssumption DEF UserFiles
    <2>2. run' = run /\ \A h \in Files \ {g} : docs'[h] = docs[h]
        BY <1>13 DEF Change, DocsInv
    <2>3. lost \ {g} \subseteq lost'
        BY <1>13 DEF Change
    <2> QED
        BY <1>1, <2>1, <2>2, <2>3 DEF ServerWrites, Writes, Step
<1>14. CASE Reinstall
    BY <1>3, <1>14 DEF Reinstall
<1>15. CASE UNCHANGED setupVars
    BY <1>3, <1>15 DEF setupVars
<1> QED
    BY <1>5, <1>6, <1>7, <1>8, <1>9, <1>11, <1>12, <1>13, <1>14, <1>15 DEF SetupNext

LEMMA InitStep ==
    ASSUME DocsInv, RunInv, InitSettled, [SetupNext]_setupVars
    PROVE  InitSettled'
<1> DEFINE init == run["init"]
           F == ToSet(Todo(run["init"].plan))
<1>1. "server" \in Processes /\ "init" \in Processes /\ \A p \in Processes : p = "server" \/ p = "init"
    BY DEF Processes
<1>2. Busy("init") => F \subseteq Files
    BY <1>1, DueFiles DEF Duty
<1>3. run'["init"].pc = "idle" => InitSettled'
    BY DEF InitSettled, Busy
<1>4. ASSUME Busy("init"), run'["init"].plan = run["init"].plan, exe' = exe, calm' => calm,
             \A f \in F : \/ f \in ToSet(run["init"].todo) /\ f \in ToSet(run'["init"].todo)
                          \/ docs'[f] = docs[f] /\ ~(f \in ToSet(run["init"].todo))
                          \/ Settled(f, docs'[f], Command)
      PROVE  InitSettled'
    <2>1. Command' = Command /\ ToSet(Todo(run["init"].plan))' = F
        BY <1>4 DEF Command, McpCommand
    <2>2. ASSUME calm', NEW f \in F PROVE f \in ToSet(run'["init"].todo) \/ Settled(f, docs'[f], Command)
        <3>1. f \in ToSet(run["init"].todo) \/ Settled(f, docs[f], Command)
            BY <1>4, <2>2 DEF InitSettled
        <3> QED
            BY <1>4, <2>2, <3>1
    <2> HIDE DEF F
    <2> QED
        BY <2>1, <2>2 DEF InitSettled
<1>5. ASSUME run'["init"] = run["init"], exe' = exe, calm' => calm,
             Busy("init") => \A f \in F : docs'[f] = docs[f] \/ Settled(f, docs'[f], Command)
      PROVE  InitSettled'
    <2>1. CASE Busy("init")
        <3> HIDE DEF F
        <3> QED
            BY <1>4, <1>5, <2>1
    <2>2. CASE ~Busy("init")
        BY <1>3, <1>5, <2>2 DEF Busy
    <2> QED
        BY <2>1, <2>2
<1>6. ASSUME NEW plan, Start(plan) PROVE InitSettled'
    <2>1. PICK chosenPlan :
            Turn("init", [pc |-> "read", todo |-> Todo(chosenPlan), doc |-> << >>, plan |-> chosenPlan])
        BY <1>6 DEF Start
    <2>2. run'["init"].todo = Todo(chosenPlan) /\ run'["init"].plan = chosenPlan
        BY <1>1, <2>1 DEF Turn, RunInv
    <2> QED
        BY <2>2 DEF InitSettled
<1>7. CASE Record
    BY <1>1, <1>5, <1>7 DEF Record, Turn, RunInv
<1>8. ASSUME NEW p \in Processes, Read(p) PROVE InitSettled'
    <2>1. UNCHANGED <<docs, exe, calm>> /\ \A q \in Processes \ {p} : run'[q] = run[q]
        BY <1>8, ReadsOne
    <2>2. CASE p = "server"
        BY <1>1, <1>5, <2>1, <2>2
    <2>3. CASE p = "init" /\ run'[p].pc = "read"
        <3>1. /\ Busy("init") /\ run'["init"].plan = run["init"].plan /\ IsDone(Step("init"), docs[Step("init")])
              /\ run'["init"].todo = Tail(run["init"].todo)
              /\ ToSet(run["init"].todo) \subseteq {Step("init")} \cup ToSet(Tail(run["init"].todo))
            BY <1>8, <2>3, ReadsOne
        <3>2. Settled(Step("init"), docs[Step("init")], Command)
            BY <3>1 DEF Settled
        <3> HIDE DEF F
        <3> QED
            BY <1>4, <2>1, <3>1, <3>2
    <2>4. CASE p = "init" /\ run'[p].pc = "write"
        <3>1. Busy("init") /\ run'["init"].plan = run["init"].plan /\ run'["init"].todo = run["init"].todo
            BY <1>8, <2>4, ReadsOne
        <3> HIDE DEF F
        <3> QED
            BY <1>4, <2>1, <3>1
    <2>5. run'[p].pc \in {"read", "write", "idle"}
        BY <1>8, ReadsOne
    <2> QED
        BY <1>1, <1>3, <2>2, <2>3, <2>4, <2>5
<1>9. ASSUME NEW p \in Processes, Write(p) PROVE InitSettled'
    <2>1. /\ UNCHANGED <<exe, calm>> /\ Busy(p) /\ Writes(p) /\ Step(p) \in Duty(p)
          /\ \A q \in Processes \ {p} : run'[q] = run[q]
          /\ \A f \in Files \ {Step(p)} : docs'[f] = docs[f]
          /\ docs'[Step(p)] = Written(Step(p), run[p].doc, run[p].plan)
        BY <1>9, WritesOne
    <2>2. CASE p = "server"
        <3>1. docs'[Step(p)] = Fixed(Step(p)) /\ Step(p) \in {Dir, DirIgnore, Data}
            BY <2>1, <2>2, FixedWritten DEF Duty
        <3>2. Settled(Step(p), docs'[Step(p)], Command)
            BY <3>1, DirSettled DEF Fixed
        <3> HIDE DEF F
        <3> QED
            BY <1>1, <1>2, <1>5, <2>1, <2>2, <3>2
    <2>3. CASE p = "init"
        <3>1. /\ run'[p].plan = run[p].plan /\ run'[p].todo = Tail(run[p].todo)
              /\ ToSet(run[p].todo) \subseteq {Step(p)} \cup ToSet(Tail(run[p].todo))
              /\ Settled(Step(p), docs'[Step(p)], McpCommand(run[p].plan))
            BY <1>9, WritesOne
        <3>2. Settled(Step(p), docs'[Step(p)], Command)
            BY <2>3, <3>1 DEF Command
        <3> HIDE DEF F
        <3> QED
            BY <1>2, <1>4, <2>1, <2>3, <3>1, <3>2
    <2> QED
        BY <1>1, <2>2, <2>3
<1>10. ASSUME NEW p \in Processes, CutShort(p) PROVE InitSettled'
    <2>1. /\ UNCHANGED <<exe, calm>> /\ run'[p].pc = "idle" /\ \A q \in Processes \ {p} : run'[q] = run[q]
          /\ \A f \in Files \ {Step(p)} : docs'[f] = docs[f]
          /\ p = "server" => Step(p) = DirIgnore /\ IsDone(DirIgnore, docs'[DirIgnore])
        BY <1>10, CutsOne
    <2>2. CASE p = "server"
        <3>1. Settled(DirIgnore, docs'[DirIgnore], Command)
            BY <2>1, <2>2 DEF Settled
        <3> HIDE DEF F
        <3> QED
            BY <1>1, <1>2, <1>5, <2>1, <2>2, <3>1
    <2> QED
        BY <1>1, <1>3, <2>1, <2>2
<1>11. ASSUME NEW p \in Processes, Turn(p, AtRest), UNCHANGED <<docs, exe, calm>> PROVE InitSettled'
    <2>1. run'[p].pc = "idle" /\ \A q \in Processes \ {p} : run'[q] = run[q]
        BY <1>11 DEF Turn, AtRest, RunInv
    <2> HIDE DEF F
    <2> QED
        BY <1>1, <1>3, <1>5, <1>11, <2>1
<1>12. ASSUME NEW p \in Processes, Die(p) PROVE InitSettled'
    BY <1>11, <1>12 DEF Die
<1>13. ASSUME NEW p \in Processes, Complete(p) PROVE InitSettled'
    BY <1>11, <1>13 DEF Complete
<1>14. ASSUME NEW g \in DOMAIN Texts, Change(g) PROVE InitSettled'
    BY <1>14 DEF Change, InitSettled
<1>15. CASE Reinstall
    BY <1>3, <1>15 DEF Reinstall
<1>16. CASE UNCHANGED setupVars
    BY <1>5, <1>16 DEF setupVars
<1> QED
    BY <1>6, <1>7, <1>8, <1>9, <1>10, <1>12, <1>13, <1>14, <1>15, <1>16 DEF SetupNext

LEMMA LastStep ==
    ASSUME DocsInv, RunInv, InitSettled, ServerWrites, LastSettled, SamePlan, RerunChangesNothing,
           [SetupNext]_setupVars
    PROVE  LastSettled' /\ SamePlan' /\ RerunChangesNothing'
<1> DEFINE F == ToSet(Todo(last.plan))
           All == LastSettled' /\ SamePlan' /\ RerunChangesNothing'
<1>1. "server" \in Processes /\ "init" \in Processes /\ \A p \in Processes : p = "server" \/ p = "init"
    BY DEF Processes
<1>2. ASSUME last' = last, exe' = exe, git' = git, last # << >>,
             \A f \in F : docs'[f] = docs[f] \/ Settled(f, docs'[f], LastCommand)
      PROVE  LastSettled'
    <2>1. LastCommand' = LastCommand /\ ToSet(Todo(last.plan))' = F /\ (IsPlan(last.plan) => IsPlan(last.plan)')
        BY <1>2 DEF LastCommand, McpCommand, IsPlan
    <2>2. ASSUME NEW f \in F PROVE Settled(f, docs'[f], LastCommand)
        <3>1. Settled(f, docs[f], LastCommand)
            BY <1>2 DEF LastSettled
        <3> QED
            BY <1>2, <3>1
    <2> HIDE DEF F
    <2> QED
        BY <1>2, <2>1, <2>2 DEF LastSettled
<1>3. last' = << >> => All
    BY DEF LastSettled, SamePlan, RerunChangesNothing
<1>4. last' = last /\ docs' = docs /\ exe' = exe /\ git' = git => LastSettled'
    <2> HIDE DEF F
    <2> QED
        BY <1>2 DEF LastSettled
<1>5. last' = last /\ docs' = docs /\ lost' = lost => RerunChangesNothing'
    BY DEF RerunChangesNothing
<1>6. ASSUME last' = last, docs' = docs, run'["init"] = run["init"] PROVE SamePlan'
    BY <1>6 DEF SamePlan, Busy, Writes, Step
<1>7. ASSUME last' = last, run'["init"].pc = "idle" PROVE SamePlan'
    BY <1>7 DEF SamePlan, Busy, Writes
<1>8. ASSUME NEW plan, Start(plan) PROVE All
    <2>1. PICK chosenPlan :
            /\ Turn("init", [pc |-> "read", todo |-> Todo(chosenPlan), doc |-> << >>, plan |-> chosenPlan])
            /\ last' = IF last # << >> /\ last.plan = chosenPlan THEN last ELSE << >>
        BY <1>8 DEF Start
    <2>2. run'["init"].pc = "read" /\ run'["init"].plan = chosenPlan
        BY <1>1, <2>1 DEF Turn, RunInv
    <2>3. UNCHANGED <<docs, exe, git, lost>>
        BY <1>8 DEF Start
    <2>4. CASE last' = last /\ last.plan = chosenPlan
        <3>1. SamePlan'
            BY <2>2, <2>4 DEF SamePlan, Busy, Writes
        <3> QED
            BY <1>4, <1>5, <2>3, <2>4, <3>1
    <2> QED
        BY <1>3, <2>1, <2>4
<1>9. CASE Record
    <2>1. UNCHANGED <<docs, exe, git, lost, last>> /\ run'["init"] = run["init"]
        BY <1>9 DEF Record, Turn, RunInv, Processes
    <2> QED
        BY <1>4, <1>5, <1>6, <2>1
<1>10. ASSUME NEW p \in Processes, Read(p) PROVE All
    <2>1. UNCHANGED <<docs, exe, git, lost, last>> /\ \A q \in Processes \ {p} : run'[q] = run[q]
        BY <1>10, ReadsOne
    <2>2. CASE p = "server"
        BY <1>1, <1>4, <1>5, <1>6, <2>1, <2>2
    <2>3. CASE p = "init"
        <3>1. \/ run'[p].pc = "read" /\ run'[p].plan = run[p].plan
              \/ run'[p].pc = "idle"
              \/ /\ run'[p].pc = "write" /\ run'[p].plan = run[p].plan /\ run'[p].todo = run[p].todo
                 /\ run'[p].doc = docs[Step(p)]
            BY <1>10, ReadsOne
        <3>2. Busy(p)
            BY <1>10, ReadsOne
        <3>3. SamePlan'
            BY <2>1, <2>3, <3>1, <3>2 DEF SamePlan, Busy, Writes, Step
        <3> QED
            BY <1>4, <1>5, <2>1, <3>3
    <2> QED
        BY <1>1, <2>2, <2>3
<1>11. ASSUME NEW p \in Processes, Write(p) PROVE All
    <2>1. /\ UNCHANGED <<exe, git, lost, last>> /\ Busy(p) /\ Writes(p) /\ Step(p) \in Duty(p) /\ Step(p) \in Files
          /\ \A q \in Processes \ {p} : run'[q] = run[q]
          /\ docs' = [f \in Files |-> docs'[f]] /\ \A f \in Files \ {Step(p)} : docs'[f] = docs[f]
          /\ docs'[Step(p)] = Written(Step(p), run[p].doc, run[p].plan)
          /\ run'[p].pc = "read" /\ run'[p].plan = run[p].plan
        BY <1>11, WritesOne
    <2>2. CASE last = << >>
        BY <1>3, <2>1, <2>2
    <2>3. CASE last # << >> /\ p = "init"
        <3>1. /\ run[p].plan = last.plan /\ run[p].doc = docs[Step(p)] /\ Step(p) \in F
              /\ ~IsDone(Step(p), docs[Step(p)])
            <4>1. run[p].plan = last.plan /\ run[p].doc = docs[Step(p)]
                BY <2>1, <2>3 DEF SamePlan
            <4>2. ~IsDone(Step(p), run[p].doc)
                BY <2>1 DEF RunInv, RunOf
            <4> QED
                BY <2>1, <2>3, <4>1, <4>2 DEF Duty
        <3>2. Settled(Step(p), docs[Step(p)], McpCommand(run[p].plan))
            BY <2>3, <3>1 DEF LastSettled, LastCommand
        <3>3. docs'[Step(p)] = docs[Step(p)]
            BY <2>1, <3>1, <3>2, SettledStays
        <3>4. docs' = docs
            BY <2>1, <3>3 DEF DocsInv
        <3>5. SamePlan'
            BY <2>1, <2>3, <3>1 DEF SamePlan, Busy, Writes
        <3> QED
            BY <1>4, <1>5, <2>1, <3>4, <3>5
    <2>4. CASE last # << >> /\ p = "server"
        <3> DEFINE f == Step(p)
        <3>1. f \in {Dir, DirIgnore, Data} /\ docs'[f] = Fixed(f) /\ git
            <4>1. f \in {Dir, DirIgnore, Data} /\ git
                BY <1>1, <2>1, <2>4, DueFiles DEF Duty
            <4> QED
                BY <2>1, <4>1, FixedWritten
        <3>2. \A g \in F : g \in Files
            <4>1. IsPlan(last.plan)
                BY <2>4 DEF LastSettled
            <4>2. Todo(last.plan) \in Seq(Files \ {Data})
                BY <4>1, PlannedFiles
            <4> QED
                BY <4>2 DEF ToSet
        <3>3. IsDone(f, docs'[f])
            <4> HIDE DEF f
            <4> QED
                BY <3>1, DirSettled DEF Fixed
        <3>4. LastSettled'
            <4>1. ASSUME NEW g \in F PROVE docs'[g] = docs[g] \/ Settled(g, docs'[g], LastCommand)
                BY <2>1, <3>2, <3>3 DEF Settled
            <4> HIDE DEF F, f
            <4> QED
                BY <1>2, <2>1, <2>4, <4>1
        <3>5. f # Data => f \in F
            <4>1. IsPlan(last.plan)
                BY <2>4 DEF LastSettled
            <4>2. {Dir, DirIgnore} \subseteq F
                BY <3>1, <4>1, PlannedFiles
            <4> QED
                BY <3>1, <4>2
        <3>6. f # Data => IsDone(f, docs[f]) /\ docs[f].state # "absent"
            <4>1. f # Data => Settled(f, docs[f], LastCommand)
                BY <2>4, <3>5 DEF LastSettled
            <4> HIDE DEF f
            <4> QED
                BY <3>1, <4>1, DirSettled
        <3>7. ASSUME NEW g \in Files \ ({Data} \cup lost) PROVE docs'[g] = docs[g]
            <4>1. CASE g = f
                <5>1. docs[f] = Fixed(f)
                    BY <2>1, <2>4, <3>6, <3>7, <4>1 DEF ServerWrites
                <5> QED
                    BY <3>1, <4>1, <5>1
            <4> QED
                BY <2>1, <4>1
        <3>8. RerunChangesNothing'
            BY <2>1, <2>4, <3>7 DEF RerunChangesNothing
        <3>9. SamePlan'
            <4>1. run'["init"] = run["init"]
                BY <1>1, <2>1, <2>4
            <4>2. ASSUME Writes("init") PROVE docs'[Step("init")] = docs[Step("init")]
                <5>1. /\ Step("init") \in Files /\ Step("init") # Data /\ run["init"].doc = docs[Step("init")]
                      /\ ~IsDone(Step("init"), docs[Step("init")])
                    <6>1. RunOf("init") /\ Busy("init")
                        BY <1>1, <4>2 DEF RunInv, Busy, Writes
                    <6>2. /\ run["init"].todo \in Seq(Duty("init")) /\ run["init"].todo # << >>
                          /\ Duty("init") \subseteq Files /\ Data \notin Duty("init")
                        BY <1>1, <4>2, <6>1, DueFiles DEF RunOf
                    <6>3. Step("init") \in Duty("init")
                        BY <6>2, FirstLeft DEF Step
                    <6>4. run["init"].doc = docs[Step("init")]
                        BY <2>4, <4>2 DEF SamePlan
                    <6> QED
                        BY <4>2, <6>1, <6>2, <6>3, <6>4 DEF RunOf
                <5>2. Step("init") # f
                    BY <3>6, <5>1
                <5> QED
                    BY <2>1, <5>1, <5>2
            <4> HIDE DEF f, F
            <4> QED
                BY <2>1, <2>4, <4>1, <4>2 DEF SamePlan, Busy, Writes, Step
        <3> QED
            BY <3>4, <3>8, <3>9
    <2> QED
        BY <1>1, <2>2, <2>3, <2>4
<1>12. ASSUME NEW p \in Processes, CutShort(p) PROVE All
    <2> HIDE DEF All
    <2> QED
        BY <1>3, <1>12 DEF CutShort
<1>13. ASSUME NEW p \in Processes, Die(p) PROVE All
    <2>1. UNCHANGED <<docs, exe, git, lost, last>> /\ run'[p].pc = "idle" /\ \A q \in Processes \ {p} : run'[q] = run[q]
        BY <1>13 DEF Die, Turn, AtRest, RunInv
    <2> QED
        BY <1>1, <1>4, <1>5, <1>6, <1>7, <2>1
<1>14. ASSUME NEW p \in Processes, Complete(p) PROVE All
    <2>1. /\ UNCHANGED <<docs, exe, git, lost>> /\ run'[p].pc = "idle" /\ \A q \in Processes \ {p} : run'[q] = run[q]
          /\ last' = IF p = "init" /\ calm THEN [plan |-> run[p].plan, docs |-> docs] ELSE last
          /\ run[p].pc = "read" /\ run[p].todo = << >>
        BY <1>14 DEF Complete, Turn, AtRest, RunInv
    <2>2. CASE last' = last
        BY <1>1, <1>4, <1>5, <1>6, <1>7, <2>1, <2>2
    <2>3. CASE p = "init" /\ calm /\ last' = [plan |-> run[p].plan, docs |-> docs]
        <3>1. last'.plan = run[p].plan /\ last'.docs = docs
            BY <2>3
        <3>2. Busy(p) /\ ToSet(run[p].todo) = {} /\ IsPlan(run[p].plan)
            <4>1. Busy(p) /\ ToSet(<<>>) = {}
                BY <2>1 DEF Busy, ToSet
            <4> QED
                BY <1>1, <2>1, <2>3, <4>1 DEF RunInv, RunOf
        <3>3. \A f \in ToSet(Todo(run[p].plan)) : Settled(f, docs[f], McpCommand(run[p].plan))
            BY <2>3, <3>2 DEF InitSettled, Command
        <3>4. LastSettled'
            <4>1. LastCommand' = McpCommand(run[p].plan) /\ IsPlan(last.plan)'
                BY <2>1, <3>1, <3>2 DEF LastCommand, McpCommand, IsPlan
            <4>2. ToSet(Todo(last.plan))' = ToSet(Todo(run[p].plan))
                BY <3>1
            <4> QED
                BY <2>1, <3>3, <4>1, <4>2 DEF LastSettled
        <3>5. SamePlan'
            BY <2>1, <2>3 DEF SamePlan, Busy, Writes
        <3>6. RerunChangesNothing'
            BY <2>1, <3>1 DEF RerunChangesNothing
        <3> QED
            BY <3>4, <3>5, <3>6
    <2> QED
        BY <2>1, <2>2, <2>3
<1>15. ASSUME NEW g \in DOMAIN Texts, Change(g) PROVE All
    <2> HIDE DEF All
    <2> QED
        BY <1>3, <1>15 DEF Change
<1>16. CASE Reinstall
    <2>1. last' = << >>
        BY <1>16 DEF Reinstall
    <2> QED
        BY <1>3, <2>1
<1>17. CASE UNCHANGED setupVars
    BY <1>4, <1>5, <1>6, <1>17 DEF setupVars
<1> QED
    BY <1>8, <1>9, <1>10, <1>11, <1>12, <1>13, <1>14, <1>15, <1>16, <1>17 DEF SetupNext

(* Setup: once init has gone through, nothing it does again under the same *)
(* plan changes a file, wherever it stops, and nothing the server does to  *)
(* the directory meanwhile.                                                *)
THEOREM InstallsOnce == SetupSpec => []RerunChangesNothing
<1> DEFINE Inv == /\ DocsInv /\ RunInv /\ InitSettled /\ ServerWrites
                  /\ LastSettled /\ SamePlan /\ RerunChangesNothing
<1>1. SetupInit => Inv
    <2> SUFFICES ASSUME SetupInit PROVE Inv
        OBVIOUS
    <2>1. DocsInv /\ RunInv
        BY WorkInit
    <2>2. last = << >> /\ \A p \in Processes : run[p] = AtRest
        BY DEF SetupInit
    <2>3. LastSettled /\ SamePlan /\ RerunChangesNothing
        BY <2>2 DEF LastSettled, SamePlan, RerunChangesNothing
    <2>4. InitSettled /\ ServerWrites
        BY <2>2 DEF InitSettled, ServerWrites, Processes, AtRest, Busy, Writes
    <2> QED
        BY <2>1, <2>3, <2>4
<1>2. Inv /\ [SetupNext]_setupVars => Inv'
    BY WorkStep, ServerStep, InitStep, LastStep
<1>3. Inv => RerunChangesNothing
    OBVIOUS
<1> QED
    BY <1>1, <1>2, <1>3, PTL DEF SetupSpec

-----------------------------------------------------------------------------
(* The defaults are functions of the sections and of their settings, and so*)
(* is what overlays them.                                                  *)
IsFilled(read) ==
    /\ read = [s \in Sections |-> read[s]]
    /\ \A s \in Sections : read[s] = [k \in DOMAIN Default[s] |-> read[s][k]]

LEMMA SettingPath ==
    ASSUME NEW f
    PROVE  f \in Fields <=> \E s \in Sections : \E k \in DOMAIN Default[s] : f = <<s, k>>
BY DEF Fields

LEMMA DefaultIsFilled == IsFilled(Default)
<1>1. Default = [s \in Sections |-> Default[s]]
    BY DEF Default, Sections
<1>2. Sections = {"cache", "project", "duplication", "semantic", "dead_code", "cycles",
        "boundaries", "smells", "action", "gate", "self_improvement"}
    BY DEF Default, Sections
<1>3. ASSUME NEW s \in Sections PROVE Default[s] = [k \in DOMAIN Default[s] |-> Default[s][k]]
    <2>1. CASE s = "cache"
        BY <2>1 DEF Default
    <2>2. CASE s = "project"
        BY <2>2 DEF Default
    <2>3. CASE s = "duplication"
        BY <2>3 DEF Default
    <2>4. CASE s = "semantic"
        BY <2>4 DEF Default
    <2>5. CASE s = "dead_code"
        BY <2>5 DEF Default
    <2>6. CASE s = "cycles"
        BY <2>6 DEF Default
    <2>7. CASE s = "boundaries"
        BY <2>7 DEF Default
    <2>8. CASE s = "smells"
        BY <2>8 DEF Default
    <2>9. CASE s = "action"
        BY <2>9 DEF Default
    <2>10. CASE s = "gate"
        BY <2>10 DEF Default
    <2>11. CASE s = "self_improvement"
        BY <2>11 DEF Default
    <2> QED
        BY <1>2, <2>1, <2>2, <2>3, <2>4, <2>5, <2>6, <2>7, <2>8, <2>9, <2>10, <2>11
<1> QED
    BY <1>1, <1>3 DEF IsFilled

LEMMA OverlaidIs ==
    ASSUME NEW table
    PROVE  /\ IsFilled(Overlaid(table))
           /\ \A s \in Sections : \A k \in DOMAIN Default[s] :
                /\ Given(table, <<s, k>>) = {} => Overlaid(table)[s][k] = Default[s][k]
                /\ Given(table, <<s, k>>) # {} =>
                    \E p \in Given(table, <<s, k>>) : Overlaid(table)[s][k] = table[p]
<1>1. IsFilled(Overlaid(table))
    BY DEF IsFilled, Overlaid
<1>2. ASSUME NEW s \in Sections, NEW k \in DOMAIN Default[s]
      PROVE  Overlaid(table)[s][k] = IF Given(table, <<s, k>>) = {} THEN Default[s][k]
                                     ELSE table[CHOOSE p \in Given(table, <<s, k>>) : TRUE]
    <2>1. <<s, k>> \notin GivenFields(table) <=> Given(table, <<s, k>>) = {}
        BY DEF GivenFields, Given
    <2> QED
        BY <2>1 DEF Overlaid
<1> QED
    BY <1>1, <1>2

LEMMA NothingOverlaid == Overlaid(NoSettings) = Default
<1>1. \A f : Given(NoSettings, f) = {}
    BY DEF Given, NoSettings
<1>2. \A s \in Sections : \A k \in DOMAIN Default[s] : Overlaid(NoSettings)[s][k] = Default[s][k]
    BY <1>1, OverlaidIs
<1>3. IsFilled(Overlaid(NoSettings)) /\ IsFilled(Default)
    BY OverlaidIs, DefaultIsFilled
<1>4. \A s \in Sections : Overlaid(NoSettings)[s] = Default[s]
    BY <1>2, <1>3 DEF IsFilled
<1> QED
    BY <1>3, <1>4 DEF IsFilled

(* The trees that are always left out add to the patterns of four settings *)
(* and change no other.                                                    *)
Excludes == {<<"project", "exclude">>, <<"duplication", "exclude">>, <<"smells", "exclude">>,
             <<"cycles", "exclude">>}

LEMMA ResolvedKeeps ==
    ASSUME NEW read, IsFilled(read),
           \A f \in Excludes : read[f[1]][f[2]] = <<"globs", read[f[1]][f[2]][2]>>
    PROVE  \A f \in Fields : Kept(Resolved(read)[f[1]][f[2]], read[f[1]][f[2]])
<1> DEFINE with(v, more) == [v EXCEPT ![2] = v[2] \cup more]
           part(s, more) == [read[s] EXCEPT !["exclude"] = with(read[s]["exclude"], more)]
<1>1. /\ {"project", "duplication", "smells", "cycles"} \subseteq Sections
      /\ \A s \in {"project", "duplication", "smells", "cycles"} : "exclude" \in DOMAIN Default[s]
    BY DEF Sections, Default
<1>2. \A s \in {"project", "duplication", "smells", "cycles"} :
        read[s]["exclude"] = <<"globs", read[s]["exclude"][2]>>
    BY DEF Excludes
<1>3. ASSUME NEW s \in {"project", "duplication", "smells", "cycles"}, NEW more, NEW k \in DOMAIN Default[s]
      PROVE  Kept(part(s, more)[k], read[s][k])
    <2>1. read[s] = [i \in DOMAIN Default[s] |-> read[s][i]]
        BY <1>1 DEF IsFilled
    <2>2. CASE k = "exclude"
        <3>1. PICK v : v = read[s]["exclude"] /\ v = <<"globs", v[2]>>
            BY <1>2
        <3>2. part(s, more)[k] = with(v, more)
            BY <2>1, <2>2, <3>1
        <3>3. with(v, more)[1] = "globs" /\ with(v, more)[2] = v[2] \cup more /\ v[1] = "globs"
            BY <3>1
        <3> HIDE DEF part, with
        <3> QED
            BY <2>2, <3>1, <3>2, <3>3 DEF Kept
    <2>3. CASE k # "exclude"
        <3>1. part(s, more)[k] = read[s][k]
            BY <2>1, <2>3
        <3> HIDE DEF part
        <3> QED
            BY <3>1 DEF Kept
    <2> QED
        BY <2>2, <2>3
<1>4. \A s \in Sections : Resolved(read)[s] =
        IF s = "project" THEN part(s, Vendored)
        ELSE IF s \in {"duplication", "smells", "cycles"} THEN part(s, Migrations) ELSE read[s]
    BY DEF Resolved, IsFilled
<1>5. ASSUME NEW s \in Sections, NEW k \in DOMAIN Default[s] PROVE Kept(Resolved(read)[s][k], read[s][k])
    <2> HIDE DEF part
    <2>1. CASE s = "project"
        BY <1>3, <1>4, <2>1
    <2>2. CASE s \in {"duplication", "smells", "cycles"}
        BY <1>3, <1>4, <2>2
    <2>3. CASE s \notin {"project", "duplication", "smells", "cycles"}
        BY <1>4, <2>3 DEF Kept
    <2> QED
        BY <2>1, <2>2, <2>3
<1> QED
    BY <1>5, SettingPath

(* What a well-typed table leaves to the four settings are patterns.       *)
LEMMA Patterns ==
    ASSUME NEW table, IsTable(table), Mistyped(table) = {}
    PROVE  \A f \in Excludes : Overlaid(table)[f[1]][f[2]] = <<"globs", Overlaid(table)[f[1]][f[2]][2]>>
<1>1. \A s \in {"project", "duplication", "smells", "cycles"} :
        /\ s \in Sections /\ "exclude" \in DOMAIN Default[s] /\ <<s, "exclude">> \in Fields
        /\ Default[s]["exclude"] = <<"globs", {}>>
    <2>1. \A s \in {"project", "duplication", "smells", "cycles"} :
            s \in Sections /\ "exclude" \in DOMAIN Default[s] /\ Default[s]["exclude"] = <<"globs", {}>>
        BY DEF Sections, Default, Globs
    <2> QED
        BY <2>1, SettingPath
<1>2. ASSUME NEW s \in {"project", "duplication", "smells", "cycles"}
      PROVE  Overlaid(table)[s]["exclude"] = <<"globs", Overlaid(table)[s]["exclude"][2]>>
    <2>1. CASE Given(table, <<s, "exclude">>) = {}
        <3>1. Overlaid(table)[s]["exclude"] = <<"globs", {}>>
            BY <1>1, <2>1, OverlaidIs
        <3> QED
            BY <3>1
    <2>2. CASE Given(table, <<s, "exclude">>) # {}
        <3>1. PICK p \in Given(table, <<s, "exclude">>) : Overlaid(table)[s]["exclude"] = table[p]
            BY <1>1, <2>2, OverlaidIs
        <3>2. p \in DOMAIN table /\ Alias(p) = <<s, "exclude">>
            BY DEF Given
        <3>3. Fits(table[p], <<s, "exclude">>)
            BY <1>1, <3>2 DEF Mistyped
        <3>4. table[p][1] = "globs"
            BY <1>1, <3>3 DEF Fits
        <3>5. table[p] = <<table[p][1], table[p][2]>>
            BY <3>2 DEF IsTable
        <3> QED
            BY <3>1, <3>4, <3>5
    <2> QED
        BY <2>1, <2>2
<1> QED
    BY <1>2 DEF Excludes

LEMMA DefaultPatterns == \A f \in Excludes : Default[f[1]][f[2]] = <<"globs", Default[f[1]][f[2]][2]>>
BY DEF Default, Globs, Excludes

LEMMA EachSettingCounts ==
    ASSUME \A f \in Config : IsDoc(f, docs[f])
    PROVE  SettingsCount
<1> DEFINE repo == Repo(docs)
           table == InForce(repo).table
           loaded == LoadForScan(repo)
           Reported(p) == p \in loaded.issues \/ loaded.issues \cap (BadFile \cup BadValue) # {}
<1>1. IsTable(table)
    BY DEF Repo, InForce, IsDoc, Config
<1>2. CASE Errors(repo) # {}
    <2>1. loaded.config = Resolved(Default) /\ loaded.issues # {}
        BY <1>2, NothingOverlaid DEF LoadForScan
    <2>2. \A f \in Fields : Kept(loaded.config[f[1]][f[2]], Default[f[1]][f[2]])
        BY <2>1, ResolvedKeeps, DefaultIsFilled, DefaultPatterns
    <2> HIDE DEF repo, table, loaded
    <2> QED
        BY <2>1, <2>2 DEF SettingsCount, repo, table, loaded
<1>3. CASE Errors(repo) = {}
    <2>1. /\ loaded.config = Resolved(Overlaid(table)) /\ loaded.issues = Warnings(repo)
          /\ InForce(repo).state # "broken"
          /\ Mistyped(table) = {} /\ Doubled(table) = {} /\ \A p \in Unknown(table) : ~Rejected(p)
        BY <1>3 DEF LoadForScan, Errors, BadFile, BadValue
    <2>2. \A f \in Fields : Kept(loaded.config[f[1]][f[2]], Overlaid(table)[f[1]][f[2]])
        BY ZenonT(30), <1>1, <2>1, ResolvedKeeps, OverlaidIs, Patterns
    <2> HIDE DEF repo, table, loaded
    <2>3. ASSUME NEW f \in Fields, Given(table, f) = {}
          PROVE  Kept(loaded.config[f[1]][f[2]], Default[f[1]][f[2]])
        <3>1. PICK s, k : s \in Sections /\ k \in DOMAIN Default[s] /\ f = <<s, k>>
            BY SettingPath
        <3>2. Overlaid(table)[f[1]][f[2]] = Default[f[1]][f[2]]
            BY <2>3, <3>1, OverlaidIs
        <3> QED
            BY <2>2, <3>2
    <2>4. ASSUME NEW p \in DOMAIN table, Alias(p) \in Fields
          PROVE  Kept(loaded.config[Alias(p)[1]][Alias(p)[2]], table[p])
        <3>1. PICK s, k : s \in Sections /\ k \in DOMAIN Default[s] /\ Alias(p) = <<s, k>>
            BY <2>4, SettingPath
        <3>2. Given(table, Alias(p)) = {p}
            BY <2>1, <2>4 DEF Given, Doubled
        <3>3. Overlaid(table)[s][k] = table[p]
            BY <3>1, <3>2, OverlaidIs
        <3> QED
            BY <2>2, <2>4, <3>1, <3>3
    <2>5. ASSUME NEW p \in DOMAIN table, Alias(p) \notin Fields, ~Free(p) PROVE p \in loaded.issues
        BY <2>1, <2>5 DEF Unknown, Warnings, table
    <2>6. \A f \in Fields \ GivenFields(table) : Given(table, f) = {}
        BY DEF GivenFields, Given
    <2> QED
        BY <2>1, <2>3, <2>4, <2>5, <2>6 DEF SettingsCount, repo, table, loaded
<1> QED
    BY <1>2, <1>3

(* Setup: whatever the files hold, each setting of the file in force is in *)
(* the configuration a scan runs on, or the report has an issue.           *)
THEOREM SettingsNeverVanish == SetupSpec => []SettingsCount
<1>1. SetupInit => DocsInv /\ RunInv
    BY WorkInit
<1>2. DocsInv /\ RunInv /\ [SetupNext]_setupVars => DocsInv' /\ RunInv'
    BY WorkStep
<1>3. DocsInv => SettingsCount
    BY EachSettingCounts DEF DocsInv, Files
<1> QED
    BY <1>1, <1>2, <1>3, PTL DEF SetupSpec

(***************************************************************************)
(* The search index, for any processes, paths, trees, and caches that      *)
(* earlier versions left: a search answers from what building the index    *)
(* anew would give.                                                        *)
(*                                                                         *)
(* The argument: every file that decodes, whoever wrote it and whenever he *)
(* died, is a whole cache and holds vectors of the whole model if it is of *)
(* this version; and what a process has done follows from its place in     *)
(* the one script that all operations take their part of.                  *)
(***************************************************************************)
(* The script of a forced rebuild; the others do a part of it.             *)
Ops == {"search", "scan", "reindex", "force"}
PathCount == Len(Paths)
Script == Steps("force")
First(op) == CASE op = "force" -> 1 [] op = "scan" -> PathCount + 9 [] OTHER -> 3
End(op) == IF op = "search" THEN PathCount + 8 ELSE PathCount + 15

PathsAreListed == PathCount \in Nat /\ DOMAIN Paths = 1 .. PathCount

LEMMA PathsListed == ASSUME IsList(Paths) PROVE PathsAreListed
BY DEF IsList, PathsAreListed, PathCount

(* Two sequences end to end, entry by entry.                               *)
EndToEnd(S, a, m, b, n, c) == a \in Seq(S) /\ m = Len(a) /\ b \in Seq(S) /\ n = Len(b) /\ c = a \o b
EntriesOf(S, a, m, b, n, c) ==
    /\ c \in Seq(S) /\ Len(c) = m + n /\ m \in Nat /\ n \in Nat
    /\ \A i \in 1 .. m : c[i] = a[i]
    /\ \A i \in 1 .. n : c[m + i] = b[i]

LEMMA Joined ==
    ASSUME NEW S, NEW a, NEW m, NEW b, NEW n, NEW c, EndToEnd(S, a, m, b, n, c)
    PROVE  EntriesOf(S, a, m, b, n, c)
BY DEF EndToEnd, EntriesOf

Acts == {"clear", "model", "load", "collect", "refresh", "parse", "units", "embed", "begin", "finish", "rename"}
ScriptEntries == Acts \X (Caches \cup {"all"} \cup ToSet(Paths))

OpenFacts ==
    /\ Open \in Seq(ScriptEntries) /\ Len(Open) = PathCount + 6
    /\ Open[1] = <<"model", "docs">> /\ Open[2] = <<"load", "docs">>
    /\ \A k \in 3 .. PathCount + 2 : Open[k] = <<"collect", Paths[k - 2]>>
    /\ Open[PathCount + 3] = <<"refresh", "docs">> /\ Open[PathCount + 4] = <<"begin", "docs">>
    /\ Open[PathCount + 5] = <<"finish", "docs">> /\ Open[PathCount + 6] = <<"rename", "docs">>

LEMMA OpenIs == ASSUME PathsAreListed PROVE OpenFacts
<1>1. PICK n : n = PathCount
    OBVIOUS
<1>2. n \in Nat /\ DOMAIN Paths = 1 .. n
    BY <1>1 DEF PathsAreListed
<1>3. PICK read : read = [i \in 1 .. n |-> <<"collect", Paths[i]>>]
    OBVIOUS
<1>4. read \in Seq(ScriptEntries) /\ Len(read) = n /\ \A i \in 1 .. n : read[i] = <<"collect", Paths[i]>>
    <2>1. \A i \in 1 .. n : <<"collect", Paths[i]>> \in ScriptEntries
        BY <1>2 DEF ScriptEntries, Acts, ToSet
    <2> QED
        BY <1>2, <1>3, <2>1
<1>5. PICK head : head = << <<"model", "docs">>, <<"load", "docs">> >>
    OBVIOUS
<1>6. /\ head \in Seq(ScriptEntries) /\ Len(head) = 2
      /\ head[1] = <<"model", "docs">> /\ head[2] = <<"load", "docs">>
    BY <1>5 DEF ScriptEntries, Acts, Caches
<1>7. PICK tail : tail = << <<"refresh", "docs">> >> \o Persisting("docs")
    OBVIOUS
<1>8. /\ tail \in Seq(ScriptEntries) /\ Len(tail) = 4
      /\ tail[1] = <<"refresh", "docs">> /\ tail[2] = <<"begin", "docs">>
      /\ tail[3] = <<"finish", "docs">> /\ tail[4] = <<"rename", "docs">>
    BY <1>7 DEF ScriptEntries, Acts, Caches, Persisting
<1>9. Open = (head \o read) \o tail
    <2>1. Open = ((head \o read) \o << <<"refresh", "docs">> >>) \o Persisting("docs")
        BY <1>2, <1>3, <1>5 DEF Open
    <2>2. << <<"refresh", "docs">> >> \in Seq(ScriptEntries) /\ Persisting("docs") \in Seq(ScriptEntries)
        BY DEF ScriptEntries, Acts, Caches, Persisting
    <2> QED
        BY SMTT(20), <1>4, <1>6, <1>7, <2>1, <2>2, ConcatAssociative
<1>10. PICK front : front = head \o read
    OBVIOUS
<1>11. /\ front \in Seq(ScriptEntries) /\ Len(front) = 2 + n
       /\ \A k \in 1 .. 2 : front[k] = head[k]
       /\ \A k \in 1 .. n : front[2 + k] = read[k]
    <2>1. EndToEnd(ScriptEntries, head, 2, read, n, front)
        BY <1>4, <1>6, <1>10 DEF EndToEnd
    <2>2. EntriesOf(ScriptEntries, head, 2, read, n, front)
        BY <2>1, Joined
    <2> QED
        BY <2>1, <2>2 DEF EntriesOf
<1>12. PICK open : open = Open
    OBVIOUS
<1>13. open = front \o tail
    BY <1>9, <1>10, <1>12
<1>14. /\ open \in Seq(ScriptEntries) /\ Len(open) = (2 + n) + 4
       /\ \A k \in 1 .. 2 + n : open[k] = front[k]
       /\ \A k \in 1 .. 4 : open[(2 + n) + k] = tail[k]
    <2>1. EndToEnd(ScriptEntries, front, 2 + n, tail, 4, open)
        BY <1>8, <1>11, <1>13 DEF EndToEnd
    <2>2. EntriesOf(ScriptEntries, front, 2 + n, tail, 4, open)
        BY <2>1, Joined
    <2> QED
        BY <2>1, <2>2 DEF EntriesOf
<1>15. ASSUME NEW k \in 3 .. n + 2 PROVE open[k] = <<"collect", Paths[k - 2]>>
    <2>1. PICK j : j = k - 2
        OBVIOUS
    <2>2. k \in 1 .. 2 + n /\ j \in 1 .. n /\ 2 + j = k
        BY <1>2, <2>1
    <2>3. open[k] = front[2 + j] /\ front[2 + j] = read[j]
        BY <1>11, <1>14, <2>2
    <2> QED
        BY <1>4, <2>1, <2>2, <2>3
<1>16. open[1] = <<"model", "docs">> /\ open[2] = <<"load", "docs">>
    BY <1>2, <1>6, <1>11, <1>14
<1>17. n + 3 = (2 + n) + 1 /\ n + 4 = (2 + n) + 2 /\ n + 5 = (2 + n) + 3 /\ n + 6 = (2 + n) + 4
    BY <1>2
<1>18. open[n + 3] = tail[1] /\ open[n + 4] = tail[2] /\ open[n + 5] = tail[3] /\ open[n + 6] = tail[4]
    BY <1>14, <1>17
<1> QED
    BY <1>1, <1>8, <1>12, <1>14, <1>15, <1>16, <1>17, <1>18 DEF OpenFacts

LEMMA ScanIs ==
    /\ Scan \in Seq(ScriptEntries) /\ Len(Scan) = 7
    /\ Scan[1] = <<"parse", "all">> /\ Scan[2] = <<"units", "all">>
    /\ Scan[3] = <<"load", "semantic">> /\ Scan[4] = <<"embed", "all">>
    /\ Scan[5] = <<"begin", "semantic">> /\ Scan[6] = <<"finish", "semantic">>
    /\ Scan[7] = <<"rename", "semantic">>
<1>1. PICK head : head = <<<<"parse", "all">>, <<"units", "all">>, <<"load", "semantic">>, <<"embed", "all">>>>
    OBVIOUS
<1>2. /\ head \in Seq(ScriptEntries) /\ Len(head) = 4
      /\ head[1] = <<"parse", "all">> /\ head[2] = <<"units", "all">>
      /\ head[3] = <<"load", "semantic">> /\ head[4] = <<"embed", "all">>
    BY <1>1 DEF ScriptEntries, Acts, Caches
<1>3. PICK tail : tail = Persisting("semantic")
    OBVIOUS
<1>4. /\ tail \in Seq(ScriptEntries) /\ Len(tail) = 3
      /\ tail[1] = <<"begin", "semantic">> /\ tail[2] = <<"finish", "semantic">>
      /\ tail[3] = <<"rename", "semantic">>
    BY <1>3 DEF Persisting, ScriptEntries, Acts, Caches
<1>5. PICK all : all = Scan
    OBVIOUS
<1>6. all = head \o tail
    BY <1>1, <1>3, <1>5 DEF Scan
<1>7. /\ all \in Seq(ScriptEntries) /\ Len(all) = 4 + 3
      /\ \A k \in 1 .. 4 : all[k] = head[k]
      /\ \A k \in 1 .. 3 : all[4 + k] = tail[k]
    <2>1. EndToEnd(ScriptEntries, head, 4, tail, 3, all)
        BY <1>2, <1>4, <1>6 DEF EndToEnd
    <2>2. EntriesOf(ScriptEntries, head, 4, tail, 3, all)
        BY <2>1, Joined
    <2> QED
        BY <2>1, <2>2 DEF EntriesOf
<1>8. all[5] = tail[1] /\ all[6] = tail[2] /\ all[7] = tail[3]
    BY <1>7, 5 = 4 + 1, 6 = 4 + 2, 7 = 4 + 3
<1> QED
    BY <1>2, <1>4, <1>5, <1>7, <1>8

ScriptFacts ==
    /\ Script \in Seq(ScriptEntries) /\ Len(Script) = PathCount + 15
    /\ Script[1] = <<"clear", "docs">> /\ Script[2] = <<"clear", "semantic">>
    /\ \A k \in 1 .. PathCount + 6 : Script[2 + k] = Open[k]
    /\ \A k \in 1 .. 7 : Script[PathCount + 8 + k] = Scan[k]

LEMMA ScriptIs == ASSUME PathsAreListed PROVE ScriptFacts
<1>1. PICK n : n = PathCount
    OBVIOUS
<1>2. n \in Nat
    BY <1>1 DEF PathsAreListed
<1>3. Open \in Seq(ScriptEntries) /\ Len(Open) = n + 6
    BY <1>1, OpenIs DEF OpenFacts
<1>4. /\ Clear \in Seq(ScriptEntries) /\ Len(Clear) = 2
      /\ Clear[1] = <<"clear", "docs">> /\ Clear[2] = <<"clear", "semantic">>
    BY DEF Clear, ScriptEntries, Acts, Caches
<1>5. PICK front : front = Clear \o Open
    OBVIOUS
<1>6. /\ front \in Seq(ScriptEntries) /\ Len(front) = 2 + (n + 6)
      /\ \A k \in 1 .. 2 : front[k] = Clear[k]
      /\ \A k \in 1 .. n + 6 : front[2 + k] = Open[k]
    <2>1. EndToEnd(ScriptEntries, Clear, 2, Open, n + 6, front)
        BY <1>3, <1>4, <1>5 DEF EndToEnd
    <2>2. EntriesOf(ScriptEntries, Clear, 2, Open, n + 6, front)
        BY <2>1, Joined
    <2> QED
        BY <2>1, <2>2 DEF EntriesOf
<1>7. PICK all : all = Script
    OBVIOUS
<1>8. all = front \o Scan
    BY <1>5, <1>7 DEF Script, Steps
<1>9. /\ all \in Seq(ScriptEntries) /\ Len(all) = (2 + (n + 6)) + 7
      /\ \A k \in 1 .. 2 + (n + 6) : all[k] = front[k]
      /\ \A k \in 1 .. 7 : all[(2 + (n + 6)) + k] = Scan[k]
    <2>1. EndToEnd(ScriptEntries, front, 2 + (n + 6), Scan, 7, all)
        BY <1>6, <1>8, ScanIs DEF EndToEnd
    <2>2. EntriesOf(ScriptEntries, front, 2 + (n + 6), Scan, 7, all)
        BY <2>1, Joined
    <2> QED
        BY <2>1, <2>2 DEF EntriesOf
<1>10. ASSUME NEW k \in 1 .. n + 6 PROVE all[2 + k] = Open[k]
    <2>1. 2 + k \in 1 .. 2 + (n + 6)
        BY <1>2
    <2> QED
        BY <1>6, <1>9, <2>1
<1>11. ASSUME NEW k \in 1 .. 7 PROVE all[n + 8 + k] = Scan[k]
    <2>1. n + 8 + k = (2 + (n + 6)) + k
        BY <1>2
    <2> QED
        BY <1>9, <2>1
<1>12. all[1] = Clear[1] /\ all[2] = Clear[2]
    BY <1>2, <1>6, <1>9
<1>13. (2 + (n + 6)) + 7 = n + 15
    BY <1>2
<1> QED
    BY <1>1, <1>4, <1>7, <1>9, <1>10, <1>11, <1>12, <1>13 DEF ScriptFacts

(* The entries of the script by their place.                               *)
Places ==
    /\ Script[1] = <<"clear", "docs">> /\ Script[2] = <<"clear", "semantic">>
    /\ Script[3] = <<"model", "docs">> /\ Script[4] = <<"load", "docs">>
    /\ \A k \in 5 .. PathCount + 4 : Script[k] = <<"collect", Paths[k - 4]>>
    /\ Script[PathCount + 5] = <<"refresh", "docs">> /\ Script[PathCount + 6] = <<"begin", "docs">>
    /\ Script[PathCount + 7] = <<"finish", "docs">> /\ Script[PathCount + 8] = <<"rename", "docs">>
    /\ Script[PathCount + 9] = <<"parse", "all">> /\ Script[PathCount + 10] = <<"units", "all">>
    /\ Script[PathCount + 11] = <<"load", "semantic">> /\ Script[PathCount + 12] = <<"embed", "all">>
    /\ Script[PathCount + 13] = <<"begin", "semantic">> /\ Script[PathCount + 14] = <<"finish", "semantic">>
    /\ Script[PathCount + 15] = <<"rename", "semantic">>

LEMMA PlacesAre == ASSUME PathsAreListed PROVE Places
<1>1. PICK n : n = PathCount
    OBVIOUS
<1>2. n \in Nat
    BY <1>1 DEF PathsAreListed
<1>3. ScriptFacts /\ OpenFacts
    BY ScriptIs, OpenIs
<1>4. PICK open : open = Open
    OBVIOUS
<1>5. PICK all : all = Script
    OBVIOUS
<1>6. ASSUME NEW k \in 1 .. n + 6 PROVE all[2 + k] = open[k]
    BY <1>1, <1>3, <1>4, <1>5 DEF ScriptFacts
<1>7. ASSUME NEW k \in 5 .. n + 4 PROVE all[k] = <<"collect", Paths[k - 4]>>
    <2>1. PICK j : j = k - 2
        OBVIOUS
    <2>2. j \in 1 .. n + 6 /\ j \in 3 .. n + 2 /\ 2 + j = k /\ j - 2 = k - 4
        BY <1>2, <2>1
    <2>3. all[2 + j] = open[j] /\ open[j] = <<"collect", Paths[j - 2]>>
        BY <1>1, <1>3, <1>4, <1>6, <2>2 DEF OpenFacts
    <2> QED
        BY <2>2, <2>3
<1>8. all[3] = open[1] /\ all[4] = open[2]
    BY <1>2, <1>6, 3 = 2 + 1, 4 = 2 + 2
<1>9. /\ all[n + 5] = open[n + 3] /\ all[n + 6] = open[n + 4]
      /\ all[n + 7] = open[n + 5] /\ all[n + 8] = open[n + 6]
    <2>1. n + 5 = 2 + (n + 3) /\ n + 6 = 2 + (n + 4) /\ n + 7 = 2 + (n + 5) /\ n + 8 = 2 + (n + 6)
        BY <1>2
    <2>2. n + 3 \in 1 .. n + 6 /\ n + 4 \in 1 .. n + 6 /\ n + 5 \in 1 .. n + 6 /\ n + 6 \in 1 .. n + 6
        BY <1>2
    <2> QED
        BY <1>6, <2>1, <2>2
<1>10. /\ all[n + 9] = Scan[1] /\ all[n + 10] = Scan[2] /\ all[n + 11] = Scan[3] /\ all[n + 12] = Scan[4]
       /\ all[n + 13] = Scan[5] /\ all[n + 14] = Scan[6] /\ all[n + 15] = Scan[7]
    <2>1. /\ n + 9 = n + 8 + 1 /\ n + 10 = n + 8 + 2 /\ n + 11 = n + 8 + 3 /\ n + 12 = n + 8 + 4
          /\ n + 13 = n + 8 + 5 /\ n + 14 = n + 8 + 6 /\ n + 15 = n + 8 + 7
        BY <1>2
    <2>2. \A k \in 1 .. 7 : all[n + 8 + k] = Scan[k]
        BY <1>1, <1>3, <1>5 DEF ScriptFacts
    <2> QED
        BY <2>1, <2>2
<1>11. all[1] = <<"clear", "docs">> /\ all[2] = <<"clear", "semantic">>
    BY <1>3, <1>5 DEF ScriptFacts
<1>12. /\ open[1] = <<"model", "docs">> /\ open[2] = <<"load", "docs">>
       /\ open[n + 3] = <<"refresh", "docs">> /\ open[n + 4] = <<"begin", "docs">>
       /\ open[n + 5] = <<"finish", "docs">> /\ open[n + 6] = <<"rename", "docs">>
    BY <1>1, <1>3, <1>4 DEF OpenFacts
<1> QED
    BY <1>1, <1>5, <1>7, <1>8, <1>9, <1>10, <1>11, <1>12, ScanIs DEF Places

(* Each operation does a part of the script.                               *)
LEMMA PartOfScript ==
    ASSUME PathsAreListed, NEW op \in Ops
    PROVE  Steps(op) = SubSeq(Script, First(op), End(op)) /\ First(op) \in 1 .. End(op) /\ End(op) \in 1 .. PathCount + 15
<1>1. PICK n : n = PathCount
    OBVIOUS
<1>2. n \in Nat
    BY <1>1 DEF PathsAreListed
<1>3. ScriptFacts /\ OpenFacts
    BY ScriptIs, OpenIs
<1>4. PICK open : open = Open
    OBVIOUS
<1>5. PICK all : all = Script
    OBVIOUS
<1>6. /\ open \in Seq(ScriptEntries) /\ Len(open) = n + 6 /\ all \in Seq(ScriptEntries) /\ Len(all) = n + 15
      /\ (\A k \in 1 .. n + 6 : all[2 + k] = open[k]) /\ \A k \in 1 .. 7 : all[n + 8 + k] = Scan[k]
    BY <1>1, <1>3, <1>4, <1>5 DEF ScriptFacts, OpenFacts
<1>7. CASE op = "force"
    <2>1. SubSeq(all, 1, n + 15) = all
        BY <1>2, <1>6
    <2> QED
        BY <1>1, <1>2, <1>5, <1>7, <2>1 DEF First, End, Script
<1>8. CASE op = "search"
    <2>1. PICK part : part = SubSeq(all, 3, n + 8)
        OBVIOUS
    <2>2. part \in Seq(ScriptEntries) /\ Len(part) = n + 6 /\ \A k \in 1 .. n + 6 : part[k] = all[2 + k]
        BY <1>2, <1>6, <2>1
    <2>3. part = open
        BY <1>6, <2>2
    <2>4. Steps(op) = open /\ First(op) = 3 /\ End(op) = n + 8
        BY <1>1, <1>4, <1>8 DEF Steps, First, End
    <2> QED
        BY <1>1, <1>2, <1>5, <2>1, <2>3, <2>4
<1>9. CASE op = "scan"
    <2>1. PICK part : part = SubSeq(all, n + 9, n + 15)
        OBVIOUS
    <2>2. part \in Seq(ScriptEntries) /\ Len(part) = 7 /\ \A k \in 1 .. 7 : part[k] = all[n + 8 + k]
        <3>1. \A k \in n + 9 .. n + 15 : all[k] \in ScriptEntries
            BY <1>2, <1>6
        <3>2. /\ part \in Seq(ScriptEntries)
              /\ Len(part) = IF n + 9 <= n + 15 THEN n + 15 - (n + 9) + 1 ELSE 0
              /\ \A k \in 1 .. n + 15 - (n + 9) + 1 : part[k] = all[n + 9 + k - 1]
            BY <1>2, <2>1, <3>1, SubSeqProperties
        <3>3. n + 15 - (n + 9) + 1 = 7 /\ n + 9 <= n + 15 /\ \A k \in 1 .. 7 : n + 9 + k - 1 = n + 8 + k
            BY <1>2
        <3> QED
            BY <3>2, <3>3
    <2>3. part = Scan
        <3>1. PICK scanned : scanned = Scan
            OBVIOUS
        <3>2. scanned \in Seq(ScriptEntries) /\ Len(scanned) = 7 /\ \A k \in 1 .. 7 : part[k] = scanned[k]
            BY <1>6, <2>2, <3>1, ScanIs
        <3> QED
            BY <2>2, <3>1, <3>2
    <2>4. Steps(op) = Scan /\ First(op) = n + 9 /\ End(op) = n + 15
        BY <1>1, <1>9 DEF Steps, First, End
    <2> QED
        BY <1>1, <1>2, <1>5, <2>1, <2>3, <2>4
<1>10. CASE op = "reindex"
    <2>1. PICK part : part = SubSeq(all, 3, n + 15)
        OBVIOUS
    <2>2. part \in Seq(ScriptEntries) /\ Len(part) = n + 13 /\ \A k \in 1 .. n + 13 : part[k] = all[2 + k]
        <3>1. \A k \in 3 .. n + 15 : all[k] \in ScriptEntries
            BY <1>2, <1>6
        <3>2. /\ part \in Seq(ScriptEntries)
              /\ Len(part) = IF 3 <= n + 15 THEN n + 15 - 3 + 1 ELSE 0
              /\ \A k \in 1 .. n + 15 - 3 + 1 : part[k] = all[3 + k - 1]
            BY <1>2, <2>1, <3>1, SubSeqProperties
        <3>3. n + 15 - 3 + 1 = n + 13 /\ 3 <= n + 15 /\ \A k \in 1 .. n + 13 : 3 + k - 1 = 2 + k
            BY <1>2
        <3> QED
            BY <3>2, <3>3
    <2>3. PICK both : both = open \o Scan
        OBVIOUS
    <2>4. /\ both \in Seq(ScriptEntries) /\ Len(both) = (n + 6) + 7
          /\ (\A k \in 1 .. n + 6 : both[k] = open[k]) /\ \A k \in 1 .. 7 : both[(n + 6) + k] = Scan[k]
        <3>1. EndToEnd(ScriptEntries, open, n + 6, Scan, 7, both)
            BY <1>6, <2>3, ScanIs DEF EndToEnd
        <3>2. EntriesOf(ScriptEntries, open, n + 6, Scan, 7, both)
            BY <3>1, Joined
        <3> QED
            BY <3>1, <3>2 DEF EntriesOf
    <2>5. ASSUME NEW k \in 1 .. n + 13 PROVE part[k] = both[k]
        <3>1. CASE k <= n + 6
            <4>1. k \in 1 .. n + 6
                BY <1>2, <3>1
            <4>2. part[k] = all[2 + k] /\ both[k] = open[k]
                BY <2>2, <2>4, <4>1
            <4> QED
                BY <1>6, <4>1, <4>2
        <3>2. CASE ~ (k <= n + 6)
            <4>1. PICK j : j = k - (n + 6)
                OBVIOUS
            <4>2. j \in 1 .. 7 /\ (n + 6) + j = k /\ n + 8 + j = 2 + k
                BY <1>2, <3>2, <4>1
            <4>3. both[k] = Scan[j] /\ all[2 + k] = Scan[j]
                BY <1>6, <2>4, <4>2
            <4> QED
                BY <2>2, <4>3
        <3> QED
            BY <3>1, <3>2
    <2>6. part = both
        <3>1. Len(both) = n + 13
            BY <1>2, <2>4
        <3> QED
            BY <2>2, <2>4, <2>5, <3>1, SeqEqual
    <2>7. Steps(op) = both /\ First(op) = 3 /\ End(op) = n + 15
        BY <1>1, <1>4, <1>10, <2>3 DEF Steps, First, End
    <2> QED
        BY <1>1, <1>2, <1>5, <2>1, <2>6, <2>7
<1> QED
    BY <1>7, <1>8, <1>9, <1>10 DEF Ops

(* Where an operation is when it does a step of a kind.                    *)
LEMMA Where ==
    ASSUME PathsAreListed, NEW k \in 1 .. PathCount + 15, NEW e, e = Script[k]
    PROVE  /\ e[1] = "clear" => k \in 1 .. 2 /\ e[2] \in Caches
           /\ e[1] = "model" => k = 3 /\ e[2] = "docs"
           /\ e[1] = "load" => (k = 4 /\ e[2] = "docs") \/ (k = PathCount + 11 /\ e[2] = "semantic")
           /\ e[1] = "collect" => k \in 5 .. PathCount + 4 /\ e[2] = Paths[k - 4]
           /\ e[1] = "refresh" => k = PathCount + 5
           /\ e[1] = "parse" => k = PathCount + 9
           /\ e[1] = "units" => k = PathCount + 10
           /\ e[1] = "embed" => k = PathCount + 12 /\ e[2] = "all"
           /\ e[1] = "begin" => (k = PathCount + 6 /\ e[2] = "docs") \/ (k = PathCount + 13 /\ e[2] = "semantic")
           /\ e[1] = "finish" => k = PathCount + 7 \/ k = PathCount + 14
           /\ e[1] = "rename" => (k = PathCount + 8 /\ e[2] = "docs") \/ (k = PathCount + 15 /\ e[2] = "semantic")
<1>1. PICK n : n = PathCount
    OBVIOUS
<1>2. n \in Nat /\ k \in 1 .. n + 15
    BY <1>1 DEF PathsAreListed
<1>3. PICK all : all = Script
    OBVIOUS
<1>4. /\ all[1] = <<"clear", "docs">> /\ all[2] = <<"clear", "semantic">>
      /\ all[3] = <<"model", "docs">> /\ all[4] = <<"load", "docs">>
      /\ \A i \in 5 .. n + 4 : all[i] = <<"collect", Paths[i - 4]>>
      /\ all[n + 5] = <<"refresh", "docs">> /\ all[n + 6] = <<"begin", "docs">>
      /\ all[n + 7] = <<"finish", "docs">> /\ all[n + 8] = <<"rename", "docs">>
      /\ all[n + 9] = <<"parse", "all">> /\ all[n + 10] = <<"units", "all">>
      /\ all[n + 11] = <<"load", "semantic">> /\ all[n + 12] = <<"embed", "all">>
      /\ all[n + 13] = <<"begin", "semantic">> /\ all[n + 14] = <<"finish", "semantic">>
      /\ all[n + 15] = <<"rename", "semantic">>
    BY <1>1, <1>3, PlacesAre DEF Places
<1>5. CASE k <= 4
    <2>1. k = 1 \/ k = 2 \/ k = 3 \/ k = 4
        BY <1>2, <1>5
    <2> QED
        BY <1>3, <1>4, <2>1 DEF Caches
<1>6. CASE k \in 5 .. n + 4
    BY <1>1, <1>3, <1>4, <1>6
<1>7. CASE ~ (k <= n + 4)
    <2>1. /\ k = n + 5 \/ k = n + 6 \/ k = n + 7 \/ k = n + 8 \/ k = n + 9 \/ k = n + 10
             \/ k = n + 11 \/ k = n + 12 \/ k = n + 13 \/ k = n + 14 \/ k = n + 15
        BY <1>2, <1>7
    <2> QED
        BY <1>1, <1>3, <1>4, <2>1
<1> QED
    BY <1>2, <1>5, <1>6, <1>7

(* The rest of an operation from some place on.                            *)
Rest(op, k) == SubSeq(Script, k, End(op))

LEMMA RestOf ==
    ASSUME PathsAreListed, NEW op \in Ops, NEW k \in First(op) .. End(op) + 1, NEW ahead, ahead = Rest(op, k)
    PROVE  /\ ahead # << >> => /\ k \in 1 .. PathCount + 15 /\ k \in First(op) .. End(op)
                               /\ k + 1 \in First(op) .. End(op) + 1
                               /\ ahead[1] = Script[k] /\ Tail(ahead) = Rest(op, k + 1)
           /\ ahead = << >> => k = End(op) + 1
           /\ Rest(op, End(op) + 1) = << >> /\ End(op) + 1 \in First(op) .. End(op) + 1
<1>1. PICK a : a = First(op)
    OBVIOUS
<1>2. PICK b : b = End(op)
    OBVIOUS
<1>3. PICK all : all = Script
    OBVIOUS
<1>4. PICK n : n = PathCount + 15
    OBVIOUS
<1>5. /\ all \in Seq(ScriptEntries) /\ Len(all) = n /\ n \in Nat
      /\ b \in 1 .. n /\ a \in 1 .. b /\ k \in a .. b + 1 /\ ahead = SubSeq(all, k, b)
    BY <1>1, <1>2, <1>3, <1>4, ScriptIs, PartOfScript DEF ScriptFacts, PathsAreListed, Rest
<1>6. SubSeq(all, b + 1, b) = << >>
    BY <1>5
<1>7. ASSUME k <= b
      PROVE  ahead # << >> /\ ahead[1] = all[k] /\ Tail(ahead) = SubSeq(all, k + 1, b)
    <2>1. ahead \in Seq(ScriptEntries) /\ Len(ahead) = b - k + 1 /\ \A i \in 1 .. b - k + 1 : ahead[i] = all[k + i - 1]
        BY <1>5, <1>7
    <2>2. PICK tail : tail = Tail(ahead)
        OBVIOUS
    <2>3. PICK m : m = b - k
        OBVIOUS
    <2>4. m \in Nat /\ Len(ahead) = m + 1
        BY <1>5, <1>7, <2>1, <2>3
    <2>5. tail \in Seq(ScriptEntries) /\ Len(tail) = m /\ \A i \in 1 .. m : tail[i] = ahead[i + 1]
        BY <2>1, <2>2, <2>4
    <2>6. PICK part : part = SubSeq(all, k + 1, b)
        OBVIOUS
    <2>7. part \in Seq(ScriptEntries) /\ Len(part) = m /\ \A i \in 1 .. m : part[i] = all[k + i]
        BY <1>5, <1>7, <2>3, <2>6
    <2>8. \A i \in 1 .. m : tail[i] = part[i]
        <3> SUFFICES ASSUME NEW i \in 1 .. m PROVE tail[i] = part[i]
            OBVIOUS
        <3>1. i + 1 \in 1 .. b - k + 1 /\ k + (i + 1) - 1 = k + i
            BY <1>5, <2>3, <2>4
        <3> QED
            BY <2>1, <2>5, <2>7, <3>1
    <2>9. tail = part
        BY <2>4, <2>5, <2>7, <2>8
    <2>10. ahead[1] = all[k]
        <3>1. 1 \in 1 .. b - k + 1 /\ k + 1 - 1 = k
            BY <1>5, <1>7
        <3> QED
            BY <2>1, <3>1
    <2>11. ahead # << >>
        BY <2>4
    <2> QED
        BY <2>2, <2>6, <2>9, <2>10, <2>11
<1>8. ~ (k <= b) => k = b + 1
    BY <1>5
<1>9. k <= b => k \in 1 .. n /\ k \in a .. b /\ k + 1 \in a .. b + 1
    BY <1>5
<1>10. b + 1 \in a .. b + 1
    BY <1>5
<1> QED
    BY <1>1, <1>2, <1>3, <1>4, <1>5, <1>6, <1>7, <1>8, <1>9, <1>10 DEF Rest

(* The documents of the first so many files.                               *)
DocsIn(t, path) == DocsOf(path, t[path])
DocsUpto(t, m) == FlattenSeq([n \in 1 .. m |-> DocsIn(t, Paths[n])])

LEMMA DocsListed ==
    ASSUME NEW path, NEW file, IsList(file.items)
    PROVE  DocsOf(path, file) \in Seq(ToSet(DocsOf(path, file)))
<1> DEFINE Kind(i) == KindOf(file.language, i)
           wanted == {i \in ToSet(file.items) : Kind(i) # "none" /\ i.text # << >>}
           items == Those(file.items, wanted)
<1>1. items \in Seq(wanted)
    <2> HIDE DEF wanted
    <2> QED
        BY ThoseKept DEF IsList
<1>2. PICK n : n \in Nat /\ DOMAIN items = 1 .. n
    <2> HIDE DEF items
    <2> QED
        BY <1>1
<1>3. PICK listed : listed = DocsOf(path, file)
    OBVIOUS
<1>4. listed = [i \in 1 .. n |-> listed[i]]
    <2> HIDE DEF Kind
    <2> QED
        BY <1>2, <1>3 DEF DocsOf, Kind
<1> QED
    BY <1>2, <1>3, <1>4 DEF ToSet

LEMMA NoDocs == ASSUME NEW t PROVE DocsUpto(t, 0) = << >>
<1>1. PICK s : s = [n \in 1 .. 0 |-> DocsIn(t, Paths[n])]
    OBVIOUS
<1>2. s \in Seq(Seq({})) /\ Len(s) = 0
    BY <1>1
<1>3. PICK r : Ends(r, s, Len(s), {})
    BY <1>2, FlattenIs
<1> QED
    BY <1>1, <1>2, <1>3 DEF Ends, DocsUpto

LEMMA MoreDocs ==
    ASSUME PathsAreListed, NEW t, \A path \in ToSet(Paths) : FileIsWell(t[path]), NEW m \in Nat, m + 1 <= PathCount
    PROVE  DocsUpto(t, m + 1) = DocsUpto(t, m) \o DocsIn(t, Paths[m + 1])
<1>1. PICK n : n = PathCount
    OBVIOUS
<1>2. n \in Nat /\ DOMAIN Paths = 1 .. n /\ m + 1 <= n
    BY <1>1 DEF PathsAreListed
<1>3. PICK D : D = UNION {ToSet(DocsIn(t, path)) : path \in ToSet(Paths)}
    OBVIOUS
<1>4. ASSUME NEW k \in 1 .. n PROVE DocsIn(t, Paths[k]) \in Seq(D)
    <2>1. Paths[k] \in ToSet(Paths)
        BY <1>2 DEF ToSet
    <2>2. PICK listed : listed = DocsIn(t, Paths[k])
        OBVIOUS
    <2>3. listed \in Seq(ToSet(listed))
        BY <2>1, <2>2, DocsListed DEF DocsIn, FileIsWell
    <2>4. ToSet(listed) \subseteq D
        BY <1>3, <2>1, <2>2
    <2>5. PICK T : T = ToSet(listed)
        OBVIOUS
    <2> QED
        BY <2>2, <2>3, <2>4, <2>5
<1>5. PICK W : W = Seq(D)
    OBVIOUS
<1>6. PICK s : s = [k \in 1 .. m |-> DocsIn(t, Paths[k])]
    OBVIOUS
<1>7. PICK more : more = [k \in 1 .. m + 1 |-> DocsIn(t, Paths[k])]
    OBVIOUS
<1>8. PICK next : next = DocsIn(t, Paths[m + 1])
    OBVIOUS
<1>9. \A k \in 1 .. m + 1 : DocsIn(t, Paths[k]) \in W
    BY <1>2, <1>4, <1>5
<1>10. s \in Seq(W) /\ next \in W
    <2>1. \A k \in 1 .. m : DocsIn(t, Paths[k]) \in W
        BY <1>9
    <2>2. s \in Seq(W)
        BY <1>6, <2>1
    <2>3. m + 1 \in 1 .. m + 1
        OBVIOUS
    <2> QED
        BY <1>8, <1>9, <2>2, <2>3
<1>11. more = Append(s, next)
    <2>1. PICK both : both = Append(s, next)
        OBVIOUS
    <2>2. both \in Seq(W) /\ Len(both) = m + 1 /\ both[m + 1] = next /\ \A k \in 1 .. m : both[k] = s[k]
        BY <1>6, <1>10, <2>1
    <2>3. \A k \in 1 .. m + 1 : both[k] = DocsIn(t, Paths[k])
        <3> SUFFICES ASSUME NEW k \in 1 .. m + 1 PROVE both[k] = DocsIn(t, Paths[k])
            OBVIOUS
        <3>1. k \in 1 .. m \/ k = m + 1
            OBVIOUS
        <3> QED
            BY <1>6, <1>8, <2>2, <3>1
    <2>4. both = [k \in 1 .. m + 1 |-> both[k]]
        BY <2>2
    <2> QED
        BY <1>7, <2>1, <2>3, <2>4
<1> QED
    <2>1. s \in Seq(Seq(D)) /\ next \in Seq(D)
        BY <1>5, <1>10
    <2>2. FlattenSeq(Append(s, next)) = FlattenSeq(s) \o next
        BY <2>1, FlattenMore
    <2>3. DocsUpto(t, m) = FlattenSeq(s) /\ DocsUpto(t, m + 1) = FlattenSeq(more)
        BY <1>6, <1>7 DEF DocsUpto
    <2> QED
        BY <1>8, <1>11, <2>2, <2>3

LEMMA AllTheDocs == ASSUME PathsAreListed, NEW t PROVE AllDocs(t) = DocsUpto(t, PathCount)
BY DEF PathsAreListed, AllDocs, DocsUpto, DocsIn

(* Refreshing a cache whose vectors are those of the whole model.          *)
LEMMA NothingIsSound == IsSound(NoCache) /\ IsSound(Torn)
BY DEF IsSound, NoCache, Torn, Version, MODEL_ID

LEMMA Versions == Version("docs") # Version("semantic")
BY DEF Version

LEMMA RefreshIsSound ==
    ASSUME NEW cache, IsSound(cache), NEW listed
    PROVE  /\ IsSound(Refresh(cache, listed, ModelFiles))
           /\ Refresh(cache, listed, ModelFiles).version = Version("docs")
           /\ Refresh(cache, listed, ModelFiles).docs = Distinct(listed)
<1>1. PICK have : have = Have("docs", cache)
    OBVIOUS
<1>2. PICK wanted : wanted = Distinct(listed)
    OBVIOUS
<1>3. ASSUME NEW doc, KeyOf(doc) \in DOMAIN have PROVE have[KeyOf(doc)] = Fresh(doc.text)
    <2>1. cache.version = Version("docs")
        BY <1>1, <1>3 DEF Have
    <2>2. have = [k \in {KeyOf(cache.docs[i]) : i \in DOMAIN cache.docs} |->
                    cache.vectors[CHOOSE i \in DOMAIN cache.docs : KeyOf(cache.docs[i]) = k]]
        BY <1>1, <2>1 DEF Have
    <2>3. PICK i \in DOMAIN cache.docs : KeyOf(cache.docs[i]) = KeyOf(doc)
        BY <1>3, <2>2
    <2>4. PICK j \in DOMAIN cache.docs : j = CHOOSE n \in DOMAIN cache.docs : KeyOf(cache.docs[n]) = KeyOf(doc)
        BY <2>3
    <2>5. KeyOf(cache.docs[j]) = KeyOf(doc)
        BY <2>3, <2>4
    <2>6. cache.docs[j].text = doc.text
        BY <2>5 DEF KeyOf
    <2>7. cache.vectors[j] = Fresh(cache.docs[j].text)
        BY <2>1 DEF IsSound
    <2>8. have[KeyOf(doc)] = cache.vectors[j]
        BY <1>3, <2>2, <2>4
    <2> QED
        BY <2>6, <2>7, <2>8
<1>4. PICK r : r = Refresh(cache, listed, ModelFiles)
    OBVIOUS
<1>5. r = [version |-> Version("docs"), docs |-> wanted,
           vectors |-> [i \in DOMAIN wanted |->
                IF KeyOf(wanted[i]) \in DOMAIN have THEN have[KeyOf(wanted[i])]
                ELSE Vector(ModelFiles, wanted[i].text)]]
    BY <1>1, <1>2, <1>4 DEF Refresh
<1>6. r.vectors = [i \in DOMAIN wanted |-> Fresh(wanted[i].text)]
    BY <1>3, <1>5 DEF Fresh
<1> QED
    BY <1>2, <1>4, <1>5, <1>6, Versions DEF IsSound

LEMMA RefreshTextsIsSound ==
    ASSUME NEW cache, IsSound(cache), NEW texts, NEW model, model = ModelFiles \/ AllHad(cache, texts)
    PROVE  /\ IsSound(RefreshTexts(cache, texts, model))
           /\ RefreshTexts(cache, texts, model).version = Version("semantic")
           /\ DOMAIN RefreshTexts(cache, texts, model).vectors = texts
<1>1. PICK have : have = Have("semantic", cache)
    OBVIOUS
<1>2. ASSUME NEW text, text \in DOMAIN have PROVE have[text] = Fresh(text)
    <2>1. cache.version = Version("semantic")
        BY <1>1, <1>2 DEF Have
    <2>2. have = cache.vectors
        BY <1>1, <2>1 DEF Have
    <2> QED
        BY <1>2, <2>1, <2>2 DEF IsSound
<1>3. PICK r : r = RefreshTexts(cache, texts, model)
    OBVIOUS
<1>4. r = [version |-> Version("semantic"),
           vectors |-> [t \in texts |-> IF t \in DOMAIN have THEN have[t] ELSE Vector(model, t)]]
    BY <1>1, <1>3 DEF RefreshTexts
<1>5. \A t \in texts : t \in DOMAIN have \/ model = ModelFiles
    BY <1>1 DEF AllHad
<1>6. \A t \in texts : r.vectors[t] = Fresh(t)
    BY <1>2, <1>4, <1>5 DEF Fresh
<1>7. r.vectors = [t \in texts |-> Fresh(t)]
    BY <1>4, <1>6
<1> QED
    BY <1>3, <1>4, <1>7, Versions DEF IsSound

(* What a process has by the place it is at: it is in a script of which    *)
(* every step but the abandoned ones is done.                              *)
IsIndexOf(index, listed) ==
    /\ index.docs = Distinct(listed)
    /\ index.vectors = [i \in DOMAIN index.docs |-> Fresh(index.docs[i].text)]
ParsedOf(t) == [f \in ToSet(Paths) |-> [docs |-> DocsOf(f, t[f]), functions |-> t[f].functions]]
UnitsFrom(t) == UnitsIn(ParsedOf(t), t)

Indexing(cache, listed, index, k, quiet, t, loaded) ==
    /\ IsSound(cache)
    /\ k <= PathCount + 8 => index = << >>
    /\ k \in 4 .. PathCount + 5 => loaded
    /\ k <= 5 => listed = << >>
    /\ quiet /\ k \in 5 .. PathCount + 5 => listed = DocsUpto(t, k - 5)
    /\ quiet /\ (k \in PathCount + 6 .. PathCount + 8 \/ index # << >>) => listed = AllDocs(t)
    /\ k \in PathCount + 6 .. PathCount + 8 => cache.version = Version("docs") /\ cache.docs = Distinct(listed)
    /\ index # << >> => IsIndexOf(index[1], listed)
FoundBy(units) == Judged(units, CandidatePairs(units), Fresh, Cosine)
Scanning(cache, parsed, units, found, k, quiet, t) ==
    /\ quiet /\ k = PathCount + 10 => parsed = ParsedOf(t)
    /\ quiet /\ (k \in PathCount + 11 .. PathCount + 15 \/ found # << >>) => units = UnitsFrom(t)
    /\ k \in PathCount + 13 .. PathCount + 15 => /\ cache.version = Version("semantic")
                                 /\ DOMAIN cache.vectors = TextsOf(units, CandidatePairs(units))
    /\ k <= PathCount + 15 => found = << >>
    /\ found # << >> => found[1] = FoundBy(units)
IsRun(r) == r = [op |-> r.op, steps |-> r.steps, cache |-> r.cache, docs |-> r.docs, parsed |-> r.parsed,
                 units |-> r.units, fd |-> r.fd, index |-> r.index, found |-> r.found]
IsAt(r, k, quiet, t, loaded) ==
    /\ r.op \in Ops /\ IsRun(r) /\ k \in First(r.op) .. End(r.op) + 1
    /\ r.steps = Rest(r.op, k)
    /\ Indexing(r.cache, r.docs, r.index, k, quiet, t, loaded)
    /\ Scanning(r.cache, r.parsed, r.units, r.found, k, quiet, t)
InPlace(r, quiet, t, loaded) == r = NoJob \/ \E k \in 1 .. PathCount + 16 : IsAt(r, k, quiet, t, loaded)

LEMMA Placed ==
    ASSUME PathsAreListed, NEW r, NEW k, NEW quiet, NEW t, NEW loaded, IsAt(r, k, quiet, t, loaded)
    PROVE  InPlace(r, quiet, t, loaded)
<1>1. First(r.op) \in 1 .. End(r.op) /\ End(r.op) \in 1 .. PathCount + 15
    BY PartOfScript DEF IsAt
<1>2. k \in 1 .. PathCount + 16
    <2>1. PICK n : n = PathCount
        OBVIOUS
    <2> QED
        BY <1>1 DEF IsAt, PathsAreListed
<1> QED
    BY <1>2 DEF InPlace

(* An operation with steps left is at one of the script.                   *)
IsNext(r, k, quiet, t, loaded) ==
    /\ IsAt(r, k, quiet, t, loaded) /\ k \in First(r.op) .. End(r.op)
    /\ k + 1 \in First(r.op) .. End(r.op) + 1
    /\ r.steps[1] = Script[k] /\ Tail(r.steps) = Rest(r.op, k + 1)

LEMMA Stepping ==
    ASSUME PathsAreListed, NEW r, NEW quiet, NEW t, NEW loaded, InPlace(r, quiet, t, loaded), r.steps # << >>
    PROVE  \E k \in 1 .. PathCount + 15 : IsNext(r, k, quiet, t, loaded)
<1>1. r # NoJob
    BY DEF NoJob
<1>2. PICK k \in 1 .. PathCount + 16 : IsAt(r, k, quiet, t, loaded)
    BY <1>1 DEF InPlace
<1>3. r.op \in Ops /\ k \in First(r.op) .. End(r.op) + 1 /\ r.steps = Rest(r.op, k)
    BY <1>2 DEF IsAt
<1>4. /\ k \in 1 .. PathCount + 15 /\ k \in First(r.op) .. End(r.op)
      /\ k + 1 \in First(r.op) .. End(r.op) + 1
      /\ r.steps[1] = Script[k] /\ Tail(r.steps) = Rest(r.op, k + 1)
    BY <1>3, RestOf
<1> QED
    BY <1>2, <1>4 DEF IsNext

(* What is changed of a run by a step, and what is not.                    *)
Has(s, op, ahead, cache, listed, parsed, units, index, found) ==
    /\ IsRun(s) /\ s.op = op /\ s.steps = ahead /\ s.cache = cache /\ s.docs = listed
    /\ s.parsed = parsed /\ s.units = units /\ s.index = index /\ s.found = found

LEMMA Altered ==
    ASSUME NEW r, IsRun(r), NEW x, NEW s
    PROVE  /\ s = [r EXCEPT !.steps = x] =>
                Has(s, r.op, x, r.cache, r.docs, r.parsed, r.units, r.index, r.found)
           /\ s = [r EXCEPT !.cache = x] =>
                Has(s, r.op, r.steps, x, r.docs, r.parsed, r.units, r.index, r.found)
           /\ s = [r EXCEPT !.docs = x] =>
                Has(s, r.op, r.steps, r.cache, x, r.parsed, r.units, r.index, r.found)
           /\ s = [r EXCEPT !.parsed = x] =>
                Has(s, r.op, r.steps, r.cache, r.docs, x, r.units, r.index, r.found)
           /\ s = [r EXCEPT !.units = x] =>
                Has(s, r.op, r.steps, r.cache, r.docs, r.parsed, x, r.index, r.found)
           /\ s = [r EXCEPT !.fd = x] =>
                Has(s, r.op, r.steps, r.cache, r.docs, r.parsed, r.units, r.index, r.found)
           /\ s = [r EXCEPT !.index = x] =>
                Has(s, r.op, r.steps, r.cache, r.docs, r.parsed, r.units, x, r.found)
           /\ s = [r EXCEPT !.found = x] =>
                Has(s, r.op, r.steps, r.cache, r.docs, r.parsed, r.units, r.index, x)
BY DEF IsRun, Has

LEMMA Arrives ==
    ASSUME PathsAreListed, NEW s, NEW op \in Ops, NEW k \in First(op) .. End(op) + 1,
           NEW quiet, NEW t, NEW loaded,
           NEW cache, NEW listed, NEW parsed, NEW units, NEW index, NEW found,
           Has(s, op, Rest(op, k), cache, listed, parsed, units, index, found),
           Indexing(cache, listed, index, k, quiet, t, loaded), Scanning(cache, parsed, units, found, k, quiet, t)
    PROVE  InPlace(s, quiet, t, loaded)
<1>1. IsAt(s, k, quiet, t, loaded)
    BY DEF IsAt, Has
<1> QED
    BY <1>1, Placed

(* Where a step leads, from what the run is just before it counts as done. *)
LEMMA Advance ==
    ASSUME PathsAreListed, NEW r, NEW k, NEW quiet, NEW t, NEW loaded, IsNext(r, k, quiet, t, loaded),
           NEW q, NEW s, s = [q EXCEPT !.steps = Tail(@)],
           NEW cache, NEW listed, NEW parsed, NEW units, NEW index, NEW found,
           Has(q, r.op, r.steps, cache, listed, parsed, units, index, found),
           Indexing(cache, listed, index, k + 1, quiet, t, loaded),
           Scanning(cache, parsed, units, found, k + 1, quiet, t)
    PROVE  InPlace(s, quiet, t, loaded)
<1>1. Has(s, r.op, Rest(r.op, k + 1), cache, listed, parsed, units, index, found)
    <2>1. PICK x : x = Tail(q.steps)
        OBVIOUS
    <2>2. s = [q EXCEPT !.steps = x] /\ IsRun(q) /\ x = Rest(r.op, k + 1)
        BY <2>1 DEF Has, IsNext
    <2>3. Has(s, q.op, x, q.cache, q.docs, q.parsed, q.units, q.index, q.found)
        BY <2>2, Altered
    <2> QED
        BY <2>2, <2>3 DEF Has
<1> QED
    BY <1>1, Arrives DEF IsNext, IsAt

(* The steps of an operation, each on the run of the process that does it. *)
LEMMA AfterModel ==
    ASSUME PathsAreListed, NEW r, NEW quiet, NEW t, NEW loaded, InPlace(r, quiet, t, loaded),
           r.steps # << >>, r.steps[1][1] = "clear" \/ (r.steps[1][1] = "model" /\ loaded),
           NEW s, s = [r EXCEPT !.steps = Tail(@)]
    PROVE  InPlace(s, quiet, t, loaded)
<1>1. PICK k \in 1 .. PathCount + 15 : IsNext(r, k, quiet, t, loaded)
    BY Stepping
<1>2. k \in 1 .. 2 \/ (k = 3 /\ loaded)
    BY <1>1, Where DEF IsNext
<1>3. PICK q : q = r
    OBVIOUS
<1>4. Has(q, r.op, r.steps, r.cache, r.docs, r.parsed, r.units, r.index, r.found)
    <2>1. IsRun(r)
        BY <1>1 DEF IsNext, IsAt
    <2> QED
        BY <1>3, <2>1 DEF Has
<1>5. PICK n : n = PathCount
    OBVIOUS
<1>6. n \in Nat
    BY <1>5 DEF PathsAreListed
<1>7. /\ Indexing(r.cache, r.docs, r.index, k, quiet, t, loaded)
      /\ Scanning(r.cache, r.parsed, r.units, r.found, k, quiet, t)
    BY <1>1 DEF IsNext, IsAt
<1>8. Indexing(r.cache, r.docs, r.index, k + 1, quiet, t, loaded)
    BY <1>2, <1>5, <1>6, <1>7 DEF Indexing
<1>9. Scanning(r.cache, r.parsed, r.units, r.found, k + 1, quiet, t)
    BY <1>2, <1>5, <1>6, <1>7 DEF Scanning
<1> QED
    BY <1>1, <1>3, <1>4, <1>8, <1>9, Advance

LEMMA AfterLoad ==
    ASSUME PathsAreListed, NEW r, NEW quiet, NEW t, NEW loaded, InPlace(r, quiet, t, loaded),
           r.steps # << >>, r.steps[1][1] = "load",
           NEW x, IsSound(x),
           NEW s, s = [[r EXCEPT !.cache = x] EXCEPT !.steps = Tail(@)]
    PROVE  InPlace(s, quiet, t, loaded)
<1>1. PICK k \in 1 .. PathCount + 15 : IsNext(r, k, quiet, t, loaded)
    BY Stepping
<1>2. k = 4 \/ k = PathCount + 11
    BY <1>1, Where DEF IsNext
<1>3. PICK q : q = [r EXCEPT !.cache = x]
    OBVIOUS
<1>4. Has(q, r.op, r.steps, x, r.docs, r.parsed, r.units, r.index, r.found)
    <2>1. IsRun(r)
        BY <1>1 DEF IsNext, IsAt
    <2> QED
        BY <1>3, <2>1, Altered
<1>5. PICK n : n = PathCount
    OBVIOUS
<1>6. n \in Nat
    BY <1>5 DEF PathsAreListed
<1>7. /\ Indexing(r.cache, r.docs, r.index, k, quiet, t, loaded)
      /\ Scanning(r.cache, r.parsed, r.units, r.found, k, quiet, t)
    BY <1>1 DEF IsNext, IsAt
<1>8. Indexing(x, r.docs, r.index, k + 1, quiet, t, loaded)
    BY <1>2, <1>5, <1>6, <1>7, NoDocs DEF Indexing
<1>9. Scanning(x, r.parsed, r.units, r.found, k + 1, quiet, t)
    BY <1>2, <1>5, <1>6, <1>7 DEF Scanning
<1> QED
    BY <1>1, <1>3, <1>4, <1>8, <1>9, Advance

LEMMA AfterCollect ==
    ASSUME PathsAreListed, NEW r, NEW quiet, NEW t, NEW loaded, InPlace(r, quiet, t, loaded),
           r.steps # << >>, r.steps[1][1] = "collect",
           NEW x, quiet => x = r.docs \o DocsIn(t, r.steps[1][2]),
           \A path \in ToSet(Paths) : FileIsWell(t[path]),
           NEW s, s = [[r EXCEPT !.docs = x] EXCEPT !.steps = Tail(@)]
    PROVE  InPlace(s, quiet, t, loaded)
<1>1. PICK k \in 1 .. PathCount + 15 : IsNext(r, k, quiet, t, loaded)
    BY Stepping
<1>2. k \in 5 .. PathCount + 4 /\ r.steps[1][2] = Paths[k - 4]
    BY <1>1, Where DEF IsNext
<1>3. PICK q : q = [r EXCEPT !.docs = x]
    OBVIOUS
<1>4. Has(q, r.op, r.steps, r.cache, x, r.parsed, r.units, r.index, r.found)
    <2>1. IsRun(r)
        BY <1>1 DEF IsNext, IsAt
    <2> QED
        BY <1>3, <2>1, Altered
<1>5. PICK n : n = PathCount
    OBVIOUS
<1>6. n \in Nat
    BY <1>5 DEF PathsAreListed
<1>7. /\ Indexing(r.cache, r.docs, r.index, k, quiet, t, loaded)
      /\ Scanning(r.cache, r.parsed, r.units, r.found, k, quiet, t)
    BY <1>1 DEF IsNext, IsAt
<1>8. DocsUpto(t, k + 1 - 5) = DocsUpto(t, k - 5) \o DocsIn(t, Paths[k - 4])
    <2>1. PICK m : m = k - 5
        OBVIOUS
    <2>2. m \in Nat /\ m + 1 <= PathCount /\ k + 1 - 5 = m + 1 /\ k - 4 = m + 1 /\ k - 5 = m
        BY <1>2, <1>5, <1>6, <2>1
    <2> QED
        BY <2>2, MoreDocs
<1>9. Indexing(r.cache, x, r.index, k + 1, quiet, t, loaded)
    <2>1. quiet => x = DocsUpto(t, k + 1 - 5)
        <3>1. quiet => r.docs = DocsUpto(t, k - 5)
            BY <1>2, <1>5, <1>6, <1>7 DEF Indexing
        <3> QED
            BY <1>2, <1>8, <3>1
    <2> QED
        BY <1>2, <1>5, <1>6, <1>7, <2>1 DEF Indexing
<1>10. Scanning(r.cache, r.parsed, r.units, r.found, k + 1, quiet, t)
    BY <1>2, <1>5, <1>6, <1>7 DEF Scanning
<1> QED
    BY <1>1, <1>3, <1>4, <1>9, <1>10, Advance

LEMMA AfterRefresh ==
    ASSUME PathsAreListed, NEW r, NEW quiet, NEW t, NEW loaded, InPlace(r, quiet, t, loaded),
           r.steps # << >>, r.steps[1][1] = "refresh",
           NEW x, loaded => x = Refresh(r.cache, r.docs, ModelFiles),
           NEW s, s = [[r EXCEPT !.cache = x] EXCEPT !.steps = Tail(@)]
    PROVE  InPlace(s, quiet, t, loaded)
<1>1. PICK k \in 1 .. PathCount + 15 : IsNext(r, k, quiet, t, loaded)
    BY Stepping
<1>2. k = PathCount + 5
    BY <1>1, Where DEF IsNext
<1>3. PICK q : q = [r EXCEPT !.cache = x]
    OBVIOUS
<1>4. Has(q, r.op, r.steps, x, r.docs, r.parsed, r.units, r.index, r.found)
    <2>1. IsRun(r)
        BY <1>1 DEF IsNext, IsAt
    <2> QED
        BY <1>3, <2>1, Altered
<1>5. PICK n : n = PathCount
    OBVIOUS
<1>6. n \in Nat
    BY <1>5 DEF PathsAreListed
<1>7. /\ Indexing(r.cache, r.docs, r.index, k, quiet, t, loaded)
      /\ Scanning(r.cache, r.parsed, r.units, r.found, k, quiet, t)
    BY <1>1 DEF IsNext, IsAt
<1>8. Indexing(x, r.docs, r.index, k + 1, quiet, t, loaded)
    BY <1>2, <1>5, <1>6, <1>7, RefreshIsSound, AllTheDocs DEF Indexing
<1>9. Scanning(x, r.parsed, r.units, r.found, k + 1, quiet, t)
    BY <1>2, <1>5, <1>6, <1>7 DEF Scanning
<1> QED
    BY <1>1, <1>3, <1>4, <1>8, <1>9, Advance

LEMMA AfterParse ==
    ASSUME PathsAreListed, NEW r, NEW quiet, NEW t, NEW loaded, InPlace(r, quiet, t, loaded),
           r.steps # << >>, r.steps[1][1] = "parse",
           NEW x, quiet => x = ParsedOf(t),
           NEW s, s = [[r EXCEPT !.parsed = x] EXCEPT !.steps = Tail(@)]
    PROVE  InPlace(s, quiet, t, loaded)
<1>1. PICK k \in 1 .. PathCount + 15 : IsNext(r, k, quiet, t, loaded)
    BY Stepping
<1>2. k = PathCount + 9
    BY <1>1, Where DEF IsNext
<1>3. PICK q : q = [r EXCEPT !.parsed = x]
    OBVIOUS
<1>4. Has(q, r.op, r.steps, r.cache, r.docs, x, r.units, r.index, r.found)
    <2>1. IsRun(r)
        BY <1>1 DEF IsNext, IsAt
    <2> QED
        BY <1>3, <2>1, Altered
<1>5. PICK n : n = PathCount
    OBVIOUS
<1>6. n \in Nat
    BY <1>5 DEF PathsAreListed
<1>7. /\ Indexing(r.cache, r.docs, r.index, k, quiet, t, loaded)
      /\ Scanning(r.cache, r.parsed, r.units, r.found, k, quiet, t)
    BY <1>1 DEF IsNext, IsAt
<1>8. Indexing(r.cache, r.docs, r.index, k + 1, quiet, t, loaded)
    BY <1>2, <1>5, <1>6, <1>7 DEF Indexing
<1>9. Scanning(r.cache, x, r.units, r.found, k + 1, quiet, t)
    BY <1>2, <1>5, <1>6, <1>7 DEF Scanning
<1> QED
    BY <1>1, <1>3, <1>4, <1>8, <1>9, Advance

LEMMA AfterUnits ==
    ASSUME PathsAreListed, NEW r, NEW quiet, NEW t, NEW loaded, InPlace(r, quiet, t, loaded),
           r.steps # << >>, r.steps[1][1] = "units",
           NEW x, quiet => x = UnitsIn(r.parsed, t),
           NEW s, s = [[r EXCEPT !.units = x] EXCEPT !.steps = Tail(@)]
    PROVE  InPlace(s, quiet, t, loaded)
<1>1. PICK k \in 1 .. PathCount + 15 : IsNext(r, k, quiet, t, loaded)
    BY Stepping
<1>2. k = PathCount + 10
    BY <1>1, Where DEF IsNext
<1>3. PICK q : q = [r EXCEPT !.units = x]
    OBVIOUS
<1>4. Has(q, r.op, r.steps, r.cache, r.docs, r.parsed, x, r.index, r.found)
    <2>1. IsRun(r)
        BY <1>1 DEF IsNext, IsAt
    <2> QED
        BY <1>3, <2>1, Altered
<1>5. PICK n : n = PathCount
    OBVIOUS
<1>6. n \in Nat
    BY <1>5 DEF PathsAreListed
<1>7. /\ Indexing(r.cache, r.docs, r.index, k, quiet, t, loaded)
      /\ Scanning(r.cache, r.parsed, r.units, r.found, k, quiet, t)
    BY <1>1 DEF IsNext, IsAt
<1>8. Indexing(r.cache, r.docs, r.index, k + 1, quiet, t, loaded)
    BY <1>2, <1>5, <1>6, <1>7 DEF Indexing
<1>9. Scanning(r.cache, r.parsed, x, r.found, k + 1, quiet, t)
    BY <1>2, <1>5, <1>6, <1>7 DEF Scanning, UnitsFrom
<1> QED
    BY <1>1, <1>3, <1>4, <1>8, <1>9, Advance

LEMMA AfterEmbed ==
    ASSUME PathsAreListed, NEW r, NEW quiet, NEW t, NEW loaded, InPlace(r, quiet, t, loaded),
           r.steps # << >>, r.steps[1][1] = "embed",
           NEW x, IsSound(x), x.version = Version("semantic"),
           DOMAIN x.vectors = TextsOf(r.units, CandidatePairs(r.units)),
           NEW s, s = [[r EXCEPT !.cache = x] EXCEPT !.steps = Tail(@)]
    PROVE  InPlace(s, quiet, t, loaded)
<1>1. PICK k \in 1 .. PathCount + 15 : IsNext(r, k, quiet, t, loaded)
    BY Stepping
<1>2. k = PathCount + 12
    BY <1>1, Where DEF IsNext
<1>3. PICK q : q = [r EXCEPT !.cache = x]
    OBVIOUS
<1>4. Has(q, r.op, r.steps, x, r.docs, r.parsed, r.units, r.index, r.found)
    <2>1. IsRun(r)
        BY <1>1 DEF IsNext, IsAt
    <2> QED
        BY <1>3, <2>1, Altered
<1>5. PICK n : n = PathCount
    OBVIOUS
<1>6. n \in Nat
    BY <1>5 DEF PathsAreListed
<1>7. /\ Indexing(r.cache, r.docs, r.index, k, quiet, t, loaded)
      /\ Scanning(r.cache, r.parsed, r.units, r.found, k, quiet, t)
    BY <1>1 DEF IsNext, IsAt
<1>8. Indexing(x, r.docs, r.index, k + 1, quiet, t, loaded)
    BY <1>2, <1>5, <1>6, <1>7 DEF Indexing
<1>9. Scanning(x, r.parsed, r.units, r.found, k + 1, quiet, t)
    BY <1>2, <1>5, <1>6, <1>7 DEF Scanning
<1> QED
    BY <1>1, <1>3, <1>4, <1>8, <1>9, Advance

LEMMA AfterWrite ==
    ASSUME PathsAreListed, NEW r, NEW quiet, NEW t, NEW loaded, InPlace(r, quiet, t, loaded),
           r.steps # << >>, r.steps[1][1] = "begin" \/ r.steps[1][1] = "finish",
           NEW x, 
           NEW s, s = [[r EXCEPT !.fd = x] EXCEPT !.steps = Tail(@)]
    PROVE  InPlace(s, quiet, t, loaded)
<1>1. PICK k \in 1 .. PathCount + 15 : IsNext(r, k, quiet, t, loaded)
    BY Stepping
<1>2. k = PathCount + 6 \/ k = PathCount + 7 \/ k = PathCount + 13 \/ k = PathCount + 14
    BY <1>1, Where DEF IsNext
<1>3. PICK q : q = [r EXCEPT !.fd = x]
    OBVIOUS
<1>4. Has(q, r.op, r.steps, r.cache, r.docs, r.parsed, r.units, r.index, r.found)
    <2>1. IsRun(r)
        BY <1>1 DEF IsNext, IsAt
    <2> QED
        BY <1>3, <2>1, Altered
<1>5. PICK n : n = PathCount
    OBVIOUS
<1>6. n \in Nat
    BY <1>5 DEF PathsAreListed
<1>7. /\ Indexing(r.cache, r.docs, r.index, k, quiet, t, loaded)
      /\ Scanning(r.cache, r.parsed, r.units, r.found, k, quiet, t)
    BY <1>1 DEF IsNext, IsAt
<1>8. Indexing(r.cache, r.docs, r.index, k + 1, quiet, t, loaded)
    BY <1>2, <1>5, <1>6, <1>7 DEF Indexing
<1>9. Scanning(r.cache, r.parsed, r.units, r.found, k + 1, quiet, t)
    BY <1>2, <1>5, <1>6, <1>7 DEF Scanning
<1> QED
    BY <1>1, <1>3, <1>4, <1>8, <1>9, Advance

LEMMA AfterIndex ==
    ASSUME PathsAreListed, NEW r, NEW quiet, NEW t, NEW loaded, InPlace(r, quiet, t, loaded),
           r.steps # << >>, r.steps[1] = <<"rename", "docs">>,
           NEW x, x = <<r.cache>>,
           NEW s, s = [[r EXCEPT !.index = x] EXCEPT !.steps = Tail(@)]
    PROVE  InPlace(s, quiet, t, loaded)
<1>1. PICK k \in 1 .. PathCount + 15 : IsNext(r, k, quiet, t, loaded)
    BY Stepping
<1>2. k = PathCount + 8
    BY <1>1, Where DEF IsNext
<1>3. PICK q : q = [r EXCEPT !.index = x]
    OBVIOUS
<1>4. Has(q, r.op, r.steps, r.cache, r.docs, r.parsed, r.units, x, r.found)
    <2>1. IsRun(r)
        BY <1>1 DEF IsNext, IsAt
    <2> QED
        BY <1>3, <2>1, Altered
<1>5. PICK n : n = PathCount
    OBVIOUS
<1>6. n \in Nat
    BY <1>5 DEF PathsAreListed
<1>7. /\ Indexing(r.cache, r.docs, r.index, k, quiet, t, loaded)
      /\ Scanning(r.cache, r.parsed, r.units, r.found, k, quiet, t)
    BY <1>1 DEF IsNext, IsAt
<1>8. IsIndexOf(r.cache, r.docs) /\ x # << >> /\ x[1] = r.cache
    <2>1. r.cache.version = Version("docs") /\ r.cache.docs = Distinct(r.docs) /\ IsSound(r.cache)
        BY <1>2, <1>5, <1>6, <1>7 DEF Indexing
    <2> QED
        BY <2>1 DEF IsIndexOf, IsSound
<1>9. Indexing(r.cache, r.docs, x, k + 1, quiet, t, loaded)
    BY <1>2, <1>5, <1>6, <1>7, <1>8 DEF Indexing
<1>10. Scanning(r.cache, r.parsed, r.units, r.found, k + 1, quiet, t)
    BY <1>2, <1>5, <1>6, <1>7 DEF Scanning
<1> QED
    BY <1>1, <1>3, <1>4, <1>9, <1>10, Advance

LEMMA AfterScan ==
    ASSUME PathsAreListed, NEW r, NEW quiet, NEW t, NEW loaded, InPlace(r, quiet, t, loaded),
           r.steps # << >>, r.steps[1] = <<"rename", "semantic">>,
           NEW x, x[1] = FoundBy(r.units),
           NEW s, s = [[r EXCEPT !.found = x] EXCEPT !.steps = Tail(@)]
    PROVE  InPlace(s, quiet, t, loaded)
<1>1. PICK k \in 1 .. PathCount + 15 : IsNext(r, k, quiet, t, loaded)
    BY Stepping
<1>2. k = PathCount + 15
    BY <1>1, Where DEF IsNext
<1>3. PICK q : q = [r EXCEPT !.found = x]
    OBVIOUS
<1>4. Has(q, r.op, r.steps, r.cache, r.docs, r.parsed, r.units, r.index, x)
    <2>1. IsRun(r)
        BY <1>1 DEF IsNext, IsAt
    <2> QED
        BY <1>3, <2>1, Altered
<1>5. PICK n : n = PathCount
    OBVIOUS
<1>6. n \in Nat
    BY <1>5 DEF PathsAreListed
<1>7. /\ Indexing(r.cache, r.docs, r.index, k, quiet, t, loaded)
      /\ Scanning(r.cache, r.parsed, r.units, r.found, k, quiet, t)
    BY <1>1 DEF IsNext, IsAt
<1>8. Indexing(r.cache, r.docs, r.index, k + 1, quiet, t, loaded)
    BY <1>2, <1>5, <1>6, <1>7 DEF Indexing
<1>9. Scanning(r.cache, r.parsed, r.units, x, k + 1, quiet, t)
    BY <1>2, <1>5, <1>6, <1>7 DEF Scanning
<1> QED
    BY <1>1, <1>3, <1>4, <1>8, <1>9, Advance

(* A pass that ends early is at the end of the script.                     *)
LEMMA Ended ==
    ASSUME PathsAreListed, NEW r, NEW quiet, NEW t, NEW loaded, InPlace(r, quiet, t, loaded),
           r.steps # << >>, r.steps[1][1] \in {"embed", "units"} \/ r.steps[1] = <<"rename", "semantic">>,
           NEW s, NEW units, NEW found,
           Has(s, r.op, << >>, r.cache, r.docs, r.parsed, units, r.index, found),
           found = r.found \/ (found[1] = FoundBy(units) /\ (quiet => units = UnitsFrom(t)))
    PROVE  InPlace(s, quiet, t, loaded)
<1>1. PICK k \in 1 .. PathCount + 15 : IsNext(r, k, quiet, t, loaded)
    BY Stepping
<1>2. k = PathCount + 10 \/ k = PathCount + 12 \/ k = PathCount + 15
    <2>1. r.steps[1][1] \in {"embed", "units"} \/ (r.steps[1][1] = "rename" /\ r.steps[1][2] = "semantic")
        OBVIOUS
    <2> QED
        BY <1>1, <2>1, Where DEF IsNext
<1>3. PICK n : n = PathCount
    OBVIOUS
<1>4. n \in Nat
    BY <1>3 DEF PathsAreListed
<1>5. r.op \in Ops /\ k <= End(r.op)
    <2>1. First(r.op) \in 1 .. End(r.op) /\ End(r.op) \in 1 .. PathCount + 15
        BY <1>1, PartOfScript DEF IsNext, IsAt
    <2> QED
        BY <1>1, <1>3, <1>4, <2>1 DEF IsNext, IsAt
<1>6. End(r.op) = n + 15
    BY <1>2, <1>3, <1>4, <1>5 DEF End
<1>7. /\ Indexing(r.cache, r.docs, r.index, k, quiet, t, loaded)
      /\ Scanning(r.cache, r.parsed, r.units, r.found, k, quiet, t)
    BY <1>1 DEF IsNext, IsAt
<1>8. Indexing(r.cache, r.docs, r.index, End(r.op) + 1, quiet, t, loaded)
    BY <1>2, <1>3, <1>4, <1>6, <1>7 DEF Indexing
<1>9. r.found = << >>
    BY <1>2, <1>3, <1>4, <1>7 DEF Scanning
<1>10. Scanning(r.cache, r.parsed, units, found, End(r.op) + 1, quiet, t)
    BY <1>3, <1>4, <1>6, <1>9 DEF Scanning
<1>11. << >> = Rest(r.op, End(r.op) + 1) /\ End(r.op) + 1 \in First(r.op) .. End(r.op) + 1
    BY <1>1, <1>5, RestOf DEF IsNext, IsAt
<1> QED
    BY <1>5, <1>8, <1>10, <1>11, Arrives

(* An operation starts at its part of the script, with nothing done.       *)
LEMMA Started ==
    ASSUME PathsAreListed, NEW op \in Ops, NEW quiet, NEW t, NEW loaded,
           NEW s, s = [NoJob EXCEPT !.op = op, !.steps = Steps(op)]
    PROVE  InPlace(s, quiet, t, loaded)
<1>1. Has(s, op, Steps(op), NoCache, << >>, << >>, << >>, << >>, << >>)
    BY DEF NoJob, Has, IsRun
<1>2. PICK n : n = PathCount
    OBVIOUS
<1>3. n \in Nat
    BY <1>2 DEF PathsAreListed
<1>4. First(op) = 1 \/ First(op) = 3 \/ First(op) = n + 9
    BY <1>2 DEF First
<1>5. Steps(op) = Rest(op, First(op)) /\ First(op) \in First(op) .. End(op) + 1
    <2>1. First(op) \in 1 .. End(op) /\ End(op) \in 1 .. PathCount + 15
        BY PartOfScript
    <2> QED
        BY <2>1, <1>2, <1>3, PartOfScript DEF Rest
<1>6. Indexing(NoCache, << >>, << >>, First(op), quiet, t, loaded)
    BY <1>2, <1>3, <1>4, NothingIsSound DEF Indexing
<1>7. Scanning(NoCache, << >>, << >>, << >>, First(op), quiet, t)
    BY <1>2, <1>3, <1>4 DEF Scanning
<1> QED
    BY <1>1, <1>5, <1>6, <1>7, Arrives

(* The model is there to stay.                                             *)
LEMMA ModelStays ==
    ASSUME NEW r, NEW quiet, NEW t, NEW loaded, InPlace(r, quiet, t, loaded), NEW now, loaded => now
    PROVE  InPlace(r, quiet, t, now)
<1>1. CASE r = NoJob
    BY <1>1 DEF InPlace
<1>2. ASSUME NEW k \in 1 .. PathCount + 16, IsAt(r, k, quiet, t, loaded) PROVE IsAt(r, k, quiet, t, now)
    <2>1. /\ Indexing(r.cache, r.docs, r.index, k, quiet, t, loaded)
          /\ Scanning(r.cache, r.parsed, r.units, r.found, k, quiet, t)
        BY <1>2 DEF IsAt
    <2>2. Indexing(r.cache, r.docs, r.index, k, quiet, t, now)
        BY <2>1 DEF Indexing
    <2>3. Scanning(r.cache, r.parsed, r.units, r.found, k, quiet, t)
        BY <2>1 DEF Scanning
    <2> QED
        BY <1>2, <2>2, <2>3 DEF IsAt
<1> QED
    BY <1>1, <1>2 DEF InPlace

(* A change of the workspace ends the calm.                                *)
LEMMA CalmEnds ==
    ASSUME NEW r, NEW quiet, NEW t, NEW loaded, InPlace(r, quiet, t, loaded), NEW now
    PROVE  InPlace(r, FALSE, now, loaded)
<1>1. CASE r = NoJob
    BY <1>1 DEF InPlace
<1>2. ASSUME NEW k \in 1 .. PathCount + 16, IsAt(r, k, quiet, t, loaded) PROVE IsAt(r, k, FALSE, now, loaded)
    <2>1. /\ Indexing(r.cache, r.docs, r.index, k, quiet, t, loaded)
          /\ Scanning(r.cache, r.parsed, r.units, r.found, k, quiet, t)
        BY <1>2 DEF IsAt
    <2>2. Indexing(r.cache, r.docs, r.index, k, FALSE, now, loaded)
        BY <2>1 DEF Indexing
    <2>3. Scanning(r.cache, r.parsed, r.units, r.found, k, FALSE, now)
        BY <2>1 DEF Scanning
    <2> QED
        BY <1>2, <2>2, <2>3 DEF IsAt
<1> QED
    BY <1>1, <1>2 DEF InPlace

(* The vectors kept are those a scan judges by.                            *)
LEMMA JudgedFresh ==
    ASSUME NEW cache, NEW units, IsSound(cache), cache.version = Version("semantic"),
           DOMAIN cache.vectors = TextsOf(units, CandidatePairs(units))
    PROVE  FoundWith(cache, units) = FoundBy(units)
<1>1. PICK pairs : pairs = CandidatePairs(units)
    OBVIOUS
<1>2. \A text \in TextsOf(units, pairs) : VectorIn(cache, text) = Fresh(text)
    BY <1>1 DEF IsSound, VectorIn
<1>3. ASSUME NEW p \in pairs, NEW i \in {p[1], p[2]}
      PROVE  \A text \in {units[i].doc, Signatures(units)[i], units[i].code} :
                text # NoText => VectorIn(cache, text) = Fresh(text)
    <2>1. i \in UNION {{q[1], q[2]} : q \in pairs}
        OBVIOUS
    <2>2. \A text \in {units[i].doc, Signatures(units)[i], units[i].code} :
                text # NoText => text \in TextsOf(units, pairs)
        <3>1. PICK all : all = UNION {{q[1], q[2]} : q \in pairs}
            OBVIOUS
        <3>2. TextsOf(units, pairs) = (UNION {{units[n].doc, Signatures(units)[n], units[n].code} : n \in all}) \ {NoText}
            BY <3>1 DEF TextsOf
        <3>3. i \in all
            BY <2>1, <3>1
        <3>4. {units[i].doc, Signatures(units)[i], units[i].code}
                \in {{units[n].doc, Signatures(units)[n], units[n].code} : n \in all}
            BY <3>3
        <3>5. PICK sets : sets = {{units[n].doc, Signatures(units)[n], units[n].code} : n \in all}
            OBVIOUS
        <3>6. TextsOf(units, pairs) = (UNION sets) \ {NoText}
            BY <3>2, <3>5
        <3> QED
            BY <3>4, <3>5, <3>6
    <2> QED
        BY <1>2, <2>2
<1>4. ASSUME NEW p \in pairs
      PROVE  Scores(units, p[1], p[2], LAMBDA t : VectorIn(cache, t), Cosine)
                = Scores(units, p[1], p[2], Fresh, Cosine)
    <2>1. PICK i : i = p[1]
        OBVIOUS
    <2>2. PICK k : k = p[2]
        OBVIOUS
    <2>3. /\ units[i].doc # NoText => VectorIn(cache, units[i].doc) = Fresh(units[i].doc)
          /\ units[i].code # NoText => VectorIn(cache, units[i].code) = Fresh(units[i].code)
          /\ Signatures(units)[i] # NoText =>
                VectorIn(cache, Signatures(units)[i]) = Fresh(Signatures(units)[i])
        BY <1>3, <2>1
    <2>4. /\ units[k].doc # NoText => VectorIn(cache, units[k].doc) = Fresh(units[k].doc)
          /\ units[k].code # NoText => VectorIn(cache, units[k].code) = Fresh(units[k].code)
          /\ Signatures(units)[k] # NoText =>
                VectorIn(cache, Signatures(units)[k]) = Fresh(Signatures(units)[k])
        BY <1>3, <2>2
    <2>5. Scores(units, i, k, LAMBDA t : VectorIn(cache, t), Cosine) = Scores(units, i, k, Fresh, Cosine)
        BY <2>3, <2>4 DEF Scores
    <2> QED
        BY <2>1, <2>2, <2>5
<1> QED
    BY <1>1, <1>4 DEF Judged, FoundBy, FoundWith

LEMMA OneMore ==
    ASSUME NEW S, IsFiniteSet(S), NEW n \in Nat, Cardinality(S) <= n, NEW x
    PROVE  IsFiniteSet(S \cup {x}) /\ Cardinality(S \cup {x}) <= n + 1
<1>1. Cardinality(S) \in Nat
    BY FS_CardinalityType
<1>2. IsFiniteSet(S \cup {x}) /\ Cardinality(S \cup {x}) = IF x \in S THEN Cardinality(S) ELSE Cardinality(S) + 1
    BY FS_AddElement
<1> QED
    BY <1>1, <1>2

(* There is a name for a new file: of the files in use, besides none at    *)
(* all, there are fewer than names.                                        *)
DiskIsWell(d) == d \in [Caches -> [cache : Ids \cup {0}, tmp : Ids \cup {0}]]

LEMMA NewFile ==
    ASSUME IsFiniteSet(Searchers), NEW d, DiskIsWell(d), NEW r, NEW c \in Caches, d[c].tmp = 0
    PROVE  \E i \in Ids : i \notin Referenced(d, r)
<1>1. PICK m : m = Cardinality(Searchers)
    OBVIOUS
<1>2. m \in Nat
    BY <1>1, FS_CardinalityType
<1>3. IsFiniteSet(Ids) /\ Cardinality(Ids) = m + 4
    <2>1. Ids = 1 .. 4 + m
        BY <1>1 DEF Ids
    <2> QED
        BY <1>2, <2>1, FS_Interval
<1>4. PICK fds : fds = {r[p].fd : p \in Searchers}
    OBVIOUS
<1>5. IsFiniteSet(fds) /\ Cardinality(fds) \in Nat /\ Cardinality(fds) <= m
    <2>1. PICK f : f = [p \in Searchers |-> r[p].fd]
        OBVIOUS
    <2>2. f \in Surjection(Searchers, fds)
        BY <1>4, <2>1 DEF Surjection
    <2> QED
        BY <1>1, <2>2, FS_Surjection, FS_CardinalityType
<1>6. PICK other \in Caches : \A e \in Caches : e = c \/ e = other
    BY DEF Caches
<1>7. PICK used : used = ((fds \cup {d[c].cache}) \cup {d[other].cache}) \cup {d[other].tmp}
    OBVIOUS
<1>8. IsFiniteSet(used) /\ Cardinality(used) \in Nat /\ Cardinality(used) <= m + 3
    <2>1. PICK a : a = fds \cup {d[c].cache}
        OBVIOUS
    <2>2. PICK b : b = a \cup {d[other].cache}
        OBVIOUS
    <2>3. m + 1 \in Nat /\ m + 2 \in Nat /\ (m + 1) + 1 = m + 2 /\ (m + 2) + 1 = m + 3
        BY <1>2
    <2>4. IsFiniteSet(a) /\ Cardinality(a) <= m + 1
        BY <1>2, <1>5, <2>1, OneMore
    <2>5. IsFiniteSet(b) /\ Cardinality(b) <= (m + 1) + 1
        BY <2>2, <2>3, <2>4, OneMore
    <2>6. used = b \cup {d[other].tmp}
        BY <1>7, <2>1, <2>2
    <2>7. IsFiniteSet(b \cup {d[other].tmp}) /\ Cardinality(b \cup {d[other].tmp}) <= (m + 2) + 1
        BY <2>3, <2>5, OneMore
    <2> QED
        BY <2>3, <2>6, <2>7, FS_CardinalityType
<1>9. Referenced(d, r) \subseteq used \cup {0}
    <2> SUFFICES ASSUME NEW x \in Referenced(d, r) PROVE x \in used \cup {0}
        OBVIOUS
    <2>1. x \in fds \/ \E e \in Caches : x = d[e].cache \/ x = d[e].tmp
        BY <1>4 DEF Referenced
    <2>2. ASSUME NEW e \in Caches, x = d[e].cache \/ x = d[e].tmp PROVE x \in used \cup {0}
        <3>1. e = c \/ e = other
            BY <1>6
        <3> QED
            BY <1>7, <2>2, <3>1
    <2> QED
        BY <1>7, <2>1, <2>2
<1>10. ~ (Ids \subseteq used)
    <2> SUFFICES ASSUME Ids \in SUBSET used PROVE FALSE
        OBVIOUS
    <2>1. Cardinality(Ids) <= Cardinality(used)
        BY <1>8, FS_Subset
    <2> QED
        BY <1>2, <1>3, <1>8, <2>1
<1>11. 0 \notin Ids
    BY DEF Ids
<1> QED
    BY <1>9, <1>10, <1>11

(* What the guards of the actions find.                                    *)
LEMMA StepOnCache ==
    ASSUME PathsAreListed, NEW r, NEW quiet, NEW t, NEW loaded, InPlace(r, quiet, t, loaded),
           r.steps # << >>, r.steps[1][1] \in {"clear", "load", "begin", "rename"}
    PROVE  r.steps[1][2] \in Caches
<1>1. PICK k \in 1 .. PathCount + 15 : IsNext(r, k, quiet, t, loaded)
    BY Stepping
<1> QED
    BY <1>1, Where DEF IsNext, Caches

LEMMA CacheIsSound ==
    ASSUME NEW r, NEW quiet, NEW t, NEW loaded, InPlace(r, quiet, t, loaded)
    PROVE  IsSound(r.cache) /\ IsRun(r)
<1>1. IsSound(NoJob.cache) /\ IsRun(NoJob)
    BY NothingIsSound DEF NoJob, IsRun
<1> QED
    BY <1>1 DEF InPlace, IsAt, Indexing

LEMMA ParsedByThen ==
    ASSUME PathsAreListed, NEW r, NEW quiet, NEW t, NEW loaded, InPlace(r, quiet, t, loaded),
           r.steps # << >>, r.steps[1][1] = "units"
    PROVE  quiet => UnitsIn(r.parsed, t) = UnitsFrom(t)
<1>1. PICK k \in 1 .. PathCount + 15 : IsNext(r, k, quiet, t, loaded)
    BY Stepping
<1>2. k = PathCount + 10
    BY <1>1, Where DEF IsNext
<1>3. quiet => r.parsed = ParsedOf(t)
    BY <1>1, <1>2 DEF IsNext, IsAt, Scanning
<1> QED
    BY <1>3 DEF UnitsFrom

LEMMA KeptByThen ==
    ASSUME PathsAreListed, NEW r, NEW quiet, NEW t, NEW loaded, InPlace(r, quiet, t, loaded),
           r.steps # << >>, r.steps[1] = <<"rename", "semantic">>
    PROVE  FoundWith(r.cache, r.units) = FoundBy(r.units)
<1>1. PICK k \in 1 .. PathCount + 15 : IsNext(r, k, quiet, t, loaded)
    BY Stepping
<1>2. k = PathCount + 15
    BY <1>1, Where DEF IsNext
<1>3. PICK n : n = PathCount
    OBVIOUS
<1>4. k \in PathCount + 13 .. PathCount + 15
    BY <1>2, <1>3 DEF PathsAreListed
<1>5. /\ r.cache.version = Version("semantic")
      /\ DOMAIN r.cache.vectors = TextsOf(r.units, CandidatePairs(r.units))
    BY <1>1, <1>4 DEF IsNext, IsAt, Scanning
<1>6. IsSound(r.cache)
    BY CacheIsSound
<1> QED
    BY <1>5, <1>6, JudgedFresh

LEMMA WholeModel == ASSUME Loaded PROVE Weights = ModelFiles
BY DEF Loaded, Whole, Weights

(* The invariant.                                                          *)
NodesAreSound(nodes) == DOMAIN nodes = Ids /\ \A i \in Ids : IsSound(nodes[i])
IndexInv ==
    /\ sources \in Trees /\ DiskIsWell(caches) /\ NodesAreSound(inode) /\ DOMAIN job = Searchers
    /\ \A p \in Searchers : InPlace(job[p], p \in unhurried, sources, Loaded)

LEMMA FromAssumption ==
    ASSUME IndexAssumption
    PROVE  /\ PathsAreListed /\ IsFiniteSet(Searchers)
           /\ \A t \in Trees : \A path \in ToSet(Paths) : FileIsWell(t[path])
           /\ \A c \in Caches : \A cache \in Older[c] : IsSound(cache)
BY PathsListed DEF IndexAssumption

LEMMA IndexInitially == ASSUME IndexAssumption, IndexInit PROVE IndexInv
<1>1. PICK was \in [Caches -> 0 .. 1], left \in [Caches -> UNION {Older[c] : c \in Caches}] :
        /\ \A c \in Caches : left[c] \in Older[c]
        /\ caches = [c \in Caches |-> [cache |-> IF was[c] = 0 THEN 0 ELSE IF c = "docs" THEN 1 ELSE 2, tmp |-> 0]]
        /\ inode = [i \in Ids |-> IF i = caches["docs"].cache THEN left["docs"]
                                  ELSE IF i = caches["semantic"].cache THEN left["semantic"] ELSE Torn]
    BY DEF IndexInit
<1>2. 1 \in Ids /\ 2 \in Ids
    <2>1. Cardinality(Searchers) \in Nat
        BY FromAssumption, FS_CardinalityType
    <2> QED
        BY <2>1 DEF Ids
<1>3. DiskIsWell(caches)
    <2>1. \A c \in Caches : (IF was[c] = 0 THEN 0 ELSE IF c = "docs" THEN 1 ELSE 2) \in Ids \cup {0}
        BY <1>2
    <2> QED
        BY <1>1, <2>1 DEF DiskIsWell
<1>4. NodesAreSound(inode)
    <2>1. IsSound(left["docs"]) /\ IsSound(left["semantic"])
        BY <1>1, FromAssumption DEF Caches
    <2> QED
        BY <1>1, <2>1, NothingIsSound DEF NodesAreSound
<1>5. \A p \in Searchers : InPlace(job[p], p \in unhurried, sources, Loaded)
    BY DEF IndexInit, InPlace
<1> QED
    BY <1>3, <1>4, <1>5 DEF IndexInit, IndexInv

(* One process moves; the others are where they were.                      *)
LEMMA OneMoves ==
    ASSUME IndexInv, NEW p \in Searchers, NEW s, job' = [job EXCEPT ![p] = s],
           InPlace(s, p \in unhurried, sources, Loaded), UNCHANGED <<sources, hub, unhurried>>,
           DiskIsWell(caches'), NodesAreSound(inode')
    PROVE  IndexInv'
<1>1. Loaded' = Loaded
    BY DEF Loaded, Whole
<1>2. ASSUME NEW q \in Searchers PROVE InPlace(job'[q], q \in unhurried, sources, Loaded)
    BY DEF IndexInv
<1>3. \A q \in Searchers : InPlace(job'[q], q \in unhurried', sources', Loaded')
    BY <1>1, <1>2
<1> QED
    BY <1>3 DEF IndexInv

(* Files that stay in use keep what they hold.                             *)
LEMMA KeptSound ==
    ASSUME NEW content, DOMAIN content = Ids, \A i \in Ids : IsSound(content[i]), Keep(content)
    PROVE  NodesAreSound(inode')
BY NothingIsSound DEF Keep, NodesAreSound

LEMMA StillSound == ASSUME IndexInv, Keep(inode) PROVE NodesAreSound(inode')
BY KeptSound DEF IndexInv, NodesAreSound

LEMMA MoveKeeps ==
    ASSUME IndexAssumption, IndexInv, NEW p \in Searchers,
           LoadModel(p) \/ Load(p) \/ Collect(p) \/ RefreshDocs(p) \/ ParseAll(p)
    PROVE  IndexInv'
<1>1. PICK r : r = job[p]
    OBVIOUS
<1>2. PICK quiet : quiet = (p \in unhurried)
    OBVIOUS
<1>3. InPlace(r, quiet, sources, Loaded) /\ PathsAreListed /\ sources \in Trees
    BY <1>1, <1>2, FromAssumption DEF IndexInv
<1>4. DiskIsWell(caches) /\ NodesAreSound(inode)
    BY DEF IndexInv
<1>5. CASE LoadModel(p)
    <2>1. PICK s : s = [r EXCEPT !.steps = Tail(@)]
        OBVIOUS
    <2>2. /\ job' = [job EXCEPT ![p] = s] /\ r.steps # << >> /\ r.steps[1][1] = "model" /\ Loaded
          /\ UNCHANGED <<sources, hub, unhurried, caches, inode>>
        BY <1>1, <1>5, <2>1 DEF LoadModel, Comes, StepOf, Do
    <2>3. InPlace(s, quiet, sources, Loaded)
        BY <1>3, <2>1, <2>2, AfterModel
    <2> QED
        BY <1>2, <1>4, <2>2, <2>3, OneMoves
<1>6. CASE Load(p)
    <2>1. PICK x : x = IF Content(caches[StepOf(p)[2]].cache) = Torn THEN NoCache ELSE Content(caches[StepOf(p)[2]].cache)
        OBVIOUS
    <2>2. PICK s : s = [[r EXCEPT !.cache = x] EXCEPT !.steps = Tail(@)]
        OBVIOUS
    <2>3. /\ job' = [job EXCEPT ![p] = s] /\ r.steps # << >> /\ r.steps[1][1] = "load"
          /\ UNCHANGED <<sources, hub, unhurried, caches, inode>>
        BY <1>1, <1>6, <2>1, <2>2 DEF Load, Comes, StepOf, Do
    <2>4. IsSound(x)
        <3>1. StepOf(p)[2] \in Caches
            BY <1>1, <1>3, <2>3, StepOnCache DEF StepOf
        <3>2. caches[StepOf(p)[2]].cache \in Ids \cup {0}
            BY <1>4, <3>1 DEF DiskIsWell
        <3>3. IsSound(Content(caches[StepOf(p)[2]].cache))
            BY <1>4, <3>2, NothingIsSound DEF Content, NodesAreSound
        <3> QED
            BY <2>1, <3>3, NothingIsSound
    <2>5. InPlace(s, quiet, sources, Loaded)
        BY <1>3, <2>2, <2>3, <2>4, AfterLoad
    <2> QED
        BY <1>2, <1>4, <2>3, <2>5, OneMoves
<1>7. CASE Collect(p)
    <2>1. PICK x : x = r.docs \o DocsIn(sources, r.steps[1][2])
        OBVIOUS
    <2>2. PICK s : s = [[r EXCEPT !.docs = x] EXCEPT !.steps = Tail(@)]
        OBVIOUS
    <2>3. /\ job' = [job EXCEPT ![p] = s] /\ r.steps # << >> /\ r.steps[1][1] = "collect"
          /\ UNCHANGED <<sources, hub, unhurried, caches, inode>>
        BY <1>1, <1>7, <2>1, <2>2 DEF Collect, Comes, StepOf, Do, DocsIn
    <2>4. \A path \in ToSet(Paths) : FileIsWell(sources[path])
        BY <1>3, FromAssumption
    <2>5. InPlace(s, quiet, sources, Loaded)
        BY <1>3, <2>1, <2>2, <2>3, <2>4, AfterCollect
    <2> QED
        BY <1>2, <1>4, <2>3, <2>5, OneMoves
<1>8. CASE RefreshDocs(p)
    <2>1. PICK x : x = Refresh(r.cache, r.docs, Weights)
        OBVIOUS
    <2>2. PICK s : s = [[r EXCEPT !.cache = x] EXCEPT !.steps = Tail(@)]
        OBVIOUS
    <2>3. /\ job' = [job EXCEPT ![p] = s] /\ r.steps # << >> /\ r.steps[1][1] = "refresh"
          /\ UNCHANGED <<sources, hub, unhurried, caches, inode>>
        BY <1>1, <1>8, <2>1, <2>2 DEF RefreshDocs, Comes, StepOf, Do
    <2>4. InPlace(s, quiet, sources, Loaded)
        BY <1>3, <2>1, <2>2, <2>3, AfterRefresh, WholeModel
    <2> QED
        BY <1>2, <1>4, <2>3, <2>4, OneMoves
<1>9. CASE ParseAll(p)
    <2>1. PICK x : x = ParsedOf(sources)
        OBVIOUS
    <2>2. PICK s : s = [[r EXCEPT !.parsed = x] EXCEPT !.steps = Tail(@)]
        OBVIOUS
    <2>3. /\ job' = [job EXCEPT ![p] = s] /\ r.steps # << >> /\ r.steps[1][1] = "parse"
          /\ UNCHANGED <<sources, hub, unhurried, caches, inode>>
        BY <1>1, <1>9, <2>1, <2>2 DEF ParseAll, Comes, StepOf, Do, ParsedOf
    <2>4. InPlace(s, quiet, sources, Loaded)
        BY <1>3, <2>1, <2>2, <2>3, AfterParse
    <2> QED
        BY <1>2, <1>4, <2>3, <2>4, OneMoves
<1> QED
    BY <1>5, <1>6, <1>7, <1>8, <1>9

LEMMA ScanMoveKeeps ==
    ASSUME IndexAssumption, IndexInv, NEW p \in Searchers, CollectUnits(p) \/ Embed(p)
    PROVE  IndexInv'
<1>1. PICK r : r = job[p]
    OBVIOUS
<1>2. PICK quiet : quiet = (p \in unhurried)
    OBVIOUS
<1>3. InPlace(r, quiet, sources, Loaded) /\ PathsAreListed
    BY <1>1, <1>2, FromAssumption DEF IndexInv
<1>4. DiskIsWell(caches) /\ NodesAreSound(inode)
    BY DEF IndexInv
<1>5. CASE CollectUnits(p)
    <2>1. PICK units : units = UnitsIn(r.parsed, sources)
        OBVIOUS
    <2>2. /\ r.steps # << >> /\ r.steps[1][1] = "units" /\ UNCHANGED <<sources, hub, unhurried, caches, inode>>
          /\ IF CandidatePairs(units) = {}
             THEN job' = [job EXCEPT ![p].steps = << >>, ![p].units = units, ![p].found = <<{}>>]
             ELSE job' = [job EXCEPT ![p] = [[r EXCEPT !.units = units] EXCEPT !.steps = Tail(@)]]
        BY <1>1, <1>5, <2>1 DEF CollectUnits, Comes, StepOf, Do
    <2>3. CASE CandidatePairs(units) = {}
        <3>1. PICK s : s = [[[r EXCEPT !.steps = << >>] EXCEPT !.units = units] EXCEPT !.found = <<{}>>]
            OBVIOUS
        <3>2. job' = [job EXCEPT ![p] = s]
            BY <1>1, <2>2, <2>3, <3>1 DEF IndexInv
        <3>3. Has(s, r.op, << >>, r.cache, r.docs, r.parsed, units, r.index, <<{}>>)
            <4>1. PICK a : a = [r EXCEPT !.steps = << >>]
                OBVIOUS
            <4>2. PICK b : b = [a EXCEPT !.units = units]
                OBVIOUS
            <4>3. IsRun(r)
                BY <1>3, CacheIsSound
            <4>4. Has(a, r.op, << >>, r.cache, r.docs, r.parsed, r.units, r.index, r.found)
                BY <4>1, <4>3, Altered
            <4>5. Has(b, a.op, a.steps, a.cache, a.docs, a.parsed, units, a.index, a.found)
                <5>1. IsRun(a)
                    BY <4>4 DEF Has
                <5> QED
                    BY <4>2, <5>1, Altered
            <4>6. s = [b EXCEPT !.found = <<{}>>]
                BY <3>1, <4>1, <4>2
            <4>7. Has(s, b.op, b.steps, b.cache, b.docs, b.parsed, b.units, b.index, <<{}>>)
                <5>1. IsRun(b)
                    BY <4>5 DEF Has
                <5> QED
                    BY <4>6, <5>1, Altered
            <4> QED
                BY <4>4, <4>5, <4>7 DEF Has
        <3>4. FoundBy(units) = {} /\ <<{}>>[1] = {}
            BY <2>3 DEF FoundBy, Judged
        <3>5. quiet => units = UnitsFrom(sources)
            <4>1. quiet => UnitsIn(r.parsed, sources) = UnitsFrom(sources)
                BY <1>3, <2>2, ParsedByThen
            <4> QED
                BY <2>1, <4>1
        <3>6. InPlace(s, quiet, sources, Loaded)
            <4>1. PICK found : found = <<{}>>
                OBVIOUS
            <4>2. found = r.found \/ (found[1] = FoundBy(units) /\ (quiet => units = UnitsFrom(sources)))
                BY <3>4, <3>5, <4>1
            <4>3. r.steps[1][1] \in {"embed", "units"} \/ r.steps[1] = <<"rename", "semantic">>
                BY <2>2
            <4> QED
                BY <1>3, <2>2, <3>3, <4>1, <4>2, <4>3, Ended
        <3> QED
            BY <1>2, <1>4, <2>2, <3>2, <3>6, OneMoves
    <2>4. CASE CandidatePairs(units) # {}
        <3>1. PICK s : s = [[r EXCEPT !.units = units] EXCEPT !.steps = Tail(@)]
            OBVIOUS
        <3>2. job' = [job EXCEPT ![p] = s]
            BY <2>2, <2>4, <3>1
        <3>3. InPlace(s, quiet, sources, Loaded)
            BY <1>3, <2>1, <2>2, <3>1, AfterUnits
        <3> QED
            BY <1>2, <1>4, <2>2, <3>2, <3>3, OneMoves
    <2> QED
        BY <2>3, <2>4
<1>6. CASE Embed(p)
    <2>1. PICK texts : texts = TextsOf(r.units, CandidatePairs(r.units))
        OBVIOUS
    <2>2. PICK x : x = RefreshTexts(r.cache, texts, Weights)
        OBVIOUS
    <2>3. PICK s : s = [[r EXCEPT !.cache = x] EXCEPT !.steps = Tail(@)]
        OBVIOUS
    <2>4. /\ job' = [job EXCEPT ![p] = s] /\ r.steps # << >> /\ r.steps[1][1] = "embed"
          /\ UNCHANGED <<sources, hub, unhurried, caches, inode>>
        BY <1>1, <1>6, <2>1, <2>2, <2>3 DEF Embed, Comes, StepOf, Do
    <2>5. Loaded \/ AllHad(r.cache, texts)
        BY <1>1, <1>6, <2>1 DEF Embed, NeedsModel
    <2>6. /\ IsSound(x) /\ x.version = Version("semantic") /\ DOMAIN x.vectors = texts
        BY <1>3, <2>2, <2>5, WholeModel, CacheIsSound, RefreshTextsIsSound
    <2>7. InPlace(s, quiet, sources, Loaded)
        BY <1>3, <2>1, <2>3, <2>4, <2>6, AfterEmbed
    <2> QED
        BY <1>2, <1>4, <2>4, <2>7, OneMoves
<1> QED
    BY <1>5, <1>6

LEMMA MissedStep ==
    ASSUME PathsAreListed, NEW r, NEW quiet, NEW t, NEW loaded, InPlace(r, quiet, t, loaded),
           r.steps # << >>, r.steps[1][1] \in {"model", "embed", "rename"}
    PROVE  /\ r.steps[1][2] # "docs" => r.steps[1][1] = "embed" \/ r.steps[1] = <<"rename", "semantic">>
           /\ r.steps[1][1] = "rename" => r.steps[1] = <<"rename", r.steps[1][2]>>
<1>1. PICK k \in 1 .. PathCount + 15 : IsNext(r, k, quiet, t, loaded)
    BY Stepping
<1>2. PICK e : e = r.steps[1]
    OBVIOUS
<1>3. e = Script[k]
    BY <1>1, <1>2 DEF IsNext
<1>4. e[1] = "model" => e[2] = "docs"
    BY <1>3, Where
<1>5. e[1] = "rename" => e = <<"rename", "docs">> \/ e = <<"rename", "semantic">>
    BY <1>3, Where, PlacesAre DEF Places
<1> QED
    BY <1>2, <1>4, <1>5

LEMMA AfterMiss ==
    ASSUME IndexAssumption, IndexInv, NEW p \in Searchers, Missed(p), UNCHANGED <<sources, hub, unhurried>>,
           Comes(p, "model") \/ Comes(p, "embed") \/ Comes(p, "rename"),
           DiskIsWell(caches'), NodesAreSound(inode')
    PROVE  IndexInv'
<1>1. PICK r : r = job[p]
    OBVIOUS
<1>2. PICK quiet : quiet = (p \in unhurried)
    OBVIOUS
<1>3. InPlace(r, quiet, sources, Loaded) /\ PathsAreListed
    BY <1>1, <1>2, FromAssumption DEF IndexInv
<1>4. r.steps # << >> /\ r.steps[1][1] \in {"model", "embed", "rename"}
    BY <1>1 DEF Comes, StepOf
<1>5. CASE r.steps[1][2] = "docs"
    <2>1. job' = [job EXCEPT ![p] = NoJob]
        BY <1>1, <1>5 DEF Missed, StepOf, GiveUp
    <2>2. InPlace(NoJob, p \in unhurried, sources, Loaded)
        BY DEF InPlace
    <2> QED
        BY <2>1, <2>2, OneMoves
<1>6. CASE r.steps[1][2] # "docs"
    <2>1. PICK a : a = [r EXCEPT !.steps = << >>]
        OBVIOUS
    <2>2. PICK s : s = [a EXCEPT !.fd = 0]
        OBVIOUS
    <2>3. job' = [job EXCEPT ![p] = s]
        BY <1>1, <1>6, <2>1, <2>2 DEF Missed, StepOf, WithoutPass, IndexInv
    <2>4. IsRun(r)
        BY <1>3, CacheIsSound
    <2>5. Has(a, r.op, << >>, r.cache, r.docs, r.parsed, r.units, r.index, r.found)
        BY <2>1, <2>4, Altered
    <2>6. Has(s, a.op, a.steps, a.cache, a.docs, a.parsed, a.units, a.index, a.found)
        <3>1. IsRun(a)
            BY <2>5 DEF Has
        <3> QED
            BY <2>2, <3>1, Altered
    <2>7. Has(s, r.op, << >>, r.cache, r.docs, r.parsed, r.units, r.index, r.found)
        BY <2>5, <2>6 DEF Has
    <2>8. r.steps[1][1] \in {"embed", "units"} \/ r.steps[1] = <<"rename", "semantic">>
        BY <1>3, <1>4, <1>6, MissedStep
    <2>9. InPlace(s, quiet, sources, Loaded)
        BY <1>3, <1>4, <2>7, <2>8, Ended
    <2> QED
        BY <1>2, <2>3, <2>9, OneMoves
<1> QED
    BY <1>5, <1>6

LEMMA FetchKeeps == ASSUME IndexAssumption, IndexInv, NEW p \in Searchers, Fetch(p) PROVE IndexInv'
<1>1. CASE Offline
    <2>1. /\ Missed(p) /\ UNCHANGED <<sources, hub, unhurried, caches, inode>>
          /\ Comes(p, "model") \/ Comes(p, "embed") \/ Comes(p, "rename")
        BY <1>1 DEF Fetch, NeedsModel
    <2>2. DiskIsWell(caches') /\ NodesAreSound(inode')
        BY <2>1 DEF IndexInv
    <2> QED
        BY <2>1, <2>2, AfterMiss
<1>2. CASE ~ Offline
    <2>1. hub \subseteq hub' /\ UNCHANGED <<job, sources, unhurried, caches, inode>>
        BY <1>2 DEF Fetch
    <2>2. Loaded => Loaded'
        BY <2>1 DEF Loaded, Whole
    <2>3. \A q \in Searchers : InPlace(job[q], q \in unhurried, sources, Loaded')
        BY <2>2, ModelStays DEF IndexInv
    <2> QED
        BY <2>1, <2>3 DEF IndexInv
<1> QED
    BY <1>1, <1>2

LEMMA StartKeeps ==
    ASSUME IndexAssumption, IndexInv, NEW p \in Searchers, NEW op \in Ops, Begin(p, op) PROVE IndexInv'
<1>1. PICK s : s = [NoJob EXCEPT !.op = op, !.steps = Steps(op)]
    OBVIOUS
<1>2. /\ job' = [job EXCEPT ![p] = s] /\ UNCHANGED <<sources, hub, caches, inode>>
      /\ unhurried' = unhurried \cup {p}
    BY <1>1 DEF Begin
<1>3. Loaded' = Loaded
    BY <1>2 DEF Loaded, Whole
<1>4. InPlace(s, p \in unhurried', sources, Loaded)
    BY <1>1, FromAssumption, Started
<1>5. \A q \in Searchers : InPlace(job'[q], q \in unhurried', sources', Loaded')
    <2> SUFFICES ASSUME NEW q \in Searchers PROVE InPlace(job'[q], q \in unhurried', sources, Loaded)
        BY <1>2, <1>3
    <2>1. CASE q = p
        BY <1>2, <1>4, <2>1 DEF IndexInv
    <2>2. CASE q # p
        <3>1. job'[q] = job[q] /\ (q \in unhurried') = (q \in unhurried)
            BY <1>2, <2>2
        <3> QED
            BY <3>1 DEF IndexInv
    <2> QED
        BY <2>1, <2>2
<1> QED
    BY <1>2, <1>5 DEF IndexInv

LEMMA ChangeKeeps == ASSUME IndexAssumption, IndexInv, ChangeTree PROVE IndexInv'
<1>1. /\ UNCHANGED <<job, hub, caches, inode>> /\ sources' \in Trees
      /\ unhurried' = {p \in Searchers : job[p].op = "none"}
    BY DEF ChangeTree
<1>2. Loaded' = Loaded
    BY <1>1 DEF Loaded, Whole
<1>3. ASSUME NEW q \in Searchers PROVE InPlace(job[q], q \in unhurried', sources', Loaded)
    <2>1. InPlace(job[q], q \in unhurried, sources, Loaded)
        BY DEF IndexInv
    <2>2. CASE q \in unhurried'
        <3>1. job[q] = NoJob
            BY <1>1, <2>1, <2>2 DEF InPlace, IsAt, Ops
        <3> QED
            BY <3>1 DEF InPlace
    <2>3. CASE q \notin unhurried'
        <3>1. InPlace(job[q], FALSE, sources', Loaded)
            BY <2>1, CalmEnds
        <3>2. (q \in unhurried') = FALSE
            BY <2>3
        <3> QED
            BY <3>1, <3>2
    <2> QED
        BY <2>2, <2>3
<1> QED
    BY <1>1, <1>2, <1>3 DEF IndexInv

LEMMA StopKeeps == ASSUME IndexAssumption, IndexInv, NEW p \in Searchers, Leave(p) \/ Abort(p) PROVE IndexInv'
<1>1. /\ job' = [job EXCEPT ![p] = NoJob] /\ UNCHANGED <<sources, hub, unhurried, caches>>
      /\ Keep(inode) \/ UNCHANGED inode
    BY DEF Leave, Abort, GiveUp
<1>2. DiskIsWell(caches') /\ NodesAreSound(inode')
    BY <1>1, StillSound DEF IndexInv
<1>3. InPlace(NoJob, p \in unhurried, sources, Loaded)
    BY DEF InPlace
<1> QED
    BY <1>1, <1>2, <1>3, OneMoves

LEMMA FileKeeps ==
    ASSUME IndexAssumption, IndexInv, NEW p \in Searchers,
           Forget(p) \/ BeginWrite(p) \/ FinishWrite(p)
    PROVE  IndexInv'
<1>1. PICK r : r = job[p]
    OBVIOUS
<1>2. PICK quiet : quiet = (p \in unhurried)
    OBVIOUS
<1>3. InPlace(r, quiet, sources, Loaded) /\ PathsAreListed
    BY <1>1, <1>2, FromAssumption DEF IndexInv
<1>4. DiskIsWell(caches) /\ NodesAreSound(inode)
    BY DEF IndexInv
<1>5. CASE Forget(p)
    <2>1. PICK s : s = [r EXCEPT !.steps = Tail(@)]
        OBVIOUS
    <2>2. /\ job' = [job EXCEPT ![p] = s] /\ r.steps # << >> /\ r.steps[1][1] = "clear" /\ Keep(inode)
          /\ caches' = [caches EXCEPT ![r.steps[1][2]].cache = 0] /\ UNCHANGED <<sources, hub, unhurried>>
        BY <1>1, <1>5, <2>1 DEF Forget, Comes, StepOf, Do
    <2>3. DiskIsWell(caches')
        BY <1>4, <2>2 DEF DiskIsWell
    <2>4. InPlace(s, quiet, sources, Loaded)
        BY <1>3, <2>1, <2>2, AfterModel
    <2> QED
        BY <1>2, <2>2, <2>3, <2>4, StillSound, OneMoves
<1>6. CASE BeginWrite(p)
    <2>1. PICK c : c = r.steps[1][2]
        OBVIOUS
    <2>2. PICK id : id = FileFor(c)
        OBVIOUS
    <2>3. PICK s : s = [[r EXCEPT !.fd = id] EXCEPT !.steps = Tail(@)]
        OBVIOUS
    <2>4. PICK content : content = [inode EXCEPT ![id] = Torn]
        OBVIOUS
    <2>5. /\ job' = [job EXCEPT ![p] = s] /\ r.steps # << >> /\ r.steps[1][1] = "begin" /\ Keep(content)
          /\ caches' = [caches EXCEPT ![c].tmp = id] /\ UNCHANGED <<sources, hub, unhurried>>
        BY <1>1, <1>6, <2>1, <2>2, <2>3, <2>4 DEF BeginWrite, Comes, StepOf, Do
    <2>6. c \in Caches
        BY <1>3, <2>1, <2>5, StepOnCache
    <2>7. id \in Ids
        <3>1. caches[c].tmp \in Ids \cup {0}
            BY <1>4, <2>6 DEF DiskIsWell
        <3>2. caches[c].tmp = 0 => \E i \in Ids : i \notin Referenced(caches, job)
            BY <1>4, <2>6, FromAssumption, NewFile
        <3> QED
            BY <2>2, <3>1, <3>2 DEF FileFor
    <2>8. DiskIsWell(caches')
        BY <1>4, <2>5, <2>6, <2>7 DEF DiskIsWell
    <2>9. NodesAreSound(inode')
        <3>1. DOMAIN content = Ids /\ \A i \in Ids : IsSound(content[i])
            BY <1>4, <2>4, NothingIsSound DEF NodesAreSound
        <3> QED
            BY <2>5, <3>1, KeptSound
    <2>10. InPlace(s, quiet, sources, Loaded)
        BY <1>3, <2>3, <2>5, AfterWrite
    <2> QED
        BY <1>2, <2>5, <2>8, <2>9, <2>10, OneMoves
<1>7. CASE FinishWrite(p)
    <2>1. PICK s : s = [[r EXCEPT !.fd = 0] EXCEPT !.steps = Tail(@)]
        OBVIOUS
    <2>2. PICK content : content = [inode EXCEPT ![r.fd] = r.cache]
        OBVIOUS
    <2>3. /\ job' = [job EXCEPT ![p] = s] /\ r.steps # << >> /\ r.steps[1][1] = "finish" /\ Keep(content)
          /\ UNCHANGED <<sources, hub, unhurried, caches>>
        BY <1>1, <1>7, <2>1, <2>2 DEF FinishWrite, Comes, StepOf, Do
    <2>4. NodesAreSound(inode')
        <3>1. IsSound(r.cache)
            BY <1>3, CacheIsSound
        <3>2. DOMAIN content = Ids /\ \A i \in Ids : IsSound(content[i])
            BY <1>4, <2>2, <3>1 DEF NodesAreSound
        <3> QED
            BY <2>3, <3>2, KeptSound
    <2>5. InPlace(s, quiet, sources, Loaded)
        BY <1>3, <2>1, <2>3, AfterWrite
    <2> QED
        BY <1>2, <1>4, <2>3, <2>4, <2>5, OneMoves
<1> QED
    BY <1>5, <1>6, <1>7

LEMMA RenameKeeps == ASSUME IndexAssumption, IndexInv, NEW p \in Searchers, Rename(p) PROVE IndexInv'
<1>1. PICK r : r = job[p]
    OBVIOUS
<1>2. PICK quiet : quiet = (p \in unhurried)
    OBVIOUS
<1>3. InPlace(r, quiet, sources, Loaded) /\ PathsAreListed
    BY <1>1, <1>2, FromAssumption DEF IndexInv
<1>4. DiskIsWell(caches)
    BY DEF IndexInv
<1>5. PICK c : c = r.steps[1][2]
    OBVIOUS
<1>6. /\ Comes(p, "rename") /\ r.steps # << >> /\ r.steps[1][1] = "rename"
      /\ Keep(inode) /\ UNCHANGED <<sources, hub, unhurried>>
    BY <1>1 DEF Rename, Comes, StepOf
<1>7. c \in Caches
    BY <1>3, <1>5, <1>6, StepOnCache
<1>8. NodesAreSound(inode')
    BY <1>6, StillSound
<1>9. CASE caches[c].tmp = 0
    <2>1. Missed(p) /\ UNCHANGED caches
        BY <1>1, <1>5, <1>9 DEF Rename, StepOf
    <2> QED
        BY <1>4, <1>6, <1>8, <2>1, AfterMiss
<1>10. CASE caches[c].tmp # 0
    <2>1. caches' = [caches EXCEPT ![c] = [cache |-> caches[c].tmp, tmp |-> 0]]
        BY <1>1, <1>5, <1>10 DEF Rename, StepOf
    <2>2. DiskIsWell(caches')
        BY <1>4, <1>7, <2>1 DEF DiskIsWell
    <2>3. r.steps[1] = <<"rename", c>>
        BY <1>3, <1>5, <1>6, MissedStep
    <2>4. CASE c = "docs"
        <3>1. PICK x : x = <<r.cache>>
            OBVIOUS
        <3>2. PICK s : s = [[r EXCEPT !.index = x] EXCEPT !.steps = Tail(@)]
            OBVIOUS
        <3>3. job' = [job EXCEPT ![p] = s]
            BY <1>1, <1>5, <1>10, <2>4, <3>1, <3>2 DEF Rename, StepOf, Do
        <3>4. InPlace(s, quiet, sources, Loaded)
            BY <1>3, <1>6, <2>3, <2>4, <3>1, <3>2, AfterIndex
        <3> QED
            BY <1>2, <1>6, <1>8, <2>2, <3>3, <3>4, OneMoves
    <2>5. CASE c # "docs"
        <3>1. c = "semantic"
            BY <1>7, <2>5 DEF Caches
        <3>2. PICK x : x = <<FoundWith(r.cache, r.units)>>
            OBVIOUS
        <3>3. PICK s : s = [[r EXCEPT !.found = x] EXCEPT !.steps = Tail(@)]
            OBVIOUS
        <3>4. job' = [job EXCEPT ![p] = s]
            BY <1>1, <1>5, <1>10, <2>5, <3>2, <3>3 DEF Rename, StepOf, Do
        <3>5. x[1] = FoundBy(r.units)
            BY <1>3, <1>6, <2>3, <3>1, <3>2, KeptByThen
        <3>6. InPlace(s, quiet, sources, Loaded)
            BY <1>3, <1>6, <2>3, <3>1, <3>3, <3>5, AfterScan
        <3> QED
            BY <1>2, <1>6, <1>8, <2>2, <3>4, <3>6, OneMoves
    <2> QED
        BY <2>4, <2>5
<1> QED
    BY <1>9, <1>10

LEMMA IndexStep == ASSUME IndexAssumption, IndexInv, [IndexNext]_indexVars PROVE IndexInv'
<1>1. CASE UNCHANGED indexVars
    <2>1. Loaded' = Loaded
        BY <1>1 DEF indexVars, Loaded, Whole
    <2> QED
        BY <1>1, <2>1 DEF indexVars, IndexInv
<1>2. CASE ChangeTree
    BY <1>2, ChangeKeeps
<1>3. ASSUME NEW p \in Searchers, NEW op \in {"search", "scan", "reindex", "force"}, Begin(p, op) PROVE IndexInv'
    BY <1>3, StartKeeps DEF Ops
<1>4. ASSUME NEW p \in Searchers, Fetch(p) PROVE IndexInv'
    BY <1>4, FetchKeeps
<1>5. ASSUME NEW p \in Searchers, LoadModel(p) \/ Load(p) \/ Collect(p) \/ RefreshDocs(p) \/ ParseAll(p)
      PROVE  IndexInv'
    BY <1>5, MoveKeeps
<1>6. ASSUME NEW p \in Searchers, CollectUnits(p) \/ Embed(p) PROVE IndexInv'
    BY <1>6, ScanMoveKeeps
<1>7. ASSUME NEW p \in Searchers, Forget(p) \/ BeginWrite(p) \/ FinishWrite(p) PROVE IndexInv'
    BY <1>7, FileKeeps
<1>8. ASSUME NEW p \in Searchers, Rename(p) PROVE IndexInv'
    BY <1>8, RenameKeeps
<1>9. ASSUME NEW p \in Searchers, Leave(p) \/ Abort(p) PROVE IndexInv'
    BY <1>9, StopKeeps
<1> QED
    BY <1>1, <1>2, <1>3, <1>4, <1>5, <1>6, <1>7, <1>8, <1>9 DEF IndexNext

LEMMA IndexInvariant == ASSUME IndexAssumption PROVE IndexSpec => []IndexInv
BY IndexInitially, IndexStep, PTL DEF IndexSpec

(* Of two sets with as much in common as a share asks, the rarest few      *)
(* items of each, as many as `PrefixLen` says, have one in common.         *)
UsesOf(sets, item) == Cardinality({k \in DOMAIN sets : item \in sets[k]})

LEMMA RarestOfAll ==
    ASSUME NEW sets, IsFiniteSet(DOMAIN sets), NEW C, C # {}, \A a \in C : Order(a) \in Nat
    PROVE  \E w \in C : \A a \in C : ~ Rarer(sets, a, w)
<1>1. \A a \in C : UsesOf(sets, a) \in Nat
    <2> SUFFICES ASSUME NEW a \in C PROVE UsesOf(sets, a) \in Nat
        OBVIOUS
    <2>1. {k \in DOMAIN sets : a \in sets[k]} \in SUBSET DOMAIN sets
        OBVIOUS
    <2> QED
        BY <2>1, FS_Subset, FS_CardinalityType DEF UsesOf
<1>2. PICK T : T = {UsesOf(sets, a) : a \in C}
    OBVIOUS
<1>3. T \in SUBSET Nat /\ T # {}
    BY <1>1, <1>2
<1>4. PICK u \in T : \A m \in T : u <= m
    BY <1>3, LeastNumber
<1>5. PICK rare : rare = {a \in C : UsesOf(sets, a) = u}
    OBVIOUS
<1>6. PICK places : places = {Order(a) : a \in rare}
    OBVIOUS
<1>7. places \in SUBSET Nat /\ places # {}
    BY <1>2, <1>4, <1>5, <1>6
<1>8. PICK o \in places : \A m \in places : o <= m
    BY <1>7, LeastNumber
<1>9. PICK w \in rare : Order(w) = o
    BY <1>6, <1>8
<1>10. w \in C /\ UsesOf(sets, w) = u
    BY <1>5, <1>9
<1>11. ASSUME NEW a \in C, Rarer(sets, a, w) PROVE FALSE
    <2>1. UsesOf(sets, a) < u \/ (UsesOf(sets, a) = u /\ Order(a) < o)
        BY <1>9, <1>10, <1>11 DEF Rarer, UsesOf
    <2>2. u <= UsesOf(sets, a) /\ u \in Nat /\ UsesOf(sets, a) \in Nat
        BY <1>1, <1>2, <1>3, <1>4
    <2>3. UsesOf(sets, a) = u /\ Order(a) < o
        BY <2>1, <2>2
    <2>4. a \in rare
        BY <1>5, <2>3
    <2>5. o <= Order(a) /\ o \in Nat /\ Order(a) \in Nat
        BY <1>6, <1>7, <1>8, <2>4
    <2> QED
        BY <2>3, <2>5
<1> QED
    BY <1>10, <1>11

LEMMA LongEnough ==
    ASSUME NEW len \in Nat, NEW common \in Nat, common > 0, common <= len,
           NEW share \in Nat, 100 * common >= share * len
    PROVE  len - common < PrefixLen(len, share)
<1>1. PICK part : part = share * len
    OBVIOUS
<1>2. part \in Nat /\ 100 * common >= part
    BY <1>1
<1>3. PICK required : required = (part + 99) \div 100
    OBVIOUS
<1>4. required \in Nat /\ required <= common
    BY <1>2, <1>3
<1>5. PICK rest : rest = len + 1 - required
    OBVIOUS
<1>6. rest \in Nat /\ len + 1 > required
    BY <1>4, <1>5
<1>7. PICK both : both = {len, rest}
    OBVIOUS
<1>8. PrefixLen(len, share) = Min(both)
    BY <1>1, <1>3, <1>5, <1>6, <1>7 DEF PrefixLen
<1>9. Min(both) \in both
    <2>1. \E x \in both : \A y \in both : x <= y
        BY <1>6, <1>7
    <2> QED
        BY <2>1 DEF Min
<1>10. len - common < len /\ len - common < rest
    BY <1>4, <1>5
<1> QED
    BY <1>7, <1>8, <1>9, <1>10

(* Sets of ordered items, and a share that their items in common make up.  *)
AreSets(sets) ==
    /\ IsFiniteSet(DOMAIN sets)
    /\ \A i \in DOMAIN sets : IsFiniteSet(sets[i]) /\ \A a \in sets[i] : Order(a) \in Nat
AmongRarest(sets, i, share, w) ==
    /\ w \in sets[i]
    /\ Cardinality({a \in sets[i] : Rarer(sets, a, w)}) < PrefixLen(Cardinality(sets[i]), share)

LEMMA RarestIsEarly ==
    ASSUME NEW sets, NEW i, NEW k, IsFiniteSet(sets[i]), IsFiniteSet(sets[k]), NEW share \in Nat,
           NEW w \in sets[i] \cap sets[k], \A a \in sets[i] \cap sets[k] : ~ Rarer(sets, a, w),
           100 * Cardinality(sets[i] \cap sets[k]) >= share * Cardinality(sets[i] \cup sets[k])
    PROVE  AmongRarest(sets, i, share, w)
<1>1. PICK A : A = sets[i]
    OBVIOUS
<1>2. PICK B : B = sets[k]
    OBVIOUS
<1>3. PICK before : before = {a \in A : Rarer(sets, a, w)}
    OBVIOUS
<1>4. IsFiniteSet(A) /\ IsFiniteSet(B) /\ IsFiniteSet(A \cap B) /\ IsFiniteSet(A \cup B)
    BY <1>1, <1>2, FS_Intersection, FS_Union
<1>5. PICK len : len = Cardinality(A)
    OBVIOUS
<1>6. PICK common : common = Cardinality(A \cap B)
    OBVIOUS
<1>7. PICK all : all = Cardinality(A \cup B)
    OBVIOUS
<1>8. len \in Nat /\ common \in Nat /\ all \in Nat
    BY <1>4, <1>5, <1>6, <1>7, FS_CardinalityType
<1>9. len <= all
    BY <1>4, <1>5, <1>7, FS_Subset
<1>10. common <= len
    BY <1>4, <1>5, <1>6, FS_Subset
<1>11. common > 0
    <2>1. w \in A \cap B
        BY <1>1, <1>2
    <2>2. common # 0
        BY <1>4, <1>6, <2>1, FS_EmptySet
    <2> QED
        BY <1>8, <2>2
<1>12. 100 * common >= share * all
    BY <1>1, <1>2, <1>6, <1>7
<1>13. 100 * common >= share * len
    <2>1. PICK more : more = all - len
        OBVIOUS
    <2>2. more \in Nat /\ all = len + more
        BY <1>8, <1>9, <2>1
    <2>3. share * all = share * len + share * more
        BY <1>8, <2>2
    <2>4. share * len \in Nat /\ share * more \in Nat /\ share * all \in Nat
        BY <1>8, <2>2
    <2> QED
        BY <1>8, <1>12, <2>3, <2>4
<1>14. len - common < PrefixLen(len, share)
    BY <1>8, <1>10, <1>11, <1>13, LongEnough
<1>15. Cardinality(A \ (A \cap B)) = len - common
    <2>1. Cardinality(A \ (A \cap B)) = Cardinality(A) - Cardinality(A \cap (A \cap B))
        BY <1>4, FS_Difference
    <2>2. A \cap (A \cap B) = A \cap B
        OBVIOUS
    <2> QED
        BY <1>5, <1>6, <2>1, <2>2
<1>16. Cardinality(before) <= len - common /\ Cardinality(before) \in Nat
    <2>1. before \subseteq A \ (A \cap B)
        BY <1>1, <1>2, <1>3
    <2>2. IsFiniteSet(A \ (A \cap B))
        BY <1>4, FS_Difference
    <2>3. IsFiniteSet(before) /\ Cardinality(before) <= Cardinality(A \ (A \cap B))
        BY <2>1, <2>2, FS_Subset
    <2> QED
        BY <1>15, <2>3, FS_CardinalityType
<1>17. PrefixLen(len, share) \in Int
    <2>1. PICK part : part = share * len
        OBVIOUS
    <2>2. part \in Nat
        BY <1>8, <2>1
    <2>3. PICK required : required = (part + 99) \div 100
        OBVIOUS
    <2>4. required \in Nat
        BY <2>2, <2>3
    <2>5. PICK rest : rest = IF len + 1 > required THEN len + 1 - required ELSE 0
        OBVIOUS
    <2>6. rest \in Nat
        BY <1>8, <2>4, <2>5
    <2>7. PICK both : both = {len, rest}
        OBVIOUS
    <2>8. PrefixLen(len, share) = Min(both)
        BY <2>1, <2>3, <2>5, <2>7 DEF PrefixLen
    <2>9. Min(both) \in both
        <3>1. \E x \in both : \A y \in both : x <= y
            BY <1>8, <2>6, <2>7
        <3> QED
            BY <3>1 DEF Min
    <2> QED
        BY <1>8, <2>6, <2>7, <2>8, <2>9
<1>18. Cardinality(before) < PrefixLen(len, share)
    BY <1>8, <1>14, <1>16, <1>17
<1> QED
    BY <1>1, <1>3, <1>5, <1>18 DEF AmongRarest

(* Sets as alike as that have one of their rarest items in common, so that *)
(* the index of rare items finds the pair.                                 *)
THEOREM RareItemsSuffice ==
    ASSUME NEW sets, AreSets(sets), NEW share \in Nat
    PROVE  AlikePairs(sets, share) \subseteq SimilarPairs(sets, share)
<1> SUFFICES ASSUME NEW p \in AlikePairs(sets, share) PROVE p \in SimilarPairs(sets, share)
    OBVIOUS
<1>1. PICK i : i = p[1]
    OBVIOUS
<1>2. PICK k : k = p[2]
    OBVIOUS
<1>3. /\ p \in (DOMAIN sets) \X (DOMAIN sets) /\ i \in DOMAIN sets /\ k \in DOMAIN sets /\ i < k
      /\ sets[i] \cap sets[k] # {}
      /\ 100 * Cardinality(sets[i] \cap sets[k]) >= share * Cardinality(sets[i] \cup sets[k])
    BY <1>1, <1>2 DEF AlikePairs
<1>4. IsFiniteSet(sets[i]) /\ IsFiniteSet(sets[k]) /\ \A a \in sets[i] \cap sets[k] : Order(a) \in Nat
    BY <1>3 DEF AreSets
<1>5. PICK w \in sets[i] \cap sets[k] : \A a \in sets[i] \cap sets[k] : ~ Rarer(sets, a, w)
    BY <1>3, <1>4, RarestOfAll DEF AreSets
<1>6. AmongRarest(sets, i, share, w)
    BY <1>3, <1>4, <1>5, RarestIsEarly
<1>7. AmongRarest(sets, k, share, w)
    <2>1. sets[k] \cap sets[i] = sets[i] \cap sets[k] /\ sets[k] \cup sets[i] = sets[i] \cup sets[k]
        OBVIOUS
    <2>2. 100 * Cardinality(sets[k] \cap sets[i]) >= share * Cardinality(sets[k] \cup sets[i])
        BY <1>3, <2>1
    <2>3. w \in sets[k] \cap sets[i] /\ \A a \in sets[k] \cap sets[i] : ~ Rarer(sets, a, w)
        BY <1>5
    <2> QED
        BY <1>4, <2>2, <2>3, RarestIsEarly
<1> QED
    BY <1>1, <1>2, <1>3, <1>6, <1>7 DEF SimilarPairs, AmongRarest

(* What a function of a file becomes: words and shingles that have a place *)
(* in their order.                                                         *)
Ordered(items) == \A a \in items : Order(a) \in Nat
DocIsWell(d) == IsList(d.text) /\ Ordered(ToSet(d.text)) /\ d.line \in Nat
FunctionIsWell(f) ==
    /\ IsList(f.signature) /\ Ordered(ToSet(f.signature))
    /\ IsFiniteSet(f.shingles) /\ Ordered(f.shingles) /\ f.start \in Nat
UnitIsWell(u) ==
    /\ IsList(u.doc) /\ Ordered(ToSet(u.doc))
    /\ IsList(u.words) /\ Ordered(ToSet(u.words))
    /\ IsFiniteSet(u.shingles) /\ Ordered(u.shingles)

LEMMA ListOf ==
    ASSUME NEW n \in Nat, NEW s, s = [i \in 1 .. n |-> s[i]] PROVE s \in Seq(ToSet(s)) /\ Len(s) = n /\ DOMAIN s = 1 .. n
<1>1. DOMAIN s = 1 .. n
    OBVIOUS
<1>2. \A i \in 1 .. n : s[i] \in ToSet(s)
    BY <1>1 DEF ToSet
<1>3. PICK S : S = ToSet(s)
    OBVIOUS
<1> QED
    BY <1>1, <1>2, <1>3

LEMMA WellFile ==
    ASSUME NEW path, NEW file, FileIsWell(file)
    PROVE  /\ \A d \in ToSet(DocsOf(path, file)) : DocIsWell(d)
           /\ \A f \in ToSet(file.functions) : FunctionIsWell(f)
<1>1. \A a \in ItemsIn(file) : Order(a) \in Nat
    BY DEF FileIsWell
<1>2. ASSUME NEW i \in ToSet(file.items) PROVE Ordered(ToSet(i.text))
    <2>1. PICK sets : sets = {ToSet(x.text) : x \in ToSet(file.items)}
        OBVIOUS
    <2>2. ToSet(i.text) \in sets
        BY <2>1
    <2>3. UNION sets \subseteq ItemsIn(file)
        BY <2>1 DEF ItemsIn
    <2> QED
        BY <1>1, <2>2, <2>3 DEF Ordered
<1>3. ASSUME NEW f \in ToSet(file.functions) PROVE Ordered(ToSet(f.signature)) /\ Ordered(f.shingles)
    <2>1. PICK signatures : signatures = {ToSet(x.signature) : x \in ToSet(file.functions)}
        OBVIOUS
    <2>2. PICK shingles : shingles = {x.shingles : x \in ToSet(file.functions)}
        OBVIOUS
    <2>3. ToSet(f.signature) \in signatures /\ f.shingles \in shingles
        BY <2>1, <2>2
    <2>4. UNION signatures \subseteq ItemsIn(file) /\ UNION shingles \subseteq ItemsIn(file)
        BY <2>1, <2>2 DEF ItemsIn
    <2> QED
        BY <1>1, <2>3, <2>4 DEF Ordered
<1>4. \A f \in ToSet(file.functions) : FunctionIsWell(f)
    BY <1>3 DEF FileIsWell, FunctionIsWell
<1>5. ASSUME NEW d \in ToSet(DocsOf(path, file)) PROVE DocIsWell(d)
    <2> DEFINE Kind(i) == KindOf(file.language, i)
               wanted == {i \in ToSet(file.items) : Kind(i) # "none" /\ i.text # << >>}
    <2>1. PICK items : items = Those(file.items, wanted)
        OBVIOUS
    <2>2. items \in Seq(wanted)
        <3> HIDE DEF wanted
        <3> QED
            BY <2>1, ThoseKept DEF IsList, FileIsWell
    <2>3. PICK n \in DOMAIN items : d.text = items[n].text /\ d.line = items[n].line
        <3> DEFINE Symbol(i) == IF file.language = "javascript" THEN i.scope \o i.owner ELSE i.scope
                   One(i) == [file |-> path, line |-> i.line, symbol |-> Symbol(i), kind |-> Kind(i), text |-> i.text]
        <3>1. DocsOf(path, file) = [m \in DOMAIN items |-> One(items[m])]
            BY <2>1 DEF DocsOf
        <3>2. \A i : One(i).text = i.text /\ One(i).line = i.line
            OBVIOUS
        <3> HIDE DEF One
        <3>3. PICK m \in DOMAIN items : d = One(items[m])
            BY <3>1 DEF ToSet
        <3> QED
            BY <3>2, <3>3
    <2>4. items[n] \in wanted
        <3> HIDE DEF wanted
        <3> QED
            BY <2>2, <2>3
    <2>5. items[n] \in ToSet(file.items)
        BY <2>4
    <2> QED
        BY <1>2, <2>3, <2>5 DEF DocIsWell, FileIsWell
<1> QED
    BY <1>4, <1>5

(* The docs of a symbol put end to end.                                    *)
LEMMA WellBundles ==
    ASSUME NEW listed, IsList(listed), \A d \in ToSet(listed) : DocIsWell(d), NEW b \in Bundles(listed)
    PROVE  DocIsWell(b)
<1> DEFINE OfSymbol(s) == Those(listed, {d \in ToSet(listed) : d.symbol = s})
<1>1. PICK s \in {d.symbol : d \in {x \in ToSet(listed) : x.symbol # << >>}} :
            b.line = Last(OfSymbol(s)).line /\ b.text = FlattenSeq([i \in DOMAIN OfSymbol(s) |-> OfSymbol(s)[i].text])
    <2> DEFINE symbols == {d.symbol : d \in {x \in ToSet(listed) : x.symbol # << >>}}
               Text(s) == FlattenSeq([i \in DOMAIN OfSymbol(s) |-> OfSymbol(s)[i].text])
               Bundle(s) == [symbol |-> s, line |-> Last(OfSymbol(s)).line, kind |-> Last(OfSymbol(s)).kind,
                             text |-> Text(s)]
    <2>1. Bundles(listed) = {Bundle(s) : s \in symbols}
        BY DEF Bundles
    <2> HIDE DEF OfSymbol, Text
    <2>2. \A s : Bundle(s).line = Last(OfSymbol(s)).line /\ Bundle(s).text = Text(s)
        OBVIOUS
    <2> HIDE DEF Bundle
    <2>3. PICK s \in symbols : b = Bundle(s)
        BY <2>1
    <2> USE DEF Text
    <2> QED
        BY <2>2, <2>3
<1>2. PICK of : of = {d \in ToSet(listed) : d.symbol = s}
    OBVIOUS
<1>3. PICK list : list = OfSymbol(s)
    OBVIOUS
<1>4. list \in Seq(of) /\ ToSet(list) = of
    <2>1. listed \in Seq(ToSet(listed))
        BY DEF IsList
    <2>2. list = Those(listed, of)
        BY <1>2, <1>3
    <2>3. ToSet(Those(listed, of)) = ToSet(listed) \cap of
        BY <2>1, ThoseKept
    <2>4. ToSet(listed) \cap of = of
        BY <1>2
    <2> QED
        BY <2>1, <2>2, <2>3, <2>4, ThoseKept
<1>5. of # {} /\ \A d \in of : DocIsWell(d)
    BY <1>1, <1>2
<1>6. PICK n : n \in Nat /\ n = Len(list) /\ DOMAIN list = 1 .. n
    BY <1>4
<1>7. n # 0
    BY <1>4, <1>5, <1>6 DEF ToSet
<1>8. Last(list) \in of
    BY <1>4, <1>6, <1>7 DEF Last
<1>9. b.line \in Nat
    BY <1>1, <1>3, <1>5, <1>8 DEF DocIsWell
<1>10. PICK W : W = {a \in UNION {ToSet(d.text) : d \in of} : Order(a) \in Nat}
    OBVIOUS
<1>11. ASSUME NEW d \in of PROVE d.text \in Seq(W)
    <2>1. PICK texts : texts = {ToSet(x.text) : x \in of}
        OBVIOUS
    <2>2. ToSet(d.text) \in texts
        BY <2>1
    <2>3. \A a \in ToSet(d.text) : a \in UNION texts /\ Order(a) \in Nat
        BY <1>5, <2>2 DEF DocIsWell, Ordered
    <2>4. ToSet(d.text) \subseteq W
        BY <1>10, <2>1, <2>3
    <2>5. PICK T : T = ToSet(d.text)
        OBVIOUS
    <2>6. d.text \in Seq(T) /\ T \subseteq W
        BY <1>5, <2>4, <2>5 DEF DocIsWell, IsList
    <2> QED
        BY <2>6
<1>12. PICK parts : parts = [i \in 1 .. n |-> list[i].text]
    OBVIOUS
<1>13. parts \in Seq(Seq(W))
    <2>1. PICK V : V = Seq(W)
        OBVIOUS
    <2>2. \A i \in 1 .. n : list[i].text \in V
        BY <1>4, <1>6, <1>11, <2>1
    <2> QED
        BY <1>6, <1>12, <2>1, <2>2
<1>14. b.text = FlattenSeq(parts)
    BY <1>1, <1>3, <1>6, <1>12
<1>15. b.text \in Seq(W)
    BY <1>13, <1>14, FlattenedParts
<1>16. IsList(b.text) /\ ToSet(b.text) \subseteq W
    BY SMTT(20), <1>15 DEF IsList, ToSet
<1> QED
    BY <1>9, <1>10, <1>16 DEF DocIsWell, Ordered

(* The nearest doc of those that fit is one of them.                       *)
LEMMA WellComment ==
    ASSUME NEW listed, IsList(listed), \A d \in ToSet(listed) : DocIsWell(d), NEW f, FunctionIsWell(f)
    PROVE  IsList(CommentFor(listed, f)) /\ Ordered(ToSet(CommentFor(listed, f)))
<1>1. PICK start : start = f.start
    OBVIOUS
<1> DEFINE Distance(b) == IF b.line > start THEN b.line - start ELSE start - b.line
<1>2. PICK fitting : fitting = {b \in Bundles(listed) :
            /\ Last(b.symbol) = f.name /\ Len(b.text) >= MinDocWords
            /\ IF b.kind = "docstring" THEN b.line \in start .. f.end ELSE b.line < start}
    OBVIOUS
<1>3. \A b \in fitting : DocIsWell(b)
    BY <1>2, WellBundles
<1>4. CommentFor(listed, f) = IF fitting = {} THEN NoText
                            ELSE (CHOOSE b \in fitting : \A c \in fitting : Distance(b) <= Distance(c)).text
    BY <1>1, <1>2 DEF CommentFor
<1>5. CASE fitting = {}
    <2>1. CommentFor(listed, f) = << >>
        BY <1>4, <1>5 DEF NoText
    <2> QED
        BY <2>1 DEF IsList, Ordered, ToSet
<1>6. CASE fitting # {}
    <2>1. start \in Nat
        BY <1>1 DEF FunctionIsWell
    <2>2. \A b \in fitting : Distance(b) \in Nat
        BY <1>3, <2>1 DEF DocIsWell
    <2>3. PICK T : T = {Distance(b) : b \in fitting}
        OBVIOUS
    <2>4. PICK d \in T : \A e \in T : d <= e
        <3>1. T \in SUBSET Nat /\ T # {}
            BY <1>6, <2>2, <2>3
        <3> QED
            BY <3>1, LeastNumber
    <2>5. \E b \in fitting : \A c \in fitting : Distance(b) <= Distance(c)
        BY <2>3, <2>4
    <2>6. PICK b : b = CHOOSE x \in fitting : \A c \in fitting : Distance(x) <= Distance(c)
        OBVIOUS
    <2>7. b \in fitting
        <3> HIDE DEF Distance
        <3> QED
            BY <2>5, <2>6
    <2>8. CommentFor(listed, f) = b.text
        BY <1>4, <1>6, <2>6
    <2> QED
        BY <1>3, <2>7, <2>8 DEF DocIsWell
<1> QED
    BY <1>5, <1>6

(* Of a list the words kept.                                               *)
LEMMA WellThose ==
    ASSUME NEW list, IsList(list), NEW wanted
    PROVE  IsList(Those(list, wanted)) /\ ToSet(Those(list, wanted)) = ToSet(list) \cap wanted
<1>1. PICK all : all = ToSet(list)
    OBVIOUS
<1>2. list \in Seq(all)
    BY <1>1 DEF IsList
<1>3. PICK kept : kept = Those(list, wanted)
    OBVIOUS
<1>4. kept \in Seq(wanted) /\ ToSet(kept) = all \cap wanted
    BY <1>1, <1>2, <1>3, ThoseKept
<1> QED
    BY <1>1, <1>3, <1>4, ListOf DEF IsList

LEMMA WellWords ==
    ASSUME NEW f, FunctionIsWell(f) PROVE IsList(SignatureWords(f)) /\ Ordered(ToSet(SignatureWords(f)))
<1>1. PICK said : said = ToSet(f.signature) \ Generic
    OBVIOUS
<1>2. PICK telling : telling = Those(f.signature, said)
    OBVIOUS
<1>3. IsList(telling)
    BY <1>2, WellThose DEF FunctionIsWell
<1>4. PICK n : n \in Nat /\ DOMAIN telling = 1 .. n
    BY <1>3 DEF IsList
<1>5. PICK once : once = [i \in 1 .. n |-> IF \E j \in 1 .. i - 1 : telling[j] = telling[i] THEN "" ELSE telling[i]]
    OBVIOUS
<1>6. IsList(once)
    <2>1. once = [i \in 1 .. n |-> once[i]]
        BY <1>5
    <2> QED
        BY <1>4, <2>1, ListOf DEF IsList
<1>7. SignatureWords(f) = Those(once, said \ {""})
    BY <1>1, <1>2, <1>4, <1>5 DEF SignatureWords
<1>8. IsList(SignatureWords(f)) /\ ToSet(SignatureWords(f)) \subseteq said
    <2>1. PICK wanted : wanted = said \ {""}
        OBVIOUS
    <2>2. IsList(Those(once, wanted)) /\ ToSet(Those(once, wanted)) = ToSet(once) \cap wanted
        BY <1>6, WellThose
    <2> QED
        BY <1>7, <2>1, <2>2
<1> QED
    BY <1>1, <1>8 DEF FunctionIsWell, Ordered

LEMMA WellUnits ==
    ASSUME NEW path, NEW parsed, NEW source, IsList(parsed.docs), \A d \in ToSet(parsed.docs) : DocIsWell(d),
           IsList(parsed.functions), \A f \in ToSet(parsed.functions) : FunctionIsWell(f)
    PROVE  IsList(UnitsOf(path, parsed, source)) /\ \A u \in ToSet(UnitsOf(path, parsed, source)) : UnitIsWell(u)
<1> DEFINE wanted == {f \in ToSet(parsed.functions) :
                /\ ~f.nested /\ f.tokens >= CloneThreshold
                /\ CommentRequired => CommentFor(parsed.docs, f) # NoText}
<1>1. PICK functions : functions = Those(parsed.functions, wanted)
    OBVIOUS
<1>2. IsList(functions) /\ ToSet(functions) \subseteq ToSet(parsed.functions)
    <2> HIDE DEF wanted
    <2> QED
        BY <1>1, WellThose
<1>3. PICK n : n \in Nat /\ DOMAIN functions = 1 .. n
    BY <1>2 DEF IsList
<1>4. PICK units : units = UnitsOf(path, parsed, source)
    OBVIOUS
<1>5. /\ units = [i \in 1 .. n |-> units[i]]
      /\ \A i \in 1 .. n : /\ units[i].shingles = functions[i].shingles
                           /\ units[i].doc = CommentFor(parsed.docs, functions[i])
                           /\ units[i].words = SignatureWords(functions[i])
    <2> DEFINE Unit(f) == [file |-> path, start |-> f.start, end |-> f.end, tokens |-> f.tokens,
                    shingles |-> f.shingles, doc |-> CommentFor(parsed.docs, f), words |-> SignatureWords(f),
                    code |-> TextAt(source, <<f.start, f.end>>)]
    <2>1. units = [i \in 1 .. n |-> Unit(functions[i])]
        BY <1>1, <1>3, <1>4 DEF UnitsOf
    <2>2. \A f : /\ Unit(f).shingles = f.shingles /\ Unit(f).doc = CommentFor(parsed.docs, f)
                 /\ Unit(f).words = SignatureWords(f)
        OBVIOUS
    <2> HIDE DEF Unit
    <2> QED
        BY <2>1, <2>2
<1>6. IsList(units) /\ DOMAIN units = 1 .. n
    BY <1>3, <1>5, ListOf DEF IsList
<1>7. ASSUME NEW i \in 1 .. n PROVE UnitIsWell(units[i])
    <2>1. functions[i] \in ToSet(parsed.functions)
        BY <1>2, <1>3 DEF ToSet
    <2>2. FunctionIsWell(functions[i])
        BY <2>1
    <2>3. IsList(CommentFor(parsed.docs, functions[i])) /\ Ordered(ToSet(CommentFor(parsed.docs, functions[i])))
        BY <2>2, WellComment
    <2>4. IsList(SignatureWords(functions[i])) /\ Ordered(ToSet(SignatureWords(functions[i])))
        BY <2>2, WellWords
    <2>5. IsFiniteSet(functions[i].shingles) /\ Ordered(functions[i].shingles)
        BY <2>2 DEF FunctionIsWell
    <2> QED
        BY <1>5, <2>3, <2>4, <2>5 DEF UnitIsWell
<1>8. \A u \in ToSet(units) : UnitIsWell(u)
    BY <1>6, <1>7 DEF ToSet
<1> QED
    BY <1>4, <1>6, <1>8

UnitsAreWell(units) == IsList(units) /\ \A u \in ToSet(units) : UnitIsWell(u)

(* The units of all files are well.                                        *)
LEMMA AllUnitsAreWell ==
    ASSUME PathsAreListed, NEW t, \A path \in ToSet(Paths) : FileIsWell(t[path])
    PROVE  UnitsAreWell(UnitsFrom(t))
<1>1. PICK n : n \in Nat /\ DOMAIN Paths = 1 .. n
    BY DEF PathsAreListed
<1> DEFINE Of(k) == UnitsOf(Paths[k], ParsedOf(t)[Paths[k]], t[Paths[k]].source)
<1>2. ASSUME NEW k \in 1 .. n PROVE UnitsAreWell(Of(k))
    <2>1. PICK path : path = Paths[k]
        OBVIOUS
    <2>2. path \in ToSet(Paths)
        BY <1>1, <2>1 DEF ToSet
    <2>3. PICK parsed : parsed = ParsedOf(t)[path]
        OBVIOUS
    <2>4. parsed.docs = DocsOf(path, t[path]) /\ parsed.functions = t[path].functions
        BY <2>2, <2>3 DEF ParsedOf
    <2>5. FileIsWell(t[path])
        BY <2>2
    <2>6. IsList(parsed.docs) /\ IsList(parsed.functions)
        BY <2>4, <2>5, DocsListed DEF FileIsWell, IsList
    <2>7. /\ \A d \in ToSet(parsed.docs) : DocIsWell(d)
          /\ \A f \in ToSet(parsed.functions) : FunctionIsWell(f)
        BY <2>4, <2>5, WellFile
    <2>8. \A source : UnitsAreWell(UnitsOf(path, parsed, source))
        BY <2>6, <2>7, WellUnits DEF UnitsAreWell
    <2> QED
        BY <2>1, <2>3, <2>8
<1>3. PICK parts : parts = [k \in 1 .. n |-> Of(k)]
    OBVIOUS
<1>4. UnitsFrom(t) = FlattenSeq(parts)
    BY <1>1, <1>3 DEF UnitsFrom, UnitsIn
<1> HIDE DEF Of
<1>5. PICK D : D = UNION {ToSet(Of(k)) : k \in 1 .. n}
    OBVIOUS
<1>6. ASSUME NEW k \in 1 .. n PROVE Of(k) \in Seq(D)
    <2>1. PICK T : T = ToSet(Of(k))
        OBVIOUS
    <2>2. Of(k) \in Seq(T)
        BY <1>2, <2>1 DEF UnitsAreWell, IsList
    <2>3. T \subseteq D
        BY <1>5, <2>1
    <2>4. PICK list : list = Of(k)
        OBVIOUS
    <2> QED
        BY <2>2, <2>3, <2>4
<1>7. parts \in Seq(Seq(D))
    <2>1. PICK V : V = Seq(D)
        OBVIOUS
    <2> QED
        BY <1>1, <1>3, <1>6, <2>1
<1>8. PICK units : units = FlattenSeq(parts)
    OBVIOUS
<1>9. units \in Seq(D) /\ InParts(units, parts)
    BY <1>7, <1>8, FlattenedParts
<1>10. ASSUME NEW u \in ToSet(units) PROVE UnitIsWell(u)
    <2>1. PICK k \in DOMAIN parts : u \in ToSet(parts[k])
        BY <1>9 DEF InParts
    <2>2. k \in 1 .. n /\ u \in ToSet(Of(k))
        BY <1>3, <2>1
    <2> QED
        BY <1>2, <2>2 DEF UnitsAreWell
<1>11. IsList(units)
    BY <1>9 DEF IsList, ToSet
<1> QED
    BY <1>4, <1>8, <1>10, <1>11 DEF UnitsAreWell

LEMMA ListsAreFinite == ASSUME NEW list, IsList(list) PROVE IsFiniteSet(ToSet(list)) /\ IsFiniteSet(DOMAIN list)
<1>1. PICK n : n \in Nat /\ DOMAIN list = 1 .. n
    BY DEF IsList
<1>2. IsFiniteSet(DOMAIN list)
    BY <1>1, FS_Interval
<1>3. list \in Surjection(DOMAIN list, ToSet(list))
    <2>1. list \in [DOMAIN list -> ToSet(list)]
        BY DEF ToSet, IsList
    <2> QED
        BY <2>1 DEF Surjection, ToSet
<1> QED
    BY <1>2, <1>3, FS_Surjection

LEMMA InformativeSets == ASSUME NEW sets, AreSets(sets) PROVE AreSets(Informative(sets))
<1>1. PICK common : common = CommonItems(sets, MaxCommonShare, MinCommonUses)
    OBVIOUS
<1>2. Informative(sets) = [i \in DOMAIN sets |-> sets[i] \ common]
    BY <1>1 DEF Informative
<1>3. \A i \in DOMAIN sets : IsFiniteSet(sets[i] \ common)
    BY FS_Difference DEF AreSets
<1> QED
    BY <1>2, <1>3 DEF AreSets

LEMMA SignaturesAre ==
    ASSUME NEW units
    PROVE  /\ DOMAIN Signatures(units) = DOMAIN units
           /\ \E common : \A i \in DOMAIN units :
                Signatures(units)[i] \in {NoText, Those(units[i].words, ToSet(units[i].words) \ common)}
<1>1. PICK common : common = CommonItems([i \in DOMAIN units |-> ToSet(units[i].words)], MaxWordShare, MinCommonWordUses)
    OBVIOUS
<1> DEFINE Distinctive(i) == Those(units[i].words, ToSet(units[i].words) \ common)
<1>2. Signatures(units) = [i \in DOMAIN units |->
                                IF Len(Distinctive(i)) >= 2 THEN Distinctive(i) ELSE NoText]
    BY <1>1 DEF Signatures
<1> QED
    BY <1>2

LEMMA UnitSets ==
    ASSUME NEW units, UnitsAreWell(units)
    PROVE  AreSets(Shingles(units)) /\ AreSets(DocWords(units)) /\ AreSets(NameWords(units))
<1>1. PICK shingles : shingles = [i \in DOMAIN units |-> units[i].shingles]
    OBVIOUS
<1>2. PICK listed : listed = [i \in DOMAIN units |-> ToSet(units[i].doc)]
    OBVIOUS
<1>3. IsFiniteSet(DOMAIN units) /\ \A i \in DOMAIN units : UnitIsWell(units[i])
    BY ListsAreFinite DEF UnitsAreWell, ToSet
<1>4. AreSets(shingles)
    BY <1>1, <1>3 DEF AreSets, UnitIsWell, Ordered
<1>5. AreSets(listed)
    <2>1. \A i \in DOMAIN units : IsFiniteSet(ToSet(units[i].doc))
        BY <1>3, ListsAreFinite DEF UnitIsWell
    <2> QED
        BY <1>2, <1>3, <2>1 DEF AreSets, UnitIsWell, Ordered
<1>6. PICK names : names = Signatures(units)
    OBVIOUS
<1>7. PICK common : \A i \in DOMAIN units :
                names[i] \in {NoText, Those(units[i].words, ToSet(units[i].words) \ common)}
    BY <1>6, SignaturesAre
<1>8. ASSUME NEW i \in DOMAIN units
      PROVE  IsFiniteSet(ToSet(names[i])) /\ \A a \in ToSet(names[i]) : Order(a) \in Nat
    <2>1. CASE names[i] = NoText
        <3>1. ToSet(names[i]) = {}
            BY <2>1 DEF NoText, ToSet
        <3> QED
            BY <3>1, FS_EmptySet
    <2>2. CASE names[i] = Those(units[i].words, ToSet(units[i].words) \ common)
        <3>1. PICK words : words = units[i].words
            OBVIOUS
        <3>2. IsList(words) /\ Ordered(ToSet(words))
            BY <1>3, <3>1 DEF UnitIsWell
        <3>3. PICK wanted : wanted = ToSet(words) \ common
            OBVIOUS
        <3>4. ToSet(names[i]) = ToSet(words) \cap wanted
            BY <2>2, <3>1, <3>2, <3>3, WellThose
        <3>5. IsFiniteSet(ToSet(words))
            BY <3>2, ListsAreFinite
        <3>6. IsFiniteSet(ToSet(names[i]))
            BY <3>4, <3>5, FS_Subset
        <3> QED
            BY <3>2, <3>4, <3>6 DEF Ordered
    <2> QED
        BY <1>7, <2>1, <2>2
<1>9. NameWords(units) = [i \in DOMAIN units |-> ToSet(names[i])]
    BY <1>6 DEF NameWords
<1>10. AreSets(NameWords(units))
    BY <1>3, <1>8, <1>9 DEF AreSets
<1> QED
    BY <1>1, <1>2, <1>4, <1>5, <1>10, InformativeSets DEF Shingles, DocWords

LEMMA SetsOfAll ==
    ASSUME NEW units
    PROVE  DOMAIN Shingles(units) = DOMAIN units /\ DOMAIN DocWords(units) = DOMAIN units
           /\ DOMAIN NameWords(units) = DOMAIN units
BY DEF Shingles, DocWords, NameWords, Informative

(* Every two units alike enough are compared.                              *)
LEMMA AlikeAreCompared ==
    ASSUME NEW units, UnitsAreWell(units), MinShape \in Nat PROVE Alike(units) \subseteq CandidatePairs(units)
<1>1. AlikePairs(Shingles(units), MinShape) \subseteq SimilarPairs(Shingles(units), MinShape)
    BY UnitSets, RareItemsSuffice
<1>2. AlikePairs(DocWords(units), MinDocWordOverlap) \subseteq SimilarPairs(DocWords(units), MinDocWordOverlap)
    BY UnitSets, RareItemsSuffice DEF MinDocWordOverlap
<1>3. AlikePairs(NameWords(units), MinNameWordOverlap) \subseteq SimilarPairs(NameWords(units), MinNameWordOverlap)
    BY UnitSets, RareItemsSuffice DEF MinNameWordOverlap
<1> QED
    BY <1>1, <1>2, <1>3 DEF Alike, CandidatePairs

ComparablePairs(units) ==
    {q \in (DOMAIN units) \X (DOMAIN units) : q[1] < q[2] /\ SizeCompatible(units[q[1]], units[q[2]])}
LEMMA ComparedFit == ASSUME NEW units PROVE CandidatePairs(units) \subseteq ComparablePairs(units)
<1>1. ASSUME NEW sets, DOMAIN sets = DOMAIN units, NEW share
      PROVE  \A p \in SimilarPairs(sets, share) : p \in (DOMAIN units) \X (DOMAIN units) /\ p[1] < p[2]
    BY <1>1 DEF SimilarPairs
<1> QED
    BY <1>1, SetsOfAll DEF CandidatePairs, ComparablePairs

LEMMA MoreJudged ==
    ASSUME NEW units, NEW few, NEW many, few \subseteq many
    PROVE  Judged(units, few, Fresh, Cosine) \subseteq Judged(units, many, Fresh, Cosine)
<1> DEFINE Of(p) == Verdict(Scores(units, p[1], p[2], Fresh, Cosine))
           Found(p) == Finding(units, p[1], p[2], Of(p))
<1>1. \A pairs : Judged(units, pairs, Fresh, Cosine) = {Found(p) : p \in {q \in pairs : Of(q) # "none"}}
    BY DEF Judged
<1> HIDE DEF Of, Found
<1> QED
    BY <1>1

(* A search answers from what building the index anew from the files it    *)
(* read would give, each document once, at its present line, with the      *)
(* vector of its own text by the whole model - and from the files as they  *)
(* are if none changed in between: whatever other processes wrote to the   *)
(* caches meanwhile, and whatever was left there when they died.           *)
THEOREM SearchIsExact == ASSUME IndexAssumption PROVE IndexSpec => []IndexIsExact
<1>1. ASSUME IndexInv PROVE IndexIsExact
    <2> SUFFICES ASSUME NEW p \in Searchers, job[p].index # << >>
                 PROVE  IsIndexOf(job[p].index[1], job[p].docs) /\ (p \in unhurried => job[p].docs = AllDocs(sources))
        BY DEF IndexIsExact, IsIndexOf
    <2>1. InPlace(job[p], p \in unhurried, sources, Loaded)
        BY <1>1 DEF IndexInv
    <2>2. job[p] # NoJob
        BY DEF NoJob
    <2> QED
        BY <2>1, <2>2 DEF InPlace, IsAt, Indexing
<1> QED
    BY <1>1, IndexInvariant, PTL

(* A scan reports every two functions that share as much as the thresholds *)
(* ask and whose texts are as alike, and no others, if the files did not   *)
(* change in between: the index of rare items loses no pair, and the       *)
(* vectors kept by the processes of the past are those of the texts.       *)
THEOREM ScanFindsRewrites == ASSUME IndexAssumption PROVE IndexSpec => []RewritesAreFound
<1>1. ASSUME IndexAssumption, IndexInv PROVE RewritesAreFound
    <2>1. PICK units : units = UnitsFrom(sources)
        OBVIOUS
    <2>2. UnitsAreWell(units)
        <3>1. PathsAreListed
            BY <1>1, PathsListed DEF IndexAssumption
        <3>2. sources \in Trees
            BY <1>1 DEF IndexInv
        <3>3. \A path \in ToSet(Paths) : FileIsWell(sources[path])
            BY <1>1, <3>2 DEF IndexAssumption
        <3> QED
            BY <2>1, <3>1, <3>3, AllUnitsAreWell
    <2>3. FoundBy(units) = Judged(units, CandidatePairs(units), Fresh, Cosine)
        BY DEF FoundBy
    <2>4. Judged(units, Alike(units), Fresh, Cosine) \subseteq FoundBy(units)
        BY <1>1, <2>2, <2>3, AlikeAreCompared, MoreJudged DEF IndexAssumption
    <2>5. FoundBy(units) \subseteq Judged(units, ComparablePairs(units), Fresh, Cosine)
        BY <2>3, ComparedFit, MoreJudged
    <2>6. ASSUME NEW p \in Searchers, job[p].found # << >>, p \in unhurried PROVE job[p].found[1] = FoundBy(units)
        <3>1. InPlace(job[p], p \in unhurried, sources, Loaded)
            BY <1>1 DEF IndexInv
        <3>2. job[p] # NoJob
            BY <2>6 DEF NoJob
        <3>3. PICK k : IsAt(job[p], k, p \in unhurried, sources, Loaded)
            BY <3>1, <3>2 DEF InPlace
        <3>4. Scanning(job[p].cache, job[p].parsed, job[p].units, job[p].found, k, p \in unhurried, sources)
            BY <3>3 DEF IsAt
        <3> QED
            BY <2>1, <2>6, <3>4 DEF Scanning
    <2> QED
        BY <2>1, <2>4, <2>5, <2>6 DEF RewritesAreFound, UnitsFrom, ParsedOf, ComparablePairs
<1> QED
    BY <1>1, IndexInvariant, PTL
(***************************************************************************)
(* What a report shows                                                     *)
(***************************************************************************)
(* What the types of the code say of a report: it is a list of findings,   *)
(* whose actions are levels.                                               *)
Graded(report) == IsFiniteSet(report) /\ \A x \in report : x.action \in DOMAIN Reports!Level

(* The order of a report, as far as detectors and actions decide it.       *)
Trust(x, noisy) == IF x.kind \in noisy THEN 1 ELSE 0
Ahead(x, y, noisy) ==
    \/ Trust(x, noisy) < Trust(y, noisy)
    \/ Trust(x, noisy) = Trust(y, noisy) /\ Reports!Level[x.action] < Reports!Level[y.action]
Orders(E, noisy) ==
    {order \in Seq(E) : \A i, j \in DOMAIN order : i < j => ~Ahead(order[j], order[i], noisy)}

(* Ahead is an order of what has an action, and the ranks refine it.       *)
LEMMA AheadIs ==
    ASSUME NEW E, Graded(E), NEW noisy, NEW x \in E, NEW y \in E
    PROVE  /\ Ahead(x, y, noisy) =>
                /\ Reports!Smaller(Reports!Ranks(x, noisy), Reports!Ranks(y, noisy))
                /\ ~Reports!Smaller(Reports!Ranks(y, noisy), Reports!Ranks(x, noisy))
           /\ \A z \in E : Ahead(x, y, noisy) /\ ~Ahead(z, y, noisy) => Ahead(x, z, noisy)
           /\ \A z \in E : Ahead(x, y, noisy) /\ ~Ahead(x, z, noisy) => Ahead(z, y, noisy)
<1>1. \A z \in E : Reports!Level[z.action] \in Nat /\ Trust(z, noisy) \in Nat
    BY DEF Graded, Reports!Level, Trust
<1>2. PICK a, b : a = Reports!Ranks(x, noisy) /\ b = Reports!Ranks(y, noisy)
    OBVIOUS
<1>3. /\ DOMAIN a = 1 .. 4 /\ DOMAIN b = 1 .. 4
      /\ a[1] = Trust(x, noisy) /\ b[1] = Trust(y, noisy)
      /\ a[2] = Reports!Level[x.action] /\ b[2] = Reports!Level[y.action]
    BY <1>2 DEF Reports!Ranks, Trust
<1>4. ASSUME Ahead(x, y, noisy)
      PROVE  Reports!Smaller(a, b) /\ ~Reports!Smaller(b, a)
    <2>1. CASE a[1] < b[1]
        <3>1. Reports!Smaller(a, b)
            BY <1>3, <2>1 DEF Reports!Smaller
        <3>2. ASSUME NEW i \in 1 .. 4, b[i] < a[i], \A j \in 1 .. i - 1 : b[j] = a[j] PROVE FALSE
            BY <1>1, <1>3, <2>1, <3>2
        <3> QED
            BY <1>3, <3>1, <3>2 DEF Reports!Smaller
    <2>2. CASE a[1] = b[1] /\ a[2] < b[2]
        <3>1. Reports!Smaller(a, b)
            <4>1. 2 \in DOMAIN a /\ \A j \in 1 .. 2 - 1 : a[j] = b[j]
                BY <1>3, <2>2
            <4> QED
                BY <2>2, <4>1 DEF Reports!Smaller
        <3>2. ASSUME NEW i \in 1 .. 4, b[i] < a[i], \A j \in 1 .. i - 1 : b[j] = a[j] PROVE FALSE
            BY <1>1, <1>3, <2>2, <3>2
        <3> QED
            BY <1>3, <3>1, <3>2 DEF Reports!Smaller
    <2> QED
        BY <1>3, <1>4, <2>1, <2>2 DEF Ahead
<1> QED
    BY <1>1, <1>2, <1>4 DEF Ahead

(* A finding is put where it belongs.                                      *)
LEMMA PutInOrder ==
    ASSUME NEW E, Graded(E), NEW noisy, NEW order \in Orders(E, noisy), NEW x \in E,
           NEW B, B = {i \in DOMAIN order : ~Reports!Smaller(Reports!Ranks(x, noisy), Reports!Ranks(order[i], noisy))},
           NEW next, next = Reports!InsertAt(order, Cardinality(B) + 1, x)
    PROVE  next \in Orders(E, noisy) /\ ToSet(next) = ToSet(order) \cup {x}
<1>1. PICK n, m : n = Len(order) /\ m = Cardinality(B)
    OBVIOUS
<1>2. n \in Nat /\ DOMAIN order = 1 .. n /\ order \in Seq(E) /\ \A i \in 1 .. n : order[i] \in E
    BY <1>1 DEF Orders
<1>3. \A i, j \in 1 .. n : i < j => ~Ahead(order[j], order[i], noisy)
    BY <1>2 DEF Orders
<1>4. IsFiniteSet(B) /\ B \subseteq 1 .. n /\ m \in 0 .. n
    <2>1. IsFiniteSet(1 .. n) /\ Cardinality(1 .. n) = n
        BY <1>2, FS_Interval
    <2>2. B \subseteq 1 .. n
        BY <1>2
    <2>3. IsFiniteSet(B) /\ Cardinality(B) <= n
        BY <2>1, <2>2, FS_Subset
    <2> QED
        BY <1>1, <2>2, <2>3, FS_CardinalityType
<1>5. ASSUME NEW i \in 1 .. m PROVE ~Ahead(x, order[i], noisy)
    <2> SUFFICES ASSUME Ahead(x, order[i], noisy) PROVE FALSE
        OBVIOUS
    <2>1. i \in 1 .. n
        BY <1>2, <1>4
    <2>2. ASSUME NEW j \in i .. n PROVE j \notin B
        <3>1. j \in 1 .. n /\ ~Ahead(order[j], order[i], noisy)
            BY <1>2, <1>3, <2>1, AheadIs
        <3>2. Ahead(x, order[j], noisy)
            BY <1>2, <2>1, <3>1, AheadIs
        <3> QED
            BY <1>2, <3>1, <3>2, AheadIs
    <2>3. B \subseteq 1 .. i - 1
        BY <1>2, <1>4, <2>1, <2>2
    <2>4. IsFiniteSet(1 .. i - 1) /\ Cardinality(1 .. i - 1) = i - 1
        BY <2>1, FS_Interval
    <2>5. m <= i - 1
        BY <1>1, <2>3, <2>4, FS_Subset
    <2> QED
        BY <1>4, <2>5
<1>6. ASSUME NEW i \in m + 1 .. n PROVE ~Ahead(order[i], x, noisy)
    <2> SUFFICES ASSUME Ahead(order[i], x, noisy) PROVE FALSE
        OBVIOUS
    <2>1. i \in 1 .. n
        BY <1>2, <1>4
    <2>2. ASSUME NEW j \in 1 .. i PROVE j \in B
        <3>1. j \in 1 .. n /\ ~Ahead(order[i], order[j], noisy)
            BY <1>2, <1>3, <2>1, AheadIs
        <3>2. Ahead(order[j], x, noisy)
            BY <1>2, <2>1, <3>1, AheadIs
        <3> QED
            BY <1>2, <3>1, <3>2, AheadIs
    <2>3. 1 .. i \subseteq B
        BY <2>2
    <2>4. IsFiniteSet(1 .. i) /\ Cardinality(1 .. i) = i
        BY <2>1, FS_Interval
    <2>5. i <= m
        BY <1>1, <1>4, <2>3, <2>4, FS_Subset
    <2> QED
        BY <1>4, <2>5
<1>7. /\ next \in Seq(E) /\ Len(next) = n + 1
      /\ \A i \in 1 .. n + 1 : next[i] = IF i <= m THEN order[i] ELSE IF i = m + 1 THEN x ELSE order[i - 1]
    <2>1. PICK a, b : a = SubSeq(order, 1, m) /\ b = SubSeq(order, m + 1, n)
        OBVIOUS
    <2>2. a \in Seq(E) /\ Len(a) = m /\ \A i \in 1 .. m : a[i] = order[i]
        BY <1>2, <1>4, <2>1, SubSeqProperties
    <2>3. b \in Seq(E) /\ Len(b) = n - m /\ \A i \in 1 .. n - m : b[i] = order[m + i]
        BY <1>2, <1>4, <2>1, SubSeqProperties
    <2>4. next = a \o <<x>> \o b
        <3>1. (m + 1) - 1 = m
            BY <1>4
        <3> QED
            BY <1>1, <2>1, <3>1, Zenon DEF Reports!InsertAt
    <2>5. PICK c : c = a \o <<x>>
        OBVIOUS
    <2>6. c \in Seq(E) /\ Len(c) = m + 1 /\ \A i \in 1 .. m + 1 : c[i] = IF i <= m THEN order[i] ELSE x
        BY <1>4, <2>2, <2>5
    <2>7. next = c \o b
        BY <2>4, <2>5
    <2>8. n \in Nat /\ m \in Nat /\ m <= n
        BY <1>2, <1>4
    <2>9. next \in Seq(E) /\ Len(next) = n + 1
        <3>1. next \in Seq(E) /\ Len(next) = Len(c) + Len(b)
            BY <2>3, <2>6, <2>7, ConcatProperties
        <3>2. Len(c) + Len(b) = n + 1
            BY ONLY <2>3, <2>6, <2>8
        <3> QED
            BY <3>1, <3>2
    <2>10. ASSUME NEW i \in 1 .. n + 1
          PROVE  next[i] = IF i <= m THEN order[i] ELSE IF i = m + 1 THEN x ELSE order[i - 1]
        <3>1. next[i] = IF i <= m + 1 THEN c[i] ELSE b[i - (m + 1)]
            BY ONLY <2>3, <2>6, <2>7, <2>8, i \in 1 .. n + 1
        <3>2. CASE i <= m + 1
            BY <1>4, <2>6, <3>1, <3>2
        <3>3. CASE i > m + 1
            <4>1. i - (m + 1) \in 1 .. n - m /\ m + (i - (m + 1)) = i - 1
                BY ONLY <2>8, <3>3, i \in 1 .. n + 1
            <4> QED
                BY <1>4, <2>3, <3>1, <3>3, <4>1
        <3> QED
            BY <1>4, <3>2, <3>3
    <2> QED
        BY <2>9, <2>10
<1>8. ASSUME NEW i \in 1 .. n + 1, NEW j \in 1 .. n + 1, i < j PROVE ~Ahead(next[j], next[i], noisy)
    <2>1. CASE j = m + 1
        BY <1>4, <1>5, <1>7, <1>8, <2>1
    <2>2. CASE i = m + 1
        <3>1. next[j] = order[j - 1] /\ j - 1 \in m + 1 .. n /\ next[i] = x
            BY <1>2, <1>4, <1>7, <1>8, <2>2
        <3> QED
            BY <1>6, <3>1
    <2>3. CASE i # m + 1 /\ j # m + 1
        <3>1. PICK p, q : p = (IF i <= m THEN i ELSE i - 1) /\ q = (IF j <= m THEN j ELSE j - 1)
            OBVIOUS
        <3>2. p \in 1 .. n /\ q \in 1 .. n /\ p < q
            BY <1>2, <1>4, <1>8, <2>3, <3>1
        <3>3. next[i] = order[p] /\ next[j] = order[q]
            BY <1>2, <1>4, <1>7, <2>3, <3>1
        <3> QED
            BY <1>3, <3>2, <3>3
    <2> QED
        BY <2>1, <2>2, <2>3
<1>9. next \in Orders(E, noisy)
    <2>1. DOMAIN next = 1 .. n + 1 /\ next \in Seq(E)
        BY <1>2, <1>7
    <2>2. \A i, j \in DOMAIN next : i < j => ~Ahead(next[j], next[i], noisy)
        BY <1>8, <2>1, Zenon
    <2> QED
        BY <2>1, <2>2, Zenon DEF Orders
<1>10. \A y : y \in ToSet(next) <=> y \in ToSet(order) \cup {x}
    <2>1. DOMAIN next = 1 .. n + 1
        BY <1>2, <1>7
    <2>2. ASSUME NEW i \in 1 .. n + 1 PROVE next[i] \in ToSet(order) \cup {x}
        <3>1. i <= m => i \in 1 .. n
            BY <1>2, <1>4
        <3>2. i > m + 1 => i - 1 \in 1 .. n
            BY <1>2, <1>4
        <3>3. \A k \in 1 .. n : order[k] \in ToSet(order)
            BY <1>2 DEF ToSet
        <3>4. next[i] = IF i <= m THEN order[i] ELSE IF i = m + 1 THEN x ELSE order[i - 1]
            BY <1>7
        <3> QED
            BY <1>4, <3>1, <3>2, <3>3, <3>4
    <2>3. m + 1 \in 1 .. n + 1 /\ next[m + 1] = x
        BY <1>2, <1>4, <1>7
    <2>4. ASSUME NEW i \in 1 .. n PROVE \E j \in 1 .. n + 1 : next[j] = order[i]
        <3>1. CASE i <= m
            BY <1>2, <1>7, <3>1
        <3>2. CASE i > m
            <4>1. i + 1 \in 1 .. n + 1 /\ next[i + 1] = order[i]
                BY <1>2, <1>4, <1>7, <3>2
            <4> QED
                BY <4>1
        <3> QED
            BY <1>4, <3>1, <3>2
    <2> QED
        BY <1>2, <2>1, <2>2, <2>3, <2>4 DEF ToSet
<1> QED
    BY <1>9, <1>10

(* The report stands in order, and nothing is lost of it.                  *)
LEMMA RankedInOrder ==
    ASSUME NEW E, Graded(E), NEW noisy
    PROVE  Reports!Ranked(E, noisy) \in Orders(E, noisy) /\ ToSet(Reports!Ranked(E, noisy)) = E
<1> DEFINE W == Orders(E, noisy)
           Behind(order, x) ==
                {i \in DOMAIN order : ~Reports!Smaller(Reports!Ranks(x, noisy), Reports!Ranks(order[i], noisy))}
           Put(x, order) == Reports!InsertAt(order, Reports!Cardinality(Behind(order, x)) + 1, x)
           Some(S) == CHOOSE x \in S : TRUE
           Iterates(it) == it = [S \in SUBSET E |->
                                    IF S = {} THEN << >> ELSE Put(Some(S), it[S \ {Some(S)}])]
           it == CHOOSE it : Iterates(it)
           step == [x \in E |-> [order \in W |-> Put(x, order)]]
           c == [S \in (SUBSET E) \ {{}} |-> Some(S)]
<1>1. IsFiniteSet(E)
    BY DEF Graded
<1>2. ASSUME NEW x \in E, NEW order \in W
      PROVE  Put(x, order) \in W /\ ToSet(Put(x, order)) = ToSet(order) \cup {x}
    <2>1. PICK B, next : B = Behind(order, x) /\ next = Put(x, order)
        OBVIOUS
    <2>2. Reports!Cardinality(B) = Cardinality(B)
        BY Zenon DEF Reports!Cardinality, Cardinality
    <2>3. next = Reports!InsertAt(order, Cardinality(B) + 1, x)
        BY <2>1, <2>2
    <2> HIDE DEF Put
    <2> QED
        BY <2>1, <2>3, PutInOrder
<1>3. << >> \in W /\ ToSet(<< >>) = {}
    BY DEF Orders, ToSet
<1>4. \A S \in (SUBSET E) \ {{}} : Some(S) \in S
    OBVIOUS
<1>5. step \in [E -> [W -> W]]
    <2> HIDE DEF Put, W
    <2> QED
        BY <1>2
<1>6. c \in Selectors(E)
    <2> HIDE DEF Some
    <2>1. c \in [(SUBSET E) \ {{}} -> E]
        BY <1>4
    <2> QED
        BY <1>4, <2>1 DEF Selectors
<1> HIDE DEF Put, W
<1>7. \E f : Iterates(f) /\ f \in [SUBSET E -> W]
    <2>1. PICK f \in [SUBSET E -> W] : FoldsBy(f, E, << >>, step, c)
        <3> HIDE DEF step, c
        <3> QED
            BY <1>1, <1>3, <1>5, <1>6, FoldingBy
    <2> HIDE DEF Some
    <2>2. ASSUME NEW S \in SUBSET E
          PROVE  f[S] = IF S = {} THEN << >> ELSE Put(Some(S), f[S \ {Some(S)}])
        <3>1. CASE S = {}
            BY <2>1, <3>1 DEF FoldsBy
        <3>2. CASE S # {}
            <4>1. Some(S) \in S /\ c[S] = Some(S) /\ S \ {Some(S)} \in SUBSET E
                BY <1>4, <3>2
            <4>2. f[S] = step[c[S]][f[S \ {c[S]}]]
                BY <2>1, <3>2 DEF FoldsBy
            <4>3. f[S \ {Some(S)}] \in W
                BY <4>1
            <4> QED
                BY <3>2, <4>1, <4>2, <4>3
        <3> QED
            BY <3>1, <3>2
    <2>3. Iterates(f)
        <3> HIDE DEF step, c
        <3> QED
            BY <2>2
    <2> QED
        BY <2>3
<1>8. Iterates(it)
    BY <1>7
<1>9. Reports!Ranked(E, noisy) = it[E]
    BY Zenon DEF Reports!Ranked, Reports!FoldSet, Reports!MapThenFoldSet, Put, Some, Behind
<1> HIDE DEF it
<1>10. ASSUME NEW S \in SUBSET E PROVE it[S] \in W /\ ToSet(it[S]) = S
    <2> DEFINE Right(T) == it[T] \in W /\ ToSet(it[T]) = T
               Sizes == {k \in Nat : \A T \in SUBSET E : Cardinality(T) = k => Right(T)}
    <2>1. \A T \in SUBSET E : IsFiniteSet(T) /\ Cardinality(T) \in Nat
        BY <1>1, FS_Subset, FS_CardinalityType
    <2>2. 0 \in Sizes
        <3>1. it[{}] = << >>
            BY <1>8
        <3>2. \A T \in SUBSET E : Cardinality(T) = 0 => T = {}
            BY <2>1, FS_EmptySet
        <3> QED
            BY <1>3, <3>1, <3>2
    <2>3. ASSUME NEW k \in Nat, k \in Sizes, NEW T \in SUBSET E, Cardinality(T) = k + 1
          PROVE  Right(T)
        <3> HIDE DEF Right
        <3>1. T # {}
            <4>1. Cardinality({}) = 0
                BY FS_EmptySet
            <4> QED
                BY <2>3, <4>1
        <3>2. PICK x, R : x = Some(T) /\ R = T \ {x}
            OBVIOUS
        <3>3. x \in T
            BY <1>4, <3>1, <3>2
        <3>4. Cardinality(R) = k /\ R \in SUBSET E
            <4>1. IsFiniteSet(T)
                BY <2>1
            <4>2. Cardinality(T \ {x}) = IF x \in T THEN Cardinality(T) - 1 ELSE Cardinality(T)
                BY <4>1, FS_RemoveElement
            <4> QED
                BY <2>3, <3>2, <3>3, <4>2
        <3>5. Right(R)
            BY <2>3, <3>4
        <3>6. it[T] = Put(x, it[R])
            <4> HIDE DEF Some
            <4> QED
                BY <1>8, <3>1, <3>2
        <3>7. it[R] \in W /\ ToSet(it[R]) = R
            BY <3>5 DEF Right
        <3>8. it[T] \in W /\ ToSet(it[T]) = R \cup {x}
            BY <1>2, <3>3, <3>6, <3>7
        <3> QED
            BY <3>2, <3>3, <3>8 DEF Right
    <2>4. \A k \in Nat : k \in Sizes => k + 1 \in Sizes
        <3> HIDE DEF Right
        <3> QED
            BY <2>3
    <2> HIDE DEF Sizes
    <2>5. \A k \in Nat : k \in Sizes
        BY <2>2, <2>4, Induction
    <2>6. Right(S)
        <3> HIDE DEF Right
        <3> QED
            BY <2>1, <2>5 DEF Sizes
    <2> QED
        BY <2>6
<1> QED
    BY <1>9, <1>10 DEF W

(* Of each kind the first ones stay.                                       *)
IsAhead(order, i, j, kind, max, x) ==
    /\ order[i] \in Reports!FirstOfKind(order, kind, max) /\ order[i].kind = kind
    /\ i <= j /\ order[j] = x
LEMMA FirstStays ==
    ASSUME NEW E, NEW order \in Seq(E), NEW kind, NEW max \in Nat, max > 0,
           NEW x \in ToSet(order), x.kind = kind
    PROVE  \E i, j \in DOMAIN order : IsAhead(order, i, j, kind, max, x)
<1>1. PICK at : at = {i \in DOMAIN order : order[i].kind = kind}
    OBVIOUS
<1>2. PICK j \in DOMAIN order : order[j] = x
    BY DEF ToSet
<1>3. at \in SUBSET Nat /\ j \in at
    BY <1>1, <1>2
<1>4. PICK i \in at : \A k \in at : i <= k
    BY <1>3, LeastNumber
<1>5. PICK first : first = {k \in at : k <= i}
    OBVIOUS
<1>6. Reports!Cardinality(first) <= max
    <2>1. i \in Nat /\ i \in first
        BY <1>3, <1>4, <1>5
    <2>2. ASSUME NEW k \in first PROVE k = i
        <3>1. k \in at /\ k \in Nat /\ k <= i
            BY <1>3, <1>5
        <3> QED
            BY <1>4, <2>1, <3>1
    <2>3. first = {i}
        BY <2>1, <2>2
    <2>4. Reports!Cardinality(first) = Cardinality(first)
        BY Zenon DEF Reports!Cardinality, Cardinality
    <2>5. Cardinality({i}) = 1
        BY FS_Singleton
    <2>6. Reports!Cardinality(first) = 1
        BY <2>3, <2>4, <2>5
    <2> QED
        BY <2>6
<1>7. order[i] \in Reports!FirstOfKind(order, kind, max)
    BY <1>1, <1>5, <1>6 DEF Reports!FirstOfKind
<1> QED
    BY <1>1, <1>2, <1>3, <1>4, <1>7 DEF IsAhead

Reaches(S, kind, level) == \E y \in S : y.kind = kind /\ Reports!Level[y.action] <= Reports!Level[level]

(* Of a kind that reaches a level something is shown that does.            *)
LEMMA LevelIsShown ==
    ASSUME NEW E, Graded(E), Reports!OptionsTyped, NEW options \in Options,
           NEW kind, NEW level \in DOMAIN Reports!Level,
           NEW x \in E, x.kind = kind, Reports!Level[x.action] <= Reports!Level[level]
    PROVE  Reaches(Reports!Shown(E, options), kind, level)
<1>1. CASE options.all \/ options.max = 0
    BY <1>1 DEF Reports!Shown, Reaches
<1>2. CASE ~(options.all \/ options.max = 0)
    <2>1. PICK order, max, noisy : order = Reports!Ranked(E, noisy) /\ max = options.max /\ noisy = options.noisy
        OBVIOUS
    <2>2. order \in Orders(E, noisy) /\ ToSet(order) = E
        BY <2>1, RankedInOrder
    <2>3. order \in Seq(E) /\ \A i, j \in DOMAIN order : i < j => ~Ahead(order[j], order[i], noisy)
        BY <2>2 DEF Orders
    <2>4. max \in Nat /\ max > 0
        <3>1. options.max \in Nat
            BY DEF Reports!OptionsTyped
        <3>2. options.max # 0
            BY <1>2
        <3> QED
            BY <2>1, <3>1, <3>2
    <2>5. PICK i, j \in DOMAIN order : IsAhead(order, i, j, kind, max, x)
        <3>1. x \in ToSet(order)
            BY <2>2
        <3> QED
            BY <2>3, <2>4, <3>1, FirstStays
    <2>6. /\ order[i] \in Reports!FirstOfKind(order, kind, max) /\ order[i].kind = kind
          /\ i <= j /\ order[j] = x
        BY <2>5 DEF IsAhead
    <2>7. order[i] \in Reports!Shown(E, options)
        BY <1>2, <2>1, <2>5, <2>6 DEF Reports!Shown
    <2>8. order[i] \in E /\ i \in Nat /\ j \in Nat
        BY <2>3
    <2>9. i = j \/ ~Ahead(x, order[i], noisy)
        BY <2>3, <2>6, <2>8
    <2>10. /\ Trust(x, noisy) = Trust(order[i], noisy)
           /\ Reports!Level[x.action] \in Nat /\ Reports!Level[order[i].action] \in Nat
           /\ Reports!Level[level] \in Nat
        BY <2>6, <2>8 DEF Trust, Graded, Reports!Level
    <2>11. Reports!Level[order[i].action] <= Reports!Level[x.action]
        BY <2>6, <2>9, <2>10 DEF Ahead
    <2>12. Reports!Level[order[i].action] <= Reports!Level[level]
        BY <2>10, <2>11
    <2> QED
        BY <2>6, <2>7, <2>12 DEF Reaches
<1> QED
    BY <1>1, <1>2

(* FailureIsShown, for every report that has finitely many findings with   *)
(* actions, whatever the detectors found: of each kind by which a run      *)
(* fails, what is left after the cut has a finding it fails by.            *)
THEOREM FailuresAreShown ==
    Reports!Spec => [](Graded(seen.report) => FailureIsShown)
<1> DEFINE OfKind(findings, kind) == {x \in findings : x.kind = kind}
<1>1. ASSUME Graded(seen.report), NEW options \in Options,
             NEW selected, selected = Reports!Selected(options),
             NEW shown, shown = Reports!Shown(selected, options),
             NEW kind, Reports!GateFails(OfKind(selected, kind), options)
      PROVE  Reports!GateFails(OfKind(shown, kind), options)
    <2>1. Graded(selected)
        <3>1. selected \subseteq seen.report
            BY <1>1 DEF Reports!Selected
        <3> QED
            BY <1>1, <3>1, FS_Subset DEF Graded
    <2>2. ASSUME NEW level \in {options.fail_on, options.fail_on_new},
                 Reports!MeetsLevel(OfKind(selected, kind), level)
          PROVE  Reports!MeetsLevel(OfKind(shown, kind), level)
        <3>1. level # "" /\ level \in DOMAIN Reports!Level
            BY <2>2, OptionsAssumption DEF Reports!OptionsTyped, Reports!MeetsLevel
        <3>2. PICK x \in selected : x.kind = kind /\ Reports!Level[x.action] <= Reports!Level[level]
            BY <2>2 DEF Reports!MeetsLevel
        <3>3. Reaches(shown, kind, level)
            BY <1>1, <2>1, <3>1, <3>2, LevelIsShown, OptionsAssumption
        <3> QED
            BY <3>1, <3>3 DEF Reports!MeetsLevel, Reaches
    <2> HIDE DEF OfKind
    <2> QED
        BY <1>1, <2>2 DEF Reports!GateFails
<1>2. Graded(seen.report) => Reports!FailureIsShown
    <2> SUFFICES ASSUME Graded(seen.report), NEW options \in Options,
                        NEW selected \in {Reports!Selected(options)},
                        NEW shown \in {Reports!Shown(selected, options)},
                        NEW kind \in {x.kind : x \in selected}
                 PROVE  Reports!GateFails(OfKind(selected, kind), options)
                            => Reports!GateFails(OfKind(shown, kind), options)
        BY Zenon DEF Reports!FailureIsShown
    <2> HIDE DEF OfKind
    <2> QED
        BY <1>1
<1>3. Graded(seen.report) => FailureIsShown
    BY <1>2 DEF FailureIsShown
<1> QED
    BY <1>3, PTL
=============================================================================
