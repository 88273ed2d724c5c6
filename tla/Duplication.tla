---------------------------- MODULE Duplication ----------------------------
(***************************************************************************)
(* Copies in a source tree (noze/duplication): runs of equal tokens, found *)
(* in a suffix array and stitched across small gaps, functions equal up to *)
(* a consistent renaming, and classes of the same shape.                   *)
(*                                                                         *)
(* A source is a sequence of tokens, each on a row of its own and with the *)
(* depth of its syntax node: the node spans the deeper tokens after it.    *)
(* Rows stand for bytes, too.                                              *)
(***************************************************************************)
EXTENDS Naturals, Sequences, FiniteSets, SequencesExt, FiniteSetsExt

CONSTANTS
    Paths,      \* the sources, a sequence in the crawl's order, sorted
    Family,     \* the clone family of each
    Skipped,    \* those out of scope: excluded, tests or generated
    Accepted,   \* those under a path that [accept] duplication names
    Threshold,  \* [duplication] threshold
    MaxGap,     \* max_gap
    MinSeed,    \* MIN_SEED
    NearMiss,   \* near_miss
    ClassNames, \* class_name_duplicates
    MinOverlap  \* class_property_overlap_min

ASSUME DuplicationAssumption ==
    /\ DOMAIN Family = ToSet(Paths) /\ Cardinality(ToSet(Paths)) = Len(Paths)
    /\ Threshold \in Nat /\ MaxGap \in Nat /\ MinSeed \in Nat /\ MinOverlap \in Nat
    /\ NearMiss \in BOOLEAN /\ ClassNames \in BOOLEAN

SeedDivisor == 3
MaxMergePasses == 8

(* Op of every element.  The concatenation makes TLC evaluate it at once.   *)
Each(s, Op(_)) == << >> \o [n \in DOMAIN s |-> Op(s[n])]
Indices(s) == [n \in DOMAIN s |-> n]

Place(p) == CHOOSE i \in DOMAIN Paths : Paths[i] = p
Sub(a, b) == IF a > b THEN a - b ELSE 0

(* The row at which the node of a row's token ends.                        *)
NodeEnd(text, r) == Max({e \in r .. Len(text) : \A k \in r + 1 .. e : text[k].depth > text[r].depth})

(***************************************************************************)
(* flatten.rs: all files in one buffer, with separators no two positions   *)
(* share.                                                                  *)
(***************************************************************************)
NonToken == "non-token"
Code(lex, after) == [lex |-> lex, after |-> after]
Terminator == Code("", "")
Barrier(code) == [code |-> code, file |-> NonToken, row |-> 0, end |-> 0]

Master(files, tree) ==
    LET Token(p, r) == [code |-> Code(tree[p][r].lex, ""), file |-> p,
                        row |-> r, end |-> NodeEnd(tree[p], r)]
        Tokens(p) == Each(Indices(tree[p]), LAMBDA r : Token(p, r))
    IN  FlattenSeq(Each(files, LAMBDA p : Append(Tokens(p), Barrier(Code("", p)))))
            \o <<Barrier(Terminator)>>

(* `DenseAlphabet`: codes in order of appearance, the terminator first.    *)
DenseId(s, code) == IF code = Terminator THEN 0 ELSE Min({k \in DOMAIN s : s[k].code = code})

(***************************************************************************)
(* clones.rs: the intervals of the suffix array whose suffixes share a     *)
(* prefix, as sets of positions.                                           *)
(***************************************************************************)
CommonPrefix(s, i, j) ==
    Min({k \in 0 .. Len(s) :
            i + k > Len(s) \/ j + k > Len(s) \/ s[i + k].code # s[j + k].code})

(* `kasai`, for every pair of suffixes.                                    *)
PrefixLengths(s) ==
    Each(Indices(s), LAMBDA i : Each(Indices(s), LAMBDA j : CommonPrefix(s, i, j)))

SuffixBefore(s, lcp, i, j) ==
    i # j /\ DenseId(s, s[i + lcp[i][j]].code) < DenseId(s, s[j + lcp[i][j]].code)

Intervals(s, lcp, minLen) ==
    UNION {{[len |-> lcp[i][j],
             at |-> {k \in DOMAIN s : k = i \/ lcp[i][k] >= lcp[i][j]}] :
                j \in {k \in DOMAIN s : k # i /\ lcp[i][k] >= minLen}} : i \in DOMAIN s}

(* The length of the interval around.                                      *)
Parent(s, lcp, g) == Max({0} \cup {lcp[i][j] : i \in g.at, j \in DOMAIN s \ g.at})

CanBeDisjoint(g) == \A i, j \in g.at : i < j => j - i >= g.len

IsReported(s, lcp, g, minLen) ==
    LET parent == Parent(s, lcp, g)
    IN  \/ parent < minLen
        \/ MaxGap > 0 /\ (parent < Threshold \/ CanBeDisjoint(g))

IsLeftMaximal(s, g) ==
    \E i, j \in g.at : i # j /\ (i = 1 \/ j = 1 \/ s[i - 1].code # s[j - 1].code)

(* In the order in which the walk over the suffix array closes them.       *)
Extract(s, lcp, minLen) ==
    LET groups == {g \in Intervals(s, lcp, minLen) :
                        IsReported(s, lcp, g, minLen) /\ IsLeftMaximal(s, g)}
        EndsBefore(g, h) ==
            \E i \in h.at : \A j \in g.at : SuffixBefore(s, lcp, j, i)
    IN  SetToSortSeq(groups, LAMBDA g, h :
            IF EndsBefore(g, h) THEN TRUE ELSE ~EndsBefore(h, g) /\ g.len > h.len)

(***************************************************************************)
(* gapped.rs.  An occurrence is a pair of positions, the second exclusive. *)
(***************************************************************************)
SeedLength ==
    IF MaxGap = 0 THEN Threshold
    ELSE Min({Threshold, Max({Threshold \div SeedDivisor, MinSeed})})

InOrder(occ) == SetToSortSeq(occ, LAMBDA a, b : a[1] < b[1])
Cluster(g) == [matched |-> g.len, occ |-> InOrder({<<i, i + g.len>> : i \in g.at})]

(* `follower_at`, for one occurrence o of cluster i: at most one element.  *)
FollowerAt(s, clusters, i, o, start) ==
    LET ends(j) == {q[2] : q \in {r \in ToSet(clusters[j].occ) : r[1] = start /\ r[2] > o[2]}}
        found == {j \in DOMAIN clusters \ {i} :
                    /\ ends(j) # {}
                    /\ Len(clusters[j].occ) = Len(clusters[i].occ)
                    /\ start \in DOMAIN s /\ s[start].file = s[o[1]].file}
    IN  IF found = {} THEN {}
        ELSE {[with |-> Min(found), start |-> start, end |-> Max(ends(Min(found)))]}

(* The first start at which one follows: after the occurrence, the nearest *)
(* first, or overlapping its end.                                          *)
Follower(s, clusters, i, o) ==
    LET low == Max({o[1] + 1, Sub(o[2], MaxGap)})
        starts == [k \in 1 .. MaxGap + 1 |-> o[2] + k - 1] \o [k \in 1 .. Sub(o[2], low) |-> o[2] - k]
        hits == {k \in DOMAIN starts : FollowerAt(s, clusters, i, o, starts[k]) # {}}
    IN  IF hits = {} THEN {} ELSE FollowerAt(s, clusters, i, o, starts[Min(hits)])

(* `stitched`: cluster i with the one cluster that follows all of it.      *)
StitchedOf(clusters, i, followers) ==
    LET c == clusters[i]
        next(n) == CHOOSE f \in followers[n] : TRUE
        one == next(1).with
        overlap == Max({Sub(c.occ[n][2], next(n).start) : n \in DOMAIN c.occ})
    IN  IF \E n \in DOMAIN c.occ : followers[n] = {} \/ next(n).with # one THEN {}
        ELSE {[with |-> one,
               cluster |-> [matched |-> Sub(c.matched + clusters[one].matched, overlap),
                            occ |-> InOrder({<<c.occ[n][1], next(n).end>> : n \in DOMAIN c.occ})]]}

Stitched(s, clusters, i) ==
    StitchedOf(clusters, i, [n \in DOMAIN clusters[i].occ |-> Follower(s, clusters, i, clusters[i].occ[n])])

(* At least 60 % of every occurrence matched.                              *)
IsDense(c) == \A o \in ToSet(c.occ) : 5 * c.matched >= 3 * (o[2] - o[1])

MergePass(s, clusters) ==
    LET Try(acc, i) ==
            LET found == IF i \in acc.consumed THEN {} ELSE
                            {f \in Stitched(s, clusters, i) :
                                f.with \notin acc.consumed /\ IsDense(f.cluster)}
            IN  IF found = {} THEN acc
                ELSE LET f == CHOOSE x \in found : TRUE
                     IN  [consumed |-> acc.consumed \cup {i, f.with},
                          merged |-> Append(acc.merged, f.cluster)]
        end == FoldLeft(Try, [consumed |-> {}, merged |-> << >>], Indices(clusters))
        kept == SelectSeq(Indices(clusters), LAMBDA i : i \notin end.consumed)
    IN  Each(kept, LAMBDA i : clusters[i]) \o end.merged

(* `stitch`: a pass that merges nothing changes nothing.                   *)
Stitch(s, clusters) ==
    IF MaxGap = 0 THEN clusters
    ELSE FoldLeft(LAMBDA c, pass : MergePass(s, c), clusters, [n \in 1 .. MaxMergePasses |-> n])

(***************************************************************************)
(* open_tail.rs, and how an occurrence is shown                            *)
(***************************************************************************)
(* The node of the token at t goes on where the run that ends before e     *)
(* stops.                                                                  *)
OpenAt(s, start, e, t) ==
    /\ e \in DOMAIN s /\ s[e].file = s[start].file
    /\ t + (s[t].end - s[t].row) >= e

OpenTail(s, o) ==
    Max({n \in 0 .. o[2] - o[1] : \A t \in o[2] - n .. o[2] - 1 : OpenAt(s, o[1], o[2], t)})

\* Variant: every occurrence loses its own tail only.
CloseOwnTails(s, c) ==
    [matched |-> c.matched, occ |-> Each(c.occ, LAMBDA o : <<o[1], o[2] - OpenTail(s, o)>>)]

CloseTails(s, c) ==
    LET cut == Max({OpenTail(s, o) : o \in ToSet(c.occ)})
    IN  [matched |-> Sub(c.matched, cut),
         occ |-> Each(c.occ, LAMBDA o : <<o[1], o[2] - Min({cut, o[2] - o[1]})>>)]

(* `occurrence`: rows up to the last end of a node that ends within.       *)
Occurrence(s, o) ==
    LET closed == {t \in o[1] .. o[2] - 1 : ~OpenAt(s, o[1], o[2], t)}
    IN  [file |-> s[o[1]].file, from |-> s[o[1]].row,
         to |-> IF closed = {} THEN s[o[2] - 1].row ELSE Max({s[t].end : t \in closed})]

ByPlace(occ) ==
    SetToSortSeq(DOMAIN occ, LAMBDA a, b :
        LET x == Place(occ[a].file)
            y == Place(occ[b].file)
        IN  x < y \/ (x = y /\ occ[a].from < occ[b].from)
                  \/ (x = y /\ occ[a].from = occ[b].from /\ a < b))

Meets(a, b) == a.file = b.file /\ a.from <= b.to /\ b.from <= a.to

SuppressOverlaps(occ) ==
    LET order == ByPlace(occ)
        Keep(kept, n) ==
            IF kept # << >> /\ Last(kept).file = occ[n].file /\ occ[n].from <= Last(kept).to
            THEN kept ELSE Append(kept, occ[n])
    IN  FoldLeft(Keep, << >>, order)

(***************************************************************************)
(* near_miss.rs: functions equal up to a renaming of names and literals    *)
(***************************************************************************)
Functions(text) ==
    {r \in DOMAIN text : text[r].kind = "function" /\
        ~\E q \in 1 .. r - 1 : text[q].kind = "function" /\ NodeEnd(text, q) >= r}

MinTokens == IF NearMiss THEN Threshold ELSE 2 * Threshold

CanonicalKey(tokens) ==
    [k \in DOMAIN tokens |->
        IF tokens[k].kind = "name"
        THEN [ordinal |-> Min({j \in DOMAIN tokens :
                                    tokens[j].kind = "name" /\ tokens[j].lex = tokens[k].lex}),
              lex |-> ""]
        ELSE [ordinal |-> 0, lex |-> tokens[k].lex]]

(* A function with its tokens, raw and canonical.                          *)
Members(tree, p) ==
    {[tokens |-> SubSeq(tree[p], r, NodeEnd(tree[p], r)),
      occ |-> [file |-> p, from |-> r, to |-> NodeEnd(tree[p], r)]] :
        r \in {q \in Functions(tree[p]) : NodeEnd(tree[p], q) - q + 1 >= MinTokens}}

Raw(m) == [k \in DOMAIN m.tokens |-> m.tokens[k].lex]
Alike(members, m) == {n \in members : CanonicalKey(n.tokens) = CanonicalKey(m.tokens)}

\* Variant: a group with two exact copies is left to the suffix array.
RenamedWithoutCopies(members) ==
    {G \in {Alike(members, m) : m \in members} : \A m, n \in G : m = n \/ Raw(m) # Raw(n)}

Renamed(members) ==
    {G \in {Alike(members, m) : m \in members} : \E m, n \in G : Raw(m) # Raw(n)}

NearMisses(files, tree) ==
    LET Class(G) == [detector |-> "near_miss", len |-> Len((CHOOSE m \in G : TRUE).tokens),
                     occ |-> SetToSeq({m.occ : m \in G})]
    IN  SetToSeq({Class(G) : G \in Renamed(UNION {Members(tree, p) : p \in ToSet(files)})})

(***************************************************************************)
(* Classes of copies                                                       *)
(***************************************************************************)
Structural(s, c) ==
    [detector |-> "structural", len |-> c.matched,
     occ |-> Each(c.occ, LAMBDA o : Occurrence(s, o))]

DedupKey(class) == <<{<<o.file, o.from>> : o \in ToSet(class.occ)}, class.len>>

(* Without overlaps, at two places at least, and each class once.          *)
Distinct(classes) ==
    LET Keep(kept, class) ==
            LET c == [class EXCEPT !.occ = SuppressOverlaps(@)]
            IN  IF Len(c.occ) < 2 \/ \E k \in ToSet(kept) : DedupKey(k) = DedupKey(c)
                THEN kept ELSE Append(kept, c)
    IN  FoldLeft(Keep, << >>, classes)

(* consolidate.rs.  `cover`: the occurrence of the host that each of the   *)
(* class's overlaps, or nothing.                                           *)
Cover(host, class) ==
    LET Take(slots, o) ==
            LET free == {n \in DOMAIN host.occ \ ToSet(slots) : Meets(host.occ[n], o)}
            IN  IF 0 \in ToSet(slots) \/ free = {} THEN <<0>> ELSE Append(slots, Min(free))
    IN  FoldLeft(Take, << >>, class.occ)
Covers(host, class) == 0 \notin ToSet(Cover(host, class))

Absorb(host, class) ==
    LET slots == Cover(host, class)
        Wide(n) == {host.occ[n]} \cup {class.occ[k] : k \in {x \in DOMAIN slots : slots[x] = n}}
    IN  [host EXCEPT !.occ =
            Each(Indices(@), LAMBDA n : [host.occ[n] EXCEPT !.from = Min({o.from : o \in Wide(n)}),
                                                            !.to = Max({o.to : o \in Wide(n)})])]

Detectors == <<"structural", "near_miss">>
Consolidated(classes) ==
    LET rank(c) == CHOOSE n \in DOMAIN Detectors : Detectors[n] = c.detector
        Precedes(a, b) ==
            LET c == classes[a]
                d == classes[b]
            IN  \/ Len(c.occ) > Len(d.occ)
                \/ Len(c.occ) = Len(d.occ) /\ rank(c) < rank(d)
                \/ Len(c.occ) = Len(d.occ) /\ rank(c) = rank(d) /\ c.len > d.len
                \/ Len(c.occ) = Len(d.occ) /\ rank(c) = rank(d) /\ c.len = d.len /\ a < b
        Fold(kept, n) ==
            LET hosts == {k \in DOMAIN kept : Covers(kept[k], classes[n])}
            IN  IF hosts = {} THEN Append(kept, classes[n])
                ELSE [kept EXCEPT ![Min(hosts)] = Absorb(@, classes[n])]
    IN  FoldLeft(Fold, << >>, SetToSortSeq(DOMAIN classes, Precedes))

(* `detect_partition`                                                      *)
Stitches(s, lcp) ==
    LET groups == Extract(s, lcp, SeedLength)
        clusters == Stitch(s, Each(groups, Cluster))
        closed == Each(clusters, LAMBDA c : CloseTails(s, c))
    IN  SelectSeq(closed, LAMBDA c : c.matched >= Threshold)

PartitionOn(s, lcp, files, tree) ==
    LET clusters == Stitches(s, lcp)
        found == Each(clusters, LAMBDA c : Structural(s, c))
    IN  Consolidated(Distinct(found \o NearMisses(files, tree)))
PartitionOf(s, files, tree) == PartitionOn(s, PrefixLengths(s), files, tree)

(***************************************************************************)
(* class_shapes.rs                                                         *)
(***************************************************************************)
ClassesOf(tree, p) ==
    {[name |-> tree[p][r].name, family |-> Family[p], fields |-> tree[p][r].fields,
      occ |-> [file |-> p, from |-> r, to |-> NodeEnd(tree[p], r)]] :
        r \in {q \in DOMAIN tree[p] : tree[p][q].kind = "class"}}

Shape(S, len) ==
    [detector |-> "class_shape", len |-> len,
     occ |-> LET occ == SetToSeq({c.occ : c \in S}) IN Each(ByPlace(occ), LAMBDA n : occ[n])]

ClassShapes(files, tree) ==
    LET classes == UNION {ClassesOf(tree, p) : p \in ToSet(files)}
        Namesakes(c) == {d \in classes : d.family = c.family /\ d.name = c.name}
        alike == {S \in {{c, d} : c, d \in classes} : Cardinality(S) = 2 /\
                    \A c, d \in S : c.family = d.family /\
                        Cardinality(c.fields \cap d.fields) >= MinOverlap}
        Shared(S) == {f \in UNION {c.fields : c \in S} : \A c \in S : f \in c.fields}
    IN  (IF ClassNames
         THEN {Shape(S, 0) : S \in {N \in {Namesakes(c) : c \in classes} : Cardinality(N) > 1}}
         ELSE {})
        \cup (IF MinOverlap > 0 THEN {Shape(S, Cardinality(Shared(S))) : S \in alike} ELSE {})

(***************************************************************************)
(* `detect_with_root`, and what [accept] leaves of it                      *)
(***************************************************************************)
InScope(tree) == SelectSeq(Paths, LAMBDA p : p \in DOMAIN tree \ Skipped)
Cohort(tree, family) == SelectSeq(InScope(tree), LAMBDA p : Family[p] = family)

Detect(tree) ==
    IF Threshold = 0 \/ DOMAIN tree = {} THEN {}
    ELSE UNION {ToSet(PartitionOf(Master(Cohort(tree, f), tree), Cohort(tree, f), tree)) :
                    f \in {Family[p] : p \in ToSet(InScope(tree))}}
         \cup ClassShapes(InScope(tree), tree)

\* Variant: a class with an accepted place is dropped.
PruneAcceptedWhole(classes) == {c \in classes : \A o \in ToSet(c.occ) : o.file \notin Accepted}

(* `prune_accepted_occurrences`                                            *)
PruneAccepted(classes) ==
    {c \in {[d EXCEPT !.occ = SelectSeq(@, LAMBDA o : o.file \notin Accepted)] : d \in classes} :
        Len(c.occ) >= 2}

Shown(tree) == PruneAccepted(Detect(tree))
=============================================================================
