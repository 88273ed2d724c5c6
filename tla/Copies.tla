------------------------------- MODULE Copies -------------------------------
(***************************************************************************)
(* A developer who pastes blocks of code into files and cuts them off      *)
(* again, and what the duplication report promises of the sources.  What   *)
(* it is compared with is defined here from the tokens alone.              *)
(***************************************************************************)
EXTENDS Duplication

CONSTANTS
    Blocks,  \* the code pasted: a function from blocks to tokens
    Pasted,  \* those pasted into each path
    Room     \* bound: how many blocks each path takes

VARIABLE blocks  \* the blocks of each path

Init == blocks = [p \in ToSet(Paths) |-> << >>]

Paste(p, b) ==
    /\ Len(blocks[p]) < Room[p]
    /\ blocks' = [blocks EXCEPT ![p] = Append(@, b)]

Cut(p) ==
    /\ blocks[p] # << >>
    /\ blocks' = [blocks EXCEPT ![p] = Front(@)]

Next == \E p \in ToSet(Paths) : Cut(p) \/ \E b \in Pasted[p] : Paste(p, b)
Spec == Init /\ [][Next]_blocks

TextOf(seq) == FlattenSeq(Each(seq, LAMBDA b : Blocks[b]))
Tree == [p \in ToSet(Paths) |-> TextOf(blocks[p])]

(***************************************************************************)
(* Runs of tokens, as records of a file and its first and last row         *)
(***************************************************************************)
LexOf(tree, o) == [k \in 1 .. o.to - o.from + 1 |-> tree[o.file][o.from + k - 1].lex]

(* No node of the run goes on after it.                                    *)
IsClosed(tree, o) == \A r \in o.from .. o.to : NodeEnd(tree[o.file], r) <= o.to

Runs(tree, n) ==
    UNION {{[file |-> p, from |-> r, to |-> r + n - 1] : r \in 1 .. Sub(Len(tree[p]) + 1, n)} :
           p \in DOMAIN tree}

(* Runs as long as the threshold that are closed wherever they occur: one  *)
(* open tail trims every copy (open_tail.rs).                              *)
Reportable(tree) ==
    LET runs == {o \in Runs(tree, Threshold) : o.file \notin Skipped}
    IN  {o \in runs : \A q \in runs : LexOf(tree, q) = LexOf(tree, o) => IsClosed(tree, q)}

(* Pairs of equal runs that a report has to show.                          *)
EqualPairs(runs, tree) ==
    {pair \in runs \X runs :
        /\ pair[1] # pair[2]
        /\ ~Meets(pair[1], pair[2])
        /\ Family[pair[1].file] = Family[pair[2].file]
        /\ {pair[1].file, pair[2].file} \cap Accepted = {}
        /\ LexOf(tree, pair[1]) = LexOf(tree, pair[2])}
Copied(tree) == EqualPairs(Reportable(tree), tree)

Shows(class, pair) ==
    \E m, n \in DOMAIN class.occ :
        m # n /\ Meets(class.occ[m], pair[1]) /\ Meets(class.occ[n], pair[2])

AllShown(tree, shown) ==
    \A pair \in Copied(tree) : \E class \in shown : Shows(class, pair)

(* The longest sequence of tokens that two texts have in common.           *)
Common(x, y) ==
    LET Row(row, c) ==
            Each(Indices(y), LAMBDA j :
                Max({row[j]} \cup {IF k = 1 THEN 1 ELSE row[k - 1] + 1 : k \in {i \in 1 .. j : y[i] = c}}))
    IN  Last(FoldLeft(Row, [j \in DOMAIN y |-> 0], x))

(* One is the other with its names exchanged, one for one.                 *)
IsRenaming(x, y) ==
    /\ DOMAIN x = DOMAIN y
    /\ \A k \in DOMAIN x : x[k].kind = y[k].kind /\ (x[k].kind # "name" => x[k].lex = y[k].lex)
    /\ \A j, k \in {i \in DOMAIN x : x[i].kind = "name"} :
        x[j].lex = x[k].lex <=> y[j].lex = y[k].lex

FunctionRuns(tree) ==
    UNION {{[file |-> p, from |-> r, to |-> NodeEnd(tree[p], r)] : r \in Functions(tree[p])} :
           p \in DOMAIN tree \ Skipped}
Within(runs, o) == {f \in runs : f.file = o.file /\ f.from >= o.from /\ f.to <= o.to}
TokensOf(tree, o) == SubSeq(tree[o.file], o.from, o.to)
AreRenamings(tree, f, g) == IsRenaming(TokensOf(tree, f), TokensOf(tree, g))

(* Every two occurrences have `len` tokens in common, in order, or hold    *)
(* functions that are renamings; and two at least are disjoint.            *)
IsReal(tree, class) ==
    /\ \E m, n \in DOMAIN class.occ : m # n /\ ~Meets(class.occ[m], class.occ[n])
    /\ class.detector = "structural" =>
        \A m, n \in DOMAIN class.occ : m < n =>
            Common(LexOf(tree, class.occ[m]), LexOf(tree, class.occ[n])) >= class.len
    /\ class.detector = "near_miss" =>
        \A m, n \in DOMAIN class.occ : m < n =>
            \E f \in Within(FunctionRuns(tree), class.occ[m]) :
                \E g \in Within(FunctionRuns(tree), class.occ[n]) : AreRenamings(tree, f, g)

(* Every class the detector reports (mod.rs) has copies in it: after       *)
(* stitching, trimming open tails and absorbing other classes its rows     *)
(* still hold the tokens it counts, at two disjoint places at least.       *)
CopiesAreReal == \A class \in Detect(Tree) : IsReal(Tree, class)
(* Code that stands in two places outside accepted files is in a class     *)
(* that is shown, each copy in an occurrence of its own: no seed, stitch,  *)
(* overlap or absorption drops it, and accepting a fork hides none but the *)
(* fork's (docs/reference/configuration.md, `threshold` and [accept]).     *)
CopiesAreShown == AllShown(Tree, Shown(Tree))

RenamedShown(tree, shown) ==
    \A f, g \in {o \in FunctionRuns(tree) : o.file \notin Accepted /\ o.to - o.from + 1 >= MinTokens} :
        f # g /\ Family[f.file] = Family[g.file] /\ AreRenamings(tree, f, g)
            => \E class \in shown : Shows(class, <<f, g>>)
(* Functions that differ in a consistent renaming are shown together       *)
(* (near_miss.rs), also when exact copies of them exist.                   *)
RenamedAreShown == RenamedShown(Tree, Shown(Tree))
=============================================================================
