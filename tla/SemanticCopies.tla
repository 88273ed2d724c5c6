--------------------------- MODULE SemanticCopies ---------------------------
(***************************************************************************)
(* Functions that say the same in other words (noze/duplication/semantic): *)
(* pairs with enough structure, documentation or signature words in common *)
(* are compared by the embeddings of their sources, signatures and docs.   *)
(*                                                                         *)
(* A text is a sequence of words; scores and shares are in percent.  A     *)
(* function of a file is a record [name, start, end, tokens, shingles,     *)
(* signature, nested], a doc one of SearchIndex.                           *)
(***************************************************************************)
EXTENDS Lists, FiniteSets, FiniteSetsExt

CONSTANTS
    CloneThreshold,     \* [duplication] threshold
    MinShape,           \* min_shape_score
    CommentBoost,       \* comment_boost_score
    CommentRequired,    \* comment_required
    MinCommonUses,      \* MIN_COMMON_USES, 8 in the code
    MinCommonWordUses,  \* MIN_COMMON_WORD_USES, 4 in the code
    Order(_)            \* the place of a shingle or word in the order of its kind

MinSizeRatio == 55
MinDocWordOverlap == 50
MaxCommonShare == 1
MinNameWordOverlap == 30
MaxWordShare == 2
MinDocWords == 5
Generic == {"get", "set", "the", "to", "of"}
NoText == << >>

-----------------------------------------------------------------------------
(* `comment_bundles`: the docs of each symbol as one, with the place of the*)
(* last.                                                                   *)
Bundles(docs) ==
    LET OfSymbol(s) == Those(docs, {d \in ToSet(docs) : d.symbol = s}) IN
    {[symbol |-> s, line |-> Last(OfSymbol(s)).line, kind |-> Last(OfSymbol(s)).kind,
      text |-> FlattenSeq([i \in DOMAIN OfSymbol(s) |-> OfSymbol(s)[i].text])] :
        s \in {d.symbol : d \in {x \in ToSet(docs) : x.symbol # << >>}}}

(* `comment_for`: the nearest of those that may be the function's.         *)
CommentFor(docs, func) ==
    LET Distance(b) == IF b.line > func.start THEN b.line - func.start ELSE func.start - b.line
        fitting == {b \in Bundles(docs) :
            /\ Last(b.symbol) = func.name /\ Len(b.text) >= MinDocWords
            /\ IF b.kind = "docstring" THEN b.line \in func.start .. func.end ELSE b.line < func.start} IN
    IF fitting = {} THEN NoText
    ELSE (CHOOSE b \in fitting : \A c \in fitting : Distance(b) <= Distance(c)).text

(* `signature_words`: each word that says something, once.                 *)
SignatureWords(func) ==
    LET said == ToSet(func.signature) \ Generic
        telling == Those(func.signature, said) IN
    Those([i \in DOMAIN telling |-> IF \E j \in 1 .. i - 1 : telling[j] = telling[i] THEN "" ELSE telling[i]],
          said \ {""})

(* `Unit::code`: what stands at some rows by now.                          *)
TextAt(source, rows) == IF rows \in DOMAIN source THEN source[rows] ELSE <<"?">>

(* `collect_units`: the functions of some length, with the text they have  *)
(* in the file by now.                                                     *)
UnitsOf(path, parsed, source) ==
    LET Unit(f) == [file |-> path, start |-> f.start, end |-> f.end, tokens |-> f.tokens,
                    shingles |-> f.shingles, doc |-> CommentFor(parsed.docs, f), words |-> SignatureWords(f),
                    code |-> TextAt(source, <<f.start, f.end>>)]
        functions == Those(parsed.functions, {f \in ToSet(parsed.functions) :
            /\ ~f.nested /\ f.tokens >= CloneThreshold
            /\ CommentRequired => CommentFor(parsed.docs, f) # NoText}) IN
    [i \in DOMAIN functions |-> Unit(functions[i])]

(* `common_items`: what more than so many of the sets have.                *)
CommonItems(sets, share, least) ==
    LET limit == Max({least, (Len(sets) * share) \div 100})
        Uses(item) == Cardinality({i \in DOMAIN sets : item \in sets[i]}) IN
    {item \in UNION ToSet(sets) : Uses(item) > limit}

(* `keep_distinctive_signatures`                                           *)
Signatures(units) ==
    LET common == CommonItems([i \in DOMAIN units |-> ToSet(units[i].words)], MaxWordShare, MinCommonWordUses)
        Rest(i) == Those(units[i].words, ToSet(units[i].words) \ common) IN
    [i \in DOMAIN units |-> IF Len(Rest(i)) >= 2 THEN Rest(i) ELSE NoText]

-----------------------------------------------------------------------------
(* `similar_pairs`: of sets as alike as that, the rarest few items of each *)
(* have one in common.                                                     *)
Rarer(sets, a, b) ==
    LET Uses(item) == Cardinality({k \in DOMAIN sets : item \in sets[k]}) IN
    Uses(a) < Uses(b) \/ (Uses(a) = Uses(b) /\ Order(a) < Order(b))

\* Variant: one item fewer.
PrefixTooShort(len, share) ==
    LET required == (share * len + 99) \div 100 IN IF len > required THEN len - required ELSE 0

PrefixLen(len, share) ==
    LET required == (share * len + 99) \div 100 IN
    Min({len, IF len + 1 > required THEN len + 1 - required ELSE 0})

SimilarPairs(sets, share) ==
    LET prefix == [i \in DOMAIN sets |-> {item \in sets[i] :
            Cardinality({a \in sets[i] : Rarer(sets, a, item)}) < PrefixLen(Cardinality(sets[i]), share)}] IN
    {p \in (DOMAIN sets) \X (DOMAIN sets) : p[1] < p[2] /\ prefix[p[1]] \cap prefix[p[2]] # {}}

(* `without_common`, for `informative_pairs`                               *)
Informative(sets) ==
    LET common == CommonItems(sets, MaxCommonShare, MinCommonUses) IN
    [i \in DOMAIN sets |-> sets[i] \ common]

SizeCompatible(a, b) ==
    a.file # b.file /\ 100 * Min({a.tokens, b.tokens}) >= MinSizeRatio * Max({a.tokens, b.tokens})

Shingles(units) == Informative([i \in DOMAIN units |-> units[i].shingles])
DocWords(units) == Informative([i \in DOMAIN units |-> ToSet(units[i].doc)])
NameWords(units) == [i \in DOMAIN units |-> ToSet(Signatures(units)[i])]

CandidatePairs(units) ==
    {p \in SimilarPairs(Shingles(units), MinShape)
             \cup SimilarPairs(DocWords(units), MinDocWordOverlap)
             \cup SimilarPairs(NameWords(units), MinNameWordOverlap) :
        SizeCompatible(units[p[1]], units[p[2]])}

(* `vectors_for`: the texts to embed for the units of some pairs.          *)
TextsOf(units, pairs) ==
    (UNION {{units[i].doc, Signatures(units)[i], units[i].code} : i \in UNION {{p[1], p[2]} : p \in pairs}})
        \ {NoText}

-----------------------------------------------------------------------------
Jaccard(a, b) == IF a \cup b = {} THEN 0 ELSE (100 * Cardinality(a \cap b)) \div Cardinality(a \cup b)
Missing == -1

(* `verdict`.  Cosine(v, w) is the likeness of two vectors; a unit without *)
(* a text has none.                                                        *)
SameIntent(scores) == scores.code >= 80 /\ scores.names >= 85
EditedCopy(scores) ==
    \/ scores.structure >= 50 /\ scores.code >= 75 /\ scores.names >= 70
    \/ scores.code >= 85 /\ scores.names >= 85
    \/ scores.docs >= CommentBoost /\ scores.code >= 70
Verdict(scores) ==
    IF scores.structure >= MinShape
    THEN IF EditedCopy(scores) \/ SameIntent(scores) THEN "edited_copy" ELSE "none"
    ELSE IF SameIntent(scores) THEN "same_intent_different_code" ELSE "none"

Scores(units, i, k, VectorOf(_), Cosine(_, _)) ==
    LET Likeness(a, b) == IF a = NoText \/ b = NoText THEN Missing ELSE Cosine(VectorOf(a), VectorOf(b)) IN
    [structure |-> Jaccard(units[i].shingles, units[k].shingles),
     code |-> Likeness(units[i].code, units[k].code),
     names |-> Likeness(Signatures(units)[i], Signatures(units)[k]),
     docs |-> Likeness(units[i].doc, units[k].doc)]

ActionFor(verdict) == IF verdict = "edited_copy" THEN "advisory" ELSE "info"

Finding(units, i, k, verdict) ==
    [verdict |-> verdict, action |-> ActionFor(verdict), tokens |-> Min({units[i].tokens, units[k].tokens}),
     occurrences |-> <<[file |-> units[i].file, rows |-> <<units[i].start, units[i].end>>],
                       [file |-> units[k].file, rows |-> <<units[k].start, units[k].end>>]>>]

Judged(units, pairs, VectorOf(_), Cosine(_, _)) ==
    LET Of(p) == Verdict(Scores(units, p[1], p[2], VectorOf, Cosine)) IN
    {Finding(units, p[1], p[2], Of(p)) : p \in {q \in pairs : Of(q) # "none"}}

-----------------------------------------------------------------------------
(* What the index of rare items must not lose: every pair of functions that*)
(* share as much as a threshold asks for.                                  *)
AlikePairs(sets, share) ==
    {p \in (DOMAIN sets) \X (DOMAIN sets) :
        LET common == sets[p[1]] \cap sets[p[2]] IN
        /\ p[1] < p[2] /\ common # {}
        /\ 100 * Cardinality(common) >= share * Cardinality(sets[p[1]] \cup sets[p[2]])}
Alike(units) ==
    {p \in AlikePairs(Shingles(units), MinShape)
             \cup AlikePairs(DocWords(units), MinDocWordOverlap)
             \cup AlikePairs(NameWords(units), MinNameWordOverlap) :
        SizeCompatible(units[p[1]], units[p[2]])}
=============================================================================
