---------------------------- MODULE SharedSmells ----------------------------
(***************************************************************************)
(* The smells several functions or files have together: parameters that    *)
(* recur, helpers written again, utilities the project could import, and   *)
(* modules too many depend on (src/noze/smells).  Detect is the smells     *)
(* pillar of a scan.                                                       *)
(*                                                                         *)
(* Files are a sequence in the crawl's order.  A file has a module of its  *)
(* own, and links: [to, runtime, decl, symbols], the edges of its imports. *)
(***************************************************************************)
EXTENDS RiskSmells

CONSTANTS
    Family,    \* the clone family of a language
    Utilities  \* known utilities: [names, arities, max_lines, providers]

(***************************************************************************)
(* Data clumps                                                             *)
(***************************************************************************)
MaxParamsConsidered == 10

Before(a, b) == NameOrder[a] < NameOrder[b]

Considered(f) ==
    LET params == ToSet(f.param_names) \ Own
    IN  {p \in params : Cardinality({q \in params : Before(q, p)}) < MaxParamsConsidered}

(* Combinations are kept in the order of their sorted names.               *)
Precedes(S, T) == \E x \in S \ T : \A y \in T \ S : Before(x, y)

Overlap(S, T, size) == Cardinality(S \cap T) >= size - 1

DataClumps(file, s) ==
    LET size == Most({2, s.data_clump_min_fields})
        Support(S) == {i \in DOMAIN file.functions : S \subseteq Considered(file.functions[i])}
        combinations == UNION {kSubset(size, Considered(f)) : f \in ToSet(file.functions)}
        seeds == {S \in combinations : Cardinality(Support(S)) >= s.data_clump_min_occurrences}
        support == [S \in seeds |-> Support(S)]
        Line(group) ==
            LET first == CHOOSE S \in group : \A T \in group \ {S} : Precedes(S, T)
            IN  file.functions[Least(support[first])].start_line
    IN  {[Make("data_clump", file, Line(group), "", "info",
               Cardinality(UNION {support[S] : S \in group})) EXCEPT !.symbol = UNION group] :
            group \in Components(seeds, LAMBDA S, T : Overlap(S, T, size))}

(***************************************************************************)
(* Helpers written again                                                   *)
(***************************************************************************)
(* The least number of insertions, deletions and substitutions, by the     *)
(* rows of the table; a cell is reached from the one above or the one above*)
(* and before, and then along its row.                                     *)
EditDistance(a, b) ==
    LET Entered(above, x) ==
            [j \in 0 .. Len(b) |->
                IF j = 0 THEN above[0] + 1
                ELSE Least({above[j] + 1, above[j - 1] + IF x = b[j] THEN 0 ELSE 1})] @@ << >>
        Along(entered) ==
            [j \in 0 .. Len(b) |-> Least({entered[k] + j - k : k \in 0 .. j})] @@ << >>
        row[i \in 0 .. Len(a)] ==
            IF i = 0 THEN [j \in 0 .. Len(b) |-> j] ELSE Along(Entered(row[i - 1], a[i]))
    IN  row[Len(a)][Len(b)]

SimilarityPercent(a, b) ==
    LET longest == Most({Len(a), Len(b)})
    IN  IF longest = 0 THEN 100 ELSE 100 - (EditDistance(a, b) * 100) \div longest
LengthCeilingPercent(a, b) ==
    (Least({Len(a), Len(b)}) * 100) \div Most({Len(a), Len(b), 1})

(* The definitions of files: pairs of positions.                           *)
Definitions(files) == UNION {{i} \X DOMAIN files[i].functions : i \in DOMAIN files}
FileAt(files, d) == files[d[1]]
FunctionAt(files, d) == files[d[1]].functions[d[2]]

(* Of the definitions of a name in a module the last one stands for it.    *)
IsDeclared(file, f) ==
    LET Declares(g) == g.declared /\ ~g.is_method /\ ~g.is_nested
    IN  /\ f.declared /\ ~f.is_method
        /\ ~\E g \in ToSet(file.functions) :
              Declares(g) /\ g.name = f.name /\ g.start_line > f.start_line

IsHelper(file, f) ==
    /\ ~file.test_support /\ ~file.package_index
    /\ IsDeclared(file, f) /\ ~f.is_nested /\ f.callback_position = "standalone"
    /\ f.says \cap {"capitalized", "framework"} = {}

FilesOf(files, group) == {FileAt(files, d).path : d \in group}

WithoutWrappers(files, group) ==
    LET Imports(d, e) ==
            /\ FileAt(files, d).path # FileAt(files, e).path
            /\ \E l \in FileAt(files, d).links :
                /\ l.to = FileAt(files, e).module
                /\ l.symbols \cap {FunctionAt(files, d).name, "*"} # {}
    IN  {d \in group : ~\E e \in group : Imports(d, e)}

(* Helpers of one family, name and arity; the first one's language has the *)
(* threshold for all.                                                      *)
SiblingHelpers(files, cfg) ==
    LET Settings(d) == cfg.languages[FileAt(files, d).language]
        helpers == {d \in Definitions(files) :
                        /\ Enabled(Settings(d), "sibling_helper_redefinition")
                        /\ IsHelper(FileAt(files, d), FunctionAt(files, d))
                        /\ Len(FunctionAt(files, d).lexemes) >= Settings(d).sibling_helper_min_lexemes}
        Key(d) == <<Family[FileAt(files, d).language], FunctionAt(files, d).name,
                    Len(FunctionAt(files, d).param_names)>>
        groups == {{e \in helpers : Key(e) = Key(d)} : d \in helpers}
        Earlier(d, e) == d[1] < e[1] \/ (d[1] = e[1] /\ d[2] < e[2])
        Threshold(group) ==
            Settings(CHOOSE d \in group : \A e \in group \ {d} : Earlier(d, e))
                .sibling_helper_min_similarity
        Similar(d, e, threshold) ==
            LET f == FileAt(files, d)
                g == FileAt(files, e)
                a == FunctionAt(files, d).lexemes
                b == FunctionAt(files, e).lexemes
            IN  /\ f.path # g.path
                /\ ~(f.name = g.name /\ f.directory = g.directory)
                /\ LengthCeilingPercent(a, b) >= threshold
                /\ SimilarityPercent(a, b) >= threshold
        Clusters(group) ==
            IF group = {} THEN {}
            ELSE Components(group, LAMBDA d, e : Similar(d, e, Threshold(group)))
        Anchor(cluster) ==
            CHOOSE d \in cluster : \A e \in cluster \ {d} :
                LET p == FileAt(files, d).path
                    q == FileAt(files, e).path
                IN  \/ Before(p, q)
                    \/ p = q /\ FunctionAt(files, d).start_line <= FunctionAt(files, e).start_line
        Found(cluster) ==
            Of("sibling_helper_redefinition", FileAt(files, Anchor(cluster)),
               FunctionAt(files, Anchor(cluster)), "info", Cardinality(cluster))
    IN  {Found(cluster) : cluster \in
            {c \in UNION {Clusters(WithoutWrappers(files, g)) : g \in groups} :
                Cardinality(FilesOf(files, c)) >= 2}}

(***************************************************************************)
(* Utilities a dependency provides                                         *)
(***************************************************************************)
AdvisoryCopies == 3

(* A provider is [package, module]: of the standard library when package is*)
(* "", else present when the manifests near the file declare it.           *)
Providers(file, utility, s) ==
    {p.module : p \in {q \in utility.providers :
        \/ q.package = "" \/ q.package \in file.declared_packages
        \/ file.test_support /\ q.package \in file.development_packages}}
    \cup s.dependency_reimplementation_providers

DependencyReimplementations(files, cfg) ==
    LET Copies(i, k) ==
            LET file == files[i]
                f == file.functions[k]
                s == cfg.languages[file.language]
                IsCopy(utility) ==
                    LET providers == Providers(file, utility, s)
                    IN  /\ f.name \in utility.names
                        /\ providers # {}
                        /\ ~\E import \in ToSet(file.imports) : import.inside \cap providers # {}
                        /\ Len(f.param_names) \in utility.arities
                        /\ LinesOf(f) <= utility.max_lines
            IN  {<<i, k, utility>> : utility \in {u \in Utilities[file.language] :
                    /\ Enabled(s, "dependency_reimplementation")
                    /\ IsDeclared(file, f) /\ IsCopy(u)}}
        copies == UNION {Copies(d[1], d[2]) : d \in Definitions(files)}
        Key(c) == <<Family[files[c[1]].language], c[3].names>>
        Number(c) == Cardinality({d \in copies : Key(d) = Key(c)})
        Found(c) ==
            [Of("dependency_reimplementation", files[c[1]], FunctionAt(files, c), "info", Number(c))
                EXCEPT !.end = FunctionAt(files, c).end_line,
                       !.action = IF Number(c) >= AdvisoryCopies THEN "advisory" ELSE "info"]
    IN  {Found(c) : c \in copies}

(***************************************************************************)
(* Modules in the graph                                                    *)
(***************************************************************************)
BlastFloorRepoPercent == 15

Afferent(files, file, scoped, runtimeOnly) ==
    {f.module : f \in {g \in scoped :
        /\ g.module # file.module
        /\ \E l \in g.links : l.to = file.module /\ ~l.decl /\ (runtimeOnly => l.runtime)}}
Efferent(files, file) ==
    {l.to : l \in {k \in file.links : ~k.decl /\ k.runtime}}
        \cap {f.module : f \in ToSet(files)}

Shotgun(files, file, scoped, s) ==
    LET floor == Most({s.shotgun_blast_threshold, (Len(files) * BlastFloorRepoPercent) \div 100})
        blast == Cardinality(Afferent(files, file, scoped, FALSE))
    IN  When(Enabled(s, "shotgun_surgery_hazard") /\ blast >= floor,
             Make("shotgun_surgery_hazard", file, 0, file.module,
                  IF blast >= floor * 2 THEN "critical" ELSE "warning", blast))

GodModule(files, file, scoped, s) ==
    LET fanIn == Cardinality(Afferent(files, file, scoped, TRUE))
        fanOut == Cardinality(Efferent(files, file))
    IN  When(/\ Enabled(s, "god_module")
             /\ fanIn >= s.god_module_min_fan_in /\ fanOut >= s.god_module_min_fan_out
             /\ fanIn + fanOut >= s.god_module_fan
             /\ \/ file.units >= s.god_module_min_units
                \/ file.units > 0 /\ file.lines >= s.god_module_min_lines,
             Make("god_module", file, 1, file.module, "warning", fanIn + fanOut))

(* A module whose change scatters is not called a god module, too.         *)
GraphSmells(files, scoped, cfg) ==
    LET Found(file, s) ==
            IF Shotgun(files, file, scoped, s) # {} THEN Shotgun(files, file, scoped, s)
            ELSE GodModule(files, file, scoped, s)
    IN  UNION {Found(f, cfg.languages[f.language]) : f \in {g \in scoped : ~g.package_index}}

(***************************************************************************)
(* The pillar                                                              *)
(***************************************************************************)
SkipReason(file, cfg) ==
    CASE MatchesAny(file.path, cfg.exclude) -> "config_exclude"
      [] ~cfg.include_tests /\ (file.tests_layout \/ file.test_support) -> "test"
      [] file.is_generated -> "generated"
      [] OTHER -> ""

Detect(files, cfg) ==
    LET Settings(f) == cfg.languages[f.language]
        Kept(f) == SkipReason(f, cfg) = ""
        kept == SelectSeq(files, Kept)
        scoped == ToSet(kept)
        clumps == UNION {DataClumps(f, Settings(f)) :
                            f \in {g \in scoped : Enabled(Settings(g), "data_clump")}}
        shared == clumps \cup SiblingHelpers(kept, cfg) \cup DependencyReimplementations(kept, cfg)
                    \cup GraphSmells(files, scoped, cfg)
        Language(path) == (CHOOSE f \in scoped : f.path = path).language
    IN  IF ~cfg.enabled THEN {}
        ELSE UNION {DetectLocal(f, Settings(f)) : f \in scoped}
             \cup UNION {TestRules(f, Settings(f)) : f \in {g \in ToSet(files) :
                            ~Kept(g) /\ ~MatchesAny(g.path, cfg.explicit_exclude)}}
             \cup UNION {Acted({x}, cfg.languages[Language(x.file)]) : x \in shared}
=============================================================================
