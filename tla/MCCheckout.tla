----------------------------- MODULE MCCheckout -----------------------------
(* Four repositories: a TypeScript package with a barrel, a Python         *)
(* package, two TypeScript packages with files of the same name, and       *)
(* Python classes.                                                         *)
EXTENDS Checkout

import == [kind |-> "import", dots |-> 0, target |-> << >>, symbols |-> << >>, bindings |-> << >>,
           phase |-> "runtime", inline |-> FALSE, reexport |-> FALSE, decl |-> FALSE,
           computed |-> FALSE]
\* `from target import symbols as bindings`, `import {symbols as bindings} from target`
From(target, symbols, bindings) ==
    [import EXCEPT !.target = target, !.symbols = symbols, !.bindings = bindings]
\* `import target as binding`, and `import * as binding from target`
Whole1(target, binding) == [import EXCEPT !.target = target, !.bindings = <<binding>>]
Namespace(target, binding) == From(target, <<"*">>, <<binding>>)
Export(target, symbols, bindings) ==
    [From(target, symbols, bindings) EXCEPT !.reexport = TRUE]
Relative(dots, s) == [s EXCEPT !.dots = dots]
Inline(s) == [s EXCEPT !.inline = TRUE]
Typed(s) == [s EXCEPT !.phase = "types"]
Computed(s) == [s EXCEPT !.computed = TRUE, !.inline = TRUE]

Def(name) == [kind |-> "def", name |-> name, private |-> FALSE, variable |-> FALSE,
              callee |-> "none", decorator |-> "none", default |-> FALSE, entrypoint |-> FALSE]
Default(name) == [Def(name) EXCEPT !.default = TRUE]
Use(name) == [kind |-> "use", name |-> name]
Attr(of, name) == [kind |-> "attr", of |-> of, name |-> name]
All(name) == [kind |-> "all", name |-> name]
Glob(matches) == [kind |-> "glob", matches |-> matches]
Opaque1 == [kind |-> "opaque"]
Class(name, bases) ==
    [kind |-> "class", name |-> name, bases |-> bases, managed |-> FALSE, schema |-> FALSE]
Method(class, name) == [kind |-> "method", class |-> class, name |-> name]
Property(class, name) ==
    [kind |-> "property", class |-> class, name |-> name, private |-> FALSE, managed |-> FALSE]
Self(class, name) == [kind |-> "self", class |-> class, name |-> name]
Hint(name, types) == [kind |-> "hint", name |-> name, types |-> types]
Returns(name, types) == [kind |-> "returns", name |-> name, types |-> types]
Result(of, name) == [kind |-> "result", of |-> of, name |-> name]
Path(of, name) == [kind |-> "path", of |-> of, name |-> name]
Str(name) == [kind |-> "string", name |-> name]
Broken == [kind |-> "broken"]
Other == [kind |-> "other"]

MCFiles == <<"app.test.ts", "app.ts", "lib/a.ts", "lib/b.ts", "lib/index.ts",
             "setup.ts", "conftest.py", "main.py", "pkg/__init__.py", "pkg/core.py", "pkg/util.py",
             "shop/__init__.py", "shop/item.py", "shop/order.py", "shop/task.py", "shop/view.py",
             "test_core.py", "test_shop.py",
             "x/main.ts", "x/util.ts", "y/main.ts", "y/util.ts">>
Shop == {"shop/__init__.py", "shop/item.py", "shop/order.py", "shop/task.py", "shop/view.py"}
Python == {"conftest.py", "main.py", "pkg/__init__.py", "pkg/core.py", "pkg/util.py",
           "test_core.py", "test_shop.py"} \cup Shop
X == {"x/main.ts", "x/util.ts"}
Y == {"y/main.ts", "y/util.ts"}
Script == ToSet(MCFiles) \ Python
Lib == <<"lib">>
A == <<"lib", "a">>
B == <<"lib", "b">>
Pkg == <<"pkg">>
Core == <<"pkg", "core">>
Util == <<"pkg", "util">>

MCLanguage == [p \in Python |-> "python"] @@ [p \in Script |-> "typescript"]
MCRoot == [p \in X |-> "x"] @@ [p \in Y |-> "y"] @@ [p \in ToSet(MCFiles) |-> "."]
MCUniqueName ==
    "app.test.ts" :> <<"app.test">> @@ "app.ts" :> <<"app">> @@ "lib/a.ts" :> A
    @@ "lib/b.ts" :> B @@ "lib/index.ts" :> Lib @@ "setup.ts" :> <<"setup">>
    @@ "conftest.py" :> <<"conftest">> @@ "main.py" :> <<"main">>
    @@ "pkg/__init__.py" :> Pkg @@ "pkg/core.py" :> Core @@ "pkg/util.py" :> Util
    @@ "test_core.py" :> <<"test_core">> @@ "test_shop.py" :> <<"test_shop">>
    @@ "shop/__init__.py" :> <<"shop">> @@ "shop/item.py" :> <<"shop", "item">>
    @@ "shop/order.py" :> <<"shop", "order">> @@ "shop/task.py" :> <<"shop", "task">>
    @@ "shop/view.py" :> <<"shop", "view">>
    @@ "x/main.ts" :> <<"x", "main">> @@ "x/util.ts" :> <<"x", "util">>
    @@ "y/main.ts" :> <<"y", "main">> @@ "y/util.ts" :> <<"y", "util">>
MCLogicalName == [p \in X \cup Y |-> Tail(MCUniqueName[p])] @@ MCUniqueName
MCPathKey == [p \in X |-> MCUniqueName[p]] @@ [p \in Script |-> MCUniqueName[p]]
MCPackageIndex == {"pkg/__init__.py", "shop/__init__.py", "lib/index.ts"}
MCNameOrder == <<<<"app">>, <<"app.test">>, <<"conftest">>, Lib, A, B, <<"main">>, Pkg, Core, Util,
                 <<"setup">>, <<"shop">>, <<"shop", "item">>, <<"shop", "order">>, <<"shop", "task">>,
                 <<"shop", "view">>, <<"test_core">>, <<"test_shop">>, <<"util">>, <<"x", "main">>, <<"x", "util">>,
                 <<"y", "main">>, <<"y", "util">>>>
Under(name) == [is_glob |-> FALSE, prefix |-> name]
Like(names) == [is_glob |-> TRUE, matched |-> names]
MCRules == {[from |-> Under(B), to |-> Under(A)], [from |-> Like({Util}), to |-> Under(Core)]}

MCDirectory ==
    [p \in {"lib/a.ts", "lib/b.ts", "lib/index.ts"} |-> {".", "lib"}]
    @@ [p \in {"pkg/__init__.py", "pkg/core.py", "pkg/util.py"} |-> {".", "pkg"}]
    @@ [p \in Shop |-> {".", "shop"}]
    @@ [p \in X |-> {".", "x"}] @@ [p \in Y |-> {".", "y"}]
    @@ [p \in ToSet(MCFiles) |-> {"."}]
MCTests == {"app.test.ts", "test_core.py", "test_shop.py"}
MCAssetName == "style.css" :> <<"style.css">>

TypeScript ==
    "app.test.ts" :>
        << <<From(B, <<"util">>, <<"util">>), Use("util")>>,
           <<From(Lib, <<"run">>, <<"r">>), [import EXCEPT !.target = <<"app">>]>>,
           <<Glob({"lib/a.ts", "lib/b.ts"})>> >>
    @@ "app.ts" :>
        << <<From(Lib, <<"run">>, <<"go">>), [import EXCEPT !.target = <<"style.css">>]>>,
           <<Namespace(Lib, "lib"), Attr("lib", "util")>> >>
    @@ "lib/a.ts" :>
        << <<From(B, <<"util">>, <<"util">>), Def("start"), Def("helper")>>,
           <<Inline(From(Lib, << >>, <<"m">>)), Attr("m", "util"), Def("start"), Def("helper")>>,
           <<Def("start"), Broken>> >>
    @@ "lib/b.ts" :>
        << <<Default("util")>>,
           <<From(A, <<"start">>, <<"s">>), Def("util")>>,
           <<Typed(From(Lib, <<"run">>, <<"run">>)), Def("util")>>,
           <<Export(A, <<"helper">>, <<"util">>)>> >>
    @@ "lib/index.ts" :>
        << <<Export(A, <<"start">>, <<"run">>), Export(B, <<"*">>, << >>)>>,
           <<Export(A, <<"*">>, <<"util">>), From(B, <<"default">>, <<"b">>), Use("b")>> >>
    @@ "setup.ts" :> << <<Namespace(B, "b"), Use("b")>> >>
    @@ "style.css" :> << <<Other>> >>
    @@ "package.json" :> << <<Other>> >>

PythonTexts ==
    "conftest.py" :> << <<From(Core, <<"old">>, <<"old">>)>> >>
    @@ "main.py" :>
        << <<From(Pkg, <<"core">>, <<"c">>), Attr("c", "run")>>,
         <<From(Pkg, <<"run", "util">>, <<"run", "u">>), Attr("u", "load")>> >>
    @@ "pkg/__init__.py" :>
        << <<Relative(1, From(<<"core">>, <<"run">>, <<"run">>)), All("run")>>, << >> >>
    @@ "pkg/core.py" :>
        << <<Relative(1, From(<< >>, <<"util">>, <<"u">>)), Attr("u", "load"), Def("run"), Def("old")>>,
         <<Inline(From(Util, <<"*">>, << >>)), Def("run")>>,
         <<Opaque1, Def("run")>> >>
    @@ "pkg/util.py" :>
        << <<Def("load"), Def("dump")>>,
         <<Whole1(Core, "core"), Attr("core", "run"), Def("load")>>,
         <<Typed(From(Core, <<"run">>, <<"run">>)), Def("load")>> >>
    @@ "test_core.py" :>
        << <<From(Pkg, <<"core">>, <<"core">>), Attr("core", "run")>>,
         <<Computed(From(Util, << >>, << >>))>> >>

TwoPackages ==
    "x/main.ts" :>
        << <<From(<<"x", "util">>, <<"f">>, <<"f">>), Def("g")>> >>
    @@ "x/util.ts" :> << <<Def("f")>>, <<From(<<"x", "main">>, <<"g">>, <<"g">>), Def("f")>> >>
    @@ "y/main.ts" :> << <<From(<<"y", "util">>, <<"f">>, <<"f">>), Def("g")>> >>
    @@ "y/util.ts" :> << <<Def("f")>>, <<From(<<"y", "main">>, <<"g">>, <<"g">>), Def("f")>> >>

ItemPy == <<"shop", "item">>
OrderPy == <<"shop", "order">>
Classes ==
    "shop/__init__.py" :>
        << << >>, <<Relative(1, From(<<"order">>, <<"Order">>, <<"Order">>))>> >>
    @@ "shop/item.py" :>
        << <<Def("Item"), Class("Item", {}), Property("Item", "price"), Method("Item", "cost"),
             Method("Item", "total"), Self("Item", "price")>>,
           <<Def("Item"), Class("Item", {"Conf"}), Property("Item", "price"), Method("Item", "cost"),
             Def("Conf"), Class("Conf", {"AppConfig"})>> >>
    @@ "shop/order.py" :>
        << <<From(ItemPy, <<"Item">>, <<"Item">>), Use("Item"), Def("Order"), Class("Order", {"Item"}),
             Property("Order", "date"), Method("Order", "cost"), Method("Order", "ship"),
             Self("Order", "date"), Self("Order", "total")>>,
           <<From(ItemPy, <<"Item">>, <<"Item">>), Def("Order"), Class("Order", {}),
             Property("Order", "date"), Method("Order", "cost"), Method("Order", "ship")>> >>
    @@ "shop/view.py" :>
        << <<From(OrderPy, <<"Order">>, <<"Order">>), Use("Order"), Hint("o", <<"Optional", "Order">>),
             Attr("o", "ship")>>,
           <<From(OrderPy, <<"Order">>, <<"Order">>), Use("Order"), Returns("make", <<"Order">>),
             Result("make", "ship"), Hint("o", <<"Order">>), Attr("o", "date")>>,
           <<From(ItemPy, <<"Item">>, <<"Item">>), Use("Item"), Hint("i", <<"Item">>), Attr("i", "ship"),
             Attr("x", "total"), Path("x.item", "price"), Str("date")>> >>
    @@ "shop/task.py" :>
        << <<From(ItemPy, <<"Item">>, <<"Item">>), Use("Item"), Hint("i", <<"Item">>), Attr("i", "cost")>>,
           <<Path("self.item", "price"), Hint("self.item", <<"Item">>)>> >>
    @@ "test_shop.py" :>
        << <<From(OrderPy, <<"Order">>, <<"Order">>), Use("Order"), Hint("o", <<"Order">>),
             Attr("o", "cost"), Attr("o", "total")>> >>

\* A repository starts with the first text of every path.
MCRepositories ==
    {[start |-> [p \in DOMAIN t |-> Head(t[p])], texts |-> t] :
        t \in {TypeScript, PythonTexts, TwoPackages, Classes}}
=============================================================================
