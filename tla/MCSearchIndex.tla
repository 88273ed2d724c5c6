---------------------------- MODULE MCSearchIndex ----------------------------
(* Two processes on three files, before and after an edit that rewrites a  *)
(* doc, moves a function and gives another a name that says the same.      *)
EXTENDS SearchIndex, TLC

Item(form, symbol, line, text) ==
    [form |-> form, leading |-> TRUE, scope |-> symbol, owner |-> << >>, line |-> line, text |-> text]
Fn(name, first, shingles, words) ==
    [name |-> name, start |-> first, end |-> first + 3, tokens |-> 40, shingles |-> shingles,
     signature |-> words, nested |-> FALSE]
File(language, items, functions, bodies) ==
    [language |-> language, items |-> items, functions |-> functions,
     source |-> [rows \in {<<functions[i].start, functions[i].end>> : i \in DOMAIN functions} |->
        bodies[CHOOSE i \in DOMAIN functions : <<functions[i].start, functions[i].end>> = rows]]]

LoadDoc == <<"read", "one", "user", "from", "disk">>
LoadDoc2 == <<"read", "the", "account", "from", "disk">>
Body == <<"open", "read", "close">>

Users == File("python", <<Item("string", <<"load">>, 2, LoadDoc), Item("string", <<"load">>, 3, LoadDoc)>>,
              <<Fn("load", 1, {"1", "2", "9"}, <<"load", "user">>)>>, <<Body>>)
UsersEdited == File("python", <<Item("string", <<"load">>, 4, LoadDoc2)>>,
              <<Fn("load", 3, {"1", "2", "9"}, <<"load", "user">>)>>, <<Body>>)
Accounts == File("rust", <<Item("doc_comment", <<"fetch">>, 1, LoadDoc2), Item("comment", <<"fetch">>, 3, Body)>>,
              <<Fn("fetch", 1, {"1", "2", "3", "4", "9"}, <<"fetch", "account">>)>>, << <<"open", "scan", "close">> >>)
Sums == File("javascript", <<Item("comment", << >>, 1, Body)>>,
              <<Fn("sum", 1, {"5", "6", "9"}, <<"get", "sum", "all">>)>>, << <<"add">> >>)

Items == <<"1", "2", "3", "4", "5", "6", "9", "all", "account", "add", "close", "disk", "fetch", "from", "get",
           "load", "one", "open", "read", "scan", "sum", "the", "user">>
PlaceOf == [item \in ToSet(Items) |-> CHOOSE i \in DOMAIN Items : Items[i] = item]
MCOrder(item) == PlaceOf[item]

MCPaths == <<"users.py", "accounts.rs", "sums.js">>
Tree(users) == ("users.py" :> users) @@ ("accounts.rs" :> Accounts) @@ ("sums.js" :> Sums)
MCTrees == {Tree(Users), Tree(UsersEdited)}

Meaning(word) ==
    CASE word = "fetch" -> "load" [] word = "account" -> "user" [] word = "scan" -> "read" [] OTHER -> word
MCLikeness(a, b) == Jaccard({Meaning(w) : w \in ToSet(a)}, {Meaning(w) : w \in ToSet(b)})

Stale == {"another model"}
OldDocs == <<[file |-> "users.py", line |-> 9, symbol |-> <<"load">>, kind |-> "docstring", text |-> LoadDoc2]>>
Index(version, model) ==
    [version |-> version, docs |-> OldDocs, vectors |-> <<Vector(model, LoadDoc2)>>]
TextVectors(version, model) ==
    [version |-> version, vectors |-> [t \in {LoadDoc, Body} |-> Vector(model, t)]]
MCOlder == [docs |-> {Index(Version("docs"), ModelFiles), Index(<<"before">>, Stale)},
            semantic |-> {TextVectors(Version("semantic"), ModelFiles), TextVectors(<<"0", MODEL_ID>>, Stale)}]

(* No cache yet, or one of another version and one of this.                *)
MCStart ==
    /\ sources = Tree(Users) /\ hub = {"config.json"}
    /\ \/ \A c \in Caches : caches[c].cache = 0
       \/ \A c \in Caches : caches[c].cache # 0 /\ (Content(caches[c].cache).version = Version(c) <=> c = "docs")
=============================================================================
