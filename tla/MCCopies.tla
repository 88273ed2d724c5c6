------------------------------- MODULE MCCopies -------------------------------
EXTENDS Copies, TLC

Tok(lex, depth) ==
    [lex |-> lex, kind |-> "other", depth |-> depth, name |-> "", fields |-> {}]
Name(lex, depth) == [Tok(lex, depth) EXCEPT !.kind = "name"]
Function1 == [Tok("fn", 0) EXCEPT !.kind = "function"]
Class1 == [Tok("class", 0) EXCEPT !.kind = "class", !.name = "C", !.fields = {"f", "g"}]

MCBlocks ==
    "load" :> <<Tok("a", 0), Tok("b", 0)>>
    @@ "save" :> <<Tok("c", 0), Tok("d", 0)>>
    @@ "deep" :> <<Tok("c", 0), Tok("d", 0), Tok("e", 1)>>
    @@ "gap" :> <<Class1>>
    @@ "fun" :> <<Function1, Name("x", 1), Name("y", 1), Name("x", 1)>>
    @@ "nuf" :> <<Function1, Name("y", 1), Name("x", 1), Name("y", 1)>>
MCPaths == <<"a.py", "b.py", "old.py">>
MCFamily == [p \in ToSet(MCPaths) |-> "py"]
MCPasted == "a.py" :> DOMAIN MCBlocks @@ "b.py" :> DOMAIN MCBlocks \ {"nuf"}
            @@ "old.py" :> {"fun"}
MCRoom == "a.py" :> 3 @@ "b.py" :> 2 @@ "old.py" :> 1
=============================================================================
