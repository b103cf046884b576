------------------------- MODULE MCModuleTranslation -------------------------
(* Small modules: all that differ from one of two by the values of at most two
   sections.  The imports of one are those of the other's definitions. *)
EXTENDS ModuleTranslation

Const(t, v) == [type |-> t, var |-> v]
Type(i) == [index |-> i]
Limits(min, max) == [min |-> min, max |-> max]
Imported(k, t) == [kind |-> k, type |-> t, names |-> <<"m", "e">>]
Export(n, k, i) == [name |-> n, kind |-> k, index |-> i]
I(what, arg) == <<what, arg>>

Types == << [params |-> <<>>, results |-> <<>>], [params |-> <<"I32">>, results |-> <<"I64">>] >>

Definer ==
  [types |-> Types, imports |-> << Imported("function", Type(1)) >>,
   functions |-> << [type |-> Type(0), body |-> <<I("call", 0), I("call", 1), I("grow", 0)>>],
                    [type |-> Type(1), body |-> <<I("set", 1), I("call", 1)>>] >>,
   tables |-> << [type |-> Limits(1, {2})] >>, memories |-> << [type |-> Limits(0, {})] >>,
   globals |-> << [type |-> Const("I32", FALSE), init |-> <<I("const", "I32")>>],
                  [type |-> Const("I64", TRUE), init |-> <<I("const", "I64")>>] >>,
   elements |-> << [table |-> 0, offset |-> <<I("get", 0)>>, init |-> <<2, 0>>] >>,
   data |-> << [memory |-> 0, offset |-> <<I("const", "I32")>>] >>,
   start |-> <<1>>, exports |-> << Export("f", "function", 1), Export("g", "global", 0) >>]
Importer ==
  [types |-> Types,
   imports |-> << Imported("global", Const("I32", FALSE)), Imported("function", Type(0)), Imported("table", Limits(1, {1})),
                  Imported("global", Const("I64", TRUE)), Imported("memory", Limits(1, {2})) >>,
   functions |-> << [type |-> Type(1), body |-> <<I("set", 1), I("grow", 0)>>] >>,
   tables |-> <<>>, memories |-> <<>>, globals |-> <<>>,
   elements |-> << [table |-> 0, offset |-> <<I("const", "I32")>>, init |-> <<0, 1, 1>>],
                   [table |-> 0, offset |-> <<I("get", 0)>>, init |-> <<>>] >>,
   data |-> << [memory |-> 0, offset |-> <<I("get", 0)>>], [memory |-> 0, offset |-> <<I("get", 0)>>] >>,
   start |-> <<>>, exports |-> <<>>]

SomeFunctions ==
  { <<>>, << [type |-> Type(2), body |-> <<>>] >>, << [type |-> Type(0), body |-> <<I("untyped", 0)>>] >>,
    << [type |-> Type(0), body |-> <<I("call", 3)>>], [type |-> Type(1), body |-> <<I("set", 0)>>] >>,
    << [type |-> Type(0), body |-> <<I("set", 2)>>], [type |-> Type(1), body |-> <<I("set", 0)>>] >>,
    << [type |-> Type(0), body |-> <<I("call", 1)>>], [type |-> Type(0), body |-> <<I("call", 2)>>] >> }
SomeImports ==
  { <<>>, << Imported("function", Type(2)) >>, << Imported("table", Limits(2, {1})) >>,
    << [Imported("function", Type(0)) EXCEPT !.names[1] = ""] >>, << [Imported("function", Type(0)) EXCEPT !.names = <<"", "">>] >>,
    << Imported("memory", Limits(3, {})), Imported("global", Const("I32", TRUE)) >>,
    << Imported("memory", Limits(0, {})), Imported("global", Const("I32", TRUE)) >>,
    << Imported("global", Const("I64", FALSE)), Imported("function", Type(0)), Imported("global", Const("I32", FALSE)) >> }
SomeTables == { <<>>, << [type |-> Limits(0, {3})] >>, << [type |-> Limits(0, {})], [type |-> Limits(1, {1})] >> }
SomeMemories == { <<>>, << [type |-> Limits(2, {1})] >>, << [type |-> Limits(0, {})], [type |-> Limits(1, {1})] >> }
Inits ==
  { <<I("const", "I32")>>, <<I("const", "I64")>>, <<I("get", 0)>>, <<I("get", 1)>>, <<I("get", 2)>>, <<>>,
    <<I("const", "I32"), I("unary", "I32")>>, <<I("const", "I32"), I("const", "I32")>>, <<I("get", 9)>> }
SomeGlobals ==
  { << [type |-> t, init |-> i], [type |-> Const("I64", TRUE), init |-> <<I("const", "I64")>>] >> :
      t \in {Const("I32", FALSE), Const("I64", TRUE)}, i \in Inits }
  \cup { << [type |-> Const("V128", TRUE), init |-> <<I("const", "V128")>>] >>, <<>> }
SomeElements ==
  { << [table |-> t, offset |-> i, init |-> <<0>>] >> : t \in {0, 1}, i \in Inits }
  \cup { <<>>, << [table |-> 0, offset |-> <<I("const", "I32")>>, init |-> <<1, 3>>] >> }
SomeData ==
  { << [memory |-> t, offset |-> i] >> : t \in {0, 1}, i \in Inits } \cup { <<>> }
SomeStarts == { <<>>, <<0>>, <<1>>, <<2>>, <<3>> }
SomeExports ==
  { <<>>, << Export("", "function", 0) >>, << Export("a", "function", 0), Export("", "function", 0) >>, << Export("a", "function", 0), Export("b", "function", 0) >>,
    << Export("a", "function", 1), Export("a", "global", 0) >>,
    << Export("a", "memory", 0), Export("b", "table", 0), Export("c", "global", 1) >>,
    << Export("a", "table", 1) >>, << Export("a", "global", 2) >> }

Vary(M, section) ==
  CASE section = "functions" -> { [M EXCEPT !.functions = x] : x \in SomeFunctions }
    [] section = "imports"   -> { [M EXCEPT !.imports = x] : x \in SomeImports }
    [] section = "tables"    -> { [M EXCEPT !.tables = x] : x \in SomeTables }
    [] section = "memories"  -> { [M EXCEPT !.memories = x] : x \in SomeMemories }
    [] section = "globals"   -> { [M EXCEPT !.globals = x] : x \in SomeGlobals }
    [] section = "elements"  -> { [M EXCEPT !.elements = x] : x \in SomeElements }
    [] section = "data"      -> { [M EXCEPT !.data = x] : x \in SomeData }
    [] section = "start"     -> { [M EXCEPT !.start = x] : x \in SomeStarts }
    [] section = "exports"   -> { [M EXCEPT !.exports = x] : x \in SomeExports }
Sections == {"functions", "imports", "tables", "memories", "globals", "elements", "data", "start", "exports"}

Varied(Bases) == UNION { Vary(M, s) : M \in Bases, s \in Sections }
MCModules == << Varied(Varied({Definer, Importer})) >>
=============================================================================
