--------------------------- MODULE BytecodeModule ---------------------------
(***************************************************************************)
(* A module as the parser leaves it, and ModuleView: the index spaces in      *)
(* which imports come first.  Indices count from zero, as in the bytecode.     *)
(*                                                                           *)
(*   types      [params, results]                                              *)
(*   imports    [kind, type, names]: a function's type is [index], of types,     *)
(*              a global's is [type, var], a table's or memory's [min, max];    *)
(*              names is <<module name, entity name>>                           *)
(*   functions  [type, body]          globals   [type, init]                   *)
(*   tables, memories                 [type]                                   *)
(*   elements   [table, offset, init] data      [memory, offset]               *)
(*   start      at most one function  exports   [name, kind, index]            *)
(*                                                                           *)
(* Of an expression remains what refers to the module: a sequence of           *)
(* <<instruction, argument>>.                                                   *)
(***************************************************************************)
EXTENDS Integers, FiniteSets, SequencesExt

Kinds == {"function", "table", "memory", "global"}
ScalarTypes == {"I32", "I64", "F32", "F64"}
ValueTypes == ScalarTypes \cup {"V128"}

(* What the parser may leave.  No index is known to be in its space. *)
EntityType(k) ==
  CASE k = "function" -> [index : Nat]
    [] k = "global"   -> [type : ValueTypes, var : BOOLEAN]
    [] OTHER          -> [min : Nat, max : SUBSET Nat]
Import(k) == [kind : {k}, type : EntityType(k), names : STRING \X STRING]
InitInstruction == ({"const", "unary"} \X ValueTypes) \cup ({"get"} \X Nat)
BytecodeModules ==
  [types     : Seq([params : Seq(ValueTypes), results : Seq(ValueTypes)]),
   imports   : Seq(Import("function") \cup Import("table") \cup Import("memory") \cup Import("global")),
   functions : Seq([type : EntityType("function"), body : Seq({"call", "set", "grow", "untyped"} \X Nat)]),
   tables    : Seq([type : EntityType("table")]),
   memories  : Seq([type : EntityType("memory")]),
   globals   : Seq([type : EntityType("global"), init : Seq(InitInstruction)]),
   elements  : Seq([table : Nat, offset : Seq(InitInstruction), init : Seq(Nat)]),
   data      : Seq([memory : Nat, offset : Seq(InitInstruction)]),
   start     : Seq(Nat),
   exports   : Seq([name : STRING, kind : Kinds, index : Nat])]

(* CastedIndex < Container.size(), and the element there. *)
InRange(s, i) == i < Len(s)
At(s, i) == s[i + 1]

Definitions(M, k) ==
  CASE k = "function" -> M.functions
    [] k = "table"    -> M.tables
    [] k = "memory"   -> M.memories
    [] k = "global"   -> M.globals

(* The imports of one kind, as the loop over all of them collects them. *)
ImportsOf(M, k) ==
  LET kept[p \in 0..Len(M.imports)] ==
        IF p = 0 THEN <<>>
        ELSE IF M.imports[p].kind = k THEN Append(kept[p - 1], M.imports[p]) ELSE kept[p - 1]
  IN  kept[Len(M.imports)]

(* countEntity. *)
NumEntities(M, k) == Len(ImportsOf(M, k)) + Len(Definitions(M, k))

(* The constructor of ModuleView looks types up and annotates exports without
   asking whether the indices exist. *)
ViewDefined(M) ==
  /\ \A i \in DOMAIN M.imports : M.imports[i].kind = "function" => InRange(M.types, M.imports[i].type.index)
  /\ \A i \in DOMAIN M.functions : InRange(M.types, M.functions[i].type.index)
  /\ \A i \in DOMAIN M.exports : M.exports[i].index < NumEntities(M, M.exports[i].kind)

TypeIn(M, k, t) == IF k = "function" THEN At(M.types, t.index) ELSE t

(* The name of the last export of the entity: the loop over the exports keeps no other. *)
ExportOf(M, k, i) ==
  LET name[e \in 0..Len(M.exports)] ==
        IF e = 0 THEN <<>>
        ELSE IF M.exports[e].kind = k /\ M.exports[e].index = i THEN <<M.exports[e].name>>
             ELSE name[e - 1]
  IN  name[Len(M.exports)]

ImportedEntity(M, k, i) ==
  LET entity == ImportsOf(M, k)[i] IN
  [type |-> TypeIn(M, k, entity.type), import |-> entity.names, entity |-> <<>>]
DefinedEntity(M, k, i) ==
  LET entity == Definitions(M, k)[i] IN
  [type |-> TypeIn(M, k, entity.type), import |-> <<>>, entity |-> <<entity>>]
WithExports(M, k, space) ==
  [i \in DOMAIN space |-> [type |-> space[i].type, import |-> space[i].import,
                           entity |-> space[i].entity, export |-> ExportOf(M, k, i - 1)]]

\* A plausible slip, for the mutants: definitions come before imports.
ViewDefinitionsFirst(M, k) ==
  WithExports(M, k, [i \in DOMAIN Definitions(M, k) |-> DefinedEntity(M, k, i)]
                    \o [i \in DOMAIN ImportsOf(M, k) |-> ImportedEntity(M, k, i)])

(* The entities of a kind, by index: what is imported, then what is defined. *)
View(M, k) ==
  WithExports(M, k, [i \in DOMAIN ImportsOf(M, k) |-> ImportedEntity(M, k, i)]
                    \o [i \in DOMAIN Definitions(M, k) |-> DefinedEntity(M, k, i)])
=============================================================================
