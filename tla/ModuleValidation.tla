-------------------------- MODULE ModuleValidation --------------------------
(***************************************************************************)
(* validate(Module): the checks of a module, section after section, the        *)
(* first error deciding.  Bodies and initializers are validated as Validation    *)
(* does; of them remains here what depends on the index spaces.                *)
(***************************************************************************)
EXTENDS BytecodeModule

CONSTANTS MemoryBound, TableBound   \* 2^32 and 2^16

ASSUME BoundsAssumption == MemoryBound \in Nat /\ TableBound \in Nat

None == "none"

LimitsValid(t, bound) ==
  /\ t.min <= bound
  /\ \A max \in t.max : max <= bound /\ t.min <= max

TableError(t)  == IF LimitsValid(t, TableBound) THEN None ELSE "MALFORMED_TABLE_TYPE"
MemoryError(t) == IF LimitsValid(t, MemoryBound) THEN None ELSE "MALFORMED_MEMORY_TYPE"

ImportError(M, i) ==
  CASE i.kind = "function" -> IF InRange(M.types, i.type.index) THEN None ELSE "TYPE_INDEX_OUT_OF_BOUND"
    [] i.kind = "table"    -> TableError(i.type)
    [] i.kind = "memory"   -> MemoryError(i.type)
    [] i.kind = "global"   -> None

IndexError(k) ==
  CASE k = "function" -> "FUNC_INDEX_OUT_OF_BOUND"
    [] k = "table"    -> "TABLE_INDEX_OUT_OF_BOUND"
    [] k = "memory"   -> "MEM_INDEX_OUT_OF_BOUND"
    [] k = "global"   -> "GLOBAL_INDEX_OUT_OF_BOUND"

(* A reference to entity i of kind k: ModuleView::get and what follows. *)
ReferenceError(M, k, i) == IF InRange(View(M, k), i) THEN None ELSE IndexError(k)

ExportError(M, e) == IF e.index < NumEntities(M, e.kind) THEN None ELSE IndexError(e.kind)
SignatureError(M, f) == IF InRange(M.types, f.type.index) THEN None ELSE "TYPE_INDEX_OUT_OF_BOUND"

(* What is wrong, by its place, and the first of it. *)
Wrong(errors) == {j \in DOMAIN errors : errors[j] # None}
First(places) == CHOOSE j \in places : \A i \in places : j <= i
FirstOf(errors) == IF Wrong(errors) = {} THEN None ELSE errors[First(Wrong(errors))]

(* memory.grow asks for nothing; global.set wants a variable. *)
InstructionError(M, i) ==
  CASE i[1] = "call"    -> ReferenceError(M, "function", i[2])
    [] i[1] = "set"     -> IF ~InRange(View(M, "global"), i[2]) THEN IndexError("global")
                           ELSE IF At(View(M, "global"), i[2]).type.var THEN None
                           ELSE "GLOBAL_MUST_BE_MUT"
    [] i[1] = "grow"    -> None
    [] i[1] = "untyped" -> "TypeError"
FunctionError(M, f) == FirstOf([j \in DOMAIN f.body |-> InstructionError(M, f.body[j])])

\* A plausible slip, for the mutants: an initializer may read any global.
AnyGlobal(M, g, importedOnly) == InRange(View(M, "global"), g)

(* GlobalInitializerValidationContext: the initializer of a global sees the
   imported ones alone, an offset sees all. *)
GlobalVisible(M, g, importedOnly) ==
  InRange(View(M, "global"), g) /\ (importedOnly => At(View(M, "global"), g).import # <<>>)

(* One instruction of an expression that takes nothing: the operand stack. *)
Step(M, importedOnly, s, i) ==
  IF s.error # None THEN s
  ELSE CASE i[1] = "const" -> [s EXCEPT !.stack = Append(@, i[2])]
         [] i[1] = "get"   -> IF GlobalVisible(M, i[2], importedOnly)
                              THEN [s EXCEPT !.stack = Append(@, At(View(M, "global"), i[2]).type.type)]
                              ELSE [s EXCEPT !.error = IndexError("global")]
         [] i[1] = "unary" -> IF s.stack # <<>> /\ Last(s.stack) = i[2] THEN s
                              ELSE [s EXCEPT !.error = "TypeError"]

(* ConstInstVisitor. *)
ConstInst(M, i) ==
  CASE i[1] = "const" -> i[2] \in ScalarTypes
    [] i[1] = "get"   -> ~At(View(M, "global"), i[2]).type.var
    [] i[1] = "unary" -> FALSE

(* An initializer or offset of the type wanted, constant. *)
ExprError(M, expr, wanted, importedOnly) ==
  LET state[j \in 0..Len(expr)] ==
        IF j = 0 THEN [stack |-> <<>>, error |-> None]
        ELSE Step(M, importedOnly, state[j - 1], expr[j])
      end == state[Len(expr)]
  IN  CASE end.error # None -> end.error
        [] end.error = None /\ end.stack # <<wanted>> -> "TypeError"
        [] OTHER -> IF \A i \in DOMAIN expr : ConstInst(M, expr[i]) THEN None
                    ELSE "NON_CONST_EXPRESSION"

GlobalError(M, g) == ExprError(M, g.init, g.type.type, TRUE)
ElementError(M, e) ==
  FirstOf(<<ReferenceError(M, "table", e.table), ExprError(M, e.offset, "I32", FALSE)>>
          \o [j \in DOMAIN e.init |-> ReferenceError(M, "function", e.init[j])])
DataError(M, d) ==
  FirstOf(<<ReferenceError(M, "memory", d.memory), ExprError(M, d.offset, "I32", FALSE)>>)
StartError(M, f) ==
  IF ~InRange(View(M, "function"), f) THEN IndexError("function")
  ELSE IF At(View(M, "function"), f).type = [params |-> <<>>, results |-> <<>>] THEN None
  ELSE "INVALID_START_FUNC_TYPE"
NameError(M, j) ==
  IF \E i \in 1..(j - 1) : M.exports[i].name = M.exports[j].name THEN "NON_UNIQUE_EXPORT_NAME" ELSE None
CountError(M, k, error) == IF Len(View(M, k)) > 1 THEN <<None, error>> ELSE <<>>

(* The checks in the order of validate, "view" where it constructs the
   ModuleView. *)
Checks == <<"import", "export", "signature", "view", "function", "table", "memory", "global",
            "element", "data", "start", "tables", "memories", "name">>

(* What each entity a check looks at is refused for. *)
Errors(M, check) ==
  CASE check = "import"    -> [j \in DOMAIN M.imports |-> ImportError(M, M.imports[j])]
    [] check = "export"    -> [j \in DOMAIN M.exports |-> ExportError(M, M.exports[j])]
    [] check = "signature" -> [j \in DOMAIN M.functions |-> SignatureError(M, M.functions[j])]
    [] check = "view"      -> <<>>
    [] check = "function"  -> [j \in DOMAIN M.functions |-> FunctionError(M, M.functions[j])]
    [] check = "table"     -> [j \in DOMAIN M.tables |-> TableError(M.tables[j].type)]
    [] check = "memory"    -> [j \in DOMAIN M.memories |-> MemoryError(M.memories[j].type)]
    [] check = "global"    -> [j \in DOMAIN M.globals |-> GlobalError(M, M.globals[j])]
    [] check = "element"   -> [j \in DOMAIN M.elements |-> ElementError(M, M.elements[j])]
    [] check = "data"      -> [j \in DOMAIN M.data |-> DataError(M, M.data[j])]
    [] check = "start"     -> [j \in DOMAIN M.start |-> StartError(M, M.start[j])]
    [] check = "tables"    -> CountError(M, "table", "MORE_THAN_ONE_TABLE")
    [] check = "memories"  -> CountError(M, "memory", "MORE_THAN_ONE_MEMORY")
    [] check = "name"      -> [j \in DOMAIN M.exports |-> NameError(M, j)]

(* The error validate returns from a check, with the site TraceCollector is at. *)
Refusals(M, check) ==
  LET errors == Errors(M, check)
      wrong  == Wrong(errors)
  IN  IF wrong = {} THEN {}
      ELSE {[site |-> check, index |-> First(wrong) - 1, error |-> errors[First(wrong)]]}
=============================================================================
