-------------------------- MODULE ModuleTranslation --------------------------
(***************************************************************************)
(* A module on its way through the compiler: validate; the layout of its        *)
(* entities in MIR; the functions, of which FunctionTranslation and             *)
(* InstructionPipeline treat the bodies; and the destructor of the MIR module,   *)
(* when process of sable-wasm.cc returns.                                       *)
(***************************************************************************)
EXTENDS ModuleValidation, MIRModule

CONSTANT Modules    \* families of modules
ASSUME ModulesAssumption == \A family \in DOMAIN Modules : Modules[family] \subseteq BytecodeModules

VARIABLES module,   \* the bytecode module, fixed
          phase,    \* "validate", "layout", "teardown"; "rejected"
          at,       \* how many steps of the phase are done: checks, parts, lists
          laid,     \* how much of the part that is laid out is done
          refusal,  \* the error of validation: a set of at most one
          mir       \* the MIR module

vars == <<module, phase, at, laid, refusal, mir>>

Init ==
  /\ \E family \in DOMAIN Modules : module \in Modules[family]
  /\ phase = "validate" /\ at = 0 /\ laid = 0 /\ refusal = {} /\ mir = EmptyModule

(* validate: the next check, or ModuleView in its place. *)
Validate ==
  /\ phase = "validate" /\ at < Len(Checks)
  /\ LET check == At(Checks, at)
         wrong == Refusals(module, check)
     IN  /\ refusal' = wrong
         /\ phase' = IF wrong = {} THEN phase ELSE "rejected"
         /\ mir' = [mir EXCEPT !.fault = @ \/ (check = "view" /\ ~ViewDefined(module))]
  /\ at' = at + 1 /\ UNCHANGED <<module, laid>>

----------------------------------------------------------------------------
(* EntityLayout.  setImport fails its assertion when one name of two is empty,
   and takes an entity without names for a definition; an export without a name
   is none. *)
InfoOf(view) ==
  [type |-> view.type,
   import |-> IF view.import = <<"", "">> THEN <<>> ELSE view.import,
   export |-> IF view.export = <<"">> THEN <<>> ELSE view.export]
NamesAsserted(view) == \A i, j \in DOMAIN view.import : view.import[i] = "" => view.import[j] = ""

(* solveInitializerExpr, of one instruction: the globals it refers to. *)
InitializerRefs(expr) ==
  IF expr[1][1] = "get" THEN << <<"global", expr[1][2]>> >> ELSE <<>>
Asserted(G, holds) == [G EXCEPT !.fault = @ \/ ~holds]

LayEntity(G, k, i, view) ==
  Asserted(BuildNode(G, <<k, i>>, <<>>, InfoOf(view)), NamesAsserted(view))

(* The initializer of a global: asserted to be of one instruction, the operator
   that looks its global up asserted to find it. *)
LayGlobal(G, i, view) ==
  LET H == LayEntity(G, "global", i, view) IN
  IF view.entity = <<>> THEN H
  ELSE LET expr == view.entity[1].init IN
       IF Len(expr) # 1 THEN [H EXCEPT !.fault = TRUE]
       ELSE [BuildUser(H, <<"initializer", i>>, InitializerRefs(expr))
               EXCEPT !.owned[<<"global", i>>] = << <<"initializer", i>> >>]

(* A segment: its offset, the segment, its content, its place in the target. *)
LaySegment(G, k, offset, i, expr, target, content) ==
  IF Len(expr) # 1 \/ ~Alive(G, target) THEN [G EXCEPT !.fault = TRUE]
  ELSE LET O == BuildUser(G, <<offset, i>>, InitializerRefs(expr))
           S == BuildNode(O, <<k, i>>, << <<offset, i>> >>, <<>>)
       IN  addInitializer(setContent(S, <<k, i>>, content), target, <<k, i>>)
LayData(G, j) ==
  LET d == module.data[j] IN
  LaySegment(G, "data", "data_offset", j - 1, d.offset, <<"memory", d.memory>>, <<>>)
LayElement(G, j) ==
  LET e == module.elements[j] IN
  LaySegment(G, "element", "element_offset", j - 1, e.offset, <<"table", e.table>>,
             [i \in DOMAIN e.init |-> <<"function", e.init[i]>>])

(* The instructions of a body that keep a reference to an entity. *)
RefOf(i) ==
  CASE i[1] = "call" -> <<"function", i[2]>>
    [] i[1] = "set"  -> <<"global", i[2]>>
    [] i[1] = "grow" -> <<"memory", 0>>
InstructionNode(f, j) == <<"instruction", f, j>>
TranslateFunction(G, f, view) ==
  IF view.import # <<>> THEN G
  ELSE LET body == view.entity[1].body
           nodes == [j \in DOMAIN body |-> InstructionNode(f, j)]
           graph[j \in 0..Len(body)] ==
             IF j = 0 THEN [G EXCEPT !.owned[<<"function", f>>] = nodes]
             ELSE BuildUser(graph[j - 1], nodes[j], <<RefOf(body[j])>>)
       IN  graph[Len(body)]

(* What a part has to lay out, and the j-th of it. *)
Parts == <<"memory", "table", "global", "function", "data", "element", "bodies">>
Part == At(Parts, at)
Size ==
  CASE Part = "data"    -> Len(module.data)
    [] Part = "element" -> Len(module.elements)
    [] Part = "bodies"  -> Len(View(module, "function"))
    [] OTHER            -> Len(View(module, Part))
Laid(j) ==
  CASE Part = "global"  -> LayGlobal(mir, j - 1, View(module, "global")[j])
    [] Part = "data"    -> LayData(mir, j)
    [] Part = "element" -> LayElement(mir, j)
    [] Part = "bodies"  -> TranslateFunction(mir, j - 1, View(module, "function")[j])
    [] OTHER            -> LayEntity(mir, Part, j - 1, View(module, Part)[j])

(* ModuleTranslationTask::perform, one loop after the other. *)
StartTranslation ==
  /\ phase = "validate" /\ at = Len(Checks) /\ refusal = {}
  /\ phase' = "layout" /\ at' = 0 /\ UNCHANGED <<module, laid, refusal, mir>>
Translate ==
  /\ phase = "layout" /\ at < Len(Parts) /\ ~mir.fault
  /\ IF laid < Size THEN mir' = Laid(laid + 1) /\ laid' = laid + 1 /\ at' = at
     ELSE mir' = mir /\ laid' = 0 /\ at' = at + 1
  /\ UNCHANGED <<module, phase, refusal>>

(* ~Module destroys its lists in the reverse order of their declarations, each
   list from its front. *)
Lists == <<"element", "data", "table", "memory", "global", "function">>
StartTeardown ==
  /\ phase = "layout" /\ at = Len(Parts) /\ ~mir.fault
  /\ phase' = "teardown" /\ at' = 0 /\ UNCHANGED <<module, laid, refusal, mir>>
DestroyFront ==
  /\ phase = "teardown" /\ at < Len(Lists) /\ ~mir.fault
  /\ LET list  == NodesOf(mir, At(Lists, at))
         front == CHOOSE n \in list : \A o \in list : n[2] <= o[2]
     IN  IF list = {} THEN at' = at + 1 /\ mir' = mir
         ELSE at' = at /\ mir' = Destroy(mir, front)
  /\ UNCHANGED <<module, phase, laid, refusal>>

Finished == phase = "rejected" \/ mir.fault \/ (phase = "teardown" /\ at = Len(Lists))
Gone == Finished /\ UNCHANGED vars

Next == Validate \/ StartTranslation \/ Translate \/ StartTeardown \/ DestroyFront \/ Gone

Spec == Init /\ [][Next]_vars

----------------------------------------------------------------------------
(* The index spaces again, entity by entity: an import is numbered by the
   imports of its kind before it, a definition after all of them. *)
ImportPositions(k) == {p \in DOMAIN module.imports : module.imports[p].kind = k}
ImportIndex(p) == Cardinality({q \in ImportPositions(module.imports[p].kind) : q < p})
DefinitionIndex(k, j) == Cardinality(ImportPositions(k)) + j - 1
LastOf(places) == {e \in places : \A o \in places : o <= e}
Named(k, i) == {e \in DOMAIN module.exports : module.exports[e].kind = k /\ module.exports[e].index = i}

(* The types entity i of kind k is declared with: one, if there is such an entity. *)
Declared(k, i) ==
  {module.imports[p].type : p \in {q \in ImportPositions(k) : ImportIndex(q) = i}}
  \cup {Definitions(module, k)[j].type :
          j \in {l \in DOMAIN Definitions(module, k) : DefinitionIndex(k, l) = i}}
Exists(k, i) == Declared(k, i) # {}
IsImport(k, i) == \E p \in ImportPositions(k) : ImportIndex(p) = i

SoundLimits(t, bound) == t.min <= bound /\ (t.max = {} \/ t.max \subseteq t.min..bound)
SoundConstant(expr, t, readable) ==
  /\ Len(expr) = 1
  /\ \/ expr[1] = <<"const", t>> /\ t # "V128"
     \/ expr[1][1] = "get" /\ expr[1][2] \in readable
        /\ [type |-> t, var |-> FALSE] \in Declared("global", expr[1][2])
SoundType(k, t) ==
  CASE k = "function" -> t.index < Len(module.types)
    [] k = "table"    -> SoundLimits(t, TableBound)
    [] k = "memory"   -> SoundLimits(t, MemoryBound)
    [] k = "global"   -> TRUE
SoundInstruction(i) ==
  /\ i[1] # "untyped"
  /\ i[1] = "call" => Exists("function", i[2])
  /\ i[1] = "set" => \E t \in Declared("global", i[2]) : t.var
GlobalIndices == {g \in 0..(Len(module.imports) + Len(module.globals)) : Exists("global", g)}
OneAtMost(k) == Cardinality(ImportPositions(k)) + Len(Definitions(module, k)) <= 1

(* Whether what a check looks at in its j-th place is as it must be. *)
Sound(site, j) ==
  CASE site = "import"    -> SoundType(module.imports[j].kind, module.imports[j].type)
    [] site = "export"    -> Exists(module.exports[j].kind, module.exports[j].index)
    [] site = "signature" -> SoundType("function", module.functions[j].type)
    [] site = "function"  -> \A i \in DOMAIN module.functions[j].body : SoundInstruction(module.functions[j].body[i])
    [] site = "table"     -> SoundType("table", module.tables[j].type)
    [] site = "memory"    -> SoundType("memory", module.memories[j].type)
    [] site = "global"    -> SoundConstant(module.globals[j].init, module.globals[j].type.type,
                                           {g \in GlobalIndices : IsImport("global", g)})
    [] site = "element"   -> /\ Exists("table", module.elements[j].table)
                             /\ SoundConstant(module.elements[j].offset, "I32", GlobalIndices)
                             /\ \A f \in ToSet(module.elements[j].init) : Exists("function", f)
    [] site = "data"      -> /\ Exists("memory", module.data[j].memory)
                             /\ SoundConstant(module.data[j].offset, "I32", GlobalIndices)
    [] site = "start"     -> \E t \in Declared("function", module.start[j]) :
                               At(module.types, t.index) = [params |-> <<>>, results |-> <<>>]
    [] site = "view"      -> TRUE
    [] site = "tables"    -> OneAtMost("table")
    [] site = "memories"  -> OneAtMost("memory")
    [] site = "name"      -> \A i \in DOMAIN module.exports \ {j} : module.exports[i].name # module.exports[j].name
Places(site) ==
  CASE site = "import" -> DOMAIN module.imports        [] site \in {"export", "name"} -> DOMAIN module.exports
    [] site \in {"signature", "function"} -> DOMAIN module.functions
    [] site = "table" -> DOMAIN module.tables          [] site = "memory" -> DOMAIN module.memories
    [] site = "global" -> DOMAIN module.globals        [] site = "element" -> DOMAIN module.elements
    [] site = "data" -> DOMAIN module.data             [] site = "start" -> DOMAIN module.start
    [] site = "view" -> {}                             [] site \in {"tables", "memories"} -> {2}

(* validate accepts a module exactly when every part of it is sound, each read
   without regard to the order of the checks, and what it blames is a part that
   is not. *)
VerdictIsSoundness ==
  /\ phase \in {"layout", "teardown"} =>
       \A c \in DOMAIN Checks : \A j \in Places(Checks[c]) : Sound(Checks[c], j)
  /\ \A r \in refusal : ~Sound(r.site, r.index + 1)

(* When the layout is done, every entity of the bytecode is the entity of MIR
   that its index means to whoever refers to it: with its own type and import,
   and exported under the last of the names that are given to it.  Empty
   names are the exception: an import with two is lost, and so is an entity's
   export when the last of its names is empty, whatever the others are. *)
SpacesAgree ==
  (phase = "layout" /\ at = Len(Parts) /\ ~mir.fault) =>
    \A k \in Kinds :
      LET typed(t) == IF k = "function" THEN At(module.types, t.index) ELSE t IN
      /\ \A p \in ImportPositions(k) :
           /\ mir.info[<<k, ImportIndex(p)>>].import =
                IF module.imports[p].names = <<"", "">> THEN <<>> ELSE module.imports[p].names
           /\ mir.info[<<k, ImportIndex(p)>>].type = typed(module.imports[p].type)
      /\ \A j \in DOMAIN Definitions(module, k) :
           /\ mir.info[<<k, DefinitionIndex(k, j)>>].import = <<>>
           /\ mir.info[<<k, DefinitionIndex(k, j)>>].type = typed(Definitions(module, k)[j].type)
      /\ \A i \in {n[2] : n \in NodesOf(mir, k)} :
           /\ Exists(k, i)
           /\ mir.info[<<k, i>>].export =
                LET names == {module.exports[e].name : e \in LastOf(Named(k, i))} \ {""}
                IN  IF names = {} THEN <<>> ELSE <<CHOOSE name \in names : TRUE>>

(* What the compiler does not survive: a global whose initializer reads another
   one, when that one is destroyed, memory.grow in a module without memory, and
   an import with one empty name of two. *)
InitializerReads ==
  phase = "teardown" /\ \E j \in DOMAIN module.globals : module.globals[j].init[1][1] = "get"
GrowsNothing ==
  /\ phase = "layout" /\ NumEntities(module, "memory") = 0
  /\ \E f \in ToSet(module.functions) : \E i \in ToSet(f.body) : i[1] = "grow"
HalfNamed == phase = "layout" /\ \E p \in DOMAIN module.imports : Cardinality({i \in 1..2 : module.imports[p].names[i] = ""}) = 1

(* From validate to the end of the destructor no assertion fails, no unreachable()
   is reached, no index is looked up that is not there, and no entity that is
   gone is asked for anything, but for the three cases above. *)
NeverAborts == mir.fault => InitializerReads \/ GrowsNothing \/ HalfNamed

(* Between two steps of the layout or of the destructor, a node is in the use
   list of another as often as it refers to it, and no node is referred to, or
   is held to be a user, that is not there: ~ASTNode (ASTNode.cc:8) goes by the
   list alone, and asserts that replacing empties it. *)
UsesExact ==
  ~mir.fault =>
    \A n \in DOMAIN mir.uses :
      /\ ToSet(mir.uses[n]) \cup ToSet(mir.refs[n]) \subseteq DOMAIN mir.uses \cup {Nil}
      /\ \A u \in DOMAIN mir.uses : Times(mir.uses[n], u) = Times(mir.refs[u], n)

(* "if a global is refered in the global initilizaer expression, it must be a
   imported global" (Validation.cc:1486): such modules are accepted, and what is
   built from them can be destroyed. *)
TeardownCompletes == phase = "teardown" => ~mir.fault
=============================================================================
