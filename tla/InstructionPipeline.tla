------------------------- MODULE InstructionPipeline -------------------------
(***************************************************************************)
(* One straight-line function on its way through the compiler: its bytecode   *)
(* becomes MIR, SimplifyCFG runs until it converges, types are inferred, the    *)
(* MIR becomes LLVM values, and the module goes.  FunctionTranslation is the    *)
(* same for control flow without the instructions.                              *)
(*                                                                           *)
(* A body is [code, hold, memory, place, results]: the bytecode; what the         *)
(* parameters and the globals hold when it starts; what memory holds, from      *)
(* wherever it is read; the address that the operand of an access has, and the   *)
(* size of the memory in bytes; the types of the results.                        *)
(***************************************************************************)
EXTENDS InstructionCodegen, SimplifyCFG, Lowering

Wasm == INSTANCE WasmMeaning

CONSTANT Bodies     \* families of bodies

VARIABLES phase,    \* "translate", "simplify", "infer", "lower", "teardown", "gone"; "pending"
          body,     \* the body, fixed
          at,       \* how many instructions the phase has done
          fn,       \* the MIR function, with the entities it refers to
          values,   \* the visitor's values
          type,     \* the inferred types
          value,    \* ValueMap
          slots,    \* what the allocas and the globals of the build hold
          meant,    \* ghost: the type and the number the values are by the rules
          held,     \* ghost: what the locals and globals hold by the rules
          stopped,  \* a guard of the build has thrown
          touched   \* the bytes of memory the build has touched

built == <<stopped, touched>>
pipeline == <<body, at, fn, values, type, value, slots, meant, held, built>>
vars == <<phase, pipeline>>

Cells == {LocalNode(j) : j \in DOMAIN Locals} \cup {GlobalNode(j) : j \in DOMAIN Globals}
CellType == [c \in Cells |-> IF \E j \in DOMAIN Locals : c = LocalNode(j)
                             THEN Locals[c - LocalNode(0)] ELSE Globals[c - GlobalNode(0)]]
Entry == Cardinality(Entities) + 1
Exit == Entry + 1

(* A parameter holds its argument and any other local zero. *)
getLocalInitializer(t, n) == IF t \in binsts!FPTypes THEN Opaque(convertType(t)) ELSE Known(convertType(t), n)

(* The constructor of the translation context: an entry and an exit, with a phi
   for every result and the return of them. *)
Start(results) ==
  LET E == [EmptyFunction EXCEPT !.uses = [e \in Entities |-> <<>>], !.next = Entry]
      P == BuildPhis(BuildBasicBlock(BuildBasicBlock(E, Nil), Nil), Exit, results)
      phis == P.code[Exit]
  IN  IF Len(results) <= 1 THEN Append1(P, Exit, Return(phis))
      ELSE Append1(Append1(P, Exit, Pack(phis)), Exit, Return(<<P.next>>))

Init ==
  /\ \E family \in DOMAIN Bodies : body \in Bodies[family]
  /\ phase = "translate" /\ at = 0
  /\ fn = Start(body.results)
  /\ values = <<>> /\ type = <<>> /\ value = <<>>
  /\ slots = [c \in Cells |-> getLocalInitializer(CellType[c], body.hold[c])]
  /\ meant = <<>> /\ held = body.hold
  /\ stopped = FALSE /\ touched = {}

(* The rules, for the instruction that is translated. *)
MeaningOf(i, args) ==
  CASE i.op = <<"Local", "Get">> -> held[LocalNode(i.n)]
    [] i.op = <<"Global", "Get">> -> held[GlobalNode(i.n)]
    [] i.op \in Selects -> IF args[3] = 0 THEN args[2] ELSE IF args[3] > 0 THEN args[1] ELSE Wasm!Unknown
    [] i.op \in Calls -> Wasm!Unknown
    [] OTHER -> Wasm!Meaning(i.op, i.n, args, body.memory)
Written(i) ==
  CASE i.op \in { <<"Local", "Set">>, <<"Local", "Tee">> } -> LocalNode(i.n)
    [] i.op = <<"Global", "Set">> -> GlobalNode(i.n)
    [] OTHER -> Nil

Instruction == body.code[at + 1]
Operands == SubSeq(values, Len(values) - Len(TypingOf(Instruction).params) + 1, Len(values))

(* TranslationVisitor::visit, of the MIR generator. *)
Translate ==
  /\ phase = "translate" /\ at < Len(body.code)
  /\ Instruction.op \notin TranslationPending
  /\ LET i == Instruction
         k == fn.next
         nodes == Handler(i, Operands, k)
         pushed == Pushes(i, Operands, k, Len(nodes))
         args == [j \in DOMAIN Operands |-> meant[Operands[j]].n]
     IN  /\ fn' = Appended(fn, Entry, nodes)
         /\ values' = SubSeq(values, 1, Len(values) - Len(Operands)) \o pushed
         /\ meant' = [j \in ToSet(pushed) \ DOMAIN meant |->
                        [type |-> TypingOf(i).results[SelectInSeq(pushed, LAMBDA x : x = j)],
                         n |-> MeaningOf(i, args)]] @@ meant
         /\ held' = IF Written(i) = Nil THEN held ELSE [held EXCEPT ![Written(i)] = args[1]]
  /\ at' = at + 1
  /\ UNCHANGED <<phase, body, type, value, slots, built>>

(* An instruction without a handler reaches the template that ends the process. *)
TranslatePending ==
  /\ phase = "translate" /\ at < Len(body.code)
  /\ Instruction.op \in TranslationPending
  /\ phase' = "pending" /\ UNCHANGED pipeline

(* The end of translate: a branch to the exit, whose phis take the values. *)
TransferToExit ==
  /\ phase = "translate" /\ at = Len(body.code)
  /\ LET B == Append1(fn, Entry, Plain("br", <<Exit>>))
         after[j \in 0..Len(values)] ==
           IF j = 0 THEN B ELSE addCandidate(after[j - 1], B.code[Exit][j], values[j], Entry)
     IN  fn' = after[Len(values)]
  /\ phase' = "simplify" /\ values' = <<>>
  /\ UNCHANGED <<body, at, type, value, slots, meant, held, built>>

Simplify ==
  /\ phase = "simplify" /\ ~Converged(fn)
  /\ fn' = Simplified(fn)
  /\ UNCHANGED <<phase, body, at, values, type, value, slots, meant, held, built>>

(* The context of the code generator: the inferred types, the allocas. *)
InferTypes ==
  /\ phase = "simplify" /\ Converged(fn)
  /\ type' = InferAll(fn, fn.order, CellType)
  /\ phase' = "lower" /\ at' = 0
  /\ UNCHANGED <<body, fn, values, value, slots, meant, held, built>>

(* TranslationVisitor::visit, of the code generator, and the run of what it builds.
   Behind a guard that throws the run touches no memory; the values go on. *)
Code == fn.code[Head(fn.order)]
Lower ==
  /\ phase = "lower" /\ at < Len(Code)
  /\ LET i == Code[at + 1]
         C == [F |-> fn, type |-> type, value |-> value, slots |-> slots,
               memory |-> body.memory, place |-> body.place]
         v == Visit(C, i)
     IN  /\ value' = value @@ (i :> v)
         /\ slots' = SlotsAfter(C, fn.inst[i], v)
         /\ \E throws \in GuardThrows(C, fn.inst[i]) : stopped' = (stopped \/ throws)
         /\ touched' = touched \cup (IF stopped THEN {} ELSE Touches(C, fn.inst[i]))
  /\ at' = at + 1
  /\ UNCHANGED <<phase, body, fn, values, type, meant, held>>

(* The destructor of the module: memories, tables and globals empty their users,
   then the functions go in order, the locals of each before its blocks. *)
DestroyEntities ==
  /\ phase = "lower" /\ at = Len(Code)
  /\ LET after[e \in 0..Cardinality(Entities)] ==
           IF e = 0 THEN fn ELSE replaceAllUseWith(after[e - 1], e, Nil)
     IN  fn' = after[Cardinality(Entities)]
  /\ phase' = "teardown"
  /\ UNCHANGED <<body, at, values, type, value, slots, meant, held, built>>

DestroyBlock ==
  /\ phase = "teardown"
  /\ fn' = eraseBlock(fn, Head(fn.order))
  /\ phase' = "gone"
  /\ UNCHANGED <<body, at, values, type, value, slots, meant, held, built>>

Gone == phase \in {"gone", "pending"} /\ UNCHANGED vars

Next ==
  \/ Translate \/ TranslatePending \/ TransferToExit
  \/ Simplify \/ InferTypes \/ Lower
  \/ DestroyEntities \/ DestroyBlock \/ Gone

Spec == Init /\ [][Next]_vars

----------------------------------------------------------------------------

(* Every reference of an instruction, to another one, to a local or to an entity
   of the module, is in that node's use list once, and when the function has gone
   no entity still lists one of its instructions. *)
UsesExact ==
  /\ ~fn.fault
  /\ DOMAIN fn.uses = Entities \cup DOMAIN fn.code \cup DOMAIN fn.inst
  /\ \A n \in DOMAIN fn.uses :
       /\ ToSet(fn.uses[n]) \subseteq DOMAIN fn.inst
       /\ \A i \in DOMAIN fn.inst : Times(fn.uses[n], i) = Times(fn.inst[i].refs, n)

(* What type inference finds for a value is what validation typed it with, and
   nothing that is left after the pass is without a type. *)
InferenceAgrees ==
  \A i \in DOMAIN type :
    /\ type[i] # Bottom
    /\ i \in DOMAIN meant => type[i] = <<meant[i].type>>

(* The accesses of the bytecode: the bytes each names, and whether the memory has
   them; whether the guard's sum stays below the last address. *)
BodyAccesses == {k \in DOMAIN body.code : body.code[k].op \in binsts!Loads \cup binsts!Stores}
WidthOf(k) == body.code[k].op[3]
Named(k) == Span(body.place.address + body.code[k].n, WidthOf(k))
InMemory(k) == Named(k).first + Named(k).bytes <= body.place.size
Sums(k) == Named(k).first + WidthOf(k) < 2^AddressBits

(* Where no sum of an address, its offset and the width wraps, the build touches only
   bytes that the bytecode names and the memory has: a guard of the same address, for
   enough bits, has stopped the run before any other.  It stops the run only if fewer
   bytes are left than the access has bits: the width is in bits and compared with
   bytes, so that the rules stop it later.  Where a sum wraps nothing is claimed: the
   guard's may then have any value, and the access be outside; the offset's leaves an
   address near zero, which the bytecode does not name. *)
AccessesGuarded ==
  (\A k \in BodyAccesses : Sums(k)) =>
    /\ touched \subseteq {Named(k) : k \in {j \in BodyAccesses : InMemory(j)}}
    /\ stopped => \E k \in BodyAccesses : Named(k).first + WidthOf(k) > body.place.size


(* The build computes what WebAssembly says, value for value, and leaves in the
   locals and the globals, when the last instruction has run, what the rules say.
   Left out are the values of bodies with all_true, which sums truth values of
   one bit, and what is poison after a scalar shift by the width or more, which is
   not masked, or a division that must trap. *)
Partials == {"Shl", "ShrS", "ShrU", "DivS", "DivU", "RemS", "RemU"}
Follows(i) ==
  IF value[i].def = "poison" THEN \E k \in DOMAIN body.code : body.code[k].op[2] \in Partials
  ELSE value[i].def = "value" /\ value[i].bits = meant[i].n
ValuesFollow ==
  (\A k \in DOMAIN body.code : body.code[k].op[2] # "AllTrue") =>
    \A i \in DOMAIN value \cap DOMAIN meant : meant[i].n >= 0 => Follows(i)
CellsFollow ==
  phase = "lower" /\ at = Len(Code) =>
    \A c \in Cells : held[c] >= 0 /\ slots[c].def = "value" => slots[c].bits = held[c]

(* Whatever writes a local, a global or memory, guards, calls or grows stays, in its
   order, and so does all that it or the result is computed from.  A division,
   remainder or truncation that would trap is in neither part when its value is
   needed by none of them: the pass removes it, where the rules have the trap. *)
Effects == {"localset", "globalset", "store", "guard", "call", "callindirect", "grow"}
CodeOf(F) == FlattenSeq([k \in DOMAIN F.order |-> F.code[F.order[k]]])
Needed(F) ==
  LET roots == {i \in DOMAIN F.inst : F.inst[i].kind \in Effects \cup {"return"}}
      grown[k \in 0..Cardinality(DOMAIN F.inst)] ==
        IF k = 0 THEN roots
        ELSE LET users == grown[k - 1]
             IN  users \cup {i \in DOMAIN F.inst : \E u \in users : Contains(F.inst[u].refs, i)}
  IN  grown[Cardinality(DOMAIN F.inst)]
EffectsOf(F) == SelectSeq(CodeOf(F), LAMBDA i : i \in Needed(F) /\ F.inst[i].kind # "phi")
EffectsStay == [][phase = "simplify" /\ phase' = "simplify" => EffectsOf(fn') = EffectsOf(fn)]_vars
=============================================================================
