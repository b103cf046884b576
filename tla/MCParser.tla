------------------------------- MODULE MCParser -------------------------------
(* The encodings of three modules and of a module for each instruction, and what
   is left of the modules when a byte is changed or the end is missing. *)
EXTENDS Spelling

Index(i) == [index |-> i]
GlobalOf(t, var) == [type |-> t, var |-> var]
I32Const(n) == Inst(<<"I32", "Const">>, << <<n>> >>)
Branch(name, i) == Inst(Control(name), << <<i>> >>)
Function(locals, body) == [type |-> Index(0), locals |-> locals, body |-> body]

(* Every kind of entity, defined. *)
Definer ==
  [EmptyModule EXCEPT
    !.types = << [params |-> <<"I32", "F32">>, results |-> <<"I64">>], [params |-> <<>>, results |-> <<>>] >>,
    !.functions = << Function(<< <<2, "I64">>, <<200, "V128">> >>, << Branch("LocalGet", 130), Inst(Control("Drop"), <<>>) >>),
                     Function(<<>>, <<>>) >>,
    !.tables = << [type |-> Limits(1, {300})] >>, !.memories = << [type |-> Limits(2, {})] >>,
    !.globals = << [type |-> GlobalOf("I32", TRUE), init |-> << I32Const(-200) >>],
                   [type |-> GlobalOf("F64", FALSE), init |-> << Inst(<<"F64", "Const">>, << <<1, 2, 3, 4, 5, 6, 7, 255>> >>) >>] >>,
    !.exports = << [name |-> <<\h65, \hC2, \hA9>>, kind |-> "global", index |-> 1] >>, !.start = <<1>>,
    !.elements = << [table |-> 0, offset |-> << I32Const(70) >>, init |-> <<1, 0, 1>>] >>,
    !.data = << [memory |-> 0, offset |-> << I32Const(3) >>, init |-> <<255, 0, 11>>] >>]
DefinerNames ==
  [module |-> << <<\h6D>> >>, functions |-> { <<0, <<\h66>> >>, <<1, <<>> >> },
   locals |-> { <<0, 1, <<\h78>> >>, <<0, 2, <<\h79>> >>, <<1, 0, <<\h7A>> >> }]

(* Every kind of entity, imported. *)
ImportOf(kind, type) == [kind |-> kind, type |-> type, names |-> << <<\h6D>>, <<\hE2, \h82, \hAC>> >>]
Importer ==
  [EmptyModule EXCEPT
    !.types = << [params |-> <<>>, results |-> <<"F64", "I32">>] >>,
    !.imports = << ImportOf("function", Index(0)), ImportOf("table", Limits(0, {})), ImportOf("memory", Limits(1, {1})),
                   ImportOf("global", GlobalOf("V128", FALSE)) >>,
    !.exports = << [name |-> <<>>, kind |-> "function", index |-> 0], [name |-> <<\h61>>, kind |-> "table", index |-> 0] >>]

(* Blocks in blocks, with one arm and two, and branches out of them. *)
NestedBody ==
  << Block(Control("Block"), BlockType(<<"I32">>, -1),
           << << Block(Control("Loop"), BlockType(<<>>, 3), << << Branch("Br", 1) >> >>),
                 Block(Control("If"), BlockType(<<>>, -1), << <<>>, << Inst(Nop, <<>>), Branch("BrIf", 0) >> >>),
                 Block(Control("If"), BlockType(<<>>, 70), << << Inst(Control("BrTable"), << <<2, 0>>, <<1>> >>) >>, <<>> >>),
                 I32Const(-1) >> >>),
     Block(Control("If"), BlockType(<<"V128">>, -1), << << Inst(Control("CallIndirect"), << <<0>>, <<>> >>) >> >>),
     Inst(<<"Memory", "Grow">>, << <<>> >>), Inst(<<"I64", "Const">>, << <<-70000>> >>) >>
Nested ==
  [EmptyModule EXCEPT !.types = << [params |-> <<>>, results |-> <<>>] >>,
                      !.functions = << Function(<< <<0, "F32">> >>, NestedBody), Function(<<>>, << Inst(Control("Return"), <<>>) >>) >>]

(* A module for an instruction. *)
SomeArgument(kind) ==
  CASE kind = "index" -> <<129>> [] kind = "indices" -> <<0, 300>> [] kind = "lane" -> <<7>>
    [] kind = "signed32" -> <<100>> [] kind = "signed64" -> <<-129>> [] kind = "reserved" -> <<>>
    [] kind = "4 bytes" -> <<0, 11, 255, 1>> [] kind = "8 bytes" -> <<1, 2, 3, 4, 5, 6, 7, 8>>
    [] kind = "16 bytes" -> [i \in 1..16 |-> 16 - i]
InstructionOf(op) ==
  IF op \in Structured THEN Block(op, BlockType(<<"I64">>, -1), << << Inst(Nop, <<>>) >> >>)
  ELSE Inst(op, [i \in DOMAIN Immediates(op) |-> SomeArgument(Immediates(op)[i])])
ModuleOf(op) ==
  [EmptyModule EXCEPT
    !.types = << [params |-> <<>>, results |-> <<>>] >>,
    !.functions = << Function(<<>>, << InstructionOf(op) >>) >>]

Undamaged(M, n, pad) == [bytes |-> Encoding(M, n, pad), meant |-> { [module |-> M, names |-> n] }]
Wholes == { <<Definer, DefinerNames>>, <<Importer, NoNames>>, <<Nested, NoNames>> }

SomeBytes == { \h00, \h01, \h05, \h0A, \h0B, \h40, \h7F, \h80, \hC1, \hFC, \hFF }
Damaged(s) ==
  { [bytes |-> [s EXCEPT ![i] = b], meant |-> {}] : i \in DOMAIN s, b \in SomeBytes } \cup
  { [bytes |-> SubSeq(s, 1, n), meant |-> {}] : n \in 0..(Len(s) - 1) }

(* The operations on F32x4 that the parser has at other bytes than
   Instruction.defs, left out of the instructions all of which are accepted. *)
Misplaced == ToSet(Of("F32x4", <<"Neg", "Sqrt", "Add", "Sub">>))
AllOps ==
  Range(MainBytes) \cup Range(SaturationBytes) \cup Range(SIMDBytes) \cup Misplaced

MCInputs ==
  { Undamaged(w[1], w[2], pad) : w \in Wholes, pad \in 0..2 } \cup
  { Undamaged(ModuleOf(op), NoNames, pad) : op \in AllOps \ Misplaced, pad \in {0, 1} } \cup
  Damaged(Encoding(Definer, DefinerNames, 0)) \cup Damaged(Encoding(Importer, NoNames, 0)) \cup
  Damaged(Encoding(Nested, NoNames, 0))
FloatLaneInputs == { Undamaged(ModuleOf(op), NoNames, 0) : op \in Range(FPLaneBytes) \cup Misplaced }

MCAnyNumber == {0, -1}
=============================================================================
