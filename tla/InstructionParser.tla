--------------------------- MODULE InstructionParser ---------------------------
(***************************************************************************)
(* The switches of parseInstruction and of its two extensions: which           *)
(* instruction a byte stands for, and what follows it.                        *)
(***************************************************************************)
EXTENDS Reader

(* The instructions whose typing is not a table. *)
Labels == {"Br", "BrIf"}
Indexed == {"Call", "LocalGet", "LocalSet", "LocalTee", "GlobalGet", "GlobalSet"}
Control(name) == <<"Control", name>>
Structured == {Control("Block"), Control("Loop"), Control("If")}

(* f(a[1]) \o f(a[2]) ..., and what a sequence of names makes with a shape. *)
Each(f(_), a) ==
  LET upTo[i \in 0..Len(a)] == IF i = 0 THEN <<>> ELSE upTo[i - 1] \o f(a[i]) IN upTo[Len(a)]
Of(shape, names) == [i \in DOMAIN names |-> <<shape, names[i]>>]
SignedAndUnsigned == <<"S", "U">>
From(to, name, shapes) ==
  Each(LAMBDA from : [i \in 1..2 |-> <<to, name, from, SignedAndUnsigned[i]>>], shapes)
Widths(t, name, widths) == [i \in DOMAIN widths |-> <<t, name, widths[i]>>]
(* A row of a table: the instructions of consecutive bytes. *)
Row(first, ops) == [i \in first..(first + Len(ops) - 1) |-> ops[i - first + 1]]
Rows(rows) == FoldLeft(LAMBDA f, r : f @@ r, <<>>, rows)

(******************************* the main table ******************************)

IntTests == <<"Eq", "Ne", "LtS", "LtU", "GtS", "GtU", "LeS", "LeU", "GeS", "GeU">>
FPTests == <<"Eq", "Ne", "Lt", "Gt", "Le", "Ge">>
IntArithmetic ==
  <<"Clz", "Ctz", "Popcnt", "Add", "Sub", "Mul", "DivS", "DivU", "RemS", "RemU", "And", "Or", "Xor",
    "Shl", "ShrS", "ShrU", "Rotl", "Rotr">>
FPArithmetic ==
  <<"Abs", "Neg", "Ceil", "Floor", "Trunc", "Nearest", "Sqrt", "Add", "Sub", "Mul", "Div", "Min", "Max",
    "CopySign">>

ControlBytes ==
  Rows(<< Row(\h00, << Control("Unreachable"), Nop, Control("Block"), Control("Loop"), Control("If") >>),
          Row(\h0C, Of("Control", <<"Br", "BrIf", "BrTable", "Return", "Call", "CallIndirect">>)),
          Row(\h1A, Of("Control", <<"Drop", "Select">>)),
          Row(\h20, Of("Control", <<"LocalGet", "LocalSet", "LocalTee", "GlobalGet", "GlobalSet">>)) >>)
Sized(name) == << <<"I32", name, 32>>, <<"I64", name, 64>>, <<"F32", name, 32>>, <<"F64", name, 64>> >>
Extending(t, widths) == Each(LAMBDA w : << <<t, "LoadS", w>>, <<t, "LoadU", w>> >>, widths)
MemoryBytes ==
  Row(\h28, Sized("Load") \o Extending("I32", <<8, 16>>) \o Extending("I64", <<8, 16, 32>>)
            \o Sized("Store") \o Widths("I32", "Store", <<8, 16>>) \o Widths("I64", "Store", <<8, 16, 32>>)
            \o << <<"Memory", "Size">>, <<"Memory", "Grow">> >>)
NumericBytes ==
  Row(\h41, Each(LAMBDA t : << <<t, "Const">> >>, <<"I32", "I64", "F32", "F64">>)
            \o Each(LAMBDA t : Of(t, <<"Eqz">> \o IntTests), <<"I32", "I64">>)
            \o Each(LAMBDA t : Of(t, FPTests), <<"F32", "F64">>)
            \o Each(LAMBDA t : Of(t, IntArithmetic), <<"I32", "I64">>)
            \o Each(LAMBDA t : Of(t, FPArithmetic), <<"F32", "F64">>))
ConversionBytes ==
  Row(\hA7, << <<"I32", "Wrap", "I64">> >> \o From("I32", "Trunc", <<"F32", "F64">>)
            \o From("I64", "Extend", <<"I32">>) \o From("I64", "Trunc", <<"F32", "F64">>)
            \o From("F32", "Convert", <<"I32", "I64">>) \o << <<"F32", "Demote", "F64">> >>
            \o From("F64", "Convert", <<"I32", "I64">>) \o << <<"F64", "Promote", "F32">> >>
            \o << <<"I32", "Reinterpret", "F32">>, <<"I64", "Reinterpret", "F64">>,
                  <<"F32", "Reinterpret", "I32">>, <<"F64", "Reinterpret", "I64">> >>
            \o Of("I32", <<"Extend8S", "Extend16S">>) \o Of("I64", <<"Extend8S", "Extend16S", "Extend32S">>))
MainBytes == Rows(<<ControlBytes, MemoryBytes, NumericBytes, ConversionBytes>>)

SaturationBytes ==
  Row(0, From("I32", "TruncSat", <<"F32", "F64">>) \o From("I64", "TruncSat", <<"F32", "F64">>))

(******************************** the SIMD table *****************************)

AllLanes == <<"I8x16", "I16x8", "I32x4", "I64x2", "F32x4", "F64x2">>
VectorAccessBytes ==
  Rows(<< Row(\h00, << <<"V128", "Load", 128>> >>
                    \o Each(LAMBDA w : << <<"V128", "LoadPairsS", w>>, <<"V128", "LoadPairsU", w>> >>, <<8, 16, 32>>)
                    \o Widths("V128", "LoadSplat", <<8, 16, 32, 64>>)
                    \o << <<"V128", "Store", 128>>, V128Const, Shuffle, <<"I8x16", "Swizzle">> >>
                    \o Each(LAMBDA s : << <<s, "Splat">> >>, AllLanes)
                    \o Of("I8x16", <<"ExtractLaneS", "ExtractLaneU", "ReplaceLane">>)
                    \o Of("I16x8", <<"ExtractLaneS", "ExtractLaneU", "ReplaceLane">>)
                    \o Each(LAMBDA s : Of(s, <<"ExtractLane", "ReplaceLane">>), SubSeq(AllLanes, 3, 6))),
          Row(\h53, << <<"V128", "AnyTrue">> >> \o Widths("V128", "LoadLane", <<8, 16, 32, 64>>)
                    \o Widths("V128", "StoreLane", <<8, 16, 32, 64>>) \o Widths("V128", "LoadZero", <<32, 64>>)
                    \o << <<"F32x4", "DemoteZero", "F64x2">>, <<"F64x2", "PromoteLow", "F32x4">> >>) >>)
LaneTestBytes ==
  Rows(<< Row(\h23, Each(LAMBDA s : Of(s, IntTests), <<"I8x16", "I16x8", "I32x4">>)
                    \o Each(LAMBDA s : Of(s, FPTests), <<"F32x4", "F64x2">>)
                    \o Of("V128", <<"Not", "And", "AndNot", "Or", "Xor", "BitSelect">>)),
          Row(\hD6, Of("I64x2", <<"Eq", "Ne", "LtS", "GtS", "LeS", "GeS">>)) >>)
SaturatingLane == <<"Shl", "ShrS", "ShrU", "Add", "AddSatS", "AddSatU", "Sub", "SubSatS", "SubSatU">>
MinMax == <<"MinS", "MinU", "MaxS", "MaxU">>
Wider(to, from) ==
  << <<to, "ExtendLow", from, "S">>, <<to, "ExtendHigh", from, "S">>,
     <<to, "ExtendLow", from, "U">>, <<to, "ExtendHigh", from, "U">> >>
ExtMuls == <<"ExtMulLowS", "ExtMulHighS", "ExtMulLowU", "ExtMulHighU">>
Bytes8x16 ==
  Rows(<< Row(\h60, Of("I8x16", <<"Abs", "Neg", "Popcnt", "AllTrue", "Bitmask">>) \o From("I8x16", "Narrow", <<"I16x8">>)),
          Row(\h6B, Of("I8x16", SaturatingLane)), Row(\h76, Of("I8x16", MinMax)), Row(\h7B, Of("I8x16", <<"AvgrU">>)) >>)
Bytes16x8 ==
  Rows(<< Row(\h7C, Of("I16x8", <<"ExtAddPairwiseS", "ExtAddPairwiseU">>)),
          Row(\h80, Of("I16x8", <<"Abs", "Neg", "Q15MulRSatS", "AllTrue", "Bitmask">>) \o From("I16x8", "Narrow", <<"I32x4">>)
                    \o Wider("I16x8", "I8x16") \o Of("I16x8", SaturatingLane)),
          Row(\h95, Of("I16x8", <<"Mul">> \o MinMax)), Row(\h9B, Of("I16x8", <<"AvgrU">> \o ExtMuls)) >>)
Bytes32x4 ==
  Rows(<< Row(\h7E, Of("I32x4", <<"ExtAddPairwiseS", "ExtAddPairwiseU">>)),
          Row(\hA0, Of("I32x4", <<"Abs", "Neg">>)), Row(\hA3, Of("I32x4", <<"AllTrue", "Bitmask">>)),
          Row(\hA7, Wider("I32x4", "I16x8") \o Of("I32x4", <<"Shl", "ShrS", "ShrU", "Add">>)),
          Row(\hB1, Of("I32x4", <<"Sub">>)), Row(\hB5, Of("I32x4", <<"Mul">> \o MinMax \o <<"DotI16x8S">>)),
          Row(\hBC, Of("I32x4", ExtMuls)), Row(\hF8, From("I32x4", "TruncSat", <<"F32x4">>)),
          Row(\hFC, From("I32x4", "TruncSatZero", <<"F64x2">>)) >>)
Bytes64x2 ==
  Rows(<< Row(\hC0, Of("I64x2", <<"Abs", "Neg">>)), Row(\hC3, Of("I64x2", <<"AllTrue", "Bitmask">>)),
          Row(\hC7, Wider("I64x2", "I32x4") \o Of("I64x2", <<"Shl", "ShrS", "ShrU", "Add">>)),
          Row(\hD1, Of("I64x2", <<"Sub">>)), Row(\hD5, Of("I64x2", <<"Mul">>)), Row(\hDC, Of("I64x2", ExtMuls)) >>)
LaneArithmetic == <<"Mul", "Div", "Min", "Max", "PMin", "PMax">>
(* F32x4Neg, F32x4Sqrt and F32x4Add stand at other bytes than Instruction.defs
   has them at, and F32x4Sub at none. *)
FPLaneBytes ==
  Rows(<< Row(\h67, Of("F32x4", <<"Ceil", "Floor", "Trunc", "Nearest">>)), Row(\h74, Of("F64x2", <<"Ceil", "Floor">>)),
          Row(\h7A, Of("F64x2", <<"Trunc">>)), Row(\h94, Of("F64x2", <<"Nearest">>)),
          Row(\hE0, Of("F32x4", <<"Abs">>)), Row(\hE3, Of("F32x4", <<"Neg", "Sqrt", "Add">> \o LaneArithmetic)),
          Row(\hEC, Of("F64x2", <<"Abs", "Neg">>)), Row(\hEF, Of("F64x2", <<"Sqrt", "Add", "Sub">> \o LaneArithmetic)),
          Row(\hFA, From("F32x4", "Convert", <<"I32x4">>)), Row(\hFE, From("F64x2", "ConvertLow", <<"I32x4">>)) >>)
SIMDBytes ==
  Rows(<<VectorAccessBytes, LaneTestBytes, Bytes8x16, Bytes16x8, Bytes32x4, Bytes64x2, FPLaneBytes>>)

(******************************** parseInstruction ****************************)

OpcodeIn(table, byte, at) == Checked(byte \in DOMAIN table, at, table[byte])
readOpcode(s, p) ==
  Then(read(s, p), LAMBDA first, at :
    CASE first = \hFC -> Then(read(s, at), LAMBDA second, end : OpcodeIn(SaturationBytes, second, end))
      [] first = \hFD -> Then(read(s, at), LAMBDA second, end : OpcodeIn(SIMDBytes, second, end))
      [] OTHER -> OpcodeIn(MainBytes, first, at))

(* What follows an opcode: indices of labels, locals and so on, and the
   alignment and offset of an access, are unsigned numbers; the byte that names
   a table or memory is skipped. *)
Immediates(op) ==
  CASE op[1] = "Control" /\ op[2] \in Labels \cup Indexed -> <<"index">>
    [] op = Control("BrTable") -> <<"indices", "index">>
    [] op = Control("CallIndirect") -> <<"index", "reserved">>
    [] op \in MemorySizeOps -> <<"reserved">>
    [] op \in Loads \cup Stores -> <<"index", "index">>
    [] op \in LaneAccess -> <<"index", "index", "lane">>
    [] op \in ExtractLane \cup ReplaceLane -> <<"lane">>
    [] op = <<"I32", "Const">> -> <<"signed32">>
    [] op = <<"I64", "Const">> -> <<"signed64">>
    [] op = <<"F32", "Const">> -> <<"4 bytes">>
    [] op = <<"F64", "Const">> -> <<"8 bytes">>
    [] op \in {V128Const, Shuffle} -> <<"16 bytes">>
    [] OTHER -> <<>>

(* The numbers and bytes an immediate consists of. *)
One(r) == Then(r, LAMBDA value, at : Result(at, <<value>>))
readImmediate(kind, s, p, beyond) ==
  CASE kind = "index"    -> One(readULEB128Int32(s, p))
    [] kind = "indices"  -> readMany(readULEB128Int32, s, p)
    [] kind = "signed32" -> One(readSLEB128(s, p, Width32, beyond))
    [] kind = "signed64" -> One(readSLEB128(s, p, Width64, beyond))
    [] kind = "lane"     -> One(read(s, p))
    [] kind = "4 bytes"  -> readBytes(s, p, 4)
    [] kind = "8 bytes"  -> readBytes(s, p, 8)
    [] kind = "16 bytes" -> readBytes(s, p, 16)
    [] kind = "reserved" -> Then(read(s, p), LAMBDA byte, at : Result(at, <<>>))
readImmediates(op, s, p, beyond) ==
  FoldLeft(LAMBDA r, kind :
             Then(r, LAMBDA args, at :
               Then(readImmediate(kind, s, at, beyond), LAMBDA arg, end : Result(end, Append(args, arg)))),
           Result(p, <<>>), Immediates(op))

(* An instruction: its immediates, and of a block its type and its bodies. *)
Inst(op, args) == [op |-> op, args |-> args, type |-> BlockType(<<>>, -1), bodies |-> <<>>]
Block(op, type, bodies) == [op |-> op, args |-> <<>>, type |-> type, bodies |-> bodies]

readInstruction(s, p, beyond) ==
  Then(readOpcode(s, p), LAMBDA op, at :
    IF op \in Structured
    THEN Then(readBlockResultType(s, at, beyond), LAMBDA type, end : Result(end, Block(op, type, << <<>> >>)))
    ELSE Then(readImmediates(op, s, at, beyond), LAMBDA args, end : Result(end, Inst(op, args))))
=============================================================================
