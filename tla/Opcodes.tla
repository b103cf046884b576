------------------------------- MODULE Opcodes -------------------------------
(***************************************************************************)
(* The instructions whose typing is a table: everything of the validator's  *)
(* ON(...) lists.  An opcode is a tuple of the shape it works on and its     *)
(* name, and a conversion also names the shape it converts from:             *)
(* <<"I32", "Add">>, <<"F64x2", "PMin">>, <<"I32", "Trunc", "F64", "S">>.     *)
(* The validator, the translator to MIR and the one to LLVM share the sets.  *)
(***************************************************************************)
EXTENDS Naturals, Sequences

IntTypes == {"I32", "I64"}
FPTypes == {"F32", "F64"}
ValueTypes == IntTypes \cup FPTypes \cup {"V128"}

(* The lanes of a 128 bit vector. *)
IntLanes == {"I8x16", "I16x8", "I32x4", "I64x2"}
FPLanes == {"F32x4", "F64x2"}
LaneWidth(s) ==
  CASE s = "I8x16" -> 8 [] s = "I16x8" -> 16
    [] s \in {"I32x4", "F32x4"} -> 32 [] s \in {"I64x2", "F64x2"} -> 64

(*************************** scalar instructions ****************************)

Signs == {"S", "U"}
SignedTests == {"LtS", "GtS", "LeS", "GeS"}
UnsignedTests == {"LtU", "GtU", "LeU", "GeU"}

IntEqz == IntTypes \X {"Eqz"}
IntCompare == IntTypes \X ({"Eq", "Ne"} \cup SignedTests \cup UnsignedTests)
FPCompare == FPTypes \X {"Eq", "Ne", "Lt", "Gt", "Le", "Ge"}
IntUnary == IntTypes \X {"Clz", "Ctz", "Popcnt"}
IntBinary ==
  IntTypes \X {"Add", "Sub", "Mul", "DivS", "DivU", "RemS", "RemU", "And", "Or", "Xor",
               "Shl", "ShrS", "ShrU", "Rotl", "Rotr"}
FPUnary == FPTypes \X {"Abs", "Neg", "Ceil", "Floor", "Trunc", "Nearest", "Sqrt"}
FPBinary == FPTypes \X {"Add", "Sub", "Mul", "Div", "Min", "Max", "CopySign"}

(* A conversion to op[1] from op[3]. *)
Conversion ==
       IntTypes \X {"Trunc"} \X FPTypes \X Signs
  \cup FPTypes \X {"Convert"} \X IntTypes \X Signs
  \cup {"I64"} \X {"Extend"} \X {"I32"} \X Signs
  \cup { <<"I32", "Wrap", "I64">>, <<"F32", "Demote", "F64">>, <<"F64", "Promote", "F32">>,
         <<"I32", "Reinterpret", "F32">>, <<"I64", "Reinterpret", "F64">>,
         <<"F32", "Reinterpret", "I32">>, <<"F64", "Reinterpret", "I64">> }
TruncSat == IntTypes \X {"TruncSat"} \X FPTypes \X Signs
SignExtend == IntTypes \X {"Extend8S", "Extend16S"} \cup { <<"I64", "Extend32S">> }
Constant == (ValueTypes \ {"V128"}) \X {"Const"}
MemorySizeOps == { <<"Memory", "Size">>, <<"Memory", "Grow">> }
Nop == <<"Control", "Nop">>

(******************************* lane vectors *******************************)

V128Const == <<"V128", "Const">>
BitSelect == <<"V128", "BitSelect">>
Splat == (IntLanes \cup FPLanes) \X {"Splat"}
Untranslated == { <<"I8x16", "Swizzle">>, <<"I32x4", "DotI16x8S">>, <<"I16x8", "Q15MulRSatS">>,
                  <<"I8x16", "AvgrU">>, <<"I16x8", "AvgrU">> }
Popcnt == <<"I8x16", "Popcnt">>
Shuffle == <<"I8x16", "Shuffle">>

(* Two vectors to one. *)
IntLaneBinary ==
       IntLanes \X {"Add", "Sub"} \cup (IntLanes \ {"I8x16"}) \X {"Mul"}
  \cup {"I8x16", "I16x8"} \X {"AddSatS", "AddSatU", "SubSatS", "SubSatU"}
  \cup (IntLanes \ {"I64x2"}) \X {"MinS", "MinU", "MaxS", "MaxU"}
ExtMul ==
  {"I16x8", "I32x4", "I64x2"} \X {"ExtMulLowS", "ExtMulHighS", "ExtMulLowU", "ExtMulHighU"}
LaneShift == IntLanes \X {"Shl", "ShrS", "ShrU"}
IntLaneUnary == IntLanes \X {"Neg", "Abs"}
ExtAddPairwise == {"I16x8", "I32x4"} \X {"ExtAddPairwiseS", "ExtAddPairwiseU"}
Bitwise128 == {"V128"} \X {"And", "Or", "Xor", "AndNot"}
Not128 == <<"V128", "Not">>
LaneTests == { <<"V128", "AnyTrue">> } \cup IntLanes \X {"AllTrue", "Bitmask"}
IntLaneCompare ==
  IntLanes \X ({"Eq", "Ne"} \cup SignedTests) \cup (IntLanes \ {"I64x2"}) \X UnsignedTests
FPLaneCompare == FPLanes \X {"Eq", "Ne", "Lt", "Le", "Gt", "Ge"}
FPLaneUnary == FPLanes \X {"Neg", "Abs", "Sqrt", "Ceil", "Floor", "Trunc", "Nearest"}
FPLaneBinary == FPLanes \X {"Add", "Sub", "Div", "Mul", "Min", "Max", "PMin", "PMax"}
LaneConversion ==
       {"F32x4"} \X {"Convert"} \X {"I32x4"} \X Signs
  \cup {"F64x2"} \X {"ConvertLow"} \X {"I32x4"} \X Signs
  \cup {"I32x4"} \X {"TruncSat"} \X {"F32x4"} \X Signs
  \cup {"I32x4"} \X {"TruncSatZero"} \X {"F64x2"} \X Signs
  \cup { <<"F32x4", "DemoteZero", "F64x2">>, <<"F64x2", "PromoteLow", "F32x4">> }
Narrow == {"I8x16"} \X {"Narrow"} \X {"I16x8"} \X Signs
     \cup {"I16x8"} \X {"Narrow"} \X {"I32x4"} \X Signs
LaneExtend ==
  UNION { {p[1]} \X {"ExtendLow", "ExtendHigh"} \X {p[2]} \X Signs :
            p \in { <<"I16x8", "I8x16">>, <<"I32x4", "I16x8">>, <<"I64x2", "I32x4">> } }
ExtractLane == {"I8x16", "I16x8"} \X {"ExtractLaneS", "ExtractLaneU"}
          \cup {"I32x4", "I64x2", "F32x4", "F64x2"} \X {"ExtractLane"}
ReplaceLane == (IntLanes \cup FPLanes) \X {"ReplaceLane"}

(**************************** loads and stores ******************************)

(* The type loaded or stored and the width in bits of the memory touched. *)
Load == { <<t, "Load", IF t \in {"I32", "F32"} THEN 32 ELSE 64>> : t \in ValueTypes \ {"V128"} }
NarrowLoad == IntTypes \X {"LoadS", "LoadU"} \X {8, 16} \cup {"I64"} \X {"LoadS", "LoadU"} \X {32}
Store == { <<t, "Store", IF t \in {"I32", "F32"} THEN 32 ELSE 64>> : t \in ValueTypes \ {"V128"} }
NarrowStore == IntTypes \X {"Store"} \X {8, 16} \cup { <<"I64", "Store", 32>> }
V128Access == { <<"V128", "Load", 128>>, <<"V128", "Store", 128>> }
V128PartLoad == {"V128"} \X {"LoadZero"} \X {32, 64} \cup {"V128"} \X {"LoadSplat"} \X {8, 16, 32, 64}
           \cup {"V128"} \X {"LoadPairsS", "LoadPairsU"} \X {8, 16, 32}
LaneAccess == {"V128"} \X {"LoadLane", "StoreLane"} \X {8, 16, 32, 64}

Loads == Load \cup NarrowLoad \cup { <<"V128", "Load", 128>> } \cup V128PartLoad
Stores == Store \cup NarrowStore \cup { <<"V128", "Store", 128>> }

(************************ the typing table of ON(...) ***********************)

(* The scalar that fills a lane. *)
LaneScalar(s) ==
  CASE s \in {"I8x16", "I16x8", "I32x4"} -> "I32" [] s = "I64x2" -> "I64"
    [] s = "F32x4" -> "F32" [] s = "F64x2" -> "F64"

ScalarOps == IntEqz \cup IntCompare \cup FPCompare \cup IntUnary \cup IntBinary \cup FPUnary
             \cup FPBinary \cup Conversion \cup TruncSat \cup SignExtend \cup Constant
V128Unary == IntLaneUnary \cup ExtAddPairwise \cup FPLaneUnary \cup LaneConversion \cup LaneExtend
             \cup {Not128, Popcnt}
V128Binary == IntLaneBinary \cup ExtMul \cup Bitwise128 \cup IntLaneCompare \cup FPLaneCompare
              \cup FPLaneBinary \cup Narrow \cup Untranslated \cup {Shuffle}
VectorOps == V128Unary \cup V128Binary \cup LaneShift \cup LaneTests \cup Splat \cup ExtractLane
             \cup ReplaceLane \cup {V128Const, BitSelect}
MemoryOps == Loads \cup Stores \cup LaneAccess
Opcode == ScalarOps \cup VectorOps \cup MemoryOps \cup MemorySizeOps \cup {Nop}

Typing(params, results) == [params |-> params, results |-> results]

ScalarSignature(op) ==
  CASE op \in IntEqz -> Typing(<<op[1]>>, <<"I32">>)
    [] op \in IntCompare \cup FPCompare -> Typing(<<op[1], op[1]>>, <<"I32">>)
    [] op \in IntUnary \cup FPUnary \cup SignExtend -> Typing(<<op[1]>>, <<op[1]>>)
    [] op \in IntBinary \cup FPBinary -> Typing(<<op[1], op[1]>>, <<op[1]>>)
    [] op \in Conversion \cup TruncSat -> Typing(<<op[3]>>, <<op[1]>>)
    [] op \in Constant -> Typing(<<>>, <<op[1]>>)

VectorSignature(op) ==
  CASE op \in V128Unary -> Typing(<<"V128">>, <<"V128">>)
    [] op \in V128Binary -> Typing(<<"V128", "V128">>, <<"V128">>)
    [] op \in LaneShift -> Typing(<<"V128", "I32">>, <<"V128">>)
    [] op \in LaneTests -> Typing(<<"V128">>, <<"I32">>)
    [] op \in Splat -> Typing(<<LaneScalar(op[1])>>, <<"V128">>)
    [] op \in ExtractLane -> Typing(<<"V128">>, <<LaneScalar(op[1])>>)
    [] op \in ReplaceLane -> Typing(<<"V128", LaneScalar(op[1])>>, <<"V128">>)
    [] op = V128Const -> Typing(<<>>, <<"V128">>)
    [] op = BitSelect -> Typing(<<"V128", "V128", "V128">>, <<"V128">>)

MemorySignature(op) ==
  CASE op \in Loads -> Typing(<<"I32">>, <<op[1]>>)
    [] op \in Stores -> Typing(<<"I32", op[1]>>, <<>>)
    [] op \in LaneAccess -> Typing(<<"I32", "V128">>, IF op[2] = "LoadLane" THEN <<"V128">> ELSE <<>>)

Signature(op) ==
  CASE op \in ScalarOps -> ScalarSignature(op)
    [] op \in VectorOps -> VectorSignature(op)
    [] op \in MemoryOps -> MemorySignature(op)
    [] op = <<"Memory", "Size">> -> Typing(<<>>, <<"I32">>)
    [] op = <<"Memory", "Grow">> -> Typing(<<"I32">>, <<"I32">>)
    [] op = Nop -> Typing(<<>>, <<>>)

(* The deepest alignment exponent an access may state, and the lanes a lane
   index may name. *)
MaximumAlign(op) ==
  CASE op[3] = 8 -> 4 [] op[3] = 16 -> 5 [] op[3] = 32 -> 6 [] op[3] = 64 -> 7 [] op[3] = 128 -> 8
LaneCount(op) == IF op \in LaneAccess THEN 128 \div op[3] ELSE 128 \div LaneWidth(op[1])
=============================================================================
