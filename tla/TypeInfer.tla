------------------------------ MODULE TypeInfer ------------------------------
(***************************************************************************)
(* The type inference pass: the type of every MIR instruction from those of   *)
(* its operands.  A type is the sequence of its value types: none is unit,     *)
(* one a primitive, several an aggregate; and there is the bottom of an         *)
(* instruction whose operands do not fit.                                       *)
(***************************************************************************)
EXTENDS MIRInstructions

Unit == <<>>
Bottom == <<"bottom">>
isPrimitive(t) == Len(t) = 1 /\ t # Bottom
isAggregate(t) == Len(t) > 1
isIntegral(t) == t \in {<<"I32">>, <<"I64">>}
isFloatingPoint(t) == t \in {<<"F32">>, <<"F64">>}

(* Cast::getCastToType and getCastFromType. *)
Scalar(name) == IF name \in {"I32", "I64", "F32", "F64"} THEN <<name>> ELSE <<"V128">>
getCastToType(op) == Scalar(op[1])
getCastFromType(op) == Scalar(IF Len(op) = 2 THEN op[1] ELSE op[3])

\* A plausible slip, for the mutants: eqz has the type of its operand.
InferIntUnaryKeepsType(op, operand) == IF isIntegral(operand) THEN operand ELSE Bottom

InferIntUnary(op, operand) ==
  IF ~isIntegral(operand) THEN Bottom ELSE IF op[2] = "Eqz" THEN <<"I32">> ELSE operand
InferFPUnary(operand) == IF isFloatingPoint(operand) THEN operand ELSE Bottom
InferSIMD128Unary(op) == IF op[2] = "Not" THEN <<"V128">> ELSE <<"I32">>
InferSIMD128IntUnary(op) == IF op[2] \in {"AllTrue", "Bitmask"} THEN <<"I32">> ELSE <<"V128">>
InferIntBinary(left, right) == IF left = right /\ isIntegral(left) THEN left ELSE Bottom
InferFPBinary(left, right) == IF left = right /\ isFloatingPoint(left) THEN left ELSE Bottom
InferCompare(class) == IF class \in {"IntCompare", "FPCompare"} THEN <<"I32">> ELSE <<"V128">>
InferSelect(true, false) == IF true = false THEN true ELSE Bottom
InferCast(op, operand) == IF operand = getCastFromType(op) THEN getCastToType(op) ELSE Bottom
InferPack(members) ==
  IF \E j \in DOMAIN members : ~isPrimitive(members[j]) THEN Bottom
  ELSE [j \in DOMAIN members |-> Head(members[j])]
InferUnpack(operand, index) ==
  IF isAggregate(operand) /\ index <= Len(operand) THEN <<operand[index]>> ELSE Bottom
InferExtract(lane, operand) ==
  IF operand # <<"V128">> THEN Bottom
  ELSE CASE lane \in {"I8x16", "I16x8", "I32x4"} -> <<"I32">> [] lane = "I64x2" -> <<"I64">>
         [] lane = "F32x4" -> <<"F32">> [] lane = "F64x2" -> <<"F64">>

BinaryVectors == {"SIMD128IntBinary", "SIMD128FPBinary", "SIMD128Binary"}
Compares == {"IntCompare", "FPCompare", "SIMD128IntCompare", "SIMD128FPCompare"}
Splats == {"SIMD128IntSplat", "SIMD128FPSplat"}
Extracts == {"SIMD128IntExtract", "SIMD128FPExtract"}
Inserts == {"SIMD128IntInsert", "SIMD128FPInsert"}

(* TypeInferVisitor: of the instruction I, when type maps those before it
   (getType asserts that it does) and entity gives the type of a local or global. *)
Infer(I, type, entity) ==
  LET of(j) == type[I.refs[j]] IN
  CASE I.kind \in {"return", "localset", "globalset", "store", "guard"} \cup Branches -> Unit
    [] I.kind \in {"call", "callindirect", "constant", "load"} -> I.type.ty
    [] I.kind = "phi" -> <<I.type>>
    [] I.kind = "select" -> InferSelect(of(2), of(3))
    [] I.kind \in {"localget", "globalget"} -> <<entity[I.refs[1]]>>
    [] I.kind \in Compares -> InferCompare(I.kind)
    [] I.kind = "IntUnary" -> InferIntUnary(I.type.op, of(1))
    [] I.kind = "FPUnary" -> InferFPUnary(of(1))
    [] I.kind = "SIMD128Unary" -> InferSIMD128Unary(I.type.op)
    [] I.kind = "SIMD128IntUnary" -> InferSIMD128IntUnary(I.type.op)
    [] I.kind = "IntBinary" -> InferIntBinary(of(1), of(2))
    [] I.kind = "FPBinary" -> InferFPBinary(of(1), of(2))
    [] I.kind \in {"SIMD128FPUnary", "SIMD128ShuffleByte"} \cup BinaryVectors \cup Splats \cup Inserts -> <<"V128">>
    [] I.kind \in {"grow", "size"} -> <<"I32">>
    [] I.kind = "cast" -> InferCast(I.type.op, of(1))
    [] I.kind = "pack" -> InferPack([j \in DOMAIN I.refs |-> of(j)])
    [] I.kind = "unpack" -> InferUnpack(of(1), I.type.n)
    [] I.kind \in Extracts -> InferExtract(I.type.lane, of(1))

(* run(): every instruction of the blocks given, in their order. *)
InferAll(F, blocks, entity) ==
  FoldLeft(LAMBDA type, i : type @@ (i :> Infer(F.inst[i], type, entity)), <<>>,
           FlattenSeq([j \in DOMAIN blocks |-> F.code[blocks[j]]]))
=============================================================================
