------------------------------- MODULE Lowering -------------------------------
(***************************************************************************)
(* TranslationVisitor: the LLVM value of one MIR instruction.  A context C is  *)
(*   F      the function                                                      *)
(*   type   the inferred types                                                 *)
(*   value  ValueMap: the LLVM values of the instructions before                *)
(*   slots  what the allocas of the locals and the cells of the globals hold     *)
(*   memory what is loaded, from wherever it is                                  *)
(*   place  the address its operands have, and how many bytes the memory has       *)
(* In straight-line code an instruction runs when it is translated, so that the  *)
(* value is both what is built and what the build computes.                       *)
(***************************************************************************)
EXTENDS TypeInfer, IRBuilder

(* EntityLayout::convertType. *)
convertType(t) ==
  CASE t = "I32" -> IntTy(32) [] t = "I64" -> IntTy(64) [] t = "F32" -> FPTy(32)
    [] t = "F64" -> FPTy(64) [] t = "V128" -> Int128Ty
ResultTy(types) ==
  CASE Len(types) = 0 -> VoidTy [] Len(types) = 1 -> convertType(Head(types))
    [] OTHER -> StructTy([j \in DOMAIN types |-> convertType(types[j])])

(* TranslationContext::operator[]: the value of an instruction, once its type has
   been compared with the inferred one.  A value of type v128 may have any vector
   type; an aggregate is expected to be a pointer to its struct, which nothing
   that is built here is. *)
Expected(t, v) ==
  CASE t = <<"V128">> -> TRUE
    [] isPrimitive(t) /\ t # <<"V128">> -> v.ty = convertType(Head(t))
    [] OTHER -> FALSE
ValueOf(C, j) == Asserting(Expected(C.type[j], C.value[j]), C.value[j], C.value[j])

(* Calls and the built-in functions: typed, and not followed. *)
CreateCall(results, args, params) ==
  Built(args, [j \in DOMAIN args |-> args[j].ty] = params, Opaque(ResultTy(results)))

VisitReturn(C, I) ==
  IF I.refs = <<>> THEN NoValue
  ELSE LET v == ValueOf(C, I.refs[1]) IN
       IF C.type[I.refs[1]] = <<"V128">> THEN AsType(v, Int128Ty) ELSE v

Arguments(C, refs) == [j \in DOMAIN refs |-> ValueOf(C, refs[j])]
ParamTys(C, refs) == [j \in DOMAIN refs |-> convertType(Head(C.type[refs[j]]))]
VisitCall(C, I) ==
  LET args == SubSeq(I.refs, 2, Len(I.refs)) IN
  CreateCall(I.type.ty, Arguments(C, args), ParamTys(C, args))

(* The table is asked for the entry with the index, then the call is as above. *)
VisitCallIndirect(C, I) ==
  LET index == ValueOf(C, I.refs[2])
      args == SubSeq(I.refs, 3, Len(I.refs))
      call == CreateCall(I.type.ty, Arguments(C, args), ParamTys(C, args))
  IN  Built(<<index, call>>, index.ty = IntTy(32), call)

ToCondition(v) == CreateICmp("NE", v, getInt32(0))
VisitSelect(C, I) ==
  CreateSelect(ToCondition(ValueOf(C, I.refs[1])), ValueOf(C, I.refs[2]), ValueOf(C, I.refs[3]))
VisitGet(C, I) == C.slots[I.refs[1]]

(* A store wants the type of the slot it writes. *)
VisitSet(C, I) ==
  LET v == ValueOf(C, I.refs[2]) IN Built(<<v>>, v.ty = C.slots[I.refs[1]].ty, v)

SlotsAfter(C, I, v) ==
  IF I.kind \in {"localset", "globalset"} /\ ~Faulty(v) THEN [C.slots EXCEPT ![I.refs[1]] = v] ELSE C.slots

VisitConstant(I) ==
  CASE I.type.ty = <<"V128">> -> getV128(I.type.n)
    [] I.type.ty \in {<<"I32">>, <<"I64">>} -> Known(convertType(Head(I.type.ty)), I.type.n)
    [] I.type.ty \in {<<"F32">>, <<"F64">>} -> Opaque(convertType(Head(I.type.ty)))

(* Comparisons. *)
\* A plausible slip, for the mutants: unsigned tests with the signed predicate.
IntPredicateSigned(test) ==
  CASE test = "Eq" -> "EQ" [] test = "Ne" -> "NE" [] test \in {"LtS", "LtU"} -> "SLT"
    [] test \in {"GtS", "GtU"} -> "SGT" [] test \in {"LeS", "LeU"} -> "SLE"
    [] test \in {"GeS", "GeU"} -> "SGE"
IntPredicate(test) ==
  CASE test = "Eq" -> "EQ" [] test = "Ne" -> "NE"
    [] test = "LtS" -> "SLT" [] test = "LtU" -> "ULT" [] test = "GtS" -> "SGT" [] test = "GtU" -> "UGT"
    [] test = "LeS" -> "SLE" [] test = "LeU" -> "ULE" [] test = "GeS" -> "SGE" [] test = "GeU" -> "UGE"
VisitIntCompare(test, v, w) == CreateICmp(IntPredicate(test), v, w)
VisitFPCompare(v, w) == FPOperation(<<v, w>>, Retype(IntTy(1), v))
VisitSIMD128IntCompare(test, lane, v, w) ==
  CreateSExt(CreateICmp(IntPredicate(test), AsType(v, getV128Ty(lane)), AsType(w, getV128Ty(lane))),
             getV128Ty(lane))
VisitSIMD128FPCompare(lane, v, w) ==
  CreateSExt(VisitFPCompare(AsType(v, getV128Ty(lane)), AsType(w, getV128Ty(lane))),
             getV128Ty(getCmpResultLaneInfo(lane)))

(* Unary operators. *)
VisitIntUnary(op, v) ==
  CASE op[2] = "Eqz" -> CreateICmp("EQ", v, Known(v.ty, 0))
    [] op[2] = "Clz" -> CreateIntrinsicClz(v) [] op[2] = "Ctz" -> CreateIntrinsicCtz(v)
    [] op[2] = "Popcnt" -> CreateIntrinsicPopcnt(v)
VisitFPUnary(op, v) == IF op[2] = "Neg" THEN FPOperation(<<v>>, v.ty) ELSE FPUnaryIntrinsic(v)
VisitSIMD128Unary(op, v) ==
  LET x == AsType(v, Int128Ty) IN
  IF op[2] = "Not" THEN CreateNot(x) ELSE CreateNot(CreateICmp("EQ", x, Known(Int128Ty, 0)))
ExtAddPair(lane, v, extend(_, _)) ==
  LET to == getV128Ty(widen(lane)) IN
  CreateAdd(extend(CreateVectorSliceOdd(v), to), extend(CreateVectorSliceEven(v), to))
VisitSIMD128IntUnary(op, lane, v) ==
  LET x == AsType(v, getV128Ty(lane)) IN
  CASE op[2] = "Neg" -> CreateSub(Zero128(lane), x)
    [] op[2] = "Abs" -> CreateIntrinsicIntAbs(x)
    [] op[2] = "AllTrue" -> CreateAddReduce(CreateICmp("NE", x, Zero128(lane)))
    [] op[2] = "Bitmask" -> CreateLShr(x, getInt32(LaneWidthOf(lane) - 1))
    [] op[2] = "ExtAddPairwiseS" -> ExtAddPair(lane, x, CreateSExt)
    [] op[2] = "ExtAddPairwiseU" -> ExtAddPair(lane, x, CreateZExt)
VisitSIMD128FPUnary(op, lane, v) == VisitFPUnary(op, AsType(v, getV128Ty(lane)))

(* Binary operators. *)
VisitIntBinary(op, v, w) ==
  CASE op[2] = "Add" -> CreateAdd(v, w) [] op[2] = "Sub" -> CreateSub(v, w) [] op[2] = "Mul" -> CreateMul(v, w)
    [] op[2] = "DivS" -> CreateSDiv(v, w) [] op[2] = "DivU" -> CreateUDiv(v, w)
    [] op[2] = "RemS" -> CreateSRem(v, w) [] op[2] = "RemU" -> CreateURem(v, w)
    [] op[2] = "And" -> CreateAnd(v, w) [] op[2] = "Or" -> CreateOr(v, w) [] op[2] = "Xor" -> CreateXor(v, w)
    [] op[2] = "Shl" -> CreateShl(v, w) [] op[2] = "ShrS" -> CreateAShr(v, w) [] op[2] = "ShrU" -> CreateLShr(v, w)
    [] op[2] = "Rotl" -> CreateIntrinsicFShl(v, w) [] op[2] = "Rotr" -> CreateIntrinsicFShr(v, w)
VisitFPBinary(op, v, w) ==
  IF op[2] = "CopySign" THEN FPBinaryIntrinsic(v, w) ELSE FPOperation(<<v, w>>, v.ty)
VisitSIMD128Binary(op, v, w) ==
  LET x == AsType(v, Int128Ty)
      y == AsType(w, Int128Ty)
  IN  CASE op[2] = "And" -> CreateAnd(x, y) [] op[2] = "Or" -> CreateOr(x, y)
        [] op[2] = "Xor" -> CreateXor(x, y) [] op[2] = "AndNot" -> CreateAnd(x, CreateNot(y))

sliceThenExtend(lane, v, slice(_), extend(_, _)) == extend(slice(v), getV128Ty(widen(lane)))
ExtMultiply(op, lane, v, w) ==
  LET half(x) ==
        CASE op[2] = "ExtMulLowS" -> sliceThenExtend(lane, x, CreateVectorSliceLow, CreateSExt)
          [] op[2] = "ExtMulLowU" -> sliceThenExtend(lane, x, CreateVectorSliceLow, CreateZExt)
          [] op[2] = "ExtMulHighS" -> sliceThenExtend(lane, x, CreateVectorSliceHigh, CreateSExt)
          [] op[2] = "ExtMulHighU" -> sliceThenExtend(lane, x, CreateVectorSliceHigh, CreateZExt)
  IN  CreateMul(half(v), half(w))

(* The amount of a shift is a scalar, which is repeated in every lane: the
   vector it makes has the lanes of the amount. *)
ShiftVector(lane, v, w, shift(_, _)) ==
  Asserting(IsInt(w.ty) /\ w.ty.lanes = 0, w, shift(v, CreateVectorSplat(NumLane(lane), w)))

VisitSIMD128IntBinary(op, lane, v, w, wtype) ==
  LET x == AsType(v, getV128Ty(lane))
      y == IF wtype = <<"V128">> THEN AsType(w, getV128Ty(lane)) ELSE w
  IN  CASE op[2] = "Add" -> CreateAdd(x, y) [] op[2] = "Sub" -> CreateSub(x, y) [] op[2] = "Mul" -> CreateMul(x, y)
        [] op[2] \in {"ExtMulLowS", "ExtMulLowU", "ExtMulHighS", "ExtMulHighU"} -> ExtMultiply(op, lane, x, y)
        [] op[2] = "AddSatS" -> CreateIntrinsicAddSatS(x, y) [] op[2] = "AddSatU" -> CreateIntrinsicAddSatU(x, y)
        [] op[2] = "SubSatS" -> CreateIntrinsicSubSatS(x, y) [] op[2] = "SubSatU" -> CreateIntrinsicSubSatU(x, y)
        [] op[2] = "MinS" -> CreateIntrinsicIntMinS(x, y) [] op[2] = "MinU" -> CreateIntrinsicIntMinU(x, y)
        [] op[2] = "MaxS" -> CreateIntrinsicIntMaxS(x, y) [] op[2] = "MaxU" -> CreateIntrinsicIntMaxU(x, y)
        [] op[2] = "Shl" -> ShiftVector(lane, x, y, CreateShl)
        [] op[2] = "ShrS" -> ShiftVector(lane, x, y, CreateAShr)
        [] op[2] = "ShrU" -> ShiftVector(lane, x, y, CreateLShr)
VisitSIMD128FPBinary(op, lane, v, w) ==
  LET x == AsType(v, getV128Ty(lane))
      y == AsType(w, getV128Ty(lane))
  IN  IF op[2] \in {"PMin", "PMax"} THEN CreateSelect(VisitFPCompare(x, y), y, x) ELSE FPOperation(<<x, y>>, x.ty)

(* Memory.  A number is followed at SCALE; an address has AddressBits bits for the
   32 of the code, so that a memory can have more bytes than an access has bits. *)
AddressBits == 10

(* What an address operand holds: the place, or an offset more, in 32 bits. *)
AddressOf(C, j) ==
  LET I == C.F.inst[j] IN
  IF I.kind = "IntBinary" /\ C.F.inst[I.refs[2]].kind = "constant"
  THEN Wrap(C.place.address + C.F.inst[I.refs[2]].type.n, AddressBits) ELSE C.place.address

(* The bytes an access touches: getMemoryRWPtr adds in 64 bits. *)
Span(first, width) == [first |-> first, bytes |-> width \div 8]
Touches(C, I) == IF I.kind \in {"load", "store"} THEN {Span(AddressOf(C, I.refs[2]), I.type.n)} ELSE {}

(* The guard's argument is a sum of a byte and a number of bits, without unsigned
   wrap: a sum that wraps is poison, for which the build may put any number. *)
NUWSum(address, n) ==
  IF address + n < 2^AddressBits THEN {address + n} ELSE 0..(2^AddressBits - 1)
(* Whether __sable_memory_guard throws: it compares the sum with the size in bytes. *)
GuardThrows(C, I) ==
  IF I.kind = "guard" THEN {offset > C.place.size : offset \in NUWSum(AddressOf(C, I.refs[2]), I.type.n)}
  ELSE {FALSE}

VisitLoad(C, I) ==
  LET address == ValueOf(C, I.refs[2])
      loaded == Known(IntTy(I.type.n), Wrap(C.memory, Bits(I.type.n)))
      ty == convertType(Head(I.type.ty))
  IN  Built(<<address>>, IsInt(address.ty),
            IF IsFP(ty) THEN Opaque(ty) ELSE IF I.type.n = ty.width THEN loaded ELSE CreateZExt(loaded, ty))
VisitStore(C, I) ==
  LET v == ValueOf(C, I.refs[3])
      t == C.type[I.refs[3]]
      w == IF t = <<"V128">> THEN AsType(v, Int128Ty) ELSE v
      address == ValueOf(C, I.refs[2])
      stored == CASE isIntegral(t) -> Asserting(I.type.n <= w.ty.width, w,
                                                IF I.type.n < w.ty.width THEN CreateTrunc(w, IntTy(I.type.n)) ELSE w)
                  [] t = <<"V128">> -> IF I.type.n < 128 THEN CreateTrunc(w, IntTy(I.type.n)) ELSE w
                  [] OTHER -> w
  IN  Built(<<address, stored>>, IsInt(address.ty), stored)
VisitMemoryGuard(C, I) ==
  CreateCall(<<>>, <<CreateNUWAdd(ValueOf(C, I.refs[2]), getInt32(I.type.n))>>, <<IntTy(32)>>)
VisitMemoryGrow(C, I) == CreateCall(<<"I32">>, <<ValueOf(C, I.refs[2])>>, <<IntTy(32)>>)
VisitMemorySize == CreateCall(<<"I32">>, <<>>, <<>>)

(* Aggregates. *)
VisitPack(C, I) ==
  LET members == [j \in DOMAIN I.refs |-> AsType(ValueOf(C, I.refs[j]), convertType(Head(C.type[I.refs[j]])))]
  IN  Built(members, TRUE, Opaque(ResultTy([j \in DOMAIN I.refs |-> Head(C.type[I.refs[j]])])))
VisitUnpack(C, I) ==
  LET v == ValueOf(C, I.refs[1]) IN
  Built(<<v>>, v.ty.kind = "struct", Opaque(convertType(C.type[I.refs[1]][I.type.n])))

(* Lanes. *)
VisitIntSplat(lane, v) ==
  LET x == IF LaneWidthOf(lane) < 32 THEN CreateTrunc(v, ElementTy(lane)) ELSE v IN CreateVectorSplat(NumLane(lane), x)
VisitFPSplat(lane, v) == CreateVectorSplat(NumLane(lane), v)
VisitIntExtract(lane, v, k) ==
  LET x == CreateExtractElement(AsType(v, getV128Ty(lane)), k) IN
  IF LaneWidthOf(lane) < 32 THEN CreateZExt(x, IntTy(32)) ELSE x
VisitFPExtract(lane, v, k) == CreateExtractElement(AsType(v, getV128Ty(lane)), k)
VisitIntInsert(lane, v, w, k) ==
  LET x == IF LaneWidthOf(lane) < 32 THEN CreateTrunc(w, ElementTy(lane)) ELSE w IN
  CreateInsertElement(AsType(v, getV128Ty(lane)), x, k)
VisitFPInsert(lane, v, w, k) == CreateInsertElement(AsType(v, getV128Ty(lane)), w, k)
VisitShuffleByte(mask, v, w) ==
  CreateShuffleVector(AsType(v, getV128Ty("I8x16")), AsType(w, getV128Ty("I8x16")), mask)

(* Casts: op[1] is the shape cast to, op[3] the one cast from. *)
ScalarCast(op, v) ==
  LET to == convertType(op[1])
      extend == CASE op[2] = "Extend8S" -> 8 [] op[2] = "Extend16S" -> 16 [] op[2] = "Extend32S" -> 32
  IN  CASE op[2] = "Wrap" -> CreateTrunc(v, to)
        [] op[2] = "Extend" -> IF op[4] = "S" THEN CreateSExt(v, to) ELSE CreateZExt(v, to)
        [] op[2] = "Trunc" -> FPConversion(v, IsFP(v.ty), to)
        [] op[2] = "Convert" -> FPConversion(v, IsInt(v.ty), to)
        [] op[2] \in {"Demote", "Promote"} -> FPConversion(v, IsFP(v.ty), to)
        [] op[2] = "Reinterpret" -> CreateBitCast(v, to)
        [] op[2] = "TruncSat" -> CreateIntrinsicFPTruncSat(v, to)
        [] op[2] \in {"Extend8S", "Extend16S", "Extend32S"} -> CreateSExt(CreateTrunc(v, IntTy(extend)), to)

(* adjustSIMD128Operand changes its own copy of the pointer: the operand keeps
   the type it has. *)
adjustSIMD128Operand(v, lane) == v
I32x2Ty == VectorTy(IntTy(32), 2)
VectorCast(op, v) ==
  LET x == adjustSIMD128Operand(v, op[3])
      to == getV128Ty(op[1])
      half == IF op[2] \in {"ExtendHigh"} THEN CreateVectorSliceHigh(x) ELSE CreateVectorSliceLow(x)
  IN  CASE op[2] = "Convert" -> FPConversion(x, IsInt(x.ty), to)
        [] op[2] = "ConvertLow" -> FPConversion(half, IsInt(half.ty), to)
        [] op[2] = "PromoteLow" -> FPConversion(half, IsFP(half.ty), to)
        [] op[2] = "DemoteZero" -> LET y == FPConversion(x, IsFP(x.ty), VectorTy(FPTy(32), 2)) IN
                                   CreateShuffleVector(y, y, <<0, 1, 2, 3>>)
        [] op[2] = "TruncSat" -> CreateIntrinsicFPTruncSat(x, to)
        [] op[2] = "TruncSatZero" -> CreateIntrinsicFPTruncSat(x, I32x2Ty)
        [] op[2] \in {"ExtendLow", "ExtendHigh"} -> IF op[4] = "S" THEN CreateSExt(half, to) ELSE CreateZExt(half, to)

VisitCast(C, I) ==
  LET v == ValueOf(C, I.refs[1]) IN
  IF isPrimitive(getCastToType(I.type.op)) /\ getCastToType(I.type.op) # <<"V128">>
  THEN ScalarCast(I.type.op, v) ELSE VectorCast(I.type.op, v)

(* The InstVisitor's dispatch. *)
Dispatch(C, I) ==
  LET op == I.type.op
      lane == I.type.lane
      v == ValueOf(C, I.refs[1])
      w == ValueOf(C, I.refs[2])
  IN  CASE I.kind = "return" -> VisitReturn(C, I)
        [] I.kind = "call" -> VisitCall(C, I) [] I.kind = "callindirect" -> VisitCallIndirect(C, I)
        [] I.kind = "select" -> VisitSelect(C, I)
        [] I.kind \in {"localget", "globalget"} -> VisitGet(C, I)
        [] I.kind \in {"localset", "globalset"} -> VisitSet(C, I)
        [] I.kind = "constant" -> VisitConstant(I)
        [] I.kind = "load" -> VisitLoad(C, I) [] I.kind = "store" -> VisitStore(C, I)
        [] I.kind = "guard" -> VisitMemoryGuard(C, I) [] I.kind = "grow" -> VisitMemoryGrow(C, I)
        [] I.kind = "size" -> VisitMemorySize
        [] I.kind = "pack" -> VisitPack(C, I) [] I.kind = "unpack" -> VisitUnpack(C, I)
        [] I.kind = "cast" -> VisitCast(C, I)
        [] I.kind = "IntCompare" -> VisitIntCompare(op[2], v, w) [] I.kind = "FPCompare" -> VisitFPCompare(v, w)
        [] I.kind = "SIMD128IntCompare" -> VisitSIMD128IntCompare(op[2], lane, v, w)
        [] I.kind = "SIMD128FPCompare" -> VisitSIMD128FPCompare(lane, v, w)
        [] I.kind = "IntUnary" -> VisitIntUnary(op, v) [] I.kind = "FPUnary" -> VisitFPUnary(op, v)
        [] I.kind = "SIMD128Unary" -> VisitSIMD128Unary(op, v)
        [] I.kind = "SIMD128IntUnary" -> VisitSIMD128IntUnary(op, lane, v)
        [] I.kind = "SIMD128FPUnary" -> VisitSIMD128FPUnary(op, lane, v)
        [] I.kind = "IntBinary" -> VisitIntBinary(op, v, w) [] I.kind = "FPBinary" -> VisitFPBinary(op, v, w)
        [] I.kind = "SIMD128Binary" -> VisitSIMD128Binary(op, v, w)
        [] I.kind = "SIMD128IntBinary" -> VisitSIMD128IntBinary(op, lane, v, w, C.type[I.refs[2]])
        [] I.kind = "SIMD128FPBinary" -> VisitSIMD128FPBinary(op, lane, v, w)
        [] I.kind = "SIMD128IntSplat" -> VisitIntSplat(lane, v) [] I.kind = "SIMD128FPSplat" -> VisitFPSplat(lane, v)
        [] I.kind = "SIMD128IntExtract" -> VisitIntExtract(lane, v, I.type.n)
        [] I.kind = "SIMD128FPExtract" -> VisitFPExtract(lane, v, I.type.n)
        [] I.kind = "SIMD128IntInsert" -> VisitIntInsert(lane, v, w, I.type.n)
        [] I.kind = "SIMD128FPInsert" -> VisitFPInsert(lane, v, w, I.type.n)
        [] I.kind = "SIMD128ShuffleByte" -> VisitShuffleByte(I.type.n, v, w)


(* visit: a truth value becomes the i32 that the MIR says it is. *)
Visit(C, i) ==
  LET v == Dispatch(C, C.F.inst[i]) IN
  IF C.type[i] = <<"I32">> /\ v.ty = IntTy(1) THEN CreateZExt(v, IntTy(32)) ELSE v
=============================================================================
