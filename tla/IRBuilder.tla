------------------------------ MODULE IRBuilder ------------------------------
(***************************************************************************)
(* The code generator's own builder: the types of 128 bit vectors, their      *)
(* constants, and the wrappers around LLVM's intrinsics with the assertions   *)
(* they make of their operands.                                               *)
(***************************************************************************)
EXTENDS LLVM

Int128Ty == IntTy(128)
getInt32(n) == Known(IntTy(32), n)

(* SIMD128IntLaneInfo and SIMD128FPLaneInfo. *)
LaneWidthOf(lane) ==
  CASE lane = "I8x16" -> 8 [] lane = "I16x8" -> 16
    [] lane \in {"I32x4", "F32x4"} -> 32 [] lane \in {"I64x2", "F64x2"} -> 64
NumLane(lane) == 128 \div LaneWidthOf(lane)
widen(lane) == CASE lane = "I8x16" -> "I16x8" [] lane = "I16x8" -> "I32x4" [] lane = "I32x4" -> "I64x2"
narrow(lane) == CASE lane = "I16x8" -> "I8x16" [] lane = "I32x4" -> "I16x8" [] lane = "I64x2" -> "I32x4"
getCmpResultLaneInfo(lane) == CASE lane = "F32x4" -> "I32x4" [] lane = "F64x2" -> "I64x2"

ElementTy(lane) ==
  IF lane \in {"F32x4", "F64x2"} THEN FPTy(LaneWidthOf(lane)) ELSE IntTy(LaneWidthOf(lane))
getV128Ty(lane) == VectorTy(ElementTy(lane), NumLane(lane))

(* A constant is built with lanes of bytes unless the caller names others. *)
getV128(bits) == Known(getV128Ty("I8x16"), bits)
Zero128(lane) == Known(getV128Ty(lane), 0)

(* The functions that insert a bitcast where the type is another one. *)
AsType(v, ty) == IF v.ty = ty THEN v ELSE CreateBitCast(v, ty)

(* The intrinsics of integers. *)
IntUnaryIntrinsic(f(_, _), v) == Asserting(IsInt(v.ty), v, Elementwise1(f, v))
CreateIntrinsicClz(v) == Asserting(IsInt(v.ty), v, Elementwise1(LAMBDA b, x : LeadingZeros(x, b), v))
CreateIntrinsicCtz(v) == Asserting(IsInt(v.ty), v, Elementwise1(LAMBDA b, x : TrailingZeros(x, b), v))
CreateIntrinsicPopcnt(v) == IntUnaryIntrinsic(LAMBDA b, x : Population(x, b), v)
CreateIntrinsicIntAbs(v) ==
  IntUnaryIntrinsic(LAMBDA b, x : Wrap(Absolute(Signed(x, b)), b), v)

IntBinaryIntrinsic(f(_, _, _), v, w) ==
  Asserting(IsInt(v.ty), v, Asserting(IsInt(w.ty) /\ v.ty = w.ty, w, Elementwise2(f, v, w)))
CreateIntrinsicAddSatS(v, w) ==
  IntBinaryIntrinsic(LAMBDA b, x, y : SaturateS(Signed(x, b) + Signed(y, b), b), v, w)
CreateIntrinsicAddSatU(v, w) == IntBinaryIntrinsic(LAMBDA b, x, y : SaturateU(x + y, b), v, w)
CreateIntrinsicSubSatS(v, w) ==
  IntBinaryIntrinsic(LAMBDA b, x, y : SaturateS(Signed(x, b) - Signed(y, b), b), v, w)
CreateIntrinsicSubSatU(v, w) == IntBinaryIntrinsic(LAMBDA b, x, y : SaturateU(x - y, b), v, w)
CreateIntrinsicIntMinS(v, w) ==
  IntBinaryIntrinsic(LAMBDA b, x, y : IF Signed(x, b) < Signed(y, b) THEN x ELSE y, v, w)
CreateIntrinsicIntMinU(v, w) == IntBinaryIntrinsic(LAMBDA b, x, y : IF x < y THEN x ELSE y, v, w)
CreateIntrinsicIntMaxS(v, w) ==
  IntBinaryIntrinsic(LAMBDA b, x, y : IF Signed(x, b) > Signed(y, b) THEN x ELSE y, v, w)
CreateIntrinsicIntMaxU(v, w) == IntBinaryIntrinsic(LAMBDA b, x, y : IF x > y THEN x ELSE y, v, w)
CreateIntrinsicFShl(v, w) == Asserting(IsInt(v.ty), v, Asserting(IsInt(w.ty), w, RotateLeft(v, w)))
CreateIntrinsicFShr(v, w) == Asserting(IsInt(v.ty), v, Asserting(IsInt(w.ty), w, RotateRight(v, w)))

(* Those of floating point. *)
FPUnaryIntrinsic(v) == Asserting(IsFP(v.ty), v, FPOperation(<<v>>, v.ty))
FPBinaryIntrinsic(v, w) ==
  Asserting(IsFP(v.ty), v, Asserting(IsFP(w.ty) /\ v.ty = w.ty, w, FPOperation(<<v, w>>, v.ty)))
CreateIntrinsicFPTruncSat(v, to) ==
  Asserting(IsInt(to) /\ to.lanes = 0 /\ IsFP(v.ty) /\ v.ty.lanes = 0, v, FPConversion(v, TRUE, to))

(* Half of the lanes of a vector. *)
Slice(v, indices) == Asserting(IsVector(v.ty), v, CreateShuffleVector(v, v, indices))
Half(v) == v.ty.lanes \div 2
\* A plausible slip, for the mutants: the upper half starts one lane early.
CreateVectorSliceHighEarly(v) == Slice(v, [i \in 1..Half(v) |-> Half(v) + i - 2])
CreateVectorSliceLow(v) == Slice(v, [i \in 1..Half(v) |-> i - 1])
CreateVectorSliceHigh(v) == Slice(v, [i \in 1..Half(v) |-> Half(v) + i - 1])
CreateVectorSliceOdd(v) == Slice(v, [i \in 1..Half(v) |-> 2 * i - 1])
CreateVectorSliceEven(v) == Slice(v, [i \in 1..Half(v) |-> 2 * i - 2])
=============================================================================
