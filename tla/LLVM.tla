-------------------------------- MODULE LLVM --------------------------------
(***************************************************************************)
(* The part of LLVM that the code generator calls: the types, and for each   *)
(* instruction the value it computes.  A value is                             *)
(*   ty    its type                                                          *)
(*   bits  what it holds, if that is known                                    *)
(*   def   "value"; "poison"; or "opaque", a result that is not followed:     *)
(*         floating point, calls                                              *)
(* An instruction that LLVM refuses, because the types of its operands do not *)
(* fit, is the value Illtyped, and an assertion that fails on the way is the   *)
(* value Asserted.  Both end the translation: whatever is built of them is      *)
(* the same fault.                                                             *)
(***************************************************************************)
EXTENDS FixedWidth, Sequences

(* Types: lanes = 0 is a scalar. *)
Type(kind, width, lanes) == [kind |-> kind, width |-> width, lanes |-> lanes]
IntTy(w) == Type("int", w, 0)
FPTy(w) == Type("fp", w, 0)
VectorTy(ty, n) == [ty EXCEPT !.lanes = n]
VoidTy == Type("void", 0, 0)
StructTy(tys) == Type("struct", tys, Len(tys))

Element(ty) == [ty EXCEPT !.lanes = 0]
NumLanes(ty) == IF ty.lanes = 0 THEN 1 ELSE ty.lanes
IsInt(ty) == ty.kind = "int"
IsFP(ty) == ty.kind = "fp"
IsVector(ty) == ty.kind \in {"int", "fp"} /\ ty.lanes > 0
Size(ty) == ty.width * NumLanes(ty)

(* Values. *)
Known(ty, bits) == [ty |-> ty, bits |-> bits, def |-> "value"]
Opaque(ty) == [ty |-> ty, bits |-> 0, def |-> "opaque"]
Poison(ty) == [ty |-> ty, bits |-> 0, def |-> "poison"]
NoValue == Opaque(VoidTy)
Illtyped == Opaque(Type("illtyped", 0, 0))
Asserted == Opaque(Type("assertion", 0, 0))
Faulty(v) == v.ty.kind \in {"illtyped", "assertion"}

(* The instruction that computes `result` of the operands vs, if they fit. *)
Built(vs, fits, result) ==
  IF \E i \in DOMAIN vs : Faulty(vs[i])
  THEN vs[CHOOSE i \in DOMAIN vs : Faulty(vs[i]) /\ \A j \in 1..(i - 1) : ~Faulty(vs[j])]
  ELSE IF ~fits THEN Illtyped
  ELSE IF \E i \in DOMAIN vs : vs[i].def = "poison" THEN Poison(result.ty)
  ELSE IF \E i \in DOMAIN vs : vs[i].def = "opaque" THEN Opaque(result.ty)
  ELSE result

(* assert(Condition), then what follows. *)
Asserting(condition, v, result) ==
  IF Faulty(v) THEN v ELSE IF condition THEN result ELSE Asserted

(* f of the lanes of one, or two, integers of the same type, as lanes of `to`. *)
Map1(to, f(_, _), v) ==
  LET b == Bits(v.ty.width) IN
  Built(<<v>>, IsInt(v.ty) /\ NumLanes(v.ty) = NumLanes(to),
        Known(to, FromLanes(LAMBDA k : f(b, Lane(v.bits, k, b)), NumLanes(to), Bits(to.width))))
Map2(to, f(_, _, _), v, w) ==
  LET b == Bits(v.ty.width) IN
  Built(<<v, w>>, IsInt(v.ty) /\ v.ty = w.ty,
        Known(to, FromLanes(LAMBDA k : f(b, Lane(v.bits, k, b), Lane(w.bits, k, b)),
                            NumLanes(to), Bits(to.width))))

Retype(ty, v) == VectorTy(ty, v.ty.lanes)
Elementwise2(f(_, _, _), v, w) == Map2(v.ty, f, v, w)
Elementwise1(f(_, _), v) == Map1(v.ty, f, v)

CreateAdd(v, w) == Elementwise2(LAMBDA b, x, y : Wrap(x + y, b), v, w)
(* Of addresses, whose number is followed apart (Lowering.NUWSum). *)
CreateNUWAdd(v, w) == Built(<<v, w>>, IsInt(v.ty) /\ v.ty = w.ty, Opaque(v.ty))
CreateSub(v, w) == Elementwise2(LAMBDA b, x, y : Wrap(x - y, b), v, w)
CreateMul(v, w) == Elementwise2(LAMBDA b, x, y : Wrap(x * y, b), v, w)
CreateAnd(v, w) == Elementwise2(LAMBDA b, x, y : AndBits(x, y, b), v, w)
CreateOr(v, w) == Elementwise2(LAMBDA b, x, y : OrBits(x, y, b), v, w)
CreateXor(v, w) == Elementwise2(LAMBDA b, x, y : XorBits(x, y, b), v, w)
CreateNot(v) == Elementwise1(LAMBDA b, x : NotBits(x, b), v)

(* What LLVM leaves undefined is poison: here, and a shift by too much. *)
Partial(defined, v, w, result) ==
  IF ~Faulty(result) /\ v.def = "value" /\ w.def = "value" /\ ~defined THEN Poison(result.ty)
  ELSE result

Divide(f(_, _), v, w) ==
  LET b == Bits(v.ty.width) IN
  Partial(w.bits # 0, v, w,
          Elementwise2(LAMBDA c, x, y : IF y = 0 THEN 0 ELSE Wrap(f(x, y), c), v, w))
SignedDivide(f(_, _), v, w) ==
  LET b == Bits(v.ty.width) IN
  Partial(~(v.bits = 2^(b - 1) /\ w.bits = Ones(b)), v, w,
          Divide(LAMBDA x, y : f(Signed(x, b), Signed(y, b)), v, w))
CreateUDiv(v, w) == Divide(LAMBDA x, y : x \div y, v, w)
CreateURem(v, w) == Divide(LAMBDA x, y : x % y, v, w)
CreateSDiv(v, w) == SignedDivide(Quotient, v, w)
CreateSRem(v, w) == SignedDivide(Remainder, v, w)

Shift(f(_, _, _), v, w) ==
  Partial(\A k \in 0..(NumLanes(v.ty) - 1) : Lane(w.bits, k, Bits(v.ty.width)) < Bits(v.ty.width), v, w,
          Elementwise2(LAMBDA b, x, y : IF y >= b THEN 0 ELSE f(b, x, y), v, w))
CreateShl(v, w) == Shift(LAMBDA b, x, y : ShiftLeft(x, y, b), v, w)
CreateLShr(v, w) == Shift(LAMBDA b, x, y : ShiftRight(x, y), v, w)
CreateAShr(v, w) == Shift(LAMBDA b, x, y : ShiftRightSigned(x, y, b), v, w)

(* llvm.fshl and llvm.fshr of a value with itself. *)
RotateLeft(v, w) == Elementwise2(LAMBDA b, x, y : Rotate(x, y % b, b), v, w)
RotateRight(v, w) == Elementwise2(LAMBDA b, x, y : Rotate(x, (b - (y % b)) % b, b), v, w)

(* Comparisons give i1 or a vector of it. *)
TestLanes(p(_, _, _), v, w) ==
  Map2(Retype(IntTy(1), v), LAMBDA b, x, y : IF p(b, x, y) THEN 1 ELSE 0, v, w)
TestSigned(p(_, _), v, w) == TestLanes(LAMBDA b, x, y : p(Signed(x, b), Signed(y, b)), v, w)
CreateICmp(predicate, v, w) ==
  CASE predicate = "EQ" -> TestLanes(LAMBDA b, x, y : x = y, v, w)
    [] predicate = "NE" -> TestLanes(LAMBDA b, x, y : x # y, v, w)
    [] predicate = "ULT" -> TestLanes(LAMBDA b, x, y : x < y, v, w)
    [] predicate = "UGT" -> TestLanes(LAMBDA b, x, y : x > y, v, w)
    [] predicate = "ULE" -> TestLanes(LAMBDA b, x, y : x <= y, v, w)
    [] predicate = "UGE" -> TestLanes(LAMBDA b, x, y : x >= y, v, w)
    [] predicate = "SLT" -> TestSigned(LAMBDA x, y : x < y, v, w)
    [] predicate = "SGT" -> TestSigned(LAMBDA x, y : x > y, v, w)
    [] predicate = "SLE" -> TestSigned(LAMBDA x, y : x <= y, v, w)
    [] predicate = "SGE" -> TestSigned(LAMBDA x, y : x >= y, v, w)

(* Conversions between integers of as many lanes. *)
CreateTrunc(v, ty) ==
  Built(<<v>>, Bits(ty.width) <= Bits(v.ty.width),
        Map1(ty, LAMBDA b, x : Wrap(x, Bits(ty.width)), v))
Extend(v, ty, f(_, _)) == Built(<<v>>, Bits(v.ty.width) <= Bits(ty.width), Map1(ty, f, v))
CreateZExt(v, ty) == Extend(v, ty, LAMBDA b, x : x)
CreateSExt(v, ty) == Extend(v, ty, LAMBDA b, x : Wrap(Signed(x, b), Bits(ty.width)))

CreateBitCast(v, ty) == Built(<<v>>, Size(v.ty) = Size(ty), Known(ty, v.bits))
CreateSelect(c, v, w) ==
  Built(<<c, v, w>>, v.ty = w.ty /\ c.ty \in {IntTy(1), Retype(IntTy(1), v)},
        IF c.ty # IntTy(1) THEN Opaque(v.ty) ELSE IF c.bits = 1 THEN v ELSE w)

(* Floating point is typed and not computed. *)
FPOperation(vs, to) ==
  Built(vs, \A i \in DOMAIN vs : IsFP(vs[i].ty) /\ vs[i].ty = vs[1].ty, Opaque(to))
FPConversion(v, fits, ty) == Built(<<v>>, fits /\ NumLanes(v.ty) = NumLanes(ty), Opaque(ty))

(* Vectors. *)
CreateVectorSplat(n, v) ==
  Built(<<v>>, v.ty.lanes = 0 /\ v.ty.kind \in {"int", "fp"},
        Known(VectorTy(v.ty, n), FromLanes(LAMBDA k : v.bits, n, Bits(v.ty.width))))
CreateExtractElement(v, k) ==
  Built(<<v>>, IsVector(v.ty), Known(Element(v.ty), Lane(v.bits, k, Bits(v.ty.width))))
CreateInsertElement(v, w, k) ==
  LET b == Bits(v.ty.width) IN
  Built(<<v, w>>, IsVector(v.ty) /\ w.ty = Element(v.ty),
        Known(v.ty, FromLanes(LAMBDA j : IF j = k THEN w.bits ELSE Lane(v.bits, j, b),
                              v.ty.lanes, b)))
CreateShuffleVector(v, w, mask) ==
  LET b == Bits(v.ty.width)
      n == v.ty.lanes
      lane(j) == IF mask[j + 1] < n THEN Lane(v.bits, mask[j + 1], b)
                 ELSE Lane(w.bits, mask[j + 1] - n, b)
  IN  Built(<<v, w>>, IsVector(v.ty) /\ v.ty = w.ty,
            Known(VectorTy(v.ty, Len(mask)), FromLanes(lane, Len(mask), b)))
CreateAddReduce(v) ==
  LET b == Bits(v.ty.width) IN
  Built(<<v>>, IsVector(v.ty) /\ IsInt(v.ty),
        Known(Element(v.ty), Wrap(MapThenSumSet(LAMBDA k : Lane(v.bits, k, b),
                                                0..(v.ty.lanes - 1)), b)))
=============================================================================
