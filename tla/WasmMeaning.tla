----------------------------- MODULE WasmMeaning -----------------------------
(***************************************************************************)
(* What the WebAssembly instructions on integers and integer lanes compute,   *)
(* from the values of their operands: the yardstick for the code that is      *)
(* generated.  Meaning is Unknown where floating point, a call or memory's      *)
(* size is involved, and Trap where the instruction must not complete.          *)
(***************************************************************************)
EXTENDS FixedWidth, Sequences

binsts == INSTANCE Opcodes

Unknown == -1
Trap == -2

Truth(p) == IF p THEN 1 ELSE 0
TypeBits(t) == CASE t \in {"I32", "F32"} -> Bits(32) [] t \in {"I64", "F64"} -> Bits(64) [] t = "V128" -> Bits(128)
LaneBits(lane) == Bits(binsts!LaneWidth(lane))

TestMeaning(test, x, y, b) ==
  CASE test = "Eq" -> x = y [] test = "Ne" -> x # y
    [] test = "LtU" -> x < y [] test = "GtU" -> x > y [] test = "LeU" -> x <= y [] test = "GeU" -> x >= y
    [] test = "LtS" -> Signed(x, b) < Signed(y, b) [] test = "GtS" -> Signed(x, b) > Signed(y, b)
    [] test = "LeS" -> Signed(x, b) <= Signed(y, b) [] test = "GeS" -> Signed(x, b) >= Signed(y, b)

DivideMeaning(op, x, y, b) ==
  LET s == Signed(x, b)
      t == Signed(y, b)
  IN  CASE y = 0 -> Trap
        [] y # 0 /\ op = "DivU" -> x \div y
        [] y # 0 /\ op = "RemU" -> x % y
        [] y # 0 /\ op = "DivS" -> IF Quotient(s, t) = 2^(b - 1) THEN Trap ELSE Wrap(Quotient(s, t), b)
        [] y # 0 /\ op = "RemS" -> Wrap(Remainder(s, t), b)

BinaryMeaning(op, x, y, b) ==
  CASE op = "Add" -> Wrap(x + y, b) [] op = "Sub" -> Wrap(x - y, b) [] op = "Mul" -> Wrap(x * y, b)
    [] op \in {"DivS", "DivU", "RemS", "RemU"} -> DivideMeaning(op, x, y, b)
    [] op = "And" -> AndBits(x, y, b) [] op = "Or" -> OrBits(x, y, b) [] op = "Xor" -> XorBits(x, y, b)
    [] op = "AndNot" -> AndBits(x, NotBits(y, b), b)
    [] op = "Shl" -> ShiftLeft(x, y % b, b)
    [] op = "ShrU" -> ShiftRight(x, y % b) [] op = "ShrS" -> ShiftRightSigned(x, y % b, b)
    [] op = "Rotl" -> Rotate(x, y % b, b) [] op = "Rotr" -> Rotate(x, (b - (y % b)) % b, b)
    [] op = "AddSatS" -> SaturateS(Signed(x, b) + Signed(y, b), b)
    [] op = "SubSatS" -> SaturateS(Signed(x, b) - Signed(y, b), b)
    [] op = "AddSatU" -> SaturateU(x + y, b) [] op = "SubSatU" -> SaturateU(x - y, b)
    [] op = "MinU" -> Min({x, y}) [] op = "MaxU" -> Max({x, y})
    [] op = "MinS" -> Wrap(Min({Signed(x, b), Signed(y, b)}), b)
    [] op = "MaxS" -> Wrap(Max({Signed(x, b), Signed(y, b)}), b)

UnaryMeaning(op, x, b) ==
  CASE op = "Eqz" -> Truth(x = 0)
    [] op = "Clz" -> LeadingZeros(x, b) [] op = "Ctz" -> TrailingZeros(x, b) [] op = "Popcnt" -> Population(x, b)
    [] op = "Neg" -> Wrap(-x, b) [] op = "Abs" -> Wrap(Absolute(Signed(x, b)), b) [] op = "Not" -> NotBits(x, b)

SignExtended(x, from, to) == Wrap(Signed(Wrap(x, from), from), to)
Widened(x, from, to, sign) == IF sign = "S" THEN SignExtended(x, from, to) ELSE Wrap(x, from)
ConversionMeaning(op, x) ==
  CASE op[2] = "Wrap" -> Wrap(x, TypeBits("I32"))
    [] op[2] = "Extend" -> Widened(x, TypeBits("I32"), TypeBits("I64"), op[4])
    [] op[2] = "Extend8S" -> SignExtended(x, Bits(8), TypeBits(op[1]))
    [] op[2] = "Extend16S" -> SignExtended(x, Bits(16), TypeBits(op[1]))
    [] op[2] = "Extend32S" -> SignExtended(x, Bits(32), TypeBits(op[1]))
    [] OTHER -> Unknown

(* Lane by lane: f of the lanes of x, or of x and y. *)
LanesOf(lane, f(_)) == FromLanes(f, 128 \div binsts!LaneWidth(lane), LaneBits(lane))

(* The halves of the lanes, half as wide, that an extending product reads, and
   the pairs that an extending sum adds. *)
NarrowBits(lane) == LaneBits(lane) \div 2
HalfCount(lane) == 128 \div binsts!LaneWidth(lane)
ExtMulMeaning(op, x, y) ==
  LET b == NarrowBits(op[1])
      first == IF op[2] \in {"ExtMulHighS", "ExtMulHighU"} THEN HalfCount(op[1]) ELSE 0
      sign == IF op[2] \in {"ExtMulLowS", "ExtMulHighS"} THEN "S" ELSE "U"
      at(v, k) == Widened(Lane(v, first + k, b), b, LaneBits(op[1]), sign)
  IN  LanesOf(op[1], LAMBDA k : Wrap(at(x, k) * at(y, k), LaneBits(op[1])))
ExtAddMeaning(op, x) ==
  LET b == NarrowBits(op[1])
      sign == IF op[2] = "ExtAddPairwiseS" THEN "S" ELSE "U"
      at(k) == Widened(Lane(x, k, b), b, LaneBits(op[1]), sign)
  IN  LanesOf(op[1], LAMBDA k : Wrap(at(2 * k) + at(2 * k + 1), LaneBits(op[1])))
ExtendMeaning(op, x) ==
  LET b == NarrowBits(op[1])
      first == IF op[2] = "ExtendHigh" THEN HalfCount(op[1]) ELSE 0
  IN  LanesOf(op[1], LAMBDA k : Widened(Lane(x, first + k, b), b, LaneBits(op[1]), op[4]))
ShuffleMeaning(x, y, mask) ==
  LET b == Bits(8) IN
  FromLanes(LAMBDA k : IF mask[k + 1] < 16 THEN Lane(x, mask[k + 1], b) ELSE Lane(y, mask[k + 1] - 16, b), 16, b)

LaneMeaning(op, n, args) ==
  LET lane == op[1]
      b == LaneBits(lane)
      x(k) == Lane(args[1], k, b)
      y(k) == Lane(args[2], k, b)
  IN  CASE op \in binsts!IntLaneBinary -> LanesOf(lane, LAMBDA k : BinaryMeaning(op[2], x(k), y(k), b))
        [] op \in binsts!LaneShift -> LanesOf(lane, LAMBDA k : BinaryMeaning(op[2], x(k), args[2], b))
        [] op \in binsts!IntLaneCompare ->
             LanesOf(lane, LAMBDA k : IF TestMeaning(op[2], x(k), y(k), b) THEN Ones(b) ELSE 0)
        [] op \in binsts!IntLaneUnary -> LanesOf(lane, LAMBDA k : UnaryMeaning(op[2], x(k), b))
        [] op \in binsts!ExtMul -> ExtMulMeaning(op, args[1], args[2])
        [] op \in binsts!ExtAddPairwise -> ExtAddMeaning(op, args[1])
        [] op \in binsts!LaneExtend -> ExtendMeaning(op, args[1])
        [] op \in binsts!Splat -> LanesOf(lane, LAMBDA k : Wrap(args[1], b))
        [] op \in binsts!ReplaceLane -> LanesOf(lane, LAMBDA k : IF k = n THEN Wrap(args[2], b) ELSE x(k))
        [] op \in binsts!ExtractLane ->
             IF op[2] = "ExtractLaneS" THEN SignExtended(x(n), b, TypeBits("I32")) ELSE x(n)
        [] op[2] = "AllTrue" -> Truth(\A k \in 0..(128 \div binsts!LaneWidth(lane) - 1) : x(k) # 0)
        [] op[2] = "Bitmask" ->
             MapThenSumSet(LAMBDA k : 2^k * Bit(x(k), b - 1), 0..(128 \div binsts!LaneWidth(lane) - 1))
        [] OTHER -> Unknown

VectorMeaning(op, n, args) ==
  LET b == Bits(128) IN
  CASE op \in binsts!Bitwise128 -> BinaryMeaning(op[2], args[1], args[2], b)
    [] op = binsts!Not128 -> UnaryMeaning("Not", args[1], b)
    [] op = <<"V128", "AnyTrue">> -> Truth(args[1] # 0)
    [] op = binsts!BitSelect ->
         OrBits(AndBits(args[1], args[3], b), AndBits(args[2], NotBits(args[3], b), b), b)
    [] op = binsts!Shuffle -> ShuffleMeaning(args[1], args[2], [i \in 1..16 |-> (7 * i + n) % 32])
    [] OTHER -> LaneMeaning(op, n, args)

ScalarMeaning(op, args) ==
  LET b == TypeBits(op[1]) IN
  CASE op \in binsts!IntCompare -> Truth(TestMeaning(op[2], args[1], args[2], b))
    [] op \in binsts!IntEqz \cup binsts!IntUnary -> UnaryMeaning(op[2], args[1], b)
    [] op \in binsts!IntBinary -> BinaryMeaning(op[2], args[1], args[2], b)
    [] op \in binsts!Conversion \cup binsts!SignExtend -> ConversionMeaning(op, args[1])
    [] OTHER -> Unknown

(* What a load finds: `memory` from the address on, whatever the address is. *)
LoadMeaning(op, memory) ==
  LET x == Wrap(memory, Bits(op[3])) IN
  CASE op[2] \in {"Load", "LoadU"} -> x
    [] op[2] = "LoadS" -> SignExtended(x, Bits(op[3]), TypeBits(op[1]))
    [] op[2] = "LoadSplat" -> FromLanes(LAMBDA k : x, 128 \div op[3], Bits(op[3]))
    [] op[2] = "LoadPairsS" ->
         FromLanes(LAMBDA k : SignExtended(Lane(memory, k, Bits(op[3])), Bits(op[3]), Bits(2 * op[3])),
                   64 \div op[3], Bits(2 * op[3]))
    [] OTHER -> Unknown

Meaning(op, n, args, memory) ==
  CASE op \in { <<"I32", "Const">>, <<"I64", "Const">>, binsts!V128Const } -> n
    [] op \in binsts!Loads -> IF op[1] \in binsts!FPTypes THEN Unknown ELSE LoadMeaning(op, memory)
    [] \E j \in DOMAIN args : args[j] < 0 -> Unknown
    [] op \in binsts!ScalarOps -> ScalarMeaning(op, args)
    [] op \in binsts!VectorOps -> VectorMeaning(op, n, args)
    [] OTHER -> Unknown
=============================================================================
