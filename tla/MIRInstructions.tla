--------------------------- MODULE MIRInstructions ---------------------------
(***************************************************************************)
(* The instruction classes of the MIR, as they are built: the references of  *)
(* each in the order in which its class keeps, releases and replaces them     *)
(* (MIR.replace and MIR.eraseInst are the member functions), and what it       *)
(* keeps of its own:                                                           *)
(*   op    the operator or cast opcode, a bytecode opcode                      *)
(*   lane  the lane info of a vector instruction                               *)
(*   ty    a sequence of value types: of a load, a constant, a callee          *)
(*   n     the width of an access or guard, a lane, an index, a constant       *)
(***************************************************************************)
EXTENDS MIR

Attributes(op, lane, ty, n) == [op |-> op, lane |-> lane, ty |-> ty, n |-> n]
Node(kind, attributes, refs) == [kind |-> kind, type |-> attributes, refs |-> refs]
NoOp == <<>>
NoLane == "scalar"
Plain(kind, refs) == Node(kind, Attributes(NoOp, NoLane, <<>>, 0), refs)

Return(values) == Plain("return", values)
Call(target, results, arguments) ==
  Node("call", Attributes(NoOp, NoLane, results, 0), <<target>> \o arguments)
CallIndirect(table, operand, results, arguments) ==
  Node("callindirect", Attributes(NoOp, NoLane, results, 0), <<table, operand>> \o arguments)
Select(condition, true, false) == Plain("select", <<condition, true, false>>)
LocalGet(target) == Plain("localget", <<target>>)
LocalSet(target, operand) == Plain("localset", <<target, operand>>)
GlobalGet(target) == Plain("globalget", <<target>>)
GlobalSet(target, operand) == Plain("globalset", <<target, operand>>)
Constant(ty, value) == Node("constant", Attributes(NoOp, NoLane, <<ty>>, value), <<>>)

(* Load::Load, with the slots of Load: the memory, the address. *)
Load(memory, ty, address, width) ==
  Node("load", Attributes(NoOp, NoLane, <<ty>>, width), <<memory, address>>)
Store(memory, address, operand, width) ==
  Node("store", Attributes(NoOp, NoLane, <<>>, width), <<memory, address, operand>>)
MemoryGuard(memory, address, width) ==
  Node("guard", Attributes(NoOp, NoLane, <<>>, width), <<memory, address>>)
MemoryGrow(memory, size) == Plain("grow", <<memory, size>>)
MemorySize(memory) == Plain("size", <<memory>>)
Pack(arguments) == Plain("pack", arguments)
Unpack(operand, index) == Node("unpack", Attributes(NoOp, NoLane, <<>>, index), <<operand>>)
Cast(opcode, operand) == Node("cast", Attributes(opcode, NoLane, <<>>, 0), <<operand>>)

(* Unary: the operand.  Binary and Compare: left, right. *)
Unary(class, op, lane, operand) == Node(class, Attributes(op, lane, <<>>, 0), <<operand>>)
IntUnary(op, operand) == Unary("IntUnary", op, NoLane, operand)
FPUnary(op, operand) == Unary("FPUnary", op, NoLane, operand)
SIMD128Unary(op, operand) == Unary("SIMD128Unary", op, NoLane, operand)
SIMD128IntUnary(op, lane, operand) == Unary("SIMD128IntUnary", op, lane, operand)
SIMD128FPUnary(op, lane, operand) == Unary("SIMD128FPUnary", op, lane, operand)

Binary(class, op, lane, left, right) == Node(class, Attributes(op, lane, <<>>, 0), <<left, right>>)
IntBinary(op, left, right) == Binary("IntBinary", op, NoLane, left, right)
FPBinary(op, left, right) == Binary("FPBinary", op, NoLane, left, right)
SIMD128Binary(op, left, right) == Binary("SIMD128Binary", op, NoLane, left, right)
SIMD128IntBinary(op, lane, left, right) == Binary("SIMD128IntBinary", op, lane, left, right)
SIMD128FPBinary(op, lane, left, right) == Binary("SIMD128FPBinary", op, lane, left, right)

Compare(class, op, lane, left, right) == Binary(class, op, lane, left, right)
IntCompare(op, left, right) == Compare("IntCompare", op, NoLane, left, right)
FPCompare(op, left, right) == Compare("FPCompare", op, NoLane, left, right)
SIMD128IntCompare(op, lane, left, right) == Compare("SIMD128IntCompare", op, lane, left, right)
SIMD128FPCompare(op, lane, left, right) == Compare("SIMD128FPCompare", op, lane, left, right)

(* Vectors. *)
VectorSplat(class, lane, operand) == Node(class, Attributes(NoOp, lane, <<>>, 0), <<operand>>)
SIMD128IntSplat(lane, operand) == VectorSplat("SIMD128IntSplat", lane, operand)
SIMD128FPSplat(lane, operand) == VectorSplat("SIMD128FPSplat", lane, operand)
VectorExtract(class, lane, operand, index) ==
  Node(class, Attributes(NoOp, lane, <<>>, index), <<operand>>)
SIMD128IntExtract(lane, operand, index) == VectorExtract("SIMD128IntExtract", lane, operand, index)
SIMD128FPExtract(lane, operand, index) == VectorExtract("SIMD128FPExtract", lane, operand, index)
VectorInsert(class, lane, vector, index, value) ==
  Node(class, Attributes(NoOp, lane, <<>>, index), <<vector, value>>)
SIMD128IntInsert(lane, vector, index, value) ==
  VectorInsert("SIMD128IntInsert", lane, vector, index, value)
SIMD128FPInsert(lane, vector, index, value) ==
  VectorInsert("SIMD128FPInsert", lane, vector, index, value)
SIMD128ShuffleByte(low, high, mask) ==
  Node("SIMD128ShuffleByte", Attributes(NoOp, NoLane, <<>>, mask), <<low, high>>)
=============================================================================
