----------------------- MODULE MCInstructionPipeline -----------------------
(* Bodies for InstructionPipeline: every opcode, with operands from locals and *)
(* constants at the corners of their types, and its result consumed in several *)
(* ways; and a few bodies of several instructions.                             *)
EXTENDS InstructionPipeline

MCLocals == <<"I32", "I32", "I64", "I64", "F32", "F64", "V128", "V128", "I32">>
MCGlobals == <<"I64", "V128">>
MCFunctions == << [params |-> <<"I32", "V128">>, results |-> <<"I64">>],
                  [params |-> <<>>, results |-> <<>>],
                  [params |-> <<"I64">>, results |-> <<"V128">>],
                  [params |-> <<>>, results |-> <<"I32", "I64">>] >>

(* An i32 has 4 bits here, an i64 8, a v128 16. *)
Corner(t, k) ==
  CASE t = "I32" -> <<0, 1, 7, 8, 15>>[k] [] t = "I64" -> <<0, 1, 127, 128, 255>>[k]
    [] t = "V128" -> <<0, 65535, 33169, 32640, 42339>>[k] [] OTHER -> Wasm!Unknown
Corners == 1..5
Pairs == Corners \X Corners
Pattern == 42405       \* 1010 0101 1010 0101

First(t) == SelectInSeq(MCLocals, LAMBDA u : u = t)
Second(t) == IF t \in binsts!FPTypes THEN First(t) ELSE First(t) + 1
Holding(p) ==
  [c \in Cells |->
     LET t == CellType[c] IN
     IF c = LocalNode(9) THEN 0
     ELSE IF c = LocalNode(Second(t)) THEN Corner(t, p[2]) ELSE Corner(t, p[1])]

Get(j) == [op |-> <<"Local", "Get">>, n |-> j]
Do(op) == [op |-> op, n |-> 0]
Const(t, k) ==
  [op |-> <<t, "Const">>, n |-> IF t \in binsts!FPTypes THEN 0 ELSE Corner(t, k)]

(* The operands of an opcode: the first of each pair is a local or a constant. *)
Operand(t, j, form, p) ==
  IF j = 1 /\ form = "const" THEN Const(t, p[1]) ELSE Get(IF j % 2 = 1 THEN First(t) ELSE Second(t))
OperandsOf(op, form, p) ==
  LET params == binsts!Signature(op).params IN
  [j \in DOMAIN params |-> Operand(params[j], j, form, p)]

Immediates(op) ==
  CASE op \in binsts!ReplaceLane \cup binsts!ExtractLane -> {0, 1, binsts!LaneCount(op) - 1}
    [] op \in binsts!MemoryOps -> {0, 1}
    [] op = binsts!Shuffle -> {0, 5}
    [] OTHER -> {0}

Body(code, p, results) ==
  [code |-> code, hold |-> Holding(p), memory |-> Pattern,
   place |-> [address |-> 0, size |-> 1024], results |-> results]

(* Around the last access that the memory has, the last that the guard lets through,
   and the last whose sum does not wrap; in a memory that is empty, of one page, and of
   all addresses. *)
PlacesFor(op) ==
  LET w == op[3]
      near(n) == {n - 1, n, n + 1} IN
  { q \in [address : {0, 1023} \cup near(256 - w) \cup near(256 - (w \div 8)) \cup near(1023 - w),
          size : {0, 256, 1024}] : q.address <= 1023 }
Plainly(op, n, form, p) ==
  Body(Append(OperandsOf(op, form, p), [op |-> op, n |-> n]), p, binsts!Signature(op).results)

(* What the code generator cannot do (casts of lanes whose operand has other
   lanes, and v128.load32x2_s always: CreateVectorSliceLow asserts a vector), and
   what it does on the wrong lanes. *)
Refused == binsts!LaneConversion \cup binsts!LaneExtend \cup { <<"V128", "LoadPairsS", 32>> }
      \cup {op \in binsts!LaneShift : op[1] # "I32x4"} \cup binsts!IntLanes \X {"Bitmask"}
Ops == binsts!Opcode \ (Refused \cup {binsts!Nop} \cup binsts!Constant \cup {binsts!V128Const})

Computes(op) == \E t \in {"I32", "I64", "V128"} : Contains(binsts!Signature(op).params, t)
PairsFor(op) ==
  IF ~Computes(op) \/ op \in binsts!Loads \cup TranslationPending THEN { <<1, 5>> }
  ELSE IF Len(binsts!Signature(op).params) = 1 THEN {<<k, k>> : k \in Corners} ELSE Pairs

Every(op) ==
  {Plainly(op, x[1], x[2], x[3]) : x \in Immediates(op) \X {"local", "const"} \X PairsFor(op)}

Placed(op) ==
  IF op \notin binsts!Loads \cup binsts!Stores \/ op \in TranslationPending THEN {}
  ELSE {[Plainly(op, n, "local", <<1, 5>>) EXCEPT !.place = q] : n \in Immediates(op), q \in PlacesFor(op)}

(* Operands and results of another lane shape, and results that are dropped or
   stored. *)
After(t) ==
  CASE t = <<>> -> {}
    [] t = <<"V128">> -> { <<"I16x8", "Neg">>, <<"V128", "Not">>, <<"F64x2", "Abs">>, <<"I64x2", "ExtractLane">>, DropOp("V128") }
    [] t = <<"I32">> -> { <<"I32", "Eqz">>, <<"I64", "Extend", "I32", "S">>, <<"I8x16", "Splat">>, DropOp("I32") }
    [] t = <<"I64">> -> { <<"I32", "Wrap", "I64">>, DropOp("I64") }
    [] t = <<"F32">> -> { <<"F64", "Promote", "F32">>, DropOp("F32") }
    [] t = <<"F64">> -> { <<"I64", "TruncSat", "F64", "U">>, DropOp("F64") }
ResultsAfter(op) == IF op \in Drops THEN <<>> ELSE binsts!Signature(op).results
Chained(op) ==
  { Body(OperandsOf(op, "local", x[2]) \o <<Do(op), Do(x[1])>>, x[2], ResultsAfter(x[1])) :
      x \in After(binsts!Signature(op).results) \X {<<1, 5>>, <<4, 3>>} }
Stored(op) ==
  IF binsts!Signature(op).results # <<"V128">> THEN {}
  ELSE { Body(<<Get(1)>> \o OperandsOf(op, "const", <<5, 4>>)
              \o <<Do(op), [op |-> <<"V128", "Store", 128>>, n |-> 1]>>, <<5, 4>>, <<>>) }

(* The casts of lanes, of operands that have the lanes they are cast from. *)
Cast128 ==
  {o \in binsts!LaneConversion \cup binsts!LaneExtend : o[2] \notin {"TruncSat", "TruncSatZero"}}
Casts(op) == { Body(<<Get(7), Do(<<op[3], "Neg">>), Do(op)>>, <<k, k>>, <<"V128">>) : k \in Corners }

GlobalOp(what, n) == [op |-> <<"Global", what>>, n |-> n]
LocalOp(what, n) == [op |-> <<"Local", what>>, n |-> n]
CallOf(n) == [op |-> <<"Control", "Call">>, n |-> n]
CallThrough(n) == [op |-> <<"Control", "CallIndirect">>, n |-> n]
Add == Do(<<"I32", "Add">>)
Texts ==
  { <<Get(1), LocalOp("Tee", 2), Get(2), Add>>,
    <<Get(1), Get(2), LocalOp("Set", 1), Get(1), Add>>,
    <<Get(9), Get(1), LocalOp("Tee", 9), Get(9), Do(<<"I32", "Mul">>), Add>>,
    <<Get(1), Get(2), Get(9), Do(SelectOp("I32"))>>,
    <<Get(1), Get(2), Get(2), Do(SelectOp("I32"))>>,
    <<Get(1), Get(2), Get(1), Get(2), Do(<<"I32", "LtS">>), Do(SelectOp("I32"))>>,
    <<GlobalOp("Get", 1), Get(3), GlobalOp("Set", 1), GlobalOp("Get", 1), Do(<<"I64", "LtU">>)>>,
    <<Get(7), GlobalOp("Get", 2), Get(8), GlobalOp("Set", 2), Do(<<"I32x4", "Sub">>), GlobalOp("Get", 2),
      Do(<<"I16x8", "Add">>), [op |-> <<"I16x8", "ExtractLaneS">>, n |-> 3]>>,
    <<Get(1), Get(7), CallOf(1), Do(<<"I32", "Wrap", "I64">>)>>,
    <<CallOf(2), Get(1)>>,
    <<Get(3), CallOf(3), Do(<<"V128", "AnyTrue">>)>>,
    <<CallOf(4), Do(DropOp("I64")), Do(DropOp("I32")), Get(1)>>,
    <<Get(1), Get(7), Get(2), CallThrough(1), Do(DropOp("I64")), Get(2)>>,
    <<Do(<<"Memory", "Size">>)>>,
    <<Do(<<"Memory", "Size">>), Do(DropOp("I32")), Get(1), Do(<<"Memory", "Grow">>)>>,
    <<Get(1), Do(<<"I32", "Load", 32>>), Get(2), Do(<<"I32", "Load", 32>>), Do(<<"I32", "Xor">>)>> }
Several == { Body(code, p, <<"I32">>) : code \in Texts, p \in Pairs }

MCBodies ==
  [op \in Ops \cup Cast128 \cup {binsts!Nop} |->
     CASE op = binsts!Nop -> Several
       [] op \in Cast128 -> Casts(op)
       [] op \in TranslationPending -> Every(op)
       [] OTHER -> Every(op) \cup Placed(op) \cup Chained(op) \cup Stored(op)]
=============================================================================
