-------------------------- MODULE InstructionCodegen --------------------------
(***************************************************************************)
(* The visitor of the MIR generator for the instructions that do not branch:  *)
(* for each the MIR instructions it appends to the current block.  A bytecode *)
(* instruction is [op, n]: an opcode, and an immediate (the constant, the       *)
(* offset, the lane, the index of a local, global or function).                *)
(*                                                                           *)
(* A handler takes the operands it pops, in the order in which they were       *)
(* pushed, and the name k of the next MIR instruction; it gives the             *)
(* instructions it builds.  What it pushes is the last of them, if the           *)
(* bytecode instruction has a result.                                           *)
(***************************************************************************)
EXTENDS MIRInstructions

(* The bytecode's own names, as the code spells them. *)
binsts == INSTANCE Opcodes

CONSTANTS Locals,     \* the types of the locals of the function
          Globals,    \* the types of the globals of the module
          Functions   \* the types [params, results] of its functions

(* The nodes that exist before the function's: EntityLayout's. *)
Memory == 1
Table == 2
LocalNode(j) == 2 + j
GlobalNode(j) == 2 + Len(Locals) + j
FunctionNode(j) == 2 + Len(Locals) + Len(Globals) + j
Entities == 1..(2 + Len(Locals) + Len(Globals) + Len(Functions))

(* The opcodes whose type depends on the function. *)
LocalOps == {"Local"} \X {"Get", "Set", "Tee"}
GlobalOps == {"Global"} \X {"Get", "Set"}
Calls == { <<"Control", "Call">>, <<"Control", "CallIndirect">> }
DropOp(t) == <<"Parametric", "Drop", t>>
Drops == {DropOp(t) : t \in binsts!ValueTypes}
SelectOp(t) == <<"Parametric", "Select", t>>
Selects == {SelectOp(t) : t \in binsts!ValueTypes}

OnDrop == <<>>
OnSelect(args, k) == <<Select(args[3], args[1], args[2])>>
OnLocal(op, n, args) ==
  IF op[2] = "Get" THEN <<LocalGet(LocalNode(n))>> ELSE <<LocalSet(LocalNode(n), args[1])>>
OnGlobal(op, n, args) ==
  IF op[2] = "Get" THEN <<GlobalGet(GlobalNode(n))>> ELSE <<GlobalSet(GlobalNode(n), args[1])>>

(* The results of a call are unpacked if there are several. *)
Unpacked(call, results, k) ==
  <<call>> \o (IF Len(results) > 1 THEN [j \in DOMAIN results |-> Unpack(k, j)] ELSE <<>>)
OnCall(op, n, args, k) ==
  LET results == Functions[n].results IN
  Unpacked(IF op[2] = "Call" THEN Call(FunctionNode(n), results, args)
           ELSE CallIndirect(Table, Last(args), results, Front(args)),
           results, k)

(* The address of an access: the offset, unless it is zero, is added to it. *)
AddressOps(offset, address, k) ==
  IF offset = 0 THEN <<>>
  ELSE <<Constant("I32", offset), IntBinary(<<"I32", "Add">>, address, k)>>
Address(offset, address, k) == IF offset = 0 THEN address ELSE k + 1

(* Every access is guarded for the bits it touches, at its final address. *)
Access(offset, address, width, k, access(_)) ==
  LET a == Address(offset, address, k)
  IN  AddressOps(offset, address, k) \o <<MemoryGuard(Memory, a, width), access(a)>>

Loaded(ty, width, n, args, k) ==
  Access(n, args[1], width, k, LAMBDA a : Load(Memory, ty, a, width))

(* The instructions, then one more that reads the last of them. *)
Then(nodes, k, node(_)) == Append(nodes, node(k + Len(nodes) - 1))

\* A plausible slip, for the mutants: every narrow load extends with zeros.
OnLoadZeroExtendOnly(op, n, args, k) == Loaded(op[1], op[3], n, args, k)

ExtendOpcode(ty, width) ==
  CASE width = 8 -> <<ty, "Extend8S">> [] width = 16 -> <<ty, "Extend16S">>
    [] width = 32 -> <<ty, "Extend32S">>
OnLoadSignExtend(op, n, args, k) ==
  Then(Loaded(op[1], op[3], n, args, k), k, LAMBDA v : Cast(ExtendOpcode(op[1], op[3]), v))
OnLoadZeroExtend(op, n, args, k) == Loaded(op[1], op[3], n, args, k)
\* A plausible slip, for the mutants: only loads are guarded.
OnStoreUnguarded(op, n, args, k) ==
  AddressOps(n, args[1], k) \o <<Store(Memory, Address(n, args[1], k), args[2], op[3])>>

OnStore(op, n, args, k) ==
  Access(n, args[1], op[3], k, LAMBDA a : Store(Memory, a, args[2], op[3]))
OnV128Load(n, args, k) == Loaded("V128", 128, n, args, k)
OnV128Store(n, args, k) == Access(n, args[1], 128, k, LAMBDA a : Store(Memory, a, args[2], 128))
OnV128Load64Splat(n, args, k) ==
  Then(Loaded("I64", 64, n, args, k), k, LAMBDA v : SIMD128IntSplat("I64x2", v))
OnV128Load32Splat(n, args, k) ==
  Then(Loaded("I32", 32, n, args, k), k, LAMBDA v : SIMD128IntSplat("I32x4", v))
OnV128Load32x2S(n, args, k) ==
  Then(Loaded("V128", 64, n, args, k), k,
       LAMBDA v : Cast(<<"I64x2", "ExtendLow", "I32x4", "S">>, v))

OnMemorySize == <<MemorySize(Memory)>>
OnMemoryGrow(args) == <<MemoryGrow(Memory, args[1])>>
OnConst(op, n) == <<Constant(op[1], n)>>

(* Scalar operators. *)
OnEqz(op, args) == <<IntUnary(op, args[1])>>
OnIntUnary(op, args) == <<IntUnary(op, args[1])>>
OnFPUnary(op, args) == <<FPUnary(op, args[1])>>
OnIntCompare(op, args) == <<IntCompare(op, args[1], args[2])>>
OnIntBinary(op, args) == <<IntBinary(op, args[1], args[2])>>
OnFPCompare(op, args) == <<FPCompare(op, args[1], args[2])>>
OnFPBinary(op, args) == <<FPBinary(op, args[1], args[2])>>
OnCast(op, args) == <<Cast(op, args[1])>>
OnExtend(op, args) == <<Cast(op, args[1])>>

(* Vector operators.  The lanes that an extending operator is given are the
   ones it reads, which are half as wide as those the opcode is named for. *)
SourceLane(lane) ==
  CASE lane = "I16x8" -> "I8x16" [] lane = "I32x4" -> "I16x8" [] lane = "I64x2" -> "I32x4"
OnShuffle(n, args) ==
  <<SIMD128ShuffleByte(args[1], args[2], [i \in 1..16 |-> (7 * i + n) % 32])>>
OnBitSelect(args, k) ==
  <<SIMD128Unary(<<"V128", "Not">>, args[3]),
    SIMD128Binary(<<"V128", "And">>, args[1], args[3]),
    SIMD128Binary(<<"V128", "And">>, args[2], k),
    SIMD128Binary(<<"V128", "Or">>, k + 1, k + 2)>>
OnSIMD128Unary(op, args) == <<SIMD128Unary(op, args[1])>>
OnSIMD128Binary(op, args) == <<SIMD128Binary(op, args[1], args[2])>>
OnSIMD128IntUnary(op, args) ==
  <<SIMD128IntUnary(op, IF op \in binsts!ExtAddPairwise THEN SourceLane(op[1]) ELSE op[1], args[1])>>

\* A plausible slip, for the mutants: the lanes of the result instead of the operands'.
OnSIMD128IntBinaryWide(op, args) == <<SIMD128IntBinary(op, op[1], args[1], args[2])>>

OnSIMD128IntBinary(op, args) ==
  <<SIMD128IntBinary(op, IF op \in binsts!ExtMul THEN SourceLane(op[1]) ELSE op[1],
                     args[1], args[2])>>
OnSIMD128IntCompare(op, args) == <<SIMD128IntCompare(op, op[1], args[1], args[2])>>
OnSIMD128FPUnary(op, args) == <<SIMD128FPUnary(op, op[1], args[1])>>
OnSIMD128FPBinary(op, args) == <<SIMD128FPBinary(op, op[1], args[1], args[2])>>
OnSIMD128FPCompare(op, args) == <<SIMD128FPCompare(op, op[1], args[1], args[2])>>
OnIntSplat(op, args) == <<SIMD128IntSplat(op[1], args[1])>>
OnFPSplat(op, args) == <<SIMD128FPSplat(op[1], args[1])>>
OnIntReplaceLane(op, n, args) == <<SIMD128IntInsert(op[1], args[1], n, args[2])>>
OnFPReplaceLane(op, n, args) == <<SIMD128FPInsert(op[1], args[1], n, args[2])>>
OnSIMD128Cast(op, args) == <<Cast(op, args[1])>>
OnExtractLane(op, n, args, k) ==
  IF op[1] \in binsts!FPLanes THEN <<SIMD128FPExtract(op[1], args[1], n)>>
  ELSE <<SIMD128IntExtract(op[1], args[1], n)>>
         \o (IF op[2] = "ExtractLaneS" THEN <<Cast(ExtendOpcode("I32", binsts!LaneWidth(op[1])), k)>>
             ELSE <<>>)

(* The opcodes that have no handler but the one that traps. *)
IntLaneUnaryOps == binsts!IntLaneUnary \cup binsts!ExtAddPairwise
                   \cup (binsts!LaneTests \ { <<"V128", "AnyTrue">> })
PartLoads == { <<"V128", "LoadSplat", 32>>, <<"V128", "LoadSplat", 64>>, <<"V128", "LoadPairsS", 32>> }
TranslationPending ==
  binsts!Untranslated \cup {binsts!Popcnt} \cup binsts!LaneAccess
    \cup (binsts!V128PartLoad \ PartLoads) \cup binsts!Narrow

Vectors(op, n, args, k) ==
  CASE op = binsts!Shuffle -> OnShuffle(n, args)
    [] op = binsts!BitSelect -> OnBitSelect(args, k)
    [] op = binsts!V128Const -> OnConst(op, n)
    [] op \in { <<"V128", "Not">>, <<"V128", "AnyTrue">> } -> OnSIMD128Unary(op, args)
    [] op \in binsts!Bitwise128 -> OnSIMD128Binary(op, args)
    [] op \in IntLaneUnaryOps -> OnSIMD128IntUnary(op, args)
    [] op \in binsts!IntLaneBinary \cup binsts!ExtMul \cup binsts!LaneShift -> OnSIMD128IntBinary(op, args)
    [] op \in binsts!IntLaneCompare -> OnSIMD128IntCompare(op, args)
    [] op \in binsts!FPLaneUnary -> OnSIMD128FPUnary(op, args)
    [] op \in binsts!FPLaneBinary -> OnSIMD128FPBinary(op, args)
    [] op \in binsts!FPLaneCompare -> OnSIMD128FPCompare(op, args)
    [] op \in binsts!Splat -> IF op[1] \in binsts!FPLanes THEN OnFPSplat(op, args) ELSE OnIntSplat(op, args)
    [] op \in binsts!ReplaceLane ->
         IF op[1] \in binsts!FPLanes THEN OnFPReplaceLane(op, n, args) ELSE OnIntReplaceLane(op, n, args)
    [] op \in binsts!ExtractLane -> OnExtractLane(op, n, args, k)
    [] op \in binsts!LaneConversion \cup binsts!LaneExtend -> OnSIMD128Cast(op, args)

Scalars(op, n, args) ==
  CASE op \in binsts!IntEqz -> OnEqz(op, args)
    [] op \in binsts!IntUnary -> OnIntUnary(op, args)
    [] op \in binsts!FPUnary -> OnFPUnary(op, args)
    [] op \in binsts!IntCompare -> OnIntCompare(op, args)
    [] op \in binsts!IntBinary -> OnIntBinary(op, args)
    [] op \in binsts!FPCompare -> OnFPCompare(op, args)
    [] op \in binsts!FPBinary -> OnFPBinary(op, args)
    [] op \in binsts!Conversion \cup binsts!TruncSat -> OnCast(op, args)
    [] op \in binsts!SignExtend -> OnExtend(op, args)
    [] op \in binsts!Constant -> OnConst(op, n)

Accesses(op, n, args, k) ==
  CASE op = <<"V128", "Load", 128>> -> OnV128Load(n, args, k)
    [] op = <<"V128", "Store", 128>> -> OnV128Store(n, args, k)
    [] op = <<"V128", "LoadSplat", 64>> -> OnV128Load64Splat(n, args, k)
    [] op = <<"V128", "LoadSplat", 32>> -> OnV128Load32Splat(n, args, k)
    [] op = <<"V128", "LoadPairsS", 32>> -> OnV128Load32x2S(n, args, k)
    [] op[2] = "LoadS" -> OnLoadSignExtend(op, n, args, k)
    [] op[1] # "V128" /\ op[2] \in {"Load", "LoadU"} -> OnLoadZeroExtend(op, n, args, k)
    [] op[1] # "V128" /\ op[2] = "Store" -> OnStore(op, n, args, k)

(* What validation says of the operands and the results: pops and pushes. *)
TypingOf(i) ==
  CASE i.op \in LocalOps ->
         LET t == Locals[i.n] IN
         binsts!Typing(IF i.op[2] = "Get" THEN <<>> ELSE <<t>>, IF i.op[2] = "Set" THEN <<>> ELSE <<t>>)
    [] i.op \in GlobalOps ->
         LET t == Globals[i.n] IN IF i.op[2] = "Get" THEN binsts!Typing(<<>>, <<t>>) ELSE binsts!Typing(<<t>>, <<>>)
    [] i.op \in Calls ->
         binsts!Typing(Functions[i.n].params \o (IF i.op[2] = "Call" THEN <<>> ELSE <<"I32">>),
                       Functions[i.n].results)
    [] i.op \in Selects -> binsts!Typing(<<i.op[3], i.op[3], "I32">>, <<i.op[3]>>)
    [] i.op \in Drops -> binsts!Typing(<<i.op[3]>>, <<>>)
    [] OTHER -> binsts!Signature(i.op)

Handler(i, args, k) ==
  CASE i.op \in LocalOps -> OnLocal(i.op, i.n, args)
    [] i.op \in GlobalOps -> OnGlobal(i.op, i.n, args)
    [] i.op \in Calls -> OnCall(i.op, i.n, args, k)
    [] i.op \in Selects -> OnSelect(args, k)
    [] i.op \in Drops -> OnDrop
    [] i.op = <<"Memory", "Size">> -> OnMemorySize
    [] i.op = <<"Memory", "Grow">> -> OnMemoryGrow(args)
    [] i.op \in binsts!MemoryOps -> Accesses(i.op, i.n, args, k)
    [] i.op \in binsts!ScalarOps -> Scalars(i.op, i.n, args)
    [] i.op \in binsts!VectorOps -> Vectors(i.op, i.n, args, k)

(* The function once the instructions are at the end of block b, and the
   values the handler pushes: of several results, the unpacked ones. *)
Append1(F, b, node) == BuildInst(F, b, node.kind, node.type, node.refs)
Appended(F, b, nodes) ==
  LET after[j \in 0..Len(nodes)] == IF j = 0 THEN F ELSE Append1(after[j - 1], b, nodes[j])
  IN  after[Len(nodes)]
Pushes(i, args, k, count) ==
  LET results == Len(TypingOf(i).results) IN
  IF i.op = <<"Local", "Tee">> THEN args
  ELSE [j \in 1..results |-> k + count - results + j - 1]
=============================================================================
