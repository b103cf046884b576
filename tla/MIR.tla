-------------------------------- MODULE MIR --------------------------------
(***************************************************************************)
(* The mid-level intermediate representation of one function: basic blocks *)
(* in a list, instructions in a list per block, and on every node the use  *)
(* list that ASTNode keeps of the nodes that refer to it.  A function F is *)
(* a record                                                                *)
(*   order  the blocks, in the order of Function::BasicBlocks              *)
(*   code   for every live block the instructions of its list              *)
(*   inst   for every live instruction its kind, its type and its          *)
(*          references: operands, branch targets, phi candidates           *)
(*   uses   for every live node the list ASTNode::Uses                     *)
(*   fault  whether an assertion of the code has failed                    *)
(*   next   the next fresh node                                            *)
(* Everything here is a value: the operators return the function that the  *)
(* C++ member function leaves behind; a recursive function stands for a    *)
(* loop, at j for the function after j rounds.                             *)
(***************************************************************************)
EXTENDS Lists

(* The null pointer: what a reference becomes when its node is destroyed.  *)
Nil == 0

(* The type of an instruction that leaves no value.                        *)
Void == "void"

Branches == {"br", "cond", "switch"}
Terminators == Branches \union {"return", "unreachable"}

(* A plausible slip, for the mutants: whatever leaves a value nobody reads. *)
DroppableGrow ==
    {"const", "unary", "phi", "pack", "unpack", "select", "localget", "globalget",
     "constant", "load", "size", "grow", "cast"}

(* isDroppableInstruction.  The control flow of FunctionTranslation has     *)
(* "const" and "unary" for whatever leaves a value.                         *)
Droppable ==
    {"const", "unary", "phi", "pack", "unpack", "select", "localget", "globalget",
     "constant", "load", "size", "cast", "IntUnary", "FPUnary", "SIMD128Unary",
     "SIMD128IntUnary", "SIMD128FPUnary", "IntBinary", "FPBinary", "SIMD128Binary",
     "SIMD128IntBinary", "SIMD128FPBinary"}

(* In the reference list of an instruction: a phi alternates values and    *)
(* paths, a conditional is <<operand, true, false>>, a switch is           *)
(* <<operand, default, targets...>>.                                       *)
FalseSlot == 3
Values(I) ==
    CASE I.kind = "phi"                -> {k \in DOMAIN I.refs : k % 2 = 1}
      [] I.kind \in {"cond", "switch"} -> {1}
      [] I.kind = "br"                 -> {}
      [] OTHER                         -> DOMAIN I.refs

EmptyFunction ==
    [order |-> <<>>, code |-> <<>>, inst |-> <<>>, uses |-> <<>>,
     fault |-> FALSE, next |-> 1]

Parent(F, i) == CHOOSE b \in DOMAIN F.code : Contains(F.code[b], i)

----------------------------------------------------------------------------
(* ASTNode: the use lists.                                                 *)

addUse(F, n, i) ==
    IF n = Nil THEN F ELSE [F EXCEPT !.uses[n] = <<i>> \o @]

removeUse(F, n, i) ==
    IF n = Nil THEN F
    ELSE [F EXCEPT !.fault = @ \/ ~Contains(F.uses[n], i),
                   !.uses[n] = RemoveFirst(@, i)]

addUses(F, ns, i) ==
    LET after[j \in 0 .. Len(ns)] ==
            IF j = 0 THEN F ELSE addUse(after[j - 1], ns[j], i)
    IN  after[Len(ns)]

removeUses(F, ns, i) ==
    LET after[j \in 0 .. Len(ns)] ==
            IF j = 0 THEN F ELSE removeUse(after[j - 1], ns[j], i)
    IN  after[Len(ns)]

(* The k-th reference of i moves from one node to another.                 *)
moveRef(F, i, k, old, new) ==
    [addUse(removeUse(F, old, i), new, i) EXCEPT !.inst[i].refs[k] = new]

Moved(F, i, old, new) ==
    LET refs == F.inst[i].refs
        after[k \in 0 .. Len(refs)] ==
            IF k = 0 THEN F
            ELSE IF refs[k] = old THEN moveRef(after[k - 1], i, k, old, new)
            ELSE after[k - 1]
    IN  after[Len(refs)]

(* The replace(Old, New) of every instruction: each reference to Old moves *)
(* to New, with its entry in the use lists.  Conditional::setFalse calls   *)
(* BasicBlock::remove on the block it leaves instead of remove_use, whose  *)
(* assertion fails unless the branch sits in that very block, and then the *)
(* branch is unlinked and its use stays: either way nothing is left to     *)
(* model.                                                                  *)
replace(F, i, old, new) ==
    LET I == F.inst[i]
    IN  IF old # Nil /\ I.kind = "cond" /\ I.refs[FalseSlot] = old
        THEN [F EXCEPT !.fault = TRUE]
        ELSE Moved(F, i, old, new)

(* replaceAllUseWith of an instruction or a block, and, with Nil, the      *)
(* destructor of a node: the users are asked one after the other.          *)
replaceAllUseWith(F, old, new) ==
    LET users == F.uses[old]
        after[j \in 0 .. Len(users)] ==
            IF j = 0 THEN F ELSE replace(after[j - 1], users[j], old, new)
    IN  after[Len(users)]

----------------------------------------------------------------------------
(* Blocks and instructions: building and erasing.                          *)

(* BuildBasicBlock and BuildBasicBlockAt: a new block at the end of the    *)
(* list (pos = Nil) or before the block pos.                               *)
BuildBasicBlock(F, pos) ==
    LET at == IF pos = Nil THEN Len(F.order) + 1
              ELSE SelectInSeq(F.order, LAMBDA b : b = pos)
    IN  [F EXCEPT !.order = InsertAt(@, at, F.next),
                  !.code  = Entered(@, F.next, <<>>),
                  !.uses  = Entered(@, F.next, <<>>),
                  !.next  = @ + 1]

(* BuildInst: a new instruction at the end of block b.                     *)
BuildInst(F, b, kind, type, refs) ==
    LET G == [F EXCEPT !.inst    = Entered(@, F.next, [kind |-> kind, type |-> type,
                                                    refs |-> refs]),
                       !.uses    = Entered(@, F.next, <<>>),
                       !.code[b] = Append(@, F.next),
                       !.next    = @ + 1]
    IN  addUses(G, refs, F.next)

(* A phi for each type, at the end of block b.                             *)
BuildPhis(F, b, types) ==
    LET after[j \in 0 .. Len(types)] ==
            IF j = 0 THEN F ELSE BuildInst(after[j - 1], b, "phi", types[j], <<>>)
    IN  after[Len(types)]

addCandidate(F, phi, value, path) ==
    [addUse(addUse(F, value, phi), path, phi)
        EXCEPT !.inst[phi].refs = @ \o <<value, path>>]

(* A plausible slip, for the mutants: the old candidates keep their uses. *)
setCandidatesLeak(F, phi, refs) ==
    [addUses(F, refs, phi) EXCEPT !.inst[phi].refs = refs]

(* setCandidates: the new uses are added before the old ones are removed.  *)
setCandidates(F, phi, refs) ==
    LET G == removeUses(addUses(F, refs, phi), F.inst[phi].refs, phi)
    IN  [G EXCEPT !.inst[phi].refs = refs]

(* A plausible slip, for the mutants: the references are not given back. *)
eraseInstUnreleased(F, i) ==
    LET G == replaceAllUseWith(F, i, Nil)
    IN  [G EXCEPT !.inst = Forget(@, i),
                  !.uses = Forget(@, i),
                  !.code[Parent(F, i)] = RemoveFirst(@, i)]

(* Instruction::eraseFromParent: the destructor of the instruction gives   *)
(* its references back, then the destructor of the node empties its users. *)
eraseInst(F, i) ==
    LET G == replaceAllUseWith(removeUses(F, F.inst[i].refs, i), i, Nil)
    IN  [G EXCEPT !.inst = Forget(@, i),
                  !.uses = Forget(@, i),
                  !.code[Parent(F, i)] = RemoveFirst(@, i)]

(* BasicBlock::eraseFromParent: the instructions go first, front to back.  *)
Cleared(F, b) ==
    LET code == F.code[b]
        after[j \in 0 .. Len(code)] ==
            IF j = 0 THEN F ELSE eraseInst(after[j - 1], code[j])
    IN  after[Len(code)]

eraseBlock(F, b) ==
    LET G == replaceAllUseWith(Cleared(F, b), b, Nil)
    IN  [G EXCEPT !.order = RemoveFirst(@, b),
                  !.code  = Forget(@, b),
                  !.uses  = Forget(@, b)]

pop_back(F, b) == eraseInst(F, Last(F.code[b]))

(* splice: all of src goes to the end of dst; a list spliced to its own    *)
(* end stays as it is.                                                     *)
splice(F, dst, src) ==
    IF dst = src THEN F
    ELSE [F EXCEPT !.code[dst] = @ \o F.code[src], !.code[src] = <<>>]

----------------------------------------------------------------------------
(* The control flow graph, as the passes read it.                          *)

BranchUsers(F, b) == {i \in ToSet(F.uses[b]) : F.inst[i].kind \in Branches}

getInwardFlow(F, b) == {Parent(F, i) : i \in BranchUsers(F, b)}

(* A plausible slip, for the mutants: conditionals are not seen. *)
hasNoInwardFlowButConditional(F, b) ==
    \A i \in BranchUsers(F, b) : F.inst[i].kind = "cond"

hasNoInwardFlow(F, b) == BranchUsers(F, b) = {}

Targets(I) ==
    IF I.kind \in Branches
    THEN {I.refs[k] : k \in DOMAIN I.refs \ Values(I)} \ {Nil}
    ELSE {}

getOutwardFlow(F, b) == Targets(F.inst[Last(F.code[b])])

isEntryBlock(F, b) == b = Head(F.order)

Phis(F, b) ==
    Picked(F.code[b], {k \in DOMAIN F.code[b] : F.inst[F.code[b][k]].kind = "phi"})

(* The candidates of a phi, as <<value, path>>.                            *)
Candidates(I) ==
    [k \in 1..(Len(I.refs) \div 2) |-> <<I.refs[2 * k - 1], I.refs[2 * k]>>]
=============================================================================
