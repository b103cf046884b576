------------------------- MODULE FunctionTranslation -------------------------
(***************************************************************************)
(* FunctionTranslationTask::perform and the life of the function after it: *)
(* the bytecode is translated, SimplifyCFG runs until it converges, and at *)
(* the end the destructor of the function takes its blocks down, front to  *)
(* back.                                                                   *)
(***************************************************************************)
EXTENDS MIRCodegen, SimplifyCFG

VARIABLES phase,   \* "codegen", "simplify", "done" or "teardown"
          source   \* ghost: the function as the translation left it

vars == <<fn, frames, fuel, scope, phase, source>>

InitTranslation == Init /\ phase = "codegen" /\ source = EmptyFunction

Codegen == phase = "codegen" /\ Translate /\ UNCHANGED <<scope, phase, source>>

(* The last body is over: the pass driver prepares the pass.               *)
StartPass ==
    /\ phase = "codegen" /\ frames = <<>>
    /\ phase' = "simplify" /\ source' = fn
    /\ UNCHANGED codegenVars

(* One run(): at the first block that allows any rewriting, the first of   *)
(* the four that applies.                                                  *)
Rewrite(applies, F) ==
    /\ applies /\ ~fn.fault
    /\ fn' = F
    /\ UNCHANGED <<frames, fuel, scope, phase, source>>

InPass == phase = "simplify" /\ ~Converged(fn)

SimplifyTrivialPhi ==
    /\ InPass
    /\ LET b == FirstRewritable(fn)
       IN  Rewrite(HasTrivialPhi(fn, b), simplifyTrivialPhi(fn, b))

SimplifyTrivialBranch ==
    /\ InPass
    /\ LET b == FirstRewritable(fn)
       IN  Rewrite(~HasTrivialPhi(fn, b) /\ HasTrivialBranch(fn, b),
                   simplifyTrivialBranch(fn, b))

DeadBasicBlockElem ==
    /\ InPass
    /\ LET b == FirstRewritable(fn)
       IN  Rewrite(~HasTrivialPhi(fn, b) /\ ~HasTrivialBranch(fn, b)
                       /\ HasDeadBasicBlock(fn, b),
                   deadBasicBlockElem(fn, b))

DeadInstructionElem ==
    /\ InPass
    /\ LET b == FirstRewritable(fn)
       IN  Rewrite(~HasTrivialPhi(fn, b) /\ ~HasTrivialBranch(fn, b)
                       /\ ~HasDeadBasicBlock(fn, b),
                   deadInstructionElem(fn, b))

(* The driver's loop ends.                                                 *)
Converge ==
    /\ phase = "simplify" /\ Converged(fn)
    /\ phase' = "done"
    /\ UNCHANGED <<fn, frames, fuel, scope, source>>

(* The destructor of the function: the list of blocks is cleared.          *)
DestroyBlock ==
    /\ phase \in {"done", "teardown"} /\ fn.order # <<>> /\ ~fn.fault
    /\ fn' = eraseBlock(fn, Head(fn.order))
    /\ phase' = "teardown" /\ source' = EmptyFunction
    /\ UNCHANGED <<frames, fuel, scope>>

(* Nothing is left of the function, or an assertion has ended the process. *)
Gone ==
    /\ phase = "teardown" /\ (fn.order = <<>> \/ fn.fault)
    /\ UNCHANGED vars

Next ==
    \/ Codegen \/ StartPass
    \/ SimplifyTrivialPhi \/ SimplifyTrivialBranch
    \/ DeadBasicBlockElem \/ DeadInstructionElem
    \/ Converge \/ DestroyBlock \/ Gone

Spec == InitTranslation /\ [][Next]_vars

----------------------------------------------------------------------------
(* What the properties speak of.                                           *)

Blocks == DOMAIN fn.code

(* The blocks that control can reach from the entry without entering x.    *)
ReachableAvoiding(F, x) ==
    LET grow(S) == S \union ((UNION {getOutwardFlow(F, b) : b \in S}) \ {x})
        after[j \in 0 .. Len(F.order)] ==
            IF j = 0 THEN {Head(F.order)} \ {x} ELSE grow(after[j - 1])
    IN  after[Len(F.order)]

Reachable(F) == ReachableAvoiding(F, Nil)

Dominates(F, a, b) == b \notin ReachableAvoiding(F, a)

(* What the dominator pass starts from.                                    *)
Pass == INSTANCE Dominator

FlowGraph ==
    [entry |-> Head(fn.order), order |-> fn.order,
     inward |-> [b \in Blocks |-> getInwardFlow(fn, b)]]

PhisFirst(F) ==
    \A b \in DOMAIN F.code : Phis(F, b) = SubSeq(F.code[b], 1, Len(Phis(F, b)))

(* The use lists are exact: a node's list names an instruction once for    *)
(* every reference that instruction has to the node, and no reference      *)
(* outlives its node.  ASTNode::remove_use, the destructors and the flow   *)
(* queries of BasicBlock all rely on it.                                   *)
UsesExact == ~fn.fault =>
    /\ DOMAIN fn.uses = Blocks \union DOMAIN fn.inst
    /\ \A i \in DOMAIN fn.inst :
           ToSet(fn.inst[i].refs) \subseteq DOMAIN fn.uses \union {Nil}
    /\ \A n \in DOMAIN fn.uses :
           /\ ToSet(fn.uses[n]) \subseteq DOMAIN fn.inst
           /\ \A i \in DOMAIN fn.inst :
                  Times(fn.uses[n], i) = Times(fn.inst[i].refs, n)

(* No assertion of the use lists, the phis or the branches fails while the *)
(* function is built and simplified: in particular no pass ever moves the  *)
(* false target of a conditional, which Conditional::setFalse cannot do.   *)
NoAssertionFails == phase # "teardown" => ~fn.fault

(* A phi has a candidate for each predecessor of its block and for no      *)
(* other block, after every bytecode instruction and after every run of    *)
(* the pass.  A phi that names a path twice (a br_table whose labels       *)
(* repeat) is left out: a merge moves it away from the head of its block.  *)
PhisMatchFlow ==
    phase # "teardown" =>
        \A b \in Blocks : \A i \in ToSet(Phis(fn, b)) :
            LET paths == [k \in DOMAIN Candidates(fn.inst[i]) |->
                              Candidates(fn.inst[i])[k][2]]
            IN  Cardinality(ToSet(paths)) = Len(paths)
                    => ToSet(paths) = getInwardFlow(fn, b)

(* The visitor's values are what validation has on its operand stack: as   *)
(* many and of the same types, in every visitor that is still at work.     *)
StacksAgree ==
    \A k \in DOMAIN frames :
        [j \in DOMAIN frames[k].values |-> fn.inst[frames[k].values[j]].type]
            = frames[k].types

(* While SimplifyCFG runs, whatever a block that control can reach uses is  *)
(* there, and its definition dominates the use; a phi uses its value at    *)
(* the end of the path.  When the pass has converged the function is what  *)
(* the dominator pass expects.  The translation to LLVM visits the blocks  *)
(* in a preorder of the dominator tree and asserts that every operand has  *)
(* been translated.                                                        *)
OperandsDominate ==
    LET At(v) == Parent(fn, v)
        Defined(v, b) == v \in DOMAIN fn.inst /\ Dominates(fn, At(v), b)
        Before(v, i) == \E j, k \in DOMAIN fn.code[At(i)] :
                            j < k /\ fn.code[At(i)][j] = v /\ fn.code[At(i)][k] = i
        R == Reachable(fn)
    IN  /\ phase \in {"simplify", "done"} =>
               \A b \in R : \A i \in ToSet(fn.code[b]) :
                   LET I == fn.inst[i]
                   IN  IF I.kind = "phi"
                       THEN \A c \in ToSet(Candidates(I)) :
                                c[2] \in R => Defined(c[1], c[2])
                       ELSE \A k \in Values(I) :
                                /\ Defined(I.refs[k], b)
                                /\ At(I.refs[k]) = b => Before(I.refs[k], i)
        /\ phase = "done" => Pass!IsFlow(FlowGraph)

----------------------------------------------------------------------------
(* The behaviour of a function: it is executed from its entry, with the    *)
(* choices of the conditionals and switches it meets given by a script.    *)
(* What can be observed is the trace of the calls, of the conditions that  *)
(* choose between blocks and of the results, each with the value it is     *)
(* about; a value is the list of the instructions that computed it.        *)

Scripts == [1..3 -> {1, 2}]
MaxSteps == 40      \* blocks entered by one execution
MaxTrace == 4       \* observations compared
Stopped == 0

Execution(F, script) ==
    LET start == [at |-> Head(F.order), prev |-> Nil, choices |-> script,
                  env |-> [i \in DOMAIN F.inst |-> <<>>],
                  entered |-> [i \in DOMAIN F.inst |-> <<>>], trace |-> <<>>]
        val(s, v) == IF v = Nil THEN <<>> ELSE s.env[v]
        args(s, i) == FlattenSeq([k \in 1..Len(F.inst[i].refs) |->
                                      val(s, F.inst[i].refs[k])])
        \* the value a phi takes on the path from the previous block: all
        \* phis of a block read the values there were when it was entered
        incoming(s, i) ==
            LET c == SelectSeq(Candidates(F.inst[i]), LAMBDA x : x[2] = s.prev)
            IN  IF c = <<>> \/ Head(c)[1] = Nil THEN <<>> ELSE s.entered[Head(c)[1]]
        observe(s, what) == [s EXCEPT !.trace = Append(@, what)]
        goto(s, b) == [s EXCEPT !.at = b, !.prev = s.at]
        choose(s, i) ==
            LET o == observe(s, val(s, F.inst[i].refs[1]))
            IN  IF Cardinality(Targets(F.inst[i])) = 1 THEN goto(s, F.inst[i].refs[2])
                ELSE IF s.choices = <<>> THEN [o EXCEPT !.at = Stopped]
                ELSE goto([o EXCEPT !.choices = Tail(@)],
                          F.inst[i].refs[1 + Head(s.choices)])
        exec(s, i) ==
            CASE F.inst[i].kind = "phi"    -> [s EXCEPT !.env[i] = incoming(s, i)]
              [] F.inst[i].kind \in {"const", "unary", "pack"}
                                           -> [s EXCEPT !.env[i] = <<i>> \o args(s, i)]
              [] F.inst[i].kind = "call"   -> observe(s, <<i>> \o args(s, i))
              [] F.inst[i].kind = "br"     -> goto(s, F.inst[i].refs[1])
              [] F.inst[i].kind \in {"cond", "switch"} -> choose(s, i)
              [] OTHER -> [observe(s, <<i>> \o args(s, i)) EXCEPT !.at = Stopped]
        step(s) ==
            IF s.at = Stopped \/ Len(s.trace) >= MaxTrace THEN s
            ELSE FoldLeft(exec, [s EXCEPT !.entered = s.env], F.code[s.at])
        after[k \in 0..MaxSteps] == IF k = 0 THEN start ELSE step(after[k - 1])
        trace == after[MaxSteps].trace
    IN  IF Len(trace) < MaxTrace THEN trace ELSE SubSeq(trace, 1, MaxTrace)

(* The pass changes nothing that can be observed: the simplified function  *)
(* makes the same calls, tests the same conditions and returns the same    *)
(* values as the function the translation built, whatever way it goes.  A  *)
(* phi that is not at the head of its block has no meaning in LLVM either; *)
(* a merge leaves one there after a br_table that names a label twice.     *)
SameBehaviour ==
    phase = "done" /\ PhisFirst(fn) =>
        \A script \in Scripts : Execution(fn, script) = Execution(source, script)

----------------------------------------------------------------------------
(* Every run of the pass that is not the last one leaves fewer blocks and  *)
(* instructions, so that the driver's loop ends.                           *)
Size(F) == Cardinality(DOMAIN F.code) + Cardinality(DOMAIN F.inst)

EveryRunShrinks ==
    [][phase = "simplify" /\ phase' = "simplify" => Size(fn') < Size(fn)]_vars

----------------------------------------------------------------------------
(* What the source says and its code does not keep.                        *)

(* BasicBlock.cc:59 asserts that a block removes only its own              *)
(* instructions.  The destructor of a block that is the false target of a  *)
(* later conditional asks it to remove that conditional.                   *)
TeardownRemovesOwn == phase = "teardown" => ~fn.fault
=============================================================================
