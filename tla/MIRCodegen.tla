----------------------------- MODULE MIRCodegen -----------------------------
(***************************************************************************)
(* FunctionTranslationTask: the translation of the structured bytecode of  *)
(* one function into basic blocks.  The bytecode is not written down: at   *)
(* every step the environment picks the next instruction among those that  *)
(* validation lets through at this point, so that the behaviours are the   *)
(* translations of every validated body within the bounds of a scope       *)
(* (unreachable and the ends of bodies are free, so that every body can be *)
(* closed).  A translation visitor on the C++ stack is a frame:            *)
(*   cur     CurrentBasicBlock                                             *)
(*   before  InsertBefore                                                  *)
(*   values  the visitor's Values                                          *)
(*   types   the operand types validation has at this point                *)
(*   label, labelTypes   the entry this body has on Context.Labels         *)
(*   to, results         TransferTo and the NumMerges of translate         *)
(*   alt     the visitor of the else branch while the then branch is being *)
(*           translated, as a sequence of length at most one               *)
(***************************************************************************)
EXTENDS MIR

CONSTANTS Types,     \* value types; conditions are of CondType
          CondType,
          Scopes     \* the sets of function bodies to translate

(* A scope bounds the bodies: the results of the function, the block types *)
(* <<parameters, results>> of its blocks and of its loops, the bytecode    *)
(* instructions that occur, those every body starts with, and how many     *)
(* there are.                                                              *)
FunctionType == Seq(Types) \X Seq(Types)

ASSUME ConstantsAssumption ==
    /\ CondType \in Types
    /\ \A S \in Scopes :
           /\ S.results \in Seq(Types)
           /\ S.blockTypes \subseteq FunctionType
           /\ S.loopTypes \subseteq S.blockTypes
           /\ S.prefix \in Seq(S.bytecodes)
           /\ S.fuel \in Nat

VARIABLES fn,      \* the function under construction
          frames,  \* the visitors, the innermost one last
          fuel,    \* how many bytecode instructions may still come
          scope    \* the scope of this body

codegenVars == <<fn, frames, fuel, scope>>

Results == scope.results

----------------------------------------------------------------------------
(* The context and the visitor stack.                                      *)

Entry == 1
Exit  == 2

(* TranslationContext: the entry, then the exit block with a phi for every *)
(* result, a pack for several of them, and the return.                     *)
TranslationContext ==
    LET E == BuildBasicBlock(BuildBasicBlock(EmptyFunction, Nil), Nil)
        P == BuildPhis(E, Exit, Results)
        K == BuildInst(P, Exit, "pack", Void, P.code[Exit])
    IN  CASE Len(Results) = 0 -> BuildInst(P, Exit, "return", Void, <<>>)
          [] Len(Results) = 1 -> BuildInst(P, Exit, "return", Void, P.code[Exit])
          [] OTHER -> BuildInst(K, Exit, "return", Void, <<P.next>>)

Body(cur, before, values, types, label, labelTypes, to, results) ==
    [cur |-> cur, before |-> before, values |-> values, types |-> types,
     label |-> label, labelTypes |-> labelTypes,
     to |-> to, results |-> results, alt |-> <<>>]

(* perform pushes the exit as the outermost label and translates the body. *)
Init ==
    /\ scope \in Scopes
    /\ fn = TranslationContext
    /\ frames = << Body(Entry, Exit, <<>>, <<>>, Exit, Results, Exit, Results) >>
    /\ fuel = scope.fuel

Top == Last(frames)
Depths == 0 .. (Len(frames) - 1)
Label(d) == frames[Len(frames) - d]

(* peek and pop of the visitor's values, and the same of types.            *)
peek(s, n) == SubSeq(s, Len(s) - n + 1, Len(s))
pop(s, n)  == SubSeq(s, 1, Len(s) - n)

(* Validation lets an instruction through when the operands it takes are   *)
(* on the operand stack; ValueAccessView asserts that the visitor has      *)
(* pushed as many values.                                                  *)
Takes(ts) ==
    /\ Len(Top.types) >= Len(ts) /\ peek(Top.types, Len(ts)) = ts
    /\ Len(Top.values) >= Len(ts)

(* addMergeCandidates: the first instructions of the merge block, which    *)
(* dyn_cast asserts to be phis, are zipped with the values.                *)
addMergeCandidates(F, target, from, values) ==
    LET code == F.code[target]
        pairs == Smaller(Len(code), Len(values))
        after[j \in 0 .. pairs] ==
            IF j = 0 THEN F
            ELSE IF F.inst[code[j]].kind = "phi"
            THEN addCandidate(after[j - 1], code[j], values[j], from)
            ELSE [after[j - 1] EXCEPT !.fault = TRUE]
    IN  after[pairs]

(* The frames once the innermost body is over: its else branch, if it has  *)
(* one, is next; otherwise the label is popped.                            *)
Leave ==
    IF Top.alt # <<>> THEN Append(Front(frames), Head(Top.alt))
    ELSE Front(frames)

(* Visit one bytecode instruction named op.                                *)
Visit(op) ==
    /\ frames # <<>> /\ ~fn.fault
    /\ fuel > 0 /\ fuel' = fuel - 1
    /\ LET k == scope.fuel - fuel'
       IN  IF k \in DOMAIN scope.prefix THEN op = scope.prefix[k]
           ELSE op \in scope.bytecodes

(* The visitor goes on in the same block.                                  *)
Stay(F, values, types) ==
    /\ fn' = F
    /\ frames' = Append(Front(frames),
                        [Top EXCEPT !.values = values, !.types = types])

----------------------------------------------------------------------------
(* Instructions that do not branch.                                        *)

(* An instruction without operands that leaves a value: a constant, the    *)
(* reading of a local or a global.                                         *)
VisitConst ==
    /\ Visit("const")
    /\ \E t \in Types :
           Stay(BuildInst(fn, Top.cur, "const", t, <<>>),
                Append(Top.values, fn.next), Append(Top.types, t))

(* An instruction that computes a value from a value.                      *)
VisitUnary ==
    /\ Visit("unary")
    /\ \E t \in Types :
           /\ Takes(<<t>>)
           /\ Stay(BuildInst(fn, Top.cur, "unary", t, peek(Top.values, 1)),
                   Append(pop(Top.values, 1), fn.next), Top.types)

(* The call of a function that takes a value and returns none.             *)
VisitCall ==
    /\ Visit("call")
    /\ \E t \in Types :
           /\ Takes(<<t>>)
           /\ Stay(BuildInst(fn, Top.cur, "call", Void, peek(Top.values, 1)),
                   pop(Top.values, 1), pop(Top.types, 1))

VisitDrop ==
    /\ Visit("drop")
    /\ \E t \in Types :
           Takes(<<t>>) /\ Stay(fn, pop(Top.values, 1), pop(Top.types, 1))

----------------------------------------------------------------------------
(* Blocks, loops and conditionals: the body of each has a visitor of its   *)
(* own, and the visitor that meets it goes on in the landing block with    *)
(* the landing block's phis as values.                                     *)

(* A plausible slip, for the mutants: the parameters are not popped. *)
LandedUnpopped(F, landing, operands, results) ==
    [Top EXCEPT !.cur = landing,
                !.values = @ \o Phis(F, landing),
                !.types  = pop(@, operands) \o results]

Landed(F, landing, operands, results) ==
    [Top EXCEPT !.cur = landing,
                !.values = pop(@, operands) \o Phis(F, landing),
                !.types  = pop(@, operands) \o results]

VisitBlock ==
    /\ Visit("block")
    /\ \E bt \in scope.blockTypes :
        LET params  == bt[1]
            results == bt[2]
            n       == Len(params)
            landing == fn.next
            F       == BuildPhis(BuildBasicBlock(fn, Top.before), landing, results)
        IN  /\ Takes(params)
            /\ fn' = F
            /\ frames' = Front(frames)
                  \o << Landed(F, landing, n, results),
                        Body(Top.cur, landing, peek(Top.values, n), params,
                             landing, results, landing, results) >>

(* A loop has a phi for each of the pairs that its results and the values  *)
(* of its parameters zip to, of the type of the result.                    *)
MergePhis(F, loop, from, results, values) ==
    LET merge(G, j) == addCandidate(BuildInst(G, loop, "phi", results[j], <<>>),
                                    G.next, values[j], from)
        pairs == Smaller(Len(results), Len(values))
        after[j \in 0 .. pairs] ==
            IF j = 0 THEN F ELSE merge(after[j - 1], j)
    IN  after[pairs]

(* The label of a loop stands for the loop block and takes the parameters. *)
VisitLoop ==
    /\ Visit("loop")
    /\ \E bt \in scope.loopTypes :
        LET params  == bt[1]
            results == bt[2]
            n       == Len(params)
            loop    == fn.next
            landing == fn.next + 1
            B == BuildBasicBlock(BuildBasicBlock(fn, Top.before), Top.before)
            J == BuildInst(B, Top.cur, "br", Void, <<loop>>)
            L == MergePhis(J, loop, Top.cur, results, peek(Top.values, n))
            F == BuildPhis(L, landing, results)
        IN  /\ Takes(params)
            /\ fn' = F
            /\ frames' = Front(frames)
                  \o << Landed(F, landing, n, results),
                        Body(loop, landing, L.code[loop], params,
                             loop, params, landing, results) >>

VisitIfElse ==
    /\ Visit("if_else")
    /\ \E bt \in scope.blockTypes :
        LET params  == bt[1]
            results == bt[2]
            n       == Len(params)
            true    == fn.next
            false   == fn.next + 1
            landing == fn.next + 2
            args    == peek(pop(Top.values, 1), n)
            B == BuildBasicBlock(BuildBasicBlock(BuildBasicBlock(
                     fn, Top.before), Top.before), Top.before)
            C == BuildInst(B, Top.cur, "cond", Void, <<Last(Top.values), true, false>>)
            F == BuildPhis(C, landing, results)
            branch(at, before) == Body(at, before, args, params,
                                       landing, results, landing, results)
        IN  /\ Takes(Append(params, CondType))
            /\ fn' = F
            /\ frames' = Front(frames)
                  \o << Landed(F, landing, n + 1, results),
                        [branch(true, false) EXCEPT !.alt = <<branch(false, landing)>>] >>

(* Validation admits an if without an else only without parameters and     *)
(* results.                                                                *)
VisitIf ==
    /\ Visit("if")
    /\ Takes(<<CondType>>)
    /\ LET true    == fn.next
           landing == fn.next + 1
           B == BuildBasicBlock(BuildBasicBlock(fn, Top.before), Top.before)
       IN  /\ fn' = BuildInst(B, Top.cur, "cond", Void,
                              <<Last(Top.values), true, landing>>)
           /\ frames' = Front(frames)
                 \o << Landed(B, landing, 1, <<>>),
                       Body(true, landing, <<>>, <<>>, landing, <<>>, landing, <<>>) >>

----------------------------------------------------------------------------
(* Branches.  What follows a terminating instruction in its body is never  *)
(* translated.                                                             *)

VisitBr ==
    /\ Visit("br")
    /\ \E d \in Depths :
        LET L == Label(d)
            n == Len(L.labelTypes)
            F == addMergeCandidates(fn, L.label, Top.cur, peek(Top.values, n))
        IN  /\ Takes(L.labelTypes)
            /\ fn' = BuildInst(F, Top.cur, "br", Void, <<L.label>>)
    /\ frames' = Leave

(* The values stay for the code that follows in the false block.           *)
VisitBrIf ==
    /\ Visit("br_if")
    /\ \E d \in Depths :
        LET L     == Label(d)
            n     == Len(L.labelTypes)
            vs    == pop(Top.values, 1)
            false == fn.next
            F == addMergeCandidates(BuildBasicBlock(fn, Top.before),
                                    L.label, Top.cur, peek(vs, n))
        IN  /\ Takes(Append(L.labelTypes, CondType))
            /\ fn' = BuildInst(F, Top.cur, "cond", Void,
                               <<Last(Top.values), L.label, false>>)
            /\ frames' = Append(Front(frames),
                                [Top EXCEPT !.cur = false, !.values = vs,
                                            !.types = pop(@, 1)])

(* A table with one target besides its default; a label may come twice.    *)
VisitBrTable ==
    /\ Visit("br_table")
    /\ \E d, e \in Depths :
        LET D  == Label(d)
            T  == Label(e)
            vs == peek(pop(Top.values, 1), Len(D.labelTypes))
            F == addMergeCandidates(
                     addMergeCandidates(fn, D.label, Top.cur, vs),
                     T.label, Top.cur, vs)
        IN  /\ T.labelTypes = D.labelTypes
            /\ Takes(Append(D.labelTypes, CondType))
            /\ fn' = BuildInst(F, Top.cur, "switch", Void,
                               <<Last(Top.values), D.label, T.label>>)
    /\ frames' = Leave

VisitReturn ==
    /\ Visit("return")
    /\ Takes(Results)
    /\ fn' = addMergeCandidates(BuildInst(fn, Top.cur, "br", Void, <<Exit>>),
                                Exit, Top.cur, peek(Top.values, Len(Results)))
    /\ frames' = Leave

VisitUnreachable ==
    /\ frames # <<>> /\ ~fn.fault
    /\ fn' = BuildInst(fn, Top.cur, "unreachable", Void, <<>>)
    /\ frames' = Leave
    /\ UNCHANGED fuel

(* The end of a body that can be reached: translate branches to TransferTo *)
(* and hands over the merge values.                                        *)
EndBody ==
    /\ frames # <<>> /\ ~fn.fault
    /\ Top.types = Top.results /\ Len(Top.values) >= Len(Top.results)
    /\ fn' = addMergeCandidates(BuildInst(fn, Top.cur, "br", Void, <<Top.to>>),
                                Top.to, Top.cur,
                                peek(Top.values, Len(Top.results)))
    /\ frames' = Leave
    /\ UNCHANGED fuel

Translate ==
    \/ VisitConst \/ VisitUnary \/ VisitCall \/ VisitDrop
    \/ VisitBlock \/ VisitLoop \/ VisitIfElse \/ VisitIf
    \/ VisitBr \/ VisitBrIf \/ VisitBrTable \/ VisitReturn \/ VisitUnreachable
    \/ EndBody
=============================================================================
