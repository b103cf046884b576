---------------------------- MODULE SimplifyCFG ----------------------------
(***************************************************************************)
(* The SimplifyCFG pass.  One run() walks the blocks in list order, tries  *)
(* on each the four rewritings in a fixed order, and returns InProgress    *)
(* after the first that succeeds; the driver calls it until it finds none. *)
(* Each rewriting is an operator that says whether it applies to a block   *)
(* and one that gives the function it leaves.                              *)
(***************************************************************************)
EXTENDS MIR

(* simplifyTrivialPhi: the first phi with exactly one candidate.           *)
TrivialPhis(F, b) ==
    LET phis == Phis(F, b)
    IN  Picked(phis, {k \in DOMAIN phis : Len(F.inst[phis[k]].refs) = 2})

HasTrivialPhi(F, b) == TrivialPhis(F, b) # <<>>

(* A plausible slip, for the mutants: the phi goes, its users do not move. *)
simplifyTrivialPhiErased(F, b) == eraseInst(F, Head(TrivialPhis(F, b)))

simplifyTrivialPhi(F, b) ==
    LET phi == Head(TrivialPhis(F, b))
    IN  eraseInst(replaceAllUseWith(F, phi, F.inst[phi].refs[1]), phi)

(* simplifyTrivialBranch: a block and its only predecessor, when it is the *)
(* only successor of that one.                                             *)
Previous(F, b) == CHOOSE p \in getInwardFlow(F, b) : TRUE

(* A plausible slip, for the mutants: the successors are not counted. *)
HasTrivialBranchAny(F, b) == Cardinality(getInwardFlow(F, b)) = 1

HasTrivialBranch(F, b) ==
    /\ Cardinality(getInwardFlow(F, b)) = 1
    /\ Cardinality(getOutwardFlow(F, Previous(F, b))) = 1

simplifyTrivialBranch(F, b) ==
    LET p == Previous(F, b)
        S == splice(pop_back(F, p), p, b)
    IN  eraseBlock(replaceAllUseWith(S, b, p), b)

(* deadBasicBlockElem: a block that nothing branches to leaves the phis of *)
(* its successors and goes.                                                *)
HasDeadBasicBlock(F, b) == ~isEntryBlock(F, b) /\ hasNoInwardFlow(F, b)

(* A plausible slip, for the mutants: the candidate of the dead block stays. *)
Unfiltered(F, phi, b) == F.inst[phi].refs

Filtered(F, phi, b) ==
    LET refs == F.inst[phi].refs
        kept == {k \in 1 .. (Len(refs) \div 2) : refs[2 * k] # b}
    IN  Picked(refs, {2 * k : k \in kept} \union {2 * k - 1 : k \in kept})

(* The phis of the successors, in the order of their set of pointers.      *)
PhisAfter(F, b) == UNION {ToSet(Phis(F, s)) : s \in getOutwardFlow(F, b)}

leavePhis(F, b) ==
    LET phis == SetToSeq(PhisAfter(F, b))
        after[j \in 0 .. Len(phis)] ==
            IF j = 0 THEN F
            ELSE setCandidates(after[j - 1], phis[j], Filtered(after[j - 1], phis[j], b))
    IN  after[Len(phis)]

(* A plausible slip, for the mutants: the phis are done, the block stays. *)
deadBasicBlockElemKept(F, b) == leavePhis(F, b)

deadBasicBlockElem(F, b) == eraseBlock(leavePhis(F, b), b)

(* deadInstructionElem: the first instruction without users that may go.   *)
DeadInstructions(F, b) ==
    LET code == F.code[b]
    IN  Picked(code, {k \in DOMAIN code : /\ F.uses[code[k]] = <<>>
                                          /\ F.inst[code[k]].kind \in Droppable})

HasDeadInstruction(F, b) == DeadInstructions(F, b) # <<>>

deadInstructionElem(F, b) == eraseInst(F, Head(DeadInstructions(F, b)))

(* The block at which run() stops, if it stops at one.                     *)
Rewritable(F, b) ==
    \/ HasTrivialPhi(F, b) \/ HasTrivialBranch(F, b)
    \/ HasDeadBasicBlock(F, b) \/ HasDeadInstruction(F, b)

Converged(F) == \A b \in ToSet(F.order) : ~Rewritable(F, b)

FirstRewritable(F) == F.order[SelectInSeq(F.order, LAMBDA b : Rewritable(F, b))]

(* What the run leaves: the first rewriting that applies there.            *)
Simplified(F) ==
    LET b == FirstRewritable(F)
    IN  CASE HasTrivialPhi(F, b) -> simplifyTrivialPhi(F, b)
          [] ~HasTrivialPhi(F, b) /\ HasTrivialBranch(F, b) -> simplifyTrivialBranch(F, b)
          [] ~HasTrivialPhi(F, b) /\ ~HasTrivialBranch(F, b) /\ HasDeadBasicBlock(F, b)
               -> deadBasicBlockElem(F, b)
          [] OTHER -> deadInstructionElem(F, b)
=============================================================================
