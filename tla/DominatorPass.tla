--------------------------- MODULE DominatorPass ---------------------------
(***************************************************************************)
(* DominatorPass under SimpleFunctionPassDriver, and the walk over the     *)
(* tree it gives: run() goes over the blocks in the order of the function  *)
(* and updates the map in place, the driver calls it until nothing changed,*)
(* and the translation to LLVM visits the dominator tree in preorder.      *)
(***************************************************************************)
EXTENDS Dominator

CONSTANT Graphs    \* the control flow graphs of the functions

ASSUME GraphsAssumption == \A G \in Graphs : IsFlow(G)

VARIABLES graph,    \* the function
          dom,      \* DominatorMap
          at,       \* how many blocks this run() has done
          changed,  \* Changed of this run()
          phase,    \* "pass", "tree" or "done"; "aborted"
          path,     \* the blocks from the root of the tree to the last visited
          visited   \* asPreorder, as far as it has got

vars == <<graph, dom, at, changed, phase, path, visited>>

Init ==
    /\ graph \in Graphs
    /\ dom = Prepared(graph)
    /\ at = 0 /\ changed = FALSE
    /\ phase = "pass" /\ path = <<>> /\ visited = <<>>

(* The next block of this run().                                           *)
Update ==
    /\ phase = "pass" /\ at < Len(graph.order)
    /\ LET b == graph.order[at + 1]
       IN  /\ dom' = [dom EXCEPT ![b] = Transfer(graph, dom, b)]
           /\ changed' = (changed \/ Transfer(graph, dom, b) # dom[b])
    /\ at' = at + 1
    /\ UNCHANGED <<graph, phase, path, visited>>

(* A plausible slip, for the mutants: Changed outlives its run. *)
RunAgainChanged ==
    /\ phase = "pass" /\ at = Len(graph.order) /\ changed
    /\ at' = 0 /\ changed' = changed
    /\ UNCHANGED <<graph, dom, phase, path, visited>>

(* run() answers InProgress: the driver calls it again.                    *)
RunAgain ==
    /\ phase = "pass" /\ at = Len(graph.order) /\ changed
    /\ at' = 0 /\ changed' = FALSE
    /\ UNCHANGED <<graph, dom, phase, path, visited>>

(* run() answers Converged: the tree is built and its root is the first of *)
(* the preorder.                                                           *)
Converged == phase = "pass" /\ at = Len(graph.order) /\ ~changed
Converge ==
    /\ Converged /\ OneImmediateDom(dom)
    /\ phase' = "tree"
    /\ path' = <<graph.entry>> /\ visited' = <<graph.entry>>
    /\ UNCHANGED <<graph, dom, at, changed>>

(* A block with two candidates: the assertion of getImmediateDom ends the  *)
(* process while the tree is built.                                        *)
Abort ==
    /\ Converged /\ ~OneImmediateDom(dom)
    /\ phase' = "aborted"
    /\ UNCHANGED <<graph, dom, at, changed, path, visited>>

ToVisit(n) == Children(dom, n) \ {visited[k] : k \in DOMAIN visited}

(* collectInPreOrder goes on at the deepest block that has a child left.   *)
VisitChild ==
    /\ phase = "tree"
    /\ \E k \in DOMAIN path :
           /\ \A d \in DOMAIN path : d > k => ToVisit(path[d]) = {}
           /\ \E c \in ToVisit(path[k]) :
                  /\ path' = Append(SubSeq(path, 1, k), c)
                  /\ visited' = Append(visited, c)
    /\ UNCHANGED <<graph, dom, at, changed, phase>>

Finish ==
    /\ phase = "tree" /\ \A d \in DOMAIN path : ToVisit(path[d]) = {}
    /\ phase' = "done"
    /\ UNCHANGED <<graph, dom, at, changed, path, visited>>

Next == Update \/ RunAgain \/ Converge \/ Abort \/ VisitChild \/ Finish

(* The loops of the driver, of run() and of the walk run on one thread.    *)
Spec == Init /\ [][Next]_vars /\ WF_vars(Next)

----------------------------------------------------------------------------
(* What dominance means: a dominates b when no path from the entry to b    *)
(* avoids a, that is, when some set of blocks holds what can be reached    *)
(* without a and does not hold b.                                          *)

Avoiding(G, a) ==
    {S \in SUBSET (Blocks(G) \ {a}) :
        /\ G.entry \in S \/ G.entry = a
        /\ \A b \in Blocks(G) \ {a} : G.inward[b] \intersect S # {} => b \in S}

Dominates(G, a, b) == a = b \/ \E S \in Avoiding(G, a) : b \notin S

Reachable(G, b) ==
    \A S \in SUBSET Blocks(G) :
        /\ G.entry \in S
        /\ \A x \in Blocks(G) : G.inward[x] \intersect S # {} => x \in S
        => b \in S

(* When run() has converged the map is dominance itself, for the blocks of *)
(* dead loops too, which every block dominates: the intersections started  *)
(* from N and updated in place have not stopped above the fixed point, nor *)
(* gone below it.                                                          *)
DominatorsExact ==
    phase # "pass" =>
        \A b \in Blocks(graph) : dom[b] = {a \in Blocks(graph) : Dominates(graph, a, b)}

(* One block alone cannot be reached, and of the others two do not         *)
(* dominate each other either way, so that more than one of them is a leaf *)
(* of the tree.  The dead block is a loop, or nothing would branch to it.  *)
DeadLoopUnderFork(G) ==
    \E b \in Blocks(G) :
        /\ ~Reachable(G, b)
        /\ \A x \in Blocks(G) \ {b} : Reachable(G, x)
        /\ \E x, y \in Blocks(G) \ {b} : ~Dominates(G, x, y) /\ ~Dominates(G, y, x)

(* Building the tree aborts on these graphs and on no others: every block  *)
(* dominates the dead one, so that all leaves are candidates.  Two dead    *)
(* blocks have each other for the only candidate, more have none.          *)
AbortsOnDeadLoop ==
    /\ phase = "aborted" => DeadLoopUnderFork(graph)
    /\ phase \in {"tree", "done"} => ~DeadLoopUnderFork(graph)

(* Where the tree is built, the walk visits every block that can be        *)
(* reached, none twice, and each only after all blocks that dominate it,   *)
(* whatever order the unordered map gives the children: a value is         *)
(* translated before the code it dominates.                                *)
VisitedInOrder ==
    phase = "done" =>
        /\ \A b \in Blocks(graph) :
               Reachable(graph, b) => \E k \in DOMAIN visited : visited[k] = b
        /\ \A j, k \in DOMAIN visited : visited[j] = visited[k] => j = k
        /\ \A k \in DOMAIN visited : \A a \in Blocks(graph) \ {visited[k]} :
               Dominates(graph, a, visited[k]) => \E j \in 1..(k - 1) : visited[j] = a

(* The preorder has dominators first, and it is had but for the graphs on  *)
(* which the assertion of Dominator.cc:54 fails, which are these.          *)
DominatorsFirst == AbortsOnDeadLoop /\ VisitedInOrder

(* The driver's loop ends on every graph, reducible or not, and the walk   *)
(* after it, unless the process does.                                      *)
PassEnds == <>(phase \in {"done", "aborted"})
=============================================================================
