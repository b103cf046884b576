----------------------------- MODULE Dominator -----------------------------
(***************************************************************************)
(* The dominator pass, as operators on a control flow graph                *)
(*   [entry  |-> the entry block,                                          *)
(*    order  |-> the blocks as the function lists them,                    *)
(*    inward |-> for every block its getInwardFlow]                        *)
(* and on the map DominatorMap, a function from blocks to sets of blocks.  *)
(* DominatorPass runs them; FunctionTranslation uses IsFlow.               *)
(***************************************************************************)
EXTENDS Integers, FiniteSets, Sequences

Blocks(G) == DOMAIN G.inward

(* The functions the pass is given: nothing branches to the entry, which   *)
(* MIRCodegen never makes a label, and something branches to every other   *)
(* block, as SimplifyCFG has deleted the others.                           *)
IsFlow(G) ==
    /\ G.inward \in [Blocks(G) -> SUBSET Blocks(G)]
    /\ G.entry \in Blocks(G)
    /\ \A b \in Blocks(G) : G.inward[b] = {} <=> b = G.entry
    /\ G.order \in Seq(Blocks(G))
    /\ \A b \in Blocks(G) : \E k \in 1..Len(G.order) : G.order[k] = b

(* prepare: the entry is dominated by itself, any other block by all (N).  *)
Prepared(G) ==
    [b \in Blocks(G) |-> IF b = G.entry THEN {b} ELSE Blocks(G)]

(* A plausible slip, for the mutants: the union of what the predecessors have. *)
MetUnion(G, dom, b) == UNION {dom[p] : p \in G.inward[b]}

(* The intersection over the predecessors; N is never seen without one.    *)
Met(G, dom, b) ==
    {a \in Blocks(G) : G.inward[b] # {} /\ \A p \in G.inward[b] : a \in dom[p]}

(* What run() stores for block b.                                          *)
Transfer(G, dom, b) == Met(G, dom, b) \union {b}

strictlyDominate(dom, v, u) == v # u /\ v \in dom[u]

(* The candidates of getImmediateDom: the strict dominators that strictly  *)
(* dominate no other strict dominator.                                     *)
ImmediateDoms(dom, b) ==
    {c \in dom[b] \ {b} : \A o \in dom[b] \ {b, c} : ~strictlyDominate(dom, c, o)}

(* Its assertion, at a second candidate.  buildDomTree asks it of every    *)
(* block of the map, those that cannot be reached included.                *)
OneImmediateDom(dom) ==
    \A b \in DOMAIN dom : \A c, o \in ImmediateDoms(dom, b) : c = o

(* A plausible slip, for the mutants: a child of every dominator. *)
ChildrenOfAny(dom, n) == {b \in DOMAIN dom \ {n} : n \in dom[b]}

(* buildDomTree, when the assertion holds: the blocks below n, in the      *)
(* order of an unordered map.                                              *)
Children(dom, n) == {b \in DOMAIN dom : ImmediateDoms(dom, b) = {n}}
=============================================================================
