------------------------ MODULE DominatorPass_proofs ------------------------
(***************************************************************************)
(* The map that DominatorPass converges to is dominance, for every set of  *)
(* control flow graphs.  The iteration comes from above: a block is never  *)
(* dropped from the dominators of another one that it dominates (Above),   *)
(* because the set of blocks that can be reached without it holds none of  *)
(* the other's predecessors.  When a run has changed nothing so far, every *)
(* block it has seen satisfies the equation of the pass (Settled); and a   *)
(* map that satisfies it everywhere holds nothing but dominators, because  *)
(* the blocks that lack a can be reached without a: they are a set that    *)
(* Dominates asks for (FixedPointIsDominance).                             *)
(*                                                                         *)
(* When the tree can be built: the assertion of getImmediateDom fails      *)
(* exactly on the graphs with a dead loop under a fork (FailsOnDeadLoop).  *)
(*                                                                         *)
(* The preorder of the dominator tree, for every set of control flow       *)
(* graphs.  Dominance is a partial order where blocks can be reached       *)
(* (Transitive, MutuallyDead), and the dominators of such a block are a    *)
(* chain (Chain), so that it has exactly one immediate dominator, which    *)
(* the assertion of getImmediateDom asks for (HasParent).  A block whose   *)
(* one immediate dominator has been visited has had all its dominators     *)
(* visited (ParentHasAll), also in a dead loop, where dominance is no      *)
(* order.  That nothing is left out is by the least block that would be:   *)
(* its parent has fewer dominators (Highest).                              *)
(***************************************************************************)
EXTENDS DominatorPass, FiniteInduction

(* The invariant of the pass: the entry has no dominator but itself, which *)
(* every block has among its own.                                          *)
TypeInv ==
    /\ graph \in Graphs
    /\ dom \in [Blocks(graph) -> SUBSET Blocks(graph)]
    /\ at \in 0..Len(graph.order)
    /\ changed \in BOOLEAN
    /\ phase \in {"pass", "tree", "done", "aborted"}

Reflexive ==
    /\ \A b \in Blocks(graph) : b \in dom[b]
    /\ dom[graph.entry] = {graph.entry}

Above ==
    \A a, b \in Blocks(graph) : Dominates(graph, a, b) => a \in dom[b]

Settled ==
    ~changed => \A k \in 1..at :
        dom[graph.order[k]] = Transfer(graph, dom, graph.order[k])

Over == phase # "pass" => ~changed /\ at = Len(graph.order)

IInv == TypeInv /\ Reflexive /\ Above /\ Settled /\ Over

----------------------------------------------------------------------------
(* The equation of the pass keeps types, and the entry as it is.           *)
LEMMA TransferType ==
    ASSUME NEW G, IsFlow(G), NEW d, NEW b \in Blocks(G)
    PROVE  /\ Transfer(G, d, b) \in SUBSET Blocks(G)
           /\ b \in Transfer(G, d, b)
           /\ b = G.entry => Transfer(G, d, b) = {G.entry}
    BY DEF Transfer, Met, IsFlow

(* Nothing but the entry dominates the entry.                              *)
LEMMA EntryDominators ==
    ASSUME NEW G, NEW a, Dominates(G, a, G.entry)
    PROVE  a = G.entry
    BY DEF Dominates, Avoiding

(* What dominates a block also dominates its predecessors.                 *)
LEMMA DominatesPredecessors ==
    ASSUME NEW G, IsFlow(G), NEW a \in Blocks(G), NEW b \in Blocks(G),
           a # b, Dominates(G, a, b)
    PROVE  /\ G.inward[b] # {}
           /\ \A p \in G.inward[b] : p \in Blocks(G) /\ Dominates(G, a, p)
<1>1. PICK S \in Avoiding(G, a) : b \notin S
    BY DEF Dominates
<1>2. b # G.entry
    BY <1>1 DEF Avoiding
<1>3. G.inward[b] # {} /\ G.inward[b] \subseteq Blocks(G)
    BY <1>2 DEF IsFlow
<1>4. ASSUME NEW p \in G.inward[b] PROVE p \notin S
    BY <1>1, <1>4 DEF Avoiding
<1>5. QED
    BY <1>1, <1>3, <1>4 DEF Dominates

(* Transfer keeps every dominator.                                         *)
LEMMA TransferAbove ==
    ASSUME NEW G, IsFlow(G), NEW d,
           \A a, b \in Blocks(G) : Dominates(G, a, b) => a \in d[b],
           NEW a \in Blocks(G), NEW b \in Blocks(G), Dominates(G, a, b)
    PROVE  a \in Transfer(G, d, b)
<1>1. CASE a = b
    BY <1>1 DEF Transfer
<1>2. CASE a # b
    BY <1>2, DominatesPredecessors DEF Transfer, Met
<1>3. QED
    BY <1>1, <1>2

(* A map that satisfies the equation of the pass at every block holds only *)
(* dominators.                                                             *)
LEMMA FixedPointIsDominance ==
    ASSUME NEW G, IsFlow(G), NEW d,
           \A x \in Blocks(G) : d[x] = Transfer(G, d, x),
           NEW a \in Blocks(G), NEW b \in Blocks(G), a \in d[b]
    PROVE  Dominates(G, a, b)
<1> DEFINE S == {x \in Blocks(G) : a \notin d[x]}
<1>1. a \notin S /\ S \subseteq Blocks(G) /\ b \notin S
    BY TransferType
<1>2. G.entry \in S \/ G.entry = a
    <2>1. G.entry \in Blocks(G)
        BY DEF IsFlow
    <2>2. d[G.entry] = {G.entry}
        BY <2>1, TransferType
    <2>3. QED
        BY <2>1, <2>2
<1>3. ASSUME NEW x \in Blocks(G) \ {a}, G.inward[x] \intersect S # {} PROVE x \in S
    <2>1. PICK p \in G.inward[x] : a \notin d[p]
        BY <1>3
    <2>2. a \notin Transfer(G, d, x)
        BY <1>3, <2>1 DEF Transfer, Met
    <2>3. QED
        BY <2>2, <1>3
<1>4. S \in Avoiding(G, a)
    BY <1>1, <1>2, <1>3 DEF Avoiding
<1>5. QED
    BY <1>1, <1>4 DEF Dominates

----------------------------------------------------------------------------
LEMMA InitInv == Init => IInv
<1> SUFFICES ASSUME Init PROVE IInv
    OBVIOUS
<1>1. IsFlow(graph)
    BY GraphsAssumption DEF Init
<1>2. TypeInv
    <2>1. Len(graph.order) \in Nat
        BY <1>1 DEF IsFlow
    <2>2. dom \in [Blocks(graph) -> SUBSET Blocks(graph)]
        BY <1>1 DEF Init, Prepared
    <2>3. graph \in Graphs /\ at = 0 /\ changed = FALSE /\ phase = "pass"
        BY DEF Init
    <2>4. at \in 0..Len(graph.order)
        BY <2>1, <2>3
    <2>5. QED
        BY <2>2, <2>3, <2>4 DEF TypeInv
<1>3. Reflexive
    BY <1>1 DEF Init, Prepared, Reflexive, IsFlow
<1>4. Above
    BY <1>1, EntryDominators DEF Init, Prepared, Above
<1>5. QED
    BY <1>2, <1>3, <1>4 DEF Init, IInv, Settled, Over

LEMMA NextInv == IInv /\ [Next]_vars => IInv'
<1> SUFFICES ASSUME IInv, [Next]_vars PROVE IInv'
    OBVIOUS
<1>0. IsFlow(graph)
    BY GraphsAssumption DEF IInv, TypeInv
<1>1. CASE Update
    <2> DEFINE b == graph.order[at + 1]
               t == Transfer(graph, dom, b)
    <2>1. at + 1 \in 1..Len(graph.order) /\ b \in Blocks(graph)
        BY <1>0, <1>1 DEF Update, IInv, TypeInv, IsFlow
    <2>2. t \in SUBSET Blocks(graph) /\ b \in t /\ (b = graph.entry => t = {graph.entry})
        BY <1>0, <2>1, TransferType
    <2>3. /\ dom' = [dom EXCEPT ![b] = t] /\ changed' = (changed \/ t # dom[b])
          /\ at' = at + 1 /\ graph' = graph /\ phase' = phase /\ phase = "pass"
        BY <1>1 DEF Update
    <2> HIDE DEF b, t
    <2>4. TypeInv'
        BY <2>1, <2>2, <2>3 DEF IInv, TypeInv
    <2>5. Reflexive'
        BY <2>1, <2>2, <2>3, <1>0 DEF IInv, TypeInv, Reflexive, IsFlow
    <2>6. Above'
        <3> SUFFICES ASSUME NEW x \in Blocks(graph), NEW y \in Blocks(graph),
                            Dominates(graph, x, y)
                     PROVE  x \in dom'[y]
            BY <2>3 DEF Above
        <3>1. CASE y = b
            <4>1. x \in Transfer(graph, dom, y)
                BY <1>0, TransferAbove DEF IInv, Above
            <4>2. QED
                BY <3>1, <4>1, <2>1, <2>3 DEF IInv, TypeInv, t
        <3>2. CASE y # b
            BY <3>2, <2>3 DEF IInv, TypeInv, Above
        <3>3. QED
            BY <3>1, <3>2
    <2>7. Settled'
        <3> SUFFICES ASSUME ~changed', NEW k \in 1..(at + 1)
                     PROVE  dom'[graph.order[k]] = Transfer(graph, dom', graph.order[k])
            BY <2>3 DEF Settled
        <3>1. ~changed /\ t = dom[b] /\ dom' = dom
            BY <2>3, <2>1 DEF IInv, TypeInv
        <3>2. CASE k = at + 1
            BY <3>1, <3>2 DEF b, t
        <3>3. CASE k # at + 1
            BY <3>1, <3>3 DEF IInv, TypeInv, Settled
        <3>4. QED
            BY <3>2, <3>3
    <2>8. QED
        BY <2>3, <2>4, <2>5, <2>6, <2>7 DEF IInv, Over
<1>2. CASE RunAgain
    <2>1. /\ at' = 0 /\ changed' = FALSE /\ phase = "pass"
          /\ graph' = graph /\ dom' = dom /\ phase' = phase
        BY <1>2 DEF RunAgain
    <2>2. 0 \in 0..Len(graph.order)
        BY <1>0 DEF IsFlow
    <2>3. TypeInv'
        BY <2>1, <2>2 DEF IInv, TypeInv
    <2>4. Reflexive' /\ Above' /\ Settled'
        BY <2>1 DEF IInv, Reflexive, Above, Settled
    <2>5. QED
        BY <2>1, <2>3, <2>4 DEF IInv, Over
<1>3. CASE Converge \/ Abort
    BY <1>3 DEF Converge, Abort, Converged, IInv, TypeInv, Reflexive, Above, Settled, Over
<1>4. CASE VisitChild \/ Finish \/ UNCHANGED vars
    <2>1. /\ graph' = graph /\ dom' = dom /\ at' = at /\ changed' = changed
          /\ phase' = phase \/ (phase = "tree" /\ phase' = "done")
        BY <1>4 DEF VisitChild, Finish, vars
    <2> QED
        BY <2>1 DEF IInv, TypeInv, Reflexive, Above, Settled, Over
<1>5. QED
    BY <1>1, <1>2, <1>3, <1>4 DEF Next

LEMMA InvExact == IInv => DominatorsExact
<1> SUFFICES ASSUME IInv, phase # "pass"
             PROVE  \A b \in Blocks(graph) :
                        dom[b] = {a \in Blocks(graph) : Dominates(graph, a, b)}
    BY DEF DominatorsExact
<1>1. IsFlow(graph)
    BY GraphsAssumption DEF IInv, TypeInv
<1>2. ASSUME NEW x \in Blocks(graph) PROVE dom[x] = Transfer(graph, dom, x)
    <2>1. PICK k \in 1..Len(graph.order) : graph.order[k] = x
        BY <1>1 DEF IsFlow
    <2>2. QED
        BY <2>1 DEF IInv, Over, Settled
<1>3. ASSUME NEW a \in Blocks(graph), NEW b \in Blocks(graph)
      PROVE  a \in dom[b] <=> Dominates(graph, a, b)
    BY <1>1, <1>2, FixedPointIsDominance DEF IInv, Above
<1>4. QED
    BY <1>3 DEF IInv, TypeInv

(* When the pass has converged, on any graph whatever, the map is          *)
(* dominance: what getDom and dominate answer and what the tree is built   *)
(* from.                                                                   *)
THEOREM DominatorsAreExact == Spec => []DominatorsExact
<1>1. IInv /\ [Next]_vars => IInv'
    BY NextInv
<1>2. QED
    BY <1>1, InitInv, InvExact, PTL DEF Spec

(* From its first run on, the pass never loses a dominator, so that what   *)
(* an interrupted pass would have is still on the safe side.               *)
THEOREM DominatorsNeverLost == Spec => []Above
<1>1. IInv /\ [Next]_vars => IInv'
    BY NextInv
<1>2. IInv => Above
    BY DEF IInv
<1>3. QED
    BY <1>1, <1>2, InitInv, PTL DEF Spec

-----------------------------------------------------------------------------
(* The preorder of the dominator tree.                                    *)

(* A set that holds every block that can be reached.                       *)
HoldsReached(G, S) ==
    /\ S \in SUBSET Blocks(G)
    /\ G.entry \in S
    /\ \A x \in Blocks(G) : G.inward[x] \intersect S # {} => x \in S

LEMMA ReachedIsHeld ==
    ASSUME NEW G, NEW b, Reachable(G, b), NEW S, HoldsReached(G, S)
    PROVE  b \in S
    BY DEF Reachable, HoldsReached

LEMMA DeadIsLeftOut ==
    ASSUME NEW G, NEW b, ~Reachable(G, b)
    PROVE  \E S : HoldsReached(G, S) /\ b \notin S
    BY DEF Reachable, HoldsReached

----------------------------------------------------------------------------
(* Dominance, by the sets that can be reached without a block.             *)

LEMMA EntryDominatesAll ==
    ASSUME NEW G, NEW b  PROVE Dominates(G, G.entry, b)
<1>1. {} \in Avoiding(G, G.entry)
    BY DEF Avoiding
<1> QED
    BY <1>1 DEF Dominates

(* Everything dominates a dead block.                                      *)
LEMMA DeadIsDominated ==
    ASSUME NEW G, NEW a \in Blocks(G), NEW b, ~Reachable(G, b)
    PROVE  Dominates(G, a, b)
<1>1. PICK S : HoldsReached(G, S) /\ b \notin S
    BY DeadIsLeftOut
<1>2. S \ {a} \in Avoiding(G, a)
    BY <1>1 DEF HoldsReached, Avoiding
<1> QED
    BY <1>1, <1>2 DEF Dominates

(* A dominator of a block that can be reached can be reached.              *)
LEMMA DominatorIsReached ==
    ASSUME NEW G, NEW a \in Blocks(G), NEW b, Dominates(G, a, b), Reachable(G, b)
    PROVE  Reachable(G, a)
<1> SUFFICES ASSUME ~Reachable(G, a) PROVE FALSE
    OBVIOUS
<1>1. PICK S : HoldsReached(G, S) /\ a \notin S
    BY DeadIsLeftOut
<1>2. a # b
    OBVIOUS
<1>3. PICK T \in Avoiding(G, a) : b \notin T
    BY <1>2 DEF Dominates
<1>4. HoldsReached(G, S \intersect T)
    BY <1>1, <1>3 DEF HoldsReached, Avoiding
<1> QED
    BY <1>3, <1>4, ReachedIsHeld

LEMMA Transitive ==
    ASSUME NEW G, NEW a \in Blocks(G), NEW b \in Blocks(G), NEW c,
           Dominates(G, a, b), Dominates(G, b, c)
    PROVE  Dominates(G, a, c)
<1>1. CASE a = b \/ b = c
    BY <1>1
<1>2. CASE a # b /\ b # c
    <2>1. PICK S \in Avoiding(G, a) : b \notin S
        BY <1>2 DEF Dominates
    <2>2. PICK T \in Avoiding(G, b) : c \notin T
        BY <1>2 DEF Dominates
    <2>3. G.entry # b
        BY <2>1 , <1>2 DEF Avoiding
    <2>4. S \intersect T \in Avoiding(G, a)
        BY <2>1, <2>2, <2>3 DEF Avoiding
    <2> QED
        BY <2>2, <2>4 DEF Dominates
<1> QED
    BY <1>1, <1>2

(* Blocks that dominate each other are dead.                               *)
LEMMA MutuallyDead ==
    ASSUME NEW G, NEW a \in Blocks(G), NEW b \in Blocks(G), a # b,
           Dominates(G, a, b), Dominates(G, b, a)
    PROVE  ~Reachable(G, a) /\ ~Reachable(G, b)
<1>1. PICK S \in Avoiding(G, a) : b \notin S
    BY DEF Dominates
<1>2. PICK T \in Avoiding(G, b) : a \notin T
    BY DEF Dominates
<1>3. HoldsReached(G, S \intersect T)
    BY <1>1, <1>2 DEF HoldsReached, Avoiding
<1> QED
    BY <1>1, <1>2, <1>3, ReachedIsHeld

(* The dominators of a block that can be reached dominate one another.     *)
LEMMA Chain ==
    ASSUME NEW G, NEW a \in Blocks(G), NEW b \in Blocks(G), NEW c, Reachable(G, c),
           a # c, b # c, Dominates(G, a, c), Dominates(G, b, c)
    PROVE  Dominates(G, a, b) \/ Dominates(G, b, a)
<1> SUFFICES ASSUME ~Dominates(G, a, b), ~Dominates(G, b, a) PROVE FALSE
    OBVIOUS
<1>1. PICK S \in Avoiding(G, a) : c \notin S
    BY DEF Dominates
<1>2. PICK T \in Avoiding(G, b) : c \notin T
    BY DEF Dominates
<1>3. b \in S /\ a \in T
    BY <1>1, <1>2 DEF Dominates
<1>4. HoldsReached(G, S \union T)
    BY <1>1, <1>2, <1>3 DEF HoldsReached, Avoiding
<1> QED
    BY <1>1, <1>2, <1>4, ReachedIsHeld

----------------------------------------------------------------------------
(* Least and greatest sets of dominators, among the blocks of a set.       *)

LEMMA FlowIsFinite ==
    ASSUME NEW G, IsFlow(G)  PROVE IsFiniteSet(Blocks(G))
<1> DEFINE f == [k \in 1 .. Len(G.order) |-> G.order[k]]
<1>1. Len(G.order) \in Nat /\ \A k \in 1 .. Len(G.order) : G.order[k] \in Blocks(G)
    BY DEF IsFlow
<1>2. f \in Surjection(1 .. Len(G.order), Blocks(G))
    BY <1>1 DEF Surjection, IsFlow
<1>3. IsFiniteSet(1 .. Len(G.order))
    BY <1>1, FS_Interval
<1> QED
    BY <1>2, <1>3, FS_Surjection

LEMMA Highest ==
    ASSUME NEW N, IsFiniteSet(N), NEW d \in [N -> SUBSET N], NEW X \in SUBSET N, X # {}
    PROVE  \E o \in X : \A p \in X : d[p] \subseteq d[o] => d[p] = d[o]
<1> DEFINE F == {d[o] : o \in X}
<1>1. F \in SUBSET SUBSET N /\ F # {}
    OBVIOUS
<1>2. PICK s \in F : \A t \in F : t \subseteq s => t = s
    <2> HIDE DEF F
    <2> QED
        BY <1>1, LeastOf
<1> QED
    BY <1>2

LEMMA Lowest ==
    ASSUME NEW N, IsFiniteSet(N), NEW d \in [N -> SUBSET N], NEW X \in SUBSET N, X # {}
    PROVE  \E o \in X : \A p \in X : d[o] \subseteq d[p] => d[p] = d[o]
<1> DEFINE e == [o \in N |-> N \ d[o]]
<1>1. e \in [N -> SUBSET N]
    OBVIOUS
<1>2. PICK o \in X : \A p \in X : e[p] \subseteq e[o] => e[p] = e[o]
    <2> HIDE DEF e
    <2> QED
        BY <1>1, Highest
<1>3. ASSUME NEW p \in X, d[o] \subseteq d[p]  PROVE d[p] = d[o]
    <2>1. e[p] = e[o] /\ d[p] \in SUBSET N /\ d[o] \in SUBSET N
        BY <1>2, <1>3
    <2> QED
        BY <2>1
<1> QED
    BY <1>3

----------------------------------------------------------------------------
(* The tree, on a map that is dominance.                                   *)

IsDominance(G, d) ==
    /\ IsFlow(G)
    /\ d \in [Blocks(G) -> SUBSET Blocks(G)]
    /\ \A a, b \in Blocks(G) : a \in d[b] <=> Dominates(G, a, b)

(* Dominators grow along dominance.                                        *)
LEMMA Nested ==
    ASSUME NEW G, NEW d, IsDominance(G, d), NEW b \in Blocks(G), NEW a \in d[b]
    PROVE  a \in Blocks(G) /\ d[a] \subseteq d[b] /\ a \in d[a]
<1>1. a \in Blocks(G) /\ d[a] \in SUBSET Blocks(G) /\ Dominates(G, a, b)
    BY DEF IsDominance
<1>2. ASSUME NEW x \in d[a]  PROVE x \in d[b]
    BY <1>1, <1>2, Transitive DEF IsDominance
<1>3. a \in d[a]
    BY <1>1 DEF IsDominance, Dominates
<1> QED
    BY <1>1, <1>2, <1>3

(* The lowest of some strict dominators of b that no two of which dominate *)
(* each other, and that have with one all below it, is an immediate one.   *)
LEMMA LowestIsImmediate ==
    ASSUME NEW G, NEW d, IsDominance(G, d), NEW b \in Blocks(G),
           \A x, y \in d[b] \ {b} : x # y /\ x \in d[y] => y \notin d[x],
           NEW X \in SUBSET (d[b] \ {b}), X # {},
           \A x \in X, y \in d[b] \ {b} : x \in d[y] => y \in X
    PROVE  \E o \in X : o \in ImmediateDoms(d, b)
<1>1. d \in [Blocks(G) -> SUBSET Blocks(G)] /\ IsFiniteSet(Blocks(G)) /\ X \in SUBSET Blocks(G)
    BY FlowIsFinite DEF IsDominance
<1>2. PICK o \in X : \A p \in X : d[o] \subseteq d[p] => d[p] = d[o]
    BY <1>1, Lowest
<1>3. ASSUME NEW p \in d[b] \ {b, o}, strictlyDominate(d, o, p)  PROVE FALSE
    <2>1. o \in d[p] /\ p \in X /\ p \in Blocks(G)
        BY <1>1, <1>3 DEF strictlyDominate
    <2>2. d[o] = d[p]
        BY <1>2, <2>1, Nested
    <2>3. p \in d[p]
        BY <2>1 DEF IsDominance, Dominates
    <2> QED
        BY <2>1, <2>2, <2>3
<1> QED
    BY <1>3 DEF ImmediateDoms

(* The one immediate dominator of a block has all its others.              *)
LEMMA ParentHasAll ==
    ASSUME NEW G, NEW d, IsDominance(G, d), NEW c \in Blocks(G), NEW n,
           ImmediateDoms(d, c) = {n}, NEW a \in d[c] \ {c}
    PROVE  a \in d[n]
<1>1. n \in d[c] \ {c} /\ \A o \in d[c] \ {c, n} : ~strictlyDominate(d, n, o)
    BY DEF ImmediateDoms
<1>2. CASE \E x, y \in d[c] \ {c} : x # y /\ x \in d[y] /\ y \in d[x]
    <2>1. PICK x, y \in d[c] \ {c} : x # y /\ x \in d[y] /\ y \in d[x]
        BY <1>2
    <2>2. x \in Blocks(G) /\ y \in Blocks(G) /\ n \in Blocks(G)
        BY <1>1, <2>1 DEF IsDominance
    <2>3. ~Reachable(G, x) /\ ~Reachable(G, y)
        BY <2>1, <2>2, MutuallyDead DEF IsDominance
    <2>4. n \in d[x] /\ n \in d[y]
        BY <2>2, <2>3, DeadIsDominated DEF IsDominance
    <2> QED
        BY <1>1, <2>1, <2>4 DEF strictlyDominate
<1>3. CASE \A x, y \in d[c] \ {c} : x # y /\ x \in d[y] => y \notin d[x]
    <2> DEFINE X == {o \in d[c] \ {c} : a \in d[o]}
    <2>1. a \in X
        BY Nested
    <2>2. ASSUME NEW x \in X, NEW y \in d[c] \ {c}, x \in d[y]  PROVE y \in X
        BY <2>2, Nested DEF IsDominance
    <2>3. \E o \in X : o \in ImmediateDoms(d, c)
        <3>1. X \in SUBSET (d[c] \ {c}) /\ X # {}
            BY <2>1
        <3> HIDE DEF X
        <3> QED
            BY <1>3, <2>2, <3>1, LowestIsImmediate
    <2> QED
        BY <2>3
<1> QED
    BY <1>2, <1>3

(* A block that can be reached has exactly one immediate dominator, but    *)
(* for the entry, and has it among fewer dominators than its own.          *)
LEMMA HasParent ==
    ASSUME NEW G, NEW d, IsDominance(G, d), NEW b \in Blocks(G),
           Reachable(G, b), b # G.entry
    PROVE  \E n \in Blocks(G) : /\ ImmediateDoms(d, b) = {n} /\ Reachable(G, n)
                                /\ d[n] \subseteq d[b] /\ d[n] # d[b]
<1> DEFINE X == d[b] \ {b}
<1>1. X \in SUBSET Blocks(G) /\ b \in d[b]
    BY DEF IsDominance, Dominates
<1>2. ASSUME NEW x \in d[b]  PROVE x \in Blocks(G) /\ Reachable(G, x) /\ Dominates(G, x, b)
    BY DominatorIsReached DEF IsDominance
<1>3. G.entry \in X
    BY EntryDominatesAll DEF IsDominance, IsFlow
<1>4. ASSUME NEW x \in d[b], NEW y \in d[b], x # y, x \in d[y]  PROVE y \notin d[x]
    BY <1>2, <1>4, MutuallyDead DEF IsDominance
<1>5. PICK n \in X : n \in ImmediateDoms(d, b)
    <2>1. /\ X \in SUBSET (d[b] \ {b}) /\ X # {}
          /\ \A x, y \in d[b] \ {b} : x # y /\ x \in d[y] => y \notin d[x]
          /\ \A x \in X, y \in d[b] \ {b} : x \in d[y] => y \in X
        BY <1>3, <1>4
    <2> HIDE DEF X
    <2> QED
        BY <2>1, LowestIsImmediate
<1>6. ASSUME NEW m \in ImmediateDoms(d, b)  PROVE m = n
    <2>1. m \in d[b] \ {b}
        BY DEF ImmediateDoms
    <2>2. m \in Blocks(G) /\ n \in Blocks(G) /\ Dominates(G, m, b) /\ Dominates(G, n, b)
        BY <1>2, <2>1
    <2>3. Dominates(G, m, n) \/ Dominates(G, n, m)
        BY <2>1, <2>2, Chain
    <2>4. m \in d[n] \/ n \in d[m]
        BY <2>2, <2>3 DEF IsDominance
    <2> QED
        BY <1>5, <2>1, <2>4 DEF ImmediateDoms, strictlyDominate
<1>7. ImmediateDoms(d, b) = {n}
    BY <1>5, <1>6
<1>8. d[n] \subseteq d[b]
    BY Nested
<1>9. b \notin d[n]
    BY <1>1, <1>4
<1> QED
    BY <1>1, <1>2, <1>7, <1>8, <1>9

(* A block with two candidates is the only one that cannot be reached, and *)
(* there is a fork above it.                                               *)
LEMMA FailureIsDeadLoop ==
    ASSUME NEW G, NEW d, IsDominance(G, d), ~OneImmediateDom(d)
    PROVE  DeadLoopUnderFork(G)
<1>0. DOMAIN d = Blocks(G) /\ d \in [Blocks(G) -> SUBSET Blocks(G)]
    BY DEF IsDominance
<1>1. PICK b \in Blocks(G) : \E c, o \in ImmediateDoms(d, b) : c # o
    BY <1>0 DEF OneImmediateDom
<1>2. PICK c \in ImmediateDoms(d, b), o \in ImmediateDoms(d, b) : c # o
    BY <1>1
<1>3. c \in Blocks(G) \ {b} /\ o \in Blocks(G) \ {b} /\ c \in d[b] /\ o \in d[b]
    BY <1>0 DEF ImmediateDoms
<1>4. c \notin d[o] /\ o \notin d[c]
    BY <1>2, <1>3 DEF ImmediateDoms, strictlyDominate
<1>5. ~Reachable(G, b)
    <2> SUFFICES ASSUME Reachable(G, b) PROVE FALSE
        OBVIOUS
    <2>1. b # G.entry
        BY <1>3, EntryDominators DEF IsDominance
    <2>2. PICK n \in Blocks(G) : ImmediateDoms(d, b) = {n}
        BY <2>1, HasParent
    <2> QED
        BY <1>2, <2>2
<1>6. ASSUME NEW x \in Blocks(G) \ {b}, ~Reachable(G, x)  PROVE FALSE
    <2>1. x \in d[b] /\ \A m \in Blocks(G) : m \in d[x]
        BY <1>5, <1>6, DeadIsDominated DEF IsDominance
    <2>2. PICK m \in ImmediateDoms(d, b) : m # x
        BY <1>2
    <2>3. m \in Blocks(G) \ {b}
        BY <1>0 DEF ImmediateDoms
    <2>4. x \in d[b] \ {b, m} /\ strictlyDominate(d, m, x)
        BY <2>1, <2>2, <2>3 DEF strictlyDominate
    <2> QED
        BY <2>4 DEF ImmediateDoms
<1>7. ~Dominates(G, c, o) /\ ~Dominates(G, o, c)
    BY <1>3, <1>4 DEF IsDominance
<1> QED
    BY <1>3, <1>5, <1>6, <1>7 DEF DeadLoopUnderFork

(* Under a fork the dead block has a candidate on either side.             *)
LEMMA DeadLoopIsFailure ==
    ASSUME NEW G, NEW d, IsDominance(G, d), DeadLoopUnderFork(G)
    PROVE  ~OneImmediateDom(d)
<1>1. PICK b \in Blocks(G) :
          /\ ~Reachable(G, b)
          /\ \A x \in Blocks(G) \ {b} : Reachable(G, x)
          /\ \E x, y \in Blocks(G) \ {b} : ~Dominates(G, x, y) /\ ~Dominates(G, y, x)
    BY DEF DeadLoopUnderFork
<1>2. PICK x \in Blocks(G) \ {b}, y \in Blocks(G) \ {b} :
          ~Dominates(G, x, y) /\ ~Dominates(G, y, x)
    BY <1>1
<1>3. d[b] \ {b} = Blocks(G) \ {b} /\ DOMAIN d = Blocks(G)
    <2>1. d[b] \in SUBSET Blocks(G) /\ DOMAIN d = Blocks(G)
        BY DEF IsDominance
    <2>2. \A a \in Blocks(G) : a \in d[b]
        BY <1>1, DeadIsDominated DEF IsDominance
    <2> QED
        BY <2>1, <2>2
<1>4. ASSUME NEW u \in d[b] \ {b}, NEW v \in d[b] \ {b}, u # v, u \in d[v]  PROVE v \notin d[u]
    <2>1. u \in Blocks(G) /\ v \in Blocks(G) /\ Reachable(G, u)
        BY <1>1, <1>3
    <2> QED
        BY <1>4, <2>1, MutuallyDead DEF IsDominance
<1>5. ASSUME NEW a \in Blocks(G) \ {b}  PROVE \E o \in ImmediateDoms(d, b) : a \in d[o]
    <2> DEFINE X == {o \in d[b] \ {b} : a \in d[o]}
    <2>1. a \in X
        BY <1>3 DEF IsDominance, Dominates
    <2>2. ASSUME NEW u \in X, NEW v \in d[b] \ {b}, u \in d[v]  PROVE v \in X
        <3>1. v \in Blocks(G) /\ a \in d[u] /\ d[u] \subseteq d[v]
            BY <1>3, <2>2, Nested
        <3> QED
            BY <3>1
    <2>3. X \in SUBSET (d[b] \ {b}) /\ X # {}
        BY <2>1
    <2>4. PICK o \in X : o \in ImmediateDoms(d, b)
        <3> HIDE DEF X
        <3> QED
            BY <1>4, <2>2, <2>3, LowestIsImmediate
    <2> QED
        BY <2>4
<1>6. PICK o \in ImmediateDoms(d, b) : x \in d[o]
    BY <1>5
<1>7. PICK p \in ImmediateDoms(d, b) : y \in d[p]
    BY <1>5
<1>8. ASSUME o = p  PROVE FALSE
    <2>1. o \in Blocks(G) /\ Reachable(G, o)
        BY <1>1, <1>3 DEF ImmediateDoms
    <2>2. Dominates(G, x, o) /\ Dominates(G, y, o)
        BY <1>6, <1>7, <1>8, <2>1 DEF IsDominance
    <2> QED
        BY <1>2, <2>1, <2>2, Chain
<1> QED
    BY <1>3, <1>6, <1>7, <1>8 DEF OneImmediateDom

(* The assertion, for every graph.                                         *)
LEMMA FailsOnDeadLoop ==
    ASSUME NEW G, NEW d, IsDominance(G, d)
    PROVE  ~OneImmediateDom(d) <=> DeadLoopUnderFork(G)
    BY FailureIsDeadLoop, DeadLoopIsFailure

(* What is closed under the children of the tree and holds the entry holds *)
(* all that can be reached.                                                *)
LEMMA TreeIsComplete ==
    ASSUME NEW G, NEW d, IsDominance(G, d), NEW S, G.entry \in S,
           \A n \in S : Children(d, n) \subseteq S,
           NEW b \in Blocks(G), Reachable(G, b)
    PROVE  b \in S
<1> DEFINE X == {x \in Blocks(G) : Reachable(G, x) /\ x \notin S}
<1> SUFFICES ASSUME b \notin S PROVE FALSE
    OBVIOUS
<1>1. X \in SUBSET Blocks(G) /\ X # {} /\ IsFiniteSet(Blocks(G))
      /\ d \in [Blocks(G) -> SUBSET Blocks(G)]
    BY FlowIsFinite DEF IsDominance
<1>2. PICK o \in X : \A p \in X : d[p] \subseteq d[o] => d[p] = d[o]
    <2> HIDE DEF X
    <2> QED
        BY <1>1, Highest
<1>3. o \in Blocks(G) /\ Reachable(G, o) /\ o \notin S /\ o # G.entry
    OBVIOUS
<1>4. PICK n \in Blocks(G) : /\ ImmediateDoms(d, o) = {n} /\ Reachable(G, n)
                             /\ d[n] \subseteq d[o] /\ d[n] # d[o]
    BY <1>3, HasParent
<1>5. n \in S
    BY <1>2, <1>4
<1>6. o \in Children(d, n)
    BY <1>1, <1>3, <1>4 DEF Children
<1> QED
    BY <1>3, <1>5, <1>6


----------------------------------------------------------------------------
(* The walk.                                                               *)

Seen == {visited[k] : k \in DOMAIN visited}

(* Blocks of sequences; the entry comes first.                             *)
WalkType ==
    /\ visited \in Seq(Blocks(graph)) /\ path \in Seq(Blocks(graph))
    /\ graph.entry \in Seen

(* What is left to visit is below the path, and nothing once it is done.   *)
BelowPath ==
    /\ \A n \in Seen : ToVisit(n) # {} => \E k \in DOMAIN path : path[k] = n
    /\ \A k \in DOMAIN path : path[k] \in Seen
    /\ phase = "done" => \A k \in DOMAIN path : ToVisit(path[k]) = {}

Once == \A j, k \in DOMAIN visited : visited[j] = visited[k] => j = k

(* Dominators come before what they dominate.                              *)
Before ==
    \A k \in DOMAIN visited : \A a \in dom[visited[k]] \ {visited[k]} :
        \E j \in 1..(k - 1) : visited[j] = a

(* Whether the tree was built.                                             *)
Built ==
    /\ phase = "aborted" => ~OneImmediateDom(dom)
    /\ phase \in {"tree", "done"} => OneImmediateDom(dom)

WInv == Built /\ (phase \in {"tree", "done"} => WalkType /\ BelowPath /\ Once /\ Before)

(* As soon as there is a tree, it is that of dominance.                    *)
LEMMA TreeOfDominance ==
    ASSUME IInv, phase # "pass"  PROVE IsDominance(graph, dom)
<1>1. IsFlow(graph)
    BY GraphsAssumption DEF IInv, TypeInv
<1>2. \A b \in Blocks(graph) : dom[b] = {a \in Blocks(graph) : Dominates(graph, a, b)}
    BY InvExact DEF DominatorsExact
<1> QED
    BY <1>1, <1>2 DEF IInv, TypeInv, IsDominance

LEMMA ConvergeWalks == ASSUME IInv, Converge  PROVE WInv'
<1>1. IsFlow(graph)
    BY GraphsAssumption DEF IInv, TypeInv
<1>2. /\ path' = <<graph.entry>> /\ visited' = <<graph.entry>> /\ graph' = graph /\ dom' = dom
      /\ phase' = "tree" /\ graph.entry \in Blocks(graph)
    BY <1>1 DEF Converge, IsFlow
<1>8. Built'
    BY <1>2 DEF Converge, Built
<1>3. DOMAIN visited' = {1} /\ DOMAIN path' = {1} /\ visited'[1] = graph.entry
      /\ path'[1] = graph.entry
    BY <1>2
<1>4. WalkType'
    BY <1>2, <1>3 DEF WalkType, Seen
<1>5. BelowPath'
    BY <1>2, <1>3 DEF BelowPath, Seen
<1>6. Once'
    BY <1>3 DEF Once
<1>7. Before'
    BY <1>2, <1>3 DEF Before, IInv, Reflexive
<1> QED
    BY <1>2, <1>4, <1>5, <1>6, <1>7, <1>8 DEF WInv

LEMMA VisitWalks == ASSUME IInv, WInv, VisitChild  PROVE WInv'
<1>1. PICK k \in DOMAIN path : /\ \A m \in DOMAIN path : m > k => ToVisit(path[m]) = {}
                               /\ \E c \in ToVisit(path[k]) :
                                     /\ path' = Append(SubSeq(path, 1, k), c)
                                     /\ visited' = Append(visited, c)
    BY DEF VisitChild
<1>2. PICK c \in ToVisit(path[k]) : /\ path' = Append(SubSeq(path, 1, k), c)
                                    /\ visited' = Append(visited, c)
    BY <1>1
<1>3. /\ graph' = graph /\ dom' = dom /\ phase' = phase /\ phase = "tree"
      /\ WalkType /\ BelowPath /\ Once /\ Before /\ Built /\ OneImmediateDom(dom)
    BY DEF VisitChild, WInv, Built
<1>4. /\ IsDominance(graph, dom)
      /\ DOMAIN dom = Blocks(graph)
    BY <1>3, TreeOfDominance DEF IInv, TypeInv
<1>5. /\ c \in Blocks(graph) /\ ImmediateDoms(dom, c) = {path[k]}
      /\ \A j \in DOMAIN visited : visited[j] # c
    BY <1>4 DEF ToVisit, Children
<1> DEFINE n == Len(visited)
<1>6. /\ n \in Nat /\ DOMAIN visited = 1 .. n /\ DOMAIN visited' = 1 .. n + 1
      /\ visited' \in Seq(Blocks(graph))
      /\ visited'[n + 1] = c /\ \A j \in 1 .. n : visited'[j] = visited[j]
    BY <1>2, <1>3, <1>5 DEF WalkType
<1>7. /\ k \in 1 .. Len(path) /\ DOMAIN path = 1 .. Len(path) /\ Len(path) \in Nat
      /\ DOMAIN path' = 1 .. k + 1
      /\ path' \in Seq(Blocks(graph))
      /\ path'[k + 1] = c /\ \A j \in 1 .. k : path'[j] = path[j]
    BY <1>2, <1>3, <1>5 DEF WalkType
<1> HIDE DEF n
<1>8. Seen' = Seen \union {c}
    BY <1>6 DEF Seen
<1>9. \A x : ToVisit(x)' = ToVisit(x) \ {c}
    BY <1>3, <1>8 DEF ToVisit, Seen
<1>10. WalkType'
    BY <1>3, <1>6, <1>7, <1>8 DEF WalkType
<1>11. BelowPath'
    <2>1. ASSUME NEW x \in Seen', ToVisit(x)' # {}  PROVE \E j \in DOMAIN path' : path'[j] = x
        <3>1. CASE x = c
            BY <1>7, <3>1
        <3>2. CASE x # c
            <4>1. x \in Seen /\ ToVisit(x) # {}
                BY <1>8, <1>9, <2>1, <3>2
            <4>2. PICK j \in DOMAIN path : path[j] = x
                BY <1>3, <4>1 DEF BelowPath
            <4>3. j <= k
                BY <1>1, <1>7, <4>1, <4>2
            <4> QED
                BY <1>7, <4>2, <4>3
        <3> QED
            BY <3>1, <3>2
    <2>2. ASSUME NEW j \in DOMAIN path'  PROVE path'[j] \in Seen'
        BY <1>3, <1>7, <1>8 DEF BelowPath
    <2> QED
        BY <1>3, <2>1, <2>2 DEF BelowPath
<1>12. Once'
    BY <1>3, <1>5, <1>6 DEF Once
<1>13. Before'
    <2> SUFFICES ASSUME NEW m \in 1 .. n + 1, NEW a \in dom[visited'[m]] \ {visited'[m]}
                 PROVE  \E j \in 1 .. (m - 1) : visited'[j] = a
        BY <1>3, <1>6 DEF Before
    <2>1. CASE m \in 1 .. n
        BY <1>3, <1>6, <2>1 DEF Before
    <2>2. CASE m = n + 1
        <3>1. a \in dom[c] \ {c}
            BY <1>6, <2>2
        <3>2. a \in dom[path[k]]
            BY <1>4, <1>5, <3>1, ParentHasAll
        <3>3. PICK i \in 1 .. n : visited[i] = path[k]
            BY <1>3, <1>6, <1>7 DEF BelowPath, Seen
        <3>4. \E j \in 1 .. n : visited[j] = a
            <4>1. CASE a = path[k]
                BY <3>3, <4>1
            <4>2. CASE a # path[k]
                <5>1. PICK j \in 1 .. (i - 1) : visited[j] = a
                    BY <1>3, <1>6, <3>2, <3>3, <4>2 DEF Before
                <5> QED
                    BY <1>6, <5>1
            <4> QED
                BY <4>1, <4>2
        <3> QED
            BY <1>6, <2>2, <3>4
    <2> QED
        BY <1>6, <2>1, <2>2
<1> QED
    BY <1>3, <1>10, <1>11, <1>12, <1>13 DEF WInv, Built

LEMMA StepWalks == ASSUME IInv, WInv, [Next]_vars  PROVE WInv'
<1>1. CASE Update \/ RunAgain
    BY <1>1 DEF Update, RunAgain, WInv, Built
<1>2. CASE Converge
    BY <1>2, ConvergeWalks
<1>3. CASE VisitChild
    BY <1>3, VisitWalks
<1>4. CASE Finish
    BY <1>4 DEF Finish, WInv, Built, WalkType, BelowPath, Once, Before, Seen, ToVisit
<1>5. CASE Abort
    BY <1>5 DEF Abort, WInv, Built
<1>6. CASE UNCHANGED vars
    BY <1>6 DEF vars, WInv, Built, WalkType, BelowPath, Once, Before, Seen, ToVisit
<1> QED
    BY <1>1, <1>2, <1>3, <1>4, <1>5, <1>6 DEF Next

LEMMA AbortedRightly == IInv /\ WInv => AbortsOnDeadLoop
<1> SUFFICES ASSUME IInv, WInv, phase # "pass"  PROVE AbortsOnDeadLoop
    BY DEF AbortsOnDeadLoop
<1>1. ~OneImmediateDom(dom) <=> DeadLoopUnderFork(graph)
    BY TreeOfDominance, FailsOnDeadLoop
<1> QED
    BY <1>1 DEF WInv, Built, AbortsOnDeadLoop

LEMMA WalkedInOrder == IInv /\ WInv => VisitedInOrder
<1> SUFFICES ASSUME IInv, WInv, phase = "done"  PROVE VisitedInOrder
    BY DEF VisitedInOrder
<1>1. WalkType /\ BelowPath /\ Once /\ Before
    BY DEF WInv
<1>2. IsDominance(graph, dom)
    BY TreeOfDominance
<1>3. ASSUME NEW n \in Seen  PROVE Children(dom, n) \subseteq Seen
    BY <1>1 DEF BelowPath, ToVisit, Seen
<1>4. ASSUME NEW b \in Blocks(graph), Reachable(graph, b)
      PROVE  \E k \in DOMAIN visited : visited[k] = b
    <2>1. b \in Seen
        BY <1>1, <1>2, <1>3, <1>4, TreeIsComplete DEF WalkType
    <2> QED
        BY <2>1 DEF Seen
<1>5. ASSUME NEW k \in DOMAIN visited, NEW a \in Blocks(graph) \ {visited[k]},
             Dominates(graph, a, visited[k])
      PROVE  \E j \in 1..(k - 1) : visited[j] = a
    <2>1. visited[k] \in Blocks(graph)
        BY <1>1 DEF WalkType
    <2>2. a \in dom[visited[k]]
        BY <1>2, <1>5, <2>1 DEF IsDominance
    <2> QED
        BY <1>1, <2>2 DEF Before
<1> QED
    BY <1>1, <1>4, <1>5 DEF VisitedInOrder, Once

(* The assertion of getImmediateDom ends the process on exactly the graphs *)
(* with one dead block under a fork.  On all others, when the walk is done *)
(* it has visited every block that can be reached,                         *)
(* none twice, and each behind all that dominate it, whatever order the    *)
(* children of a block are kept in: values are translated before the code  *)
(* they dominate.                                                          *)
THEOREM DominatorsAlwaysFirst == Spec => []DominatorsFirst
<1>1. Init => WInv
    BY DEF Init, WInv, Built
<1>2. IInv /\ WInv /\ [Next]_vars => IInv' /\ WInv'
    BY NextInv, StepWalks
<1>3. IInv /\ WInv => DominatorsFirst
    BY AbortedRightly, WalkedInOrder DEF DominatorsFirst
<1> QED
    BY <1>1, <1>2, <1>3, InitInv, PTL DEF Spec
=============================================================================
