-------------------------- MODULE MCDominatorPass --------------------------
(* All control flow graphs of up to four blocks with up to two successors  *)
(* each, irreducible ones and ones with dead loops included, under a fork  *)
(* (where the tree cannot be built) and under none, and the lists          *)
(* of their blocks from front to back and from back to front.              *)
EXTENDS DominatorPass

Outward(n) == [1..n -> {T \in SUBSET (2..n) : Cardinality(T) <= 2}]
Flow(n, out) == [b \in 1..n |-> {p \in 1..n : b \in out[p]}]
Forward(n) == [k \in 1..n |-> k]
Backward(n) == [k \in 1..n |-> IF k = 1 THEN 1 ELSE n + 2 - k]

MCGraphs ==
    UNION {{[entry |-> 1, inward |-> Flow(n, out), order |-> order] :
               out \in {o \in Outward(n) : \A b \in 2..n : Flow(n, o)[b] # {}},
               order \in {Forward(n), Backward(n)}} : n \in 2..4}
=============================================================================
