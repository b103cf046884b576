--------------------------- MODULE MCMemoryRuntime ---------------------------
(* MemoryRuntime on two memories, two instances and three addresses.         *)
EXTENDS MemoryRuntime, TLC

\* A library that imports, one that imports with limits, one that defines.
MCShape ==
  {[kind |-> "import", min |-> 0, max |-> WordMax, exports |-> TRUE],
   [kind |-> "import", min |-> 1, max |-> 2, exports |-> FALSE],
   [kind |-> "define", min |-> 1, max |-> WordMax, exports |-> TRUE]}

Symmetry ==
  Permutations(Memory) \cup Permutations(Instance) \cup Permutations(Addr)
=============================================================================
