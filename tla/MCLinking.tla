----------------------------- MODULE MCLinking -----------------------------
(* Linking on three libraries: one that exports its table and its global,   *)
(* one that imports both and fills the table, also at an offset it imports, *)
(* and one with a global it changes.                                        *)
EXTENDS Linking, TLC

Fn(kind, sig) == [kind |-> kind, sig |-> sig]
At(offset, funcs) == [fromGlobal |-> FALSE, value |-> offset, funcs |-> funcs]
AtGlobal(funcs) == [fromGlobal |-> TRUE, value |-> 0, funcs |-> funcs]
NoTable == [kind |-> "none", min |-> 0, max |-> 0]
NoGlobal == [kind |-> "none", const |-> TRUE, value |-> 0]

Provider ==
  [funcs |-> <<Fn("import", "s"), Fn("define", "s")>>,
   table |-> [kind |-> "define", min |-> 2, max |-> 2],
   global |-> [kind |-> "define", const |-> TRUE, value |-> 1],
   data |-> <<At(0, <<>>)>>,
   elements |-> <<AtGlobal(<<2>>), At(0, <<1>>)>>]

User ==
  [funcs |-> <<Fn("import", "s"), Fn("define", "r")>>,
   table |-> [kind |-> "import", min |-> 2, max |-> 2],
   global |-> [kind |-> "import", const |-> TRUE, value |-> 0],
   data |-> <<>>,
   elements |-> <<At(1, <<2>>), AtGlobal(<<1>>)>>]

Counter ==
  [funcs |-> <<Fn("define", "s")>>,
   table |-> NoTable,
   global |-> [kind |-> "define", const |-> FALSE, value |-> 1],
   data |-> <<>>,
   elements |-> <<>>]

MCDecl == [provider |-> Provider, user |-> User, counter |-> Counter]
MCHostSig == [h \in HostFn |-> "s"]
MCHostLimits == {<<2, 2>>}

Symmetry ==
  Permutations(Instance) \cup Permutations(Table) \cup Permutations(Global)
=============================================================================
