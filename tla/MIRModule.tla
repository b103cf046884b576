------------------------------ MODULE MIRModule ------------------------------
(***************************************************************************)
(* The entities of a mir::Module and who uses whom: segments, initializer      *)
(* expressions, tables, memories, globals, functions, and of the instructions  *)
(* of a function those that refer to an entity.  MIR is the same for the        *)
(* instructions of one function.                                               *)
(*                                                                           *)
(* A node is <<kind, number>>, an instruction has its function's between them;  *)
(* the entities of a kind are numbered in the order of their list.  A graph G is a record                                 *)
(*   refs    for every live node the nodes it refers to                        *)
(*   uses    for every live node the list ASTNode::Uses                        *)
(*   owned   for every entity the nodes its destructor destroys with it         *)
(*   info    for every entity its type, its import and its export               *)
(*   fault   whether an assertion failed, unreachable() was reached, or a        *)
(*           destroyed node was touched                                          *)
(***************************************************************************)
EXTENDS Lists

Nil == <<"nil", 0>>

EmptyModule == [refs |-> <<>>, uses |-> <<>>, owned |-> <<>>, info |-> <<>>, fault |-> FALSE]

Alive(G, n) == n \in DOMAIN G.uses

addUse(G, n, by) ==
  IF n = Nil THEN G
  ELSE IF Alive(G, n) THEN [G EXCEPT !.uses[n] = <<by>> \o @]
  ELSE [G EXCEPT !.fault = TRUE]

removeUse(G, n, by) ==
  IF n = Nil THEN G
  ELSE IF Alive(G, n) /\ Contains(G.uses[n], by) THEN [G EXCEPT !.uses[n] = RemoveFirst(@, by)]
  ELSE [G EXCEPT !.fault = TRUE]

NodesOf(G, kind) == {n \in DOMAIN G.uses : n[1] = kind}

(* A node that uses nothing yet, and the ones that refer to others from the
   start: an initializer expression, the content of a segment, an instruction. *)
BuildNode(G, n, owned, info) ==
  [refs |-> Entered(G.refs, n, <<>>), uses |-> Entered(G.uses, n, <<>>),
   owned |-> Entered(G.owned, n, owned), info |-> Entered(G.info, n, info), fault |-> G.fault]
setContent(G, n, refs) ==
  LET graph[j \in 0..Len(refs)] ==
        IF j = 0 THEN [G EXCEPT !.refs[n] = refs] ELSE addUse(graph[j - 1], refs[j], n)
  IN  graph[Len(refs)]
BuildUser(G, n, refs) == setContent(BuildNode(G, n, <<>>, <<>>), n, refs)

\* A plausible slip, for the mutants: the segment does not learn who uses it.
addInitializerUnused(G, n, segment) == [G EXCEPT !.refs[n] = Append(@, segment)]

(* Memory::addInitializer, Table::addInitializer. *)
addInitializer(G, n, segment) ==
  addUse([G EXCEPT !.refs[n] = Append(@, segment)], segment, n)

(* replace(Old, nullptr) of a user: each reference becomes null and gives its
   use back.  That of initializer::GlobalGet ends in unreachable(). *)
Irreplaceable == {"initializer", "data_offset", "element_offset"}
replace(G, user, old) ==
  IF ~Alive(G, user) \/ user[1] \in Irreplaceable THEN [G EXCEPT !.fault = TRUE]
  ELSE LET refs == G.refs[user]
           graph[k \in 0..Len(refs)] ==
             IF k = 0 THEN G
             ELSE IF refs[k] # old THEN graph[k - 1]
             ELSE removeUse([graph[k - 1] EXCEPT !.refs[user][k] = Nil], old, user)
       IN  graph[Len(refs)]

\* A plausible slip, for the mutants: what is referred to twice gets one use back.
ReleaseOnce(G, n) ==
  LET refs == SetToSeq(ToSet(G.refs[n]))
      graph[j \in 0..Len(refs)] == IF j = 0 THEN G ELSE removeUse(graph[j - 1], refs[j], n)
  IN  graph[Len(refs)]

(* A destructor: the references are given up, what the node owns goes, and its
   users, then, are asked to replace it until none is left: each must leave. *)
Release(G, n) ==
  LET refs == G.refs[n]
      graph[j \in 0..Len(refs)] == IF j = 0 THEN G ELSE removeUse(graph[j - 1], refs[j], n)
  IN  graph[Len(refs)]
AskFront(G, n) == IF G.uses[n] = <<>> THEN G ELSE replace(G, Head(G.uses[n]), n)
Vanish(G, n) ==
  LET most == Len(G.uses[n])
      graph[j \in 0..most] == IF j = 0 THEN G ELSE AskFront(graph[j - 1], n)
      H == graph[most]
  IN  [refs |-> Forget(H.refs, n), uses |-> Forget(H.uses, n), owned |-> H.owned, info |-> H.info,
       fault |-> H.fault \/ H.uses[n] # <<>>]
Destroy(G, n) ==
  LET owned == G.owned[n]
      graph[j \in 0..Len(owned)] ==
        IF j = 0 THEN Release(G, n) ELSE Vanish(Release(graph[j - 1], owned[j]), owned[j])
  IN  Vanish(graph[Len(owned)], n)
=============================================================================
