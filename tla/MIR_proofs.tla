----------------------------- MODULE MIR_proofs -----------------------------
(***************************************************************************)
(* Any function of MIR: that building, replacing, erasing and the          *)
(* rewritings of SimplifyCFG keep its use lists exact, its phis with the   *)
(* branches to their blocks and its definitions above their uses.          *)
(***************************************************************************)
EXTENDS SimplifyCFG, FiniteInduction

-----------------------------------------------------------------------------
(* The loops, each as the function of its rounds.                          *)

PicksStep(s, P, g, j) == (IF j \in P THEN Append(g, s[j]) ELSE g)
Picks(s, P, f, m) == f = [j \in 0 .. m |-> IF j = 0 THEN <<>> ELSE (IF j \in P THEN Append(f[j - 1], s[j]) ELSE f[j - 1])]

LEMMA PicksUnfold ==
  ASSUME NEW s, NEW P, Len(s) \in Nat
  PROVE  \E f : /\ f[0] = <<>> /\ Picked(s, P) = f[Len(s)]
                /\ \A j \in 1 .. Len(s) : f[j] = PicksStep(s, P, f[j - 1], j)
<1> DEFINE c == Len(s)
           S == {m \in 0 .. c : \E f : Picks(s, P, f, m)}
<1>1. 0 \in S
  <2>1. Picks(s, P, [j \in 0 .. 0 |-> <<>>], 0)
    BY DEF Picks
  <2> QED
    BY <2>1
<1>2. ASSUME NEW m \in 0 .. c, m \in S, m < c  PROVE m + 1 \in S
  <2>1. PICK f : Picks(s, P, f, m)
    BY <1>2
  <2> DEFINE g == [j \in 0 .. m + 1 |-> IF j = m + 1 THEN PicksStep(s, P, f[m], m + 1) ELSE f[j]]
  <2>2. ASSUME NEW j \in 0 .. m + 1
        PROVE  g[j] = IF j = 0 THEN <<>> ELSE PicksStep(s, P, g[j - 1], j)
    <3>1. CASE j = m + 1
      <4>1. g[j] = PicksStep(s, P, f[m], j) /\ g[j - 1] = f[m]
        BY <1>2, <3>1
      <4> QED
        BY <1>2, <3>1, <4>1
    <3>2. CASE j # m + 1
      <4>1. j \in 0 .. m /\ g[j] = f[j]
        BY <1>2, <3>2
      <4>2. f[j] = IF j = 0 THEN <<>> ELSE PicksStep(s, P, f[j - 1], j)
        BY <2>1, <4>1 DEF Picks, PicksStep
      <4>3. j # 0 => g[j - 1] = f[j - 1]
        BY <1>2, <4>1
      <4> QED
        BY <4>1, <4>2, <4>3
    <3> QED
      BY <3>1, <3>2
  <2>3. Picks(s, P, g, m + 1)
    BY <2>2 DEF Picks, PicksStep
  <2> QED
    BY <1>2, <2>3
<1>3. c \in S
  <2>1. \A m \in 0 .. c : m \in S /\ m < c => m + 1 \in S
    BY <1>2
  <2> HIDE DEF S
  <2>2. \A m \in 0 .. c : m \in S
    BY <1>1, <2>1, Climbs
  <2> QED
    BY <2>2
<1> DEFINE f == CHOOSE f : Picks(s, P, f, c)
<1>4. Picks(s, P, f, c)
  BY <1>3
<1>5. Picked(s, P) = f[c]
  BY DEF Picked, Picks
<1> HIDE DEF f, c
<1>6. f = [j \in 0 .. c |-> IF j = 0 THEN <<>> ELSE PicksStep(s, P, f[j - 1], j)]
  BY <1>4 DEF Picks, PicksStep
<1>7. c \in Nat
  BY DEF c
<1>8. f[0] = <<>> /\ \A j \in 1 .. c : f[j] = PicksStep(s, P, f[j - 1], j)
  BY <1>6, <1>7
<1> QED
  BY <1>5, <1>8 DEF c

AddsStep(F, ns, i, g, j) == addUse(g, ns[j], i)
Adds(F, ns, i, f, m) == f = [j \in 0 .. m |-> IF j = 0 THEN F ELSE addUse(f[j - 1], ns[j], i)]

LEMMA AddsUnfold ==
  ASSUME NEW F, NEW ns, NEW i, Len(ns) \in Nat
  PROVE  \E f : /\ f[0] = F /\ addUses(F, ns, i) = f[Len(ns)]
                /\ \A j \in 1 .. Len(ns) : f[j] = AddsStep(F, ns, i, f[j - 1], j)
<1> DEFINE c == Len(ns)
           S == {m \in 0 .. c : \E f : Adds(F, ns, i, f, m)}
<1>1. 0 \in S
  <2>1. Adds(F, ns, i, [j \in 0 .. 0 |-> F], 0)
    BY DEF Adds
  <2> QED
    BY <2>1
<1>2. ASSUME NEW m \in 0 .. c, m \in S, m < c  PROVE m + 1 \in S
  <2>1. PICK f : Adds(F, ns, i, f, m)
    BY <1>2
  <2> DEFINE g == [j \in 0 .. m + 1 |-> IF j = m + 1 THEN AddsStep(F, ns, i, f[m], m + 1) ELSE f[j]]
  <2>2. ASSUME NEW j \in 0 .. m + 1
        PROVE  g[j] = IF j = 0 THEN F ELSE AddsStep(F, ns, i, g[j - 1], j)
    <3>1. CASE j = m + 1
      <4>1. g[j] = AddsStep(F, ns, i, f[m], j) /\ g[j - 1] = f[m]
        BY <1>2, <3>1
      <4> QED
        BY <1>2, <3>1, <4>1
    <3>2. CASE j # m + 1
      <4>1. j \in 0 .. m /\ g[j] = f[j]
        BY <1>2, <3>2
      <4>2. f[j] = IF j = 0 THEN F ELSE AddsStep(F, ns, i, f[j - 1], j)
        BY <2>1, <4>1 DEF Adds, AddsStep
      <4>3. j # 0 => g[j - 1] = f[j - 1]
        BY <1>2, <4>1
      <4> QED
        BY <4>1, <4>2, <4>3
    <3> QED
      BY <3>1, <3>2
  <2>3. Adds(F, ns, i, g, m + 1)
    BY <2>2 DEF Adds, AddsStep
  <2> QED
    BY <1>2, <2>3
<1>3. c \in S
  <2>1. \A m \in 0 .. c : m \in S /\ m < c => m + 1 \in S
    BY <1>2
  <2> HIDE DEF S
  <2>2. \A m \in 0 .. c : m \in S
    BY <1>1, <2>1, Climbs
  <2> QED
    BY <2>2
<1> DEFINE f == CHOOSE f : Adds(F, ns, i, f, c)
<1>4. Adds(F, ns, i, f, c)
  BY <1>3
<1>5. addUses(F, ns, i) = f[c]
  BY DEF addUses, Adds
<1> HIDE DEF f, c
<1>6. f = [j \in 0 .. c |-> IF j = 0 THEN F ELSE AddsStep(F, ns, i, f[j - 1], j)]
  BY <1>4 DEF Adds, AddsStep
<1>7. c \in Nat
  BY DEF c
<1>8. f[0] = F /\ \A j \in 1 .. c : f[j] = AddsStep(F, ns, i, f[j - 1], j)
  BY <1>6, <1>7
<1> QED
  BY <1>5, <1>8 DEF c

RemovesStep(F, ns, i, g, j) == removeUse(g, ns[j], i)
Removes(F, ns, i, f, m) == f = [j \in 0 .. m |-> IF j = 0 THEN F ELSE removeUse(f[j - 1], ns[j], i)]

LEMMA RemovesUnfold ==
  ASSUME NEW F, NEW ns, NEW i, Len(ns) \in Nat
  PROVE  \E f : /\ f[0] = F /\ removeUses(F, ns, i) = f[Len(ns)]
                /\ \A j \in 1 .. Len(ns) : f[j] = RemovesStep(F, ns, i, f[j - 1], j)
<1> DEFINE c == Len(ns)
           S == {m \in 0 .. c : \E f : Removes(F, ns, i, f, m)}
<1>1. 0 \in S
  <2>1. Removes(F, ns, i, [j \in 0 .. 0 |-> F], 0)
    BY DEF Removes
  <2> QED
    BY <2>1
<1>2. ASSUME NEW m \in 0 .. c, m \in S, m < c  PROVE m + 1 \in S
  <2>1. PICK f : Removes(F, ns, i, f, m)
    BY <1>2
  <2> DEFINE g == [j \in 0 .. m + 1 |-> IF j = m + 1 THEN RemovesStep(F, ns, i, f[m], m + 1) ELSE f[j]]
  <2>2. ASSUME NEW j \in 0 .. m + 1
        PROVE  g[j] = IF j = 0 THEN F ELSE RemovesStep(F, ns, i, g[j - 1], j)
    <3>1. CASE j = m + 1
      <4>1. g[j] = RemovesStep(F, ns, i, f[m], j) /\ g[j - 1] = f[m]
        BY <1>2, <3>1
      <4> QED
        BY <1>2, <3>1, <4>1
    <3>2. CASE j # m + 1
      <4>1. j \in 0 .. m /\ g[j] = f[j]
        BY <1>2, <3>2
      <4>2. f[j] = IF j = 0 THEN F ELSE RemovesStep(F, ns, i, f[j - 1], j)
        BY <2>1, <4>1 DEF Removes, RemovesStep
      <4>3. j # 0 => g[j - 1] = f[j - 1]
        BY <1>2, <4>1
      <4> QED
        BY <4>1, <4>2, <4>3
    <3> QED
      BY <3>1, <3>2
  <2>3. Removes(F, ns, i, g, m + 1)
    BY <2>2 DEF Removes, RemovesStep
  <2> QED
    BY <1>2, <2>3
<1>3. c \in S
  <2>1. \A m \in 0 .. c : m \in S /\ m < c => m + 1 \in S
    BY <1>2
  <2> HIDE DEF S
  <2>2. \A m \in 0 .. c : m \in S
    BY <1>1, <2>1, Climbs
  <2> QED
    BY <2>2
<1> DEFINE f == CHOOSE f : Removes(F, ns, i, f, c)
<1>4. Removes(F, ns, i, f, c)
  BY <1>3
<1>5. removeUses(F, ns, i) = f[c]
  BY DEF removeUses, Removes
<1> HIDE DEF f, c
<1>6. f = [j \in 0 .. c |-> IF j = 0 THEN F ELSE RemovesStep(F, ns, i, f[j - 1], j)]
  BY <1>4 DEF Removes, RemovesStep
<1>7. c \in Nat
  BY DEF c
<1>8. f[0] = F /\ \A j \in 1 .. c : f[j] = RemovesStep(F, ns, i, f[j - 1], j)
  BY <1>6, <1>7
<1> QED
  BY <1>5, <1>8 DEF c

MovesStep(F, i, old, new, g, j) == (IF F.inst[i].refs[j] = old THEN moveRef(g, i, j, old, new) ELSE g)
Moves(F, i, old, new, f, m) == f = [j \in 0 .. m |-> IF j = 0 THEN F ELSE (IF F.inst[i].refs[j] = old THEN moveRef(f[j - 1], i, j, old, new) ELSE f[j - 1])]

LEMMA MovesUnfold ==
  ASSUME NEW F, NEW i, NEW old, NEW new, Len(F.inst[i].refs) \in Nat
  PROVE  \E f : /\ f[0] = F /\ Moved(F, i, old, new) = f[Len(F.inst[i].refs)]
                /\ \A j \in 1 .. Len(F.inst[i].refs) : f[j] = MovesStep(F, i, old, new, f[j - 1], j)
<1> DEFINE c == Len(F.inst[i].refs)
           S == {m \in 0 .. c : \E f : Moves(F, i, old, new, f, m)}
<1>1. 0 \in S
  <2>1. Moves(F, i, old, new, [j \in 0 .. 0 |-> F], 0)
    BY DEF Moves
  <2> QED
    BY <2>1
<1>2. ASSUME NEW m \in 0 .. c, m \in S, m < c  PROVE m + 1 \in S
  <2>1. PICK f : Moves(F, i, old, new, f, m)
    BY <1>2
  <2> DEFINE g == [j \in 0 .. m + 1 |-> IF j = m + 1 THEN MovesStep(F, i, old, new, f[m], m + 1) ELSE f[j]]
  <2>2. ASSUME NEW j \in 0 .. m + 1
        PROVE  g[j] = IF j = 0 THEN F ELSE MovesStep(F, i, old, new, g[j - 1], j)
    <3>1. CASE j = m + 1
      <4>1. g[j] = MovesStep(F, i, old, new, f[m], j) /\ g[j - 1] = f[m]
        BY <1>2, <3>1
      <4> QED
        BY <1>2, <3>1, <4>1
    <3>2. CASE j # m + 1
      <4>1. j \in 0 .. m /\ g[j] = f[j]
        BY <1>2, <3>2
      <4>2. f[j] = IF j = 0 THEN F ELSE MovesStep(F, i, old, new, f[j - 1], j)
        BY <2>1, <4>1 DEF Moves, MovesStep
      <4>3. j # 0 => g[j - 1] = f[j - 1]
        BY <1>2, <4>1
      <4> QED
        BY <4>1, <4>2, <4>3
    <3> QED
      BY <3>1, <3>2
  <2>3. Moves(F, i, old, new, g, m + 1)
    BY <2>2 DEF Moves, MovesStep
  <2> QED
    BY <1>2, <2>3
<1>3. c \in S
  <2>1. \A m \in 0 .. c : m \in S /\ m < c => m + 1 \in S
    BY <1>2
  <2> HIDE DEF S
  <2>2. \A m \in 0 .. c : m \in S
    BY <1>1, <2>1, Climbs
  <2> QED
    BY <2>2
<1> DEFINE f == CHOOSE f : Moves(F, i, old, new, f, c)
<1>4. Moves(F, i, old, new, f, c)
  BY <1>3
<1>5. Moved(F, i, old, new) = f[c]
  BY DEF Moved, Moves
<1> HIDE DEF f, c
<1>6. f = [j \in 0 .. c |-> IF j = 0 THEN F ELSE MovesStep(F, i, old, new, f[j - 1], j)]
  BY <1>4 DEF Moves, MovesStep
<1>7. c \in Nat
  BY DEF c
<1>8. f[0] = F /\ \A j \in 1 .. c : f[j] = MovesStep(F, i, old, new, f[j - 1], j)
  BY <1>6, <1>7
<1> QED
  BY <1>5, <1>8 DEF c

AsksStep(F, old, new, g, j) == replace(g, F.uses[old][j], old, new)
Asks(F, old, new, f, m) == f = [j \in 0 .. m |-> IF j = 0 THEN F ELSE replace(f[j - 1], F.uses[old][j], old, new)]

LEMMA AsksUnfold ==
  ASSUME NEW F, NEW old, NEW new, Len(F.uses[old]) \in Nat
  PROVE  \E f : /\ f[0] = F /\ replaceAllUseWith(F, old, new) = f[Len(F.uses[old])]
                /\ \A j \in 1 .. Len(F.uses[old]) : f[j] = AsksStep(F, old, new, f[j - 1], j)
<1> DEFINE c == Len(F.uses[old])
           S == {m \in 0 .. c : \E f : Asks(F, old, new, f, m)}
<1>1. 0 \in S
  <2>1. Asks(F, old, new, [j \in 0 .. 0 |-> F], 0)
    BY DEF Asks
  <2> QED
    BY <2>1
<1>2. ASSUME NEW m \in 0 .. c, m \in S, m < c  PROVE m + 1 \in S
  <2>1. PICK f : Asks(F, old, new, f, m)
    BY <1>2
  <2> DEFINE g == [j \in 0 .. m + 1 |-> IF j = m + 1 THEN AsksStep(F, old, new, f[m], m + 1) ELSE f[j]]
  <2>2. ASSUME NEW j \in 0 .. m + 1
        PROVE  g[j] = IF j = 0 THEN F ELSE AsksStep(F, old, new, g[j - 1], j)
    <3>1. CASE j = m + 1
      <4>1. g[j] = AsksStep(F, old, new, f[m], j) /\ g[j - 1] = f[m]
        BY <1>2, <3>1
      <4> QED
        BY <1>2, <3>1, <4>1
    <3>2. CASE j # m + 1
      <4>1. j \in 0 .. m /\ g[j] = f[j]
        BY <1>2, <3>2
      <4>2. f[j] = IF j = 0 THEN F ELSE AsksStep(F, old, new, f[j - 1], j)
        BY <2>1, <4>1 DEF Asks, AsksStep
      <4>3. j # 0 => g[j - 1] = f[j - 1]
        BY <1>2, <4>1
      <4> QED
        BY <4>1, <4>2, <4>3
    <3> QED
      BY <3>1, <3>2
  <2>3. Asks(F, old, new, g, m + 1)
    BY <2>2 DEF Asks, AsksStep
  <2> QED
    BY <1>2, <2>3
<1>3. c \in S
  <2>1. \A m \in 0 .. c : m \in S /\ m < c => m + 1 \in S
    BY <1>2
  <2> HIDE DEF S
  <2>2. \A m \in 0 .. c : m \in S
    BY <1>1, <2>1, Climbs
  <2> QED
    BY <2>2
<1> DEFINE f == CHOOSE f : Asks(F, old, new, f, c)
<1>4. Asks(F, old, new, f, c)
  BY <1>3
<1>5. replaceAllUseWith(F, old, new) = f[c]
  BY DEF replaceAllUseWith, Asks
<1> HIDE DEF f, c
<1>6. f = [j \in 0 .. c |-> IF j = 0 THEN F ELSE AsksStep(F, old, new, f[j - 1], j)]
  BY <1>4 DEF Asks, AsksStep
<1>7. c \in Nat
  BY DEF c
<1>8. f[0] = F /\ \A j \in 1 .. c : f[j] = AsksStep(F, old, new, f[j - 1], j)
  BY <1>6, <1>7
<1> QED
  BY <1>5, <1>8 DEF c

LaysStep(F, b, types, g, j) == BuildInst(g, b, "phi", types[j], <<>>)
Lays(F, b, types, f, m) == f = [j \in 0 .. m |-> IF j = 0 THEN F ELSE BuildInst(f[j - 1], b, "phi", types[j], <<>>)]

LEMMA LaysUnfold ==
  ASSUME NEW F, NEW b, NEW types, Len(types) \in Nat
  PROVE  \E f : /\ f[0] = F /\ BuildPhis(F, b, types) = f[Len(types)]
                /\ \A j \in 1 .. Len(types) : f[j] = LaysStep(F, b, types, f[j - 1], j)
<1> DEFINE c == Len(types)
           S == {m \in 0 .. c : \E f : Lays(F, b, types, f, m)}
<1>1. 0 \in S
  <2>1. Lays(F, b, types, [j \in 0 .. 0 |-> F], 0)
    BY DEF Lays
  <2> QED
    BY <2>1
<1>2. ASSUME NEW m \in 0 .. c, m \in S, m < c  PROVE m + 1 \in S
  <2>1. PICK f : Lays(F, b, types, f, m)
    BY <1>2
  <2> DEFINE g == [j \in 0 .. m + 1 |-> IF j = m + 1 THEN LaysStep(F, b, types, f[m], m + 1) ELSE f[j]]
  <2>2. ASSUME NEW j \in 0 .. m + 1
        PROVE  g[j] = IF j = 0 THEN F ELSE LaysStep(F, b, types, g[j - 1], j)
    <3>1. CASE j = m + 1
      <4>1. g[j] = LaysStep(F, b, types, f[m], j) /\ g[j - 1] = f[m]
        BY <1>2, <3>1
      <4> QED
        BY <1>2, <3>1, <4>1
    <3>2. CASE j # m + 1
      <4>1. j \in 0 .. m /\ g[j] = f[j]
        BY <1>2, <3>2
      <4>2. f[j] = IF j = 0 THEN F ELSE LaysStep(F, b, types, f[j - 1], j)
        BY <2>1, <4>1 DEF Lays, LaysStep
      <4>3. j # 0 => g[j - 1] = f[j - 1]
        BY <1>2, <4>1
      <4> QED
        BY <4>1, <4>2, <4>3
    <3> QED
      BY <3>1, <3>2
  <2>3. Lays(F, b, types, g, m + 1)
    BY <2>2 DEF Lays, LaysStep
  <2> QED
    BY <1>2, <2>3
<1>3. c \in S
  <2>1. \A m \in 0 .. c : m \in S /\ m < c => m + 1 \in S
    BY <1>2
  <2> HIDE DEF S
  <2>2. \A m \in 0 .. c : m \in S
    BY <1>1, <2>1, Climbs
  <2> QED
    BY <2>2
<1> DEFINE f == CHOOSE f : Lays(F, b, types, f, c)
<1>4. Lays(F, b, types, f, c)
  BY <1>3
<1>5. BuildPhis(F, b, types) = f[c]
  BY DEF BuildPhis, Lays
<1> HIDE DEF f, c
<1>6. f = [j \in 0 .. c |-> IF j = 0 THEN F ELSE LaysStep(F, b, types, f[j - 1], j)]
  BY <1>4 DEF Lays, LaysStep
<1>7. c \in Nat
  BY DEF c
<1>8. f[0] = F /\ \A j \in 1 .. c : f[j] = LaysStep(F, b, types, f[j - 1], j)
  BY <1>6, <1>7
<1> QED
  BY <1>5, <1>8 DEF c

ClearsStep(F, b, g, j) == eraseInst(g, F.code[b][j])
Clears(F, b, f, m) == f = [j \in 0 .. m |-> IF j = 0 THEN F ELSE eraseInst(f[j - 1], F.code[b][j])]

LEMMA ClearsUnfold ==
  ASSUME NEW F, NEW b, Len(F.code[b]) \in Nat
  PROVE  \E f : /\ f[0] = F /\ Cleared(F, b) = f[Len(F.code[b])]
                /\ \A j \in 1 .. Len(F.code[b]) : f[j] = ClearsStep(F, b, f[j - 1], j)
<1> DEFINE c == Len(F.code[b])
           S == {m \in 0 .. c : \E f : Clears(F, b, f, m)}
<1>1. 0 \in S
  <2>1. Clears(F, b, [j \in 0 .. 0 |-> F], 0)
    BY DEF Clears
  <2> QED
    BY <2>1
<1>2. ASSUME NEW m \in 0 .. c, m \in S, m < c  PROVE m + 1 \in S
  <2>1. PICK f : Clears(F, b, f, m)
    BY <1>2
  <2> DEFINE g == [j \in 0 .. m + 1 |-> IF j = m + 1 THEN ClearsStep(F, b, f[m], m + 1) ELSE f[j]]
  <2>2. ASSUME NEW j \in 0 .. m + 1
        PROVE  g[j] = IF j = 0 THEN F ELSE ClearsStep(F, b, g[j - 1], j)
    <3>1. CASE j = m + 1
      <4>1. g[j] = ClearsStep(F, b, f[m], j) /\ g[j - 1] = f[m]
        BY <1>2, <3>1
      <4> QED
        BY <1>2, <3>1, <4>1
    <3>2. CASE j # m + 1
      <4>1. j \in 0 .. m /\ g[j] = f[j]
        BY <1>2, <3>2
      <4>2. f[j] = IF j = 0 THEN F ELSE ClearsStep(F, b, f[j - 1], j)
        BY <2>1, <4>1 DEF Clears, ClearsStep
      <4>3. j # 0 => g[j - 1] = f[j - 1]
        BY <1>2, <4>1
      <4> QED
        BY <4>1, <4>2, <4>3
    <3> QED
      BY <3>1, <3>2
  <2>3. Clears(F, b, g, m + 1)
    BY <2>2 DEF Clears, ClearsStep
  <2> QED
    BY <1>2, <2>3
<1>3. c \in S
  <2>1. \A m \in 0 .. c : m \in S /\ m < c => m + 1 \in S
    BY <1>2
  <2> HIDE DEF S
  <2>2. \A m \in 0 .. c : m \in S
    BY <1>1, <2>1, Climbs
  <2> QED
    BY <2>2
<1> DEFINE f == CHOOSE f : Clears(F, b, f, c)
<1>4. Clears(F, b, f, c)
  BY <1>3
<1>5. Cleared(F, b) = f[c]
  BY DEF Cleared, Clears
<1> HIDE DEF f, c
<1>6. f = [j \in 0 .. c |-> IF j = 0 THEN F ELSE ClearsStep(F, b, f[j - 1], j)]
  BY <1>4 DEF Clears, ClearsStep
<1>7. c \in Nat
  BY DEF c
<1>8. f[0] = F /\ \A j \in 1 .. c : f[j] = ClearsStep(F, b, f[j - 1], j)
  BY <1>6, <1>7
<1> QED
  BY <1>5, <1>8 DEF c

LeavesStep(F, b, g, j) == setCandidates(g, SetToSeq(PhisAfter(F, b))[j], Filtered(g, SetToSeq(PhisAfter(F, b))[j], b))
Leaves(F, b, f, m) == f = [j \in 0 .. m |-> IF j = 0 THEN F ELSE setCandidates(f[j - 1], SetToSeq(PhisAfter(F, b))[j], Filtered(f[j - 1], SetToSeq(PhisAfter(F, b))[j], b))]

LEMMA LeavesUnfold ==
  ASSUME NEW F, NEW b, Len(SetToSeq(PhisAfter(F, b))) \in Nat
  PROVE  \E f : /\ f[0] = F /\ leavePhis(F, b) = f[Len(SetToSeq(PhisAfter(F, b)))]
                /\ \A j \in 1 .. Len(SetToSeq(PhisAfter(F, b))) : f[j] = LeavesStep(F, b, f[j - 1], j)
<1> DEFINE c == Len(SetToSeq(PhisAfter(F, b)))
           S == {m \in 0 .. c : \E f : Leaves(F, b, f, m)}
<1>1. 0 \in S
  <2>1. Leaves(F, b, [j \in 0 .. 0 |-> F], 0)
    BY DEF Leaves
  <2> QED
    BY <2>1
<1>2. ASSUME NEW m \in 0 .. c, m \in S, m < c  PROVE m + 1 \in S
  <2>1. PICK f : Leaves(F, b, f, m)
    BY <1>2
  <2> DEFINE g == [j \in 0 .. m + 1 |-> IF j = m + 1 THEN LeavesStep(F, b, f[m], m + 1) ELSE f[j]]
  <2>2. ASSUME NEW j \in 0 .. m + 1
        PROVE  g[j] = IF j = 0 THEN F ELSE LeavesStep(F, b, g[j - 1], j)
    <3>1. CASE j = m + 1
      <4>1. g[j] = LeavesStep(F, b, f[m], j) /\ g[j - 1] = f[m]
        BY <1>2, <3>1
      <4> QED
        BY <1>2, <3>1, <4>1
    <3>2. CASE j # m + 1
      <4>1. j \in 0 .. m /\ g[j] = f[j]
        BY <1>2, <3>2
      <4>2. f[j] = IF j = 0 THEN F ELSE LeavesStep(F, b, f[j - 1], j)
        BY <2>1, <4>1 DEF Leaves, LeavesStep
      <4>3. j # 0 => g[j - 1] = f[j - 1]
        BY <1>2, <4>1
      <4> QED
        BY <4>1, <4>2, <4>3
    <3> QED
      BY <3>1, <3>2
  <2>3. Leaves(F, b, g, m + 1)
    BY <2>2 DEF Leaves, LeavesStep
  <2> QED
    BY <1>2, <2>3
<1>3. c \in S
  <2>1. \A m \in 0 .. c : m \in S /\ m < c => m + 1 \in S
    BY <1>2
  <2> HIDE DEF S
  <2>2. \A m \in 0 .. c : m \in S
    BY <1>1, <2>1, Climbs
  <2> QED
    BY <2>2
<1> DEFINE f == CHOOSE f : Leaves(F, b, f, c)
<1>4. Leaves(F, b, f, c)
  BY <1>3
<1>5. leavePhis(F, b) = f[c]
  BY DEF leavePhis, Leaves
<1> HIDE DEF f, c
<1>6. f = [j \in 0 .. c |-> IF j = 0 THEN F ELSE LeavesStep(F, b, f[j - 1], j)]
  BY <1>4 DEF Leaves, LeavesStep
<1>7. c \in Nat
  BY DEF c
<1>8. f[0] = F /\ \A j \in 1 .. c : f[j] = LeavesStep(F, b, f[j - 1], j)
  BY <1>6, <1>7
<1> QED
  BY <1>5, <1>8 DEF c

-----------------------------------------------------------------------------
(* The nodes N, whose lists U say who uses them, where held says what each  *)
(* refers to: the lists are exact.                                         *)
Listed(U, N, held) ==
  /\ Nil \notin N
  /\ U \in [N -> Seq(N)]
  /\ held \in [N -> Seq(N \cup {Nil})]
  /\ \A n, u \in N : Times(U[n], u) = Times(held[u], n)

(* The lists V are U and, for every mention of a node in s, one use by i.  *)
Gains(U, V, N, i, s) ==
  /\ V \in [N -> Seq(N)]
  /\ \A n, u \in N : Times(V[n], u) = IF u = i THEN Times(U[n], u) + Times(s, n) ELSE Times(U[n], u)

With(f, x, y) == [f EXCEPT ![x] = y]

LEMMA GainsListed ==
  ASSUME NEW U, NEW N, NEW held, Listed(U, N, held), NEW i \in N, NEW V, NEW s,
         Gains(U, V, N, i, s), NEW new \in Seq(N \cup {Nil}),
         \A n \in N : Times(new, n) = Times(held[i], n) + Times(s, n)
  PROVE  Listed(V, N, With(held, i, new))
<1> DEFINE after == With(held, i, new)
<1>1. after \in [N -> Seq(N \cup {Nil})] /\ \A u \in N : after[u] = IF u = i THEN new ELSE held[u]
  BY DEF Listed, With
<1> HIDE DEF after
<1>2. ASSUME NEW n \in N, NEW u \in N  PROVE Times(V[n], u) = Times(after[u], n)
  <2>1. Times(U[n], u) = Times(held[u], n)
    BY DEF Listed
  <2>2. Times(V[n], u) = IF u = i THEN Times(U[n], u) + Times(s, n) ELSE Times(U[n], u)
    BY DEF Gains
  <2>3. Times(new, n) = Times(held[i], n) + Times(s, n)
    OBVIOUS
  <2> QED
    BY <1>1, <2>1, <2>2, <2>3
<1>3. Listed(V, N, after)
  BY <1>1, <1>2 DEF Listed, Gains
<1> QED
  BY <1>3 DEF after

LEMMA LosesListed ==
  ASSUME NEW U, NEW N, NEW held, Listed(U, N, held), NEW i \in N, NEW V \in [N -> Seq(N)], NEW s,
         Gains(V, U, N, i, s), NEW new \in Seq(N \cup {Nil}),
         \A n \in N : Times(held[i], n) = Times(new, n) + Times(s, n),
         \A n \in N : Times(s, n) \in Nat
  PROVE  Listed(V, N, With(held, i, new))
<1> DEFINE after == With(held, i, new)
<1>1. after \in [N -> Seq(N \cup {Nil})] /\ \A u \in N : after[u] = IF u = i THEN new ELSE held[u]
  BY DEF Listed, With
<1> HIDE DEF after
<1>2. ASSUME NEW n \in N, NEW u \in N  PROVE Times(V[n], u) = Times(after[u], n)
  <2>1. Times(U[n], u) = Times(held[u], n)
    BY DEF Listed
  <2>2. Times(U[n], u) = IF u = i THEN Times(V[n], u) + Times(s, n) ELSE Times(V[n], u)
    BY DEF Gains
  <2>3. CASE u # i
    BY <1>1, <2>1, <2>2, <2>3
  <2>4. CASE u = i
    <3>1. Times(V[n], u) + Times(s, n) = Times(new, n) + Times(s, n)
      BY <2>1, <2>2, <2>4
    <3>2. Times(V[n], u) \in Nat /\ Times(new, n) \in Nat /\ Times(s, n) \in Nat
      BY TimesCounted
    <3>3. Times(V[n], u) = Times(new, n)
      BY <3>1, <3>2
    <3> QED
      BY <1>1, <2>4, <3>3
  <2> QED
    BY <2>3, <2>4
<1>3. Listed(V, N, after)
  BY <1>1, <1>2 DEF Listed
<1> QED
  BY <1>3 DEF after

(* References that name the same nodes as often are as good.               *)
LEMMA ListedSame ==
  ASSUME NEW U, NEW N, NEW held, Listed(U, N, held), NEW i \in N, NEW new \in Seq(N \cup {Nil}),
         \A n \in N : Times(new, n) = Times(held[i], n)
  PROVE  Listed(U, N, With(held, i, new))
<1> DEFINE after == With(held, i, new)
<1>1. after \in [N -> Seq(N \cup {Nil})] /\ \A u \in N : after[u] = IF u = i THEN new ELSE held[u]
  BY DEF Listed, With
<1> HIDE DEF after
<1>2. Listed(U, N, after)
  BY <1>1 DEF Listed
<1> QED
  BY <1>2 DEF after

-----------------------------------------------------------------------------
(* One use.                                                                *)

(* F with other instructions and lists; a function is such a record.       *)
Relinked(F, inst, uses) ==
  [order |-> F.order, code |-> F.code, inst |-> inst, uses |-> uses,
   fault |-> F.fault, next |-> F.next]
Formed(F) == F = Relinked(F, F.inst, F.uses)

LEMMA RelinkedIs ==
  ASSUME NEW F, NEW inst, NEW uses
  PROVE  LET H == Relinked(F, inst, uses) IN
         /\ Formed(H) /\ H.inst = inst /\ H.uses = uses
         /\ H.order = F.order /\ H.code = F.code /\ H.fault = F.fault /\ H.next = F.next
         /\ \A x, y : Relinked(H, x, y) = Relinked(F, x, y)
<1> DEFINE H == Relinked(F, inst, uses)
<1>1. H = [order |-> F.order, code |-> F.code, inst |-> inst, uses |-> uses,
           fault |-> F.fault, next |-> F.next]
  BY DEF Relinked
<1> HIDE DEF H
<1>2. /\ H.order = F.order /\ H.code = F.code /\ H.inst = inst /\ H.uses = uses
      /\ H.fault = F.fault /\ H.next = F.next
  BY <1>1
<1>3. \A x, y : Relinked(H, x, y) = Relinked(F, x, y)
  BY <1>2 DEF Relinked
<1>4. Formed(H)
  BY <1>1, <1>2 DEF Formed, Relinked
<1> QED
  BY <1>2, <1>3, <1>4 DEF H

(* The nodes of a function, and lists over them.                           *)
Used(F, N) == Formed(F) /\ F.fault \in BOOLEAN /\ Nil \notin N /\ F.uses \in [N -> Seq(N)]

(* H is F with other lists, in which n has one use by i more.              *)
OneMore(U, V, N, n, i) ==
  /\ V \in [N -> Seq(N)]
  /\ \A m, u \in N : Times(V[m], u) = IF m = n /\ u = i THEN Times(U[m], u) + 1 ELSE Times(U[m], u)

LEMMA AddedOne ==
  ASSUME NEW F, NEW N, Used(F, N), NEW i \in N, NEW n \in N \cup {Nil}
  PROVE  LET H == addUse(F, n, i) IN
         H = Relinked(F, F.inst, H.uses) /\ OneMore(F.uses, H.uses, N, n, i)
<1> DEFINE H == addUse(F, n, i)
<1>1. Formed(F) /\ Nil \notin N /\ F.uses \in [N -> Seq(N)]
  BY DEF Used
<1>2. CASE n = Nil
  <2>1. H = F
    BY <1>2 DEF addUse
  <2>2. OneMore(F.uses, F.uses, N, n, i)
    BY <1>1, <1>2 DEF OneMore
  <2> HIDE DEF H
  <2> QED
    BY <1>1, <2>1, <2>2 DEF H, Formed
<1>3. CASE n # Nil
  <2> DEFINE list == <<i>> \o F.uses[n]
             V == [F.uses EXCEPT ![n] = list]
  <2>1. n \in N /\ F.uses[n] \in Seq(N)
    BY <1>1, <1>3
  <2>2. list \in Seq(N) /\ \A u : Times(list, u) = IF u = i THEN Times(F.uses[n], u) + 1 ELSE Times(F.uses[n], u)
    BY <2>1, TimesFront
  <2>3. H = Relinked(F, F.inst, V)
    <3>1. H = [F EXCEPT !.uses[n] = list]
      BY <1>3 DEF addUse
    <3> HIDE DEF list
    <3> QED
      BY <1>1, <3>1 DEF Formed, Relinked
  <2> HIDE DEF list, H
  <2>4. V \in [N -> Seq(N)] /\ \A m \in N : V[m] = IF m = n THEN list ELSE F.uses[m]
    BY <1>1, <2>2
  <2> HIDE DEF V
  <2>5. OneMore(F.uses, V, N, n, i)
    BY <2>1, <2>2, <2>4 DEF OneMore
  <2>6. H.uses = V
    BY <2>3, RelinkedIs
  <2> QED
    BY <2>3, <2>5, <2>6 DEF H
<1> QED
  BY <1>2, <1>3

LEMMA RemovedOne ==
  ASSUME NEW F, NEW N, Used(F, N), NEW i \in N, NEW n \in N \cup {Nil},
         n # Nil => Times(F.uses[n], i) # 0
  PROVE  LET H == removeUse(F, n, i) IN
         /\ H = Relinked(F, F.inst, H.uses) /\ H.uses \in [N -> Seq(N)]
         /\ OneMore(H.uses, F.uses, N, n, i)
<1> DEFINE H == removeUse(F, n, i)
<1>1. Formed(F) /\ F.fault \in BOOLEAN /\ Nil \notin N /\ F.uses \in [N -> Seq(N)]
  BY DEF Used
<1>2. CASE n = Nil
  <2>1. H = F
    BY <1>2 DEF removeUse
  <2>2. OneMore(F.uses, F.uses, N, n, i)
    BY <1>1, <1>2 DEF OneMore
  <2> HIDE DEF H
  <2> QED
    BY <1>1, <2>1, <2>2 DEF H, Formed
<1>3. CASE n # Nil
  <2> DEFINE list == RemoveFirst(F.uses[n], i)
             V == [F.uses EXCEPT ![n] = list]
  <2>1. n \in N /\ F.uses[n] \in Seq(N)
    BY <1>1, <1>3
  <2>2. Contains(F.uses[n], i)
    BY <1>3, <2>1, TimesCounted
  <2>3. list \in Seq(N) /\ \A u : Times(F.uses[n], u) = IF u = i THEN Times(list, u) + 1 ELSE Times(list, u)
    BY <2>1, <2>2, TimesRemoved
  <2>4. H = Relinked(F, F.inst, V)
    <3>1. H = [F EXCEPT !.fault = F.fault \/ ~Contains(F.uses[n], i), !.uses[n] = list]
      BY <1>3 DEF removeUse
    <3> HIDE DEF list
    <3>2. (F.fault \/ ~Contains(F.uses[n], i)) = F.fault
      BY <1>1, <2>2
    <3> QED
      BY <1>1, <3>1, <3>2 DEF Formed, Relinked
  <2> HIDE DEF list, H
  <2>5. V \in [N -> Seq(N)] /\ \A m \in N : V[m] = IF m = n THEN list ELSE F.uses[m]
    BY <1>1, <2>3
  <2> HIDE DEF V
  <2>6. OneMore(V, F.uses, N, n, i)
    BY <1>1, <2>1, <2>3, <2>5 DEF OneMore
  <2>7. H.uses = V
    BY <2>4, RelinkedIs
  <2> QED
    BY <2>4, <2>5, <2>6, <2>7 DEF H
<1> QED
  BY <1>2, <1>3

-----------------------------------------------------------------------------
(* The uses of a list of references, taken and given back.                 *)

LEMMA UsedOf ==
  ASSUME NEW F, NEW N, Used(F, N), NEW inst, NEW V \in [N -> Seq(N)]
  PROVE  Used(Relinked(F, inst, V), N)
BY RelinkedIs DEF Used

Prior(ns, j) == Beginning(ns, j, Nil)

LEMMA AddedAll ==
  ASSUME NEW F, NEW N, Used(F, N), NEW i \in N, NEW ns \in Seq(N \cup {Nil})
  PROVE  LET H == addUses(F, ns, i) IN
         H = Relinked(F, F.inst, H.uses) /\ Gains(F.uses, H.uses, N, i, ns)
<1> DEFINE c == Len(ns)
           X == N \cup {Nil}
<1>1. c \in Nat /\ ns \in Seq(X) /\ Nil \in X
  BY LenProperties
<1>2. PICK f : /\ f[0] = F /\ addUses(F, ns, i) = f[c]
               /\ \A j \in 1 .. c : f[j] = AddsStep(F, ns, i, f[j - 1], j)
  BY <1>1, AddsUnfold
<1> DEFINE S == {j \in 0 .. c : /\ f[j] = Relinked(F, F.inst, f[j].uses)
                                /\ Gains(F.uses, f[j].uses, N, i, Prior(ns, j))}
<1>3. /\ Prior(ns, c) = ns
      /\ \A m : m # Nil => Times(Prior(ns, 0), m) = 0
      /\ \A j \in 0 .. c : j < c => \A m : m # Nil =>
              Times(Prior(ns, j + 1), m)
                = IF m = ns[j + 1] THEN Times(Prior(ns, j), m) + 1 ELSE Times(Prior(ns, j), m)
  <2> HIDE DEF X
  <2> QED
    BY <1>1, BeginningStep DEF Prior
<1>4. 0 \in S
  <2>1. f[0] = Relinked(F, F.inst, f[0].uses)
    BY <1>2 DEF Used, Formed
  <2>2. ASSUME NEW n \in N, NEW u \in N
        PROVE  Times(F.uses[n], u) = IF u = i THEN Times(F.uses[n], u) + Times(Prior(ns, 0), n) ELSE Times(F.uses[n], u)
    <3>1. Times(Prior(ns, 0), n) = 0
      BY <1>3 DEF Used
    <3>2. Times(F.uses[n], u) \in Nat
      BY TimesCounted DEF Used
    <3> HIDE DEF X, c
    <3> QED
      BY <3>1, <3>2
  <2>3. Gains(F.uses, f[0].uses, N, i, Prior(ns, 0))
    BY <1>2, <2>2 DEF Used, Gains
  <2> QED
    BY <1>1, <2>1, <2>3
<1>5. ASSUME NEW j \in 0 .. c, j \in S, j < c  PROVE j + 1 \in S
  <2> DEFINE G == f[j]
             H == f[j + 1]
             n == ns[j + 1]
  <2>1. G = Relinked(F, F.inst, G.uses) /\ Gains(F.uses, G.uses, N, i, Prior(ns, j))
    BY <1>5
  <2>2. H = addUse(G, n, i) /\ j + 1 \in 0 .. c
    <3>1. j + 1 \in 1 .. c /\ (j + 1) - 1 = j
      BY <1>1, <1>5
    <3> QED
      BY <1>2, <3>1 DEF AddsStep
  <2>3. n \in X
    <3>1. j + 1 \in 1 .. Len(ns)
      BY <1>1, <1>5
    <3> HIDE DEF X
    <3> QED
      BY <1>1, <3>1, ElementOfSeq
  <2> HIDE DEF c, G, H, S, n
  <2>4. Used(G, N)
    BY <2>1, UsedOf DEF Gains
  <2>5. H = Relinked(G, G.inst, H.uses) /\ OneMore(G.uses, H.uses, N, n, i)
    BY <2>2, <2>3, <2>4, AddedOne
  <2>6. H = Relinked(F, F.inst, H.uses)
    BY <2>1, <2>5, RelinkedIs
  <2>7. ASSUME NEW m \in N, NEW u \in N
        PROVE  Times(H.uses[m], u)
                 = IF u = i THEN Times(F.uses[m], u) + Times(Prior(ns, j + 1), m) ELSE Times(F.uses[m], u)
    <3>1. Times(G.uses[m], u) = IF u = i THEN Times(F.uses[m], u) + Times(Prior(ns, j), m) ELSE Times(F.uses[m], u)
      BY <2>1 DEF Gains
    <3>2. Times(H.uses[m], u) = IF m = n /\ u = i THEN Times(G.uses[m], u) + 1 ELSE Times(G.uses[m], u)
      BY <2>5 DEF OneMore
    <3>3. Times(Prior(ns, j + 1), m) = IF m = n THEN Times(Prior(ns, j), m) + 1 ELSE Times(Prior(ns, j), m)
      BY <1>3, <1>5 DEF Used, n
    <3>4. Times(F.uses[m], u) \in Nat /\ Times(Prior(ns, j), m) \in Nat
      <4>1. Times(F.uses[m], u) \in Nat
        BY TimesCounted DEF Used
      <4>2. Times(Prior(ns, j), m) \in Nat
        <5>1. m # Nil /\ Nil \in X /\ ns \in Seq(X) /\ j \in 0 .. Len(ns)
          BY <1>1 DEF Used, c
        <5> HIDE DEF X
        <5> QED
          BY <5>1, BeginningLess DEF Prior
      <4> QED
        BY <4>1, <4>2
    <3> QED
      BY <3>1, <3>2, <3>3, <3>4
  <2>8. Gains(F.uses, H.uses, N, i, Prior(ns, j + 1))
    BY <2>5, <2>7 DEF Gains, OneMore
  <2> QED
    BY <2>2, <2>6, <2>8 DEF H, S
<1>6. \A j \in 0 .. c : j \in S
  <2> HIDE DEF S, c
  <2>1. \A j \in 0 .. c : j \in S /\ j < c => j + 1 \in S
    BY <1>5
  <2> QED
    BY <1>1, <1>4, <2>1, Climbs
<1>7. c \in S
  BY <1>1, <1>6
<1> HIDE DEF c
<1> QED
  BY <1>2, <1>3, <1>7

LEMMA RemovedAll ==
  ASSUME NEW F, NEW N, Used(F, N), NEW i \in N, NEW ns \in Seq(N \cup {Nil}),
         \A n \in N : Times(ns, n) <= Times(F.uses[n], i)
  PROVE  LET H == removeUses(F, ns, i) IN
         /\ H = Relinked(F, F.inst, H.uses) /\ H.uses \in [N -> Seq(N)]
         /\ Gains(H.uses, F.uses, N, i, ns)
<1> DEFINE c == Len(ns)
           X == N \cup {Nil}
<1>1. c \in Nat /\ ns \in Seq(X) /\ Nil \in X
  BY LenProperties
<1>2. PICK f : /\ f[0] = F /\ removeUses(F, ns, i) = f[c]
               /\ \A j \in 1 .. c : f[j] = RemovesStep(F, ns, i, f[j - 1], j)
  BY <1>1, RemovesUnfold
<1> DEFINE S == {j \in 0 .. c : /\ f[j] = Relinked(F, F.inst, f[j].uses)
                                /\ f[j].uses \in [N -> Seq(N)]
                                /\ Gains(f[j].uses, F.uses, N, i, Prior(ns, j))}
<1>3. /\ Prior(ns, c) = ns
      /\ \A m : m # Nil => Times(Prior(ns, 0), m) = 0
      /\ \A j \in 0 .. c : j < c => \A m : m # Nil =>
              Times(Prior(ns, j + 1), m)
                = IF m = ns[j + 1] THEN Times(Prior(ns, j), m) + 1 ELSE Times(Prior(ns, j), m)
  <2> HIDE DEF X
  <2> QED
    BY <1>1, BeginningStep DEF Prior
<1>4. 0 \in S
  <2>1. f[0] = Relinked(F, F.inst, f[0].uses)
    BY <1>2 DEF Used, Formed
  <2>2. ASSUME NEW n \in N, NEW u \in N
        PROVE  Times(F.uses[n], u) = IF u = i THEN Times(F.uses[n], u) + Times(Prior(ns, 0), n) ELSE Times(F.uses[n], u)
    <3>1. Times(Prior(ns, 0), n) = 0
      BY <1>3 DEF Used
    <3>2. Times(F.uses[n], u) \in Nat
      BY TimesCounted DEF Used
    <3> HIDE DEF X, c
    <3> QED
      BY <3>1, <3>2
  <2>3. Gains(f[0].uses, F.uses, N, i, Prior(ns, 0))
    BY <1>2, <2>2 DEF Used, Gains
  <2> QED
    BY <1>1, <1>2, <2>1, <2>3 DEF Used
<1>5. ASSUME NEW j \in 0 .. c, j \in S, j < c  PROVE j + 1 \in S
  <2> DEFINE G == f[j]
             H == f[j + 1]
             n == ns[j + 1]
  <2>1. /\ G = Relinked(F, F.inst, G.uses) /\ G.uses \in [N -> Seq(N)]
        /\ Gains(G.uses, F.uses, N, i, Prior(ns, j))
    BY <1>5
  <2>2. H = removeUse(G, n, i) /\ j + 1 \in 0 .. c
    <3>1. j + 1 \in 1 .. c /\ (j + 1) - 1 = j
      BY <1>1, <1>5
    <3> QED
      BY <1>2, <3>1 DEF RemovesStep
  <2>3. n \in X
    <3>1. j + 1 \in 1 .. Len(ns)
      BY <1>1, <1>5
    <3> HIDE DEF X
    <3> QED
      BY <1>1, <3>1, ElementOfSeq
  <2> HIDE DEF c, G, H, S
  <2>4. Used(G, N)
    BY <2>1, UsedOf
  <2>5. ASSUME NEW m \in N
        PROVE  /\ Times(Prior(ns, j), m) \in Nat /\ Times(Prior(ns, j + 1), m) \in Nat
               /\ Times(Prior(ns, j + 1), m) <= Times(ns, m)
               /\ Times(Prior(ns, j + 1), m) = IF m = n THEN Times(Prior(ns, j), m) + 1 ELSE Times(Prior(ns, j), m)
    <3>1. m # Nil /\ Nil \in X /\ ns \in Seq(X) /\ j \in 0 .. Len(ns) /\ j + 1 \in 0 .. Len(ns)
      BY <1>1, <2>2 DEF Used, c
    <3> HIDE DEF X
    <3>2. Times(Prior(ns, j), m) \in Nat
      BY <3>1, BeginningLess DEF Prior
    <3>3. Times(Prior(ns, j + 1), m) \in Nat /\ Times(Prior(ns, j + 1), m) <= Times(ns, m)
      BY <3>1, BeginningLess DEF Prior
    <3> QED
      BY <1>3, <1>5, <3>1, <3>2, <3>3 DEF n
  <2> HIDE DEF n
  <2>6. n # Nil => Times(G.uses[n], i) # 0
    <3> SUFFICES ASSUME n # Nil  PROVE Times(G.uses[n], i) # 0
      OBVIOUS
    <3>1. n \in N
      BY <2>3
    <3>2. Times(F.uses[n], i) = Times(G.uses[n], i) + Times(Prior(ns, j), n)
      BY <2>1, <3>1 DEF Gains
    <3>3. Times(ns, n) <= Times(F.uses[n], i)
      BY <3>1
    <3>4. Times(ns, n) \in Nat
      <4> HIDE DEF X
      <4> QED
        BY <1>1, TimesCounted
    <3>5. Times(F.uses[n], i) \in Nat /\ Times(G.uses[n], i) \in Nat
      <4>1. F.uses[n] \in Seq(N) /\ G.uses[n] \in Seq(N)
        BY <2>1, <3>1 DEF Used
      <4> QED
        BY <4>1, TimesCounted
    <3> QED
      BY <2>5, <3>1, <3>2, <3>3, <3>4, <3>5
  <2>7. /\ H = Relinked(G, G.inst, H.uses) /\ H.uses \in [N -> Seq(N)]
        /\ OneMore(H.uses, G.uses, N, n, i)
    BY <2>2, <2>3, <2>4, <2>6, RemovedOne
  <2>8. H = Relinked(F, F.inst, H.uses)
    BY <2>1, <2>7, RelinkedIs
  <2>9. ASSUME NEW m \in N, NEW u \in N
        PROVE  Times(F.uses[m], u)
                 = IF u = i THEN Times(H.uses[m], u) + Times(Prior(ns, j + 1), m) ELSE Times(H.uses[m], u)
    <3>1. Times(F.uses[m], u) = IF u = i THEN Times(G.uses[m], u) + Times(Prior(ns, j), m) ELSE Times(G.uses[m], u)
      BY <2>1 DEF Gains
    <3>2. Times(G.uses[m], u) = IF m = n /\ u = i THEN Times(H.uses[m], u) + 1 ELSE Times(H.uses[m], u)
      BY <2>7 DEF OneMore
    <3>3. Times(Prior(ns, j + 1), m) = IF m = n THEN Times(Prior(ns, j), m) + 1 ELSE Times(Prior(ns, j), m)
      BY <2>5
    <3>4. Times(H.uses[m], u) \in Nat /\ Times(Prior(ns, j), m) \in Nat
      <4>1. H.uses[m] \in Seq(N)
        BY <2>7
      <4> QED
        BY <2>5, <4>1, TimesCounted
    <3> QED
      BY <3>1, <3>2, <3>3, <3>4
  <2>10. Gains(H.uses, F.uses, N, i, Prior(ns, j + 1))
    BY <2>9 DEF Gains, Used
  <2> QED
    BY <2>2, <2>7, <2>8, <2>10 DEF H, S
<1>6. \A j \in 0 .. c : j \in S
  <2> HIDE DEF S, c
  <2>1. \A j \in 0 .. c : j \in S /\ j < c => j + 1 \in S
    BY <1>5
  <2> QED
    BY <1>1, <1>4, <2>1, Climbs
<1>7. c \in S
  BY <1>1, <1>6
<1> HIDE DEF c
<1> QED
  BY <1>2, <1>3, <1>7

-----------------------------------------------------------------------------
(* References that change.                                                 *)

Tagged(inst) ==
  inst = [i \in DOMAIN inst |-> [kind |-> inst[i].kind, type |-> inst[i].type, refs |-> inst[i].refs]]
Rewired(inst, i, r) == [inst EXCEPT ![i].refs = r]

LEMMA RewiredIs ==
  ASSUME NEW inst, Tagged(inst), NEW i \in DOMAIN inst, NEW r
  PROVE  LET after == Rewired(inst, i, r) IN
         /\ Tagged(after) /\ DOMAIN after = DOMAIN inst
         /\ \A u \in DOMAIN inst : /\ after[u].kind = inst[u].kind /\ after[u].type = inst[u].type
                                   /\ after[u].refs = IF u = i THEN r ELSE inst[u].refs
<1> DEFINE after == Rewired(inst, i, r)
           D == DOMAIN inst
<1>1. after = [inst EXCEPT ![i].refs = r] /\ DOMAIN after = D
  BY DEF Rewired
<1>2. inst[i] = [kind |-> inst[i].kind, type |-> inst[i].type, refs |-> inst[i].refs]
  BY DEF Tagged
<1>3. after[i] = [inst[i] EXCEPT !.refs = r]
  BY <1>1
<1> HIDE DEF after
<1>4. after[i] = [kind |-> inst[i].kind, type |-> inst[i].type, refs |-> r]
  BY <1>2, <1>3
<1>5. \A u \in D : u # i => after[u] = inst[u]
  BY <1>1
<1>6. \A u \in D : /\ after[u].kind = inst[u].kind /\ after[u].type = inst[u].type
                   /\ after[u].refs = IF u = i THEN r ELSE inst[u].refs
  BY <1>4, <1>5
<1>7. ASSUME NEW u \in D
      PROVE  after[u] = [kind |-> after[u].kind, type |-> after[u].type, refs |-> after[u].refs]
  <2>1. inst[u] = [kind |-> inst[u].kind, type |-> inst[u].type, refs |-> inst[u].refs]
    BY DEF Tagged
  <2> QED
    BY <1>4, <1>5, <2>1
<1>8. Tagged(after)
  BY <1>1, <1>7 DEF Tagged
<1> QED
  BY <1>1, <1>6, <1>8 DEF after

LEMMA TaggedSame ==
  ASSUME NEW a, NEW b, Tagged(a), Tagged(b), DOMAIN a = DOMAIN b,
         \A u \in DOMAIN a : a[u].kind = b[u].kind /\ a[u].type = b[u].type /\ a[u].refs = b[u].refs
  PROVE  a = b
<1>1. ASSUME NEW u \in DOMAIN a  PROVE a[u] = b[u]
  <2>1. a[u] = [kind |-> a[u].kind, type |-> a[u].type, refs |-> a[u].refs]
    BY DEF Tagged
  <2>2. b[u] = [kind |-> b[u].kind, type |-> b[u].type, refs |-> b[u].refs]
    BY DEF Tagged
  <2> QED
    BY <2>1, <2>2
<1>2. a = [u \in DOMAIN a |-> a[u]] /\ b = [u \in DOMAIN b |-> b[u]]
  BY DEF Tagged
<1> QED
  BY <1>1, <1>2

(* The k-th reference becomes another.                                     *)
LEMMA RewiredOne ==
  ASSUME NEW inst, Tagged(inst), NEW i \in DOMAIN inst, NEW r, NEW k, NEW x
  PROVE  [Rewired(inst, i, r) EXCEPT ![i].refs[k] = x] = Rewired(inst, i, Put(r, k, x))
<1> DEFINE a == Rewired(inst, i, r)
           b == [a EXCEPT ![i].refs[k] = x]
           c == Rewired(inst, i, Put(r, k, x))
           q == Put(r, k, x)
<1>1. /\ Tagged(a) /\ DOMAIN a = DOMAIN inst
      /\ \A u \in DOMAIN inst : /\ a[u].kind = inst[u].kind /\ a[u].type = inst[u].type
                                /\ a[u].refs = IF u = i THEN r ELSE inst[u].refs
  BY RewiredIs
<1>2. /\ Tagged(c) /\ DOMAIN c = DOMAIN inst
      /\ \A u \in DOMAIN inst : /\ c[u].kind = inst[u].kind /\ c[u].type = inst[u].type
                                /\ c[u].refs = IF u = i THEN q ELSE inst[u].refs
  <2> HIDE DEF q
  <2> QED
    BY RewiredIs DEF q
<1> HIDE DEF a, c
<1>3. b = Rewired(a, i, q)
  BY <1>1 DEF Rewired, Put
<1> HIDE DEF b, q
<1>4. /\ Tagged(b) /\ DOMAIN b = DOMAIN inst
      /\ \A u \in DOMAIN inst : /\ b[u].kind = a[u].kind /\ b[u].type = a[u].type
                                /\ b[u].refs = IF u = i THEN q ELSE a[u].refs
  BY <1>1, <1>3, RewiredIs
<1>5. b = c
  BY <1>1, <1>2, <1>4, TaggedSame
<1> QED
  BY <1>5 DEF a, b, c

Shifted(G, H, N, held, i, k, new) ==
  /\ H = Relinked(G, [G.inst EXCEPT ![i].refs[k] = new], H.uses)
  /\ Listed(H.uses, N, With(held, i, Put(held[i], k, new)))

LEMMA MoveOne ==
  ASSUME NEW G, NEW N, Used(G, N), NEW held, Listed(G.uses, N, held), NEW i \in N,
         NEW k \in 1 .. Len(held[i]), NEW old \in N, held[i][k] = old, NEW new \in N \cup {Nil}
  PROVE  Shifted(G, moveRef(G, i, k, old, new), N, held, i, k, new)
<1> DEFINE A == removeUse(G, old, i)
           B == addUse(A, new, i)
           H == moveRef(G, i, k, old, new)
           r == held[i]
           q == Put(r, k, new)
           X == N \cup {Nil}
<1>1. Nil \notin N /\ r \in Seq(X) /\ \A n, u \in N : Times(G.uses[n], u) = Times(held[u], n)
  BY DEF Listed
<1>2. Times(G.uses[old], i) # 0
  <2>1. Times(r, old) # 0
    <3> HIDE DEF r, X
    <3> QED
      BY <1>1, TimesCounted DEF r
  <2> QED
    BY <1>1, <2>1
<1>3. A = Relinked(G, G.inst, A.uses) /\ A.uses \in [N -> Seq(N)] /\ OneMore(A.uses, G.uses, N, old, i)
  <2> HIDE DEF A
  <2> QED
    BY <1>2, RemovedOne DEF A
<1>4. Used(A, N) /\ A.inst = G.inst
  <2> HIDE DEF A
  <2> QED
    BY <1>3, UsedOf, RelinkedIs
<1>5. B = Relinked(A, A.inst, B.uses) /\ OneMore(A.uses, B.uses, N, new, i)
  <2> HIDE DEF A, B
  <2> QED
    BY <1>4, AddedOne DEF B
<1>6. B = Relinked(G, G.inst, B.uses)
  <2> HIDE DEF A, B
  <2> QED
    BY <1>3, <1>4, <1>5, RelinkedIs
<1>7. H = [B EXCEPT !.inst[i].refs[k] = new]
  BY DEF moveRef
<1> HIDE DEF A, B, H
<1>8. H = Relinked(G, [G.inst EXCEPT ![i].refs[k] = new], B.uses)
  BY <1>6, <1>7 DEF Relinked
<1>9. H.uses = B.uses
  BY <1>8, RelinkedIs
<1>10. ASSUME NEW n \in N  PROVE Times(q, n) \in Nat /\ Times(r, n) \in Nat
                              /\ Times(q, n) + (IF old = n THEN 1 ELSE 0) = Times(r, n) + (IF new = n THEN 1 ELSE 0)
  <2>1. r[k] = old /\ k \in 1 .. Len(r) /\ new \in X /\ r \in Seq(X)
    BY <1>1
  <2> HIDE DEF r, X, q
  <2>2. /\ Times(Put(r, k, new), n) \in Nat /\ Times(r, n) \in Nat
        /\ Times(Put(r, k, new), n) + (IF r[k] = n THEN 1 ELSE 0) = Times(r, n) + (IF new = n THEN 1 ELSE 0)
    BY <2>1, TimesPut
  <2> QED
    BY <2>1, <2>2 DEF q
<1>11. q \in Seq(X)
  <2> HIDE DEF r, X, q
  <2> QED
    BY <1>1, TimesChanged DEF q, r, X
<1> DEFINE after == With(held, i, q)
<1>12. after \in [N -> Seq(X)] /\ \A u \in N : after[u] = IF u = i THEN q ELSE held[u]
  <2> HIDE DEF q
  <2> QED
    BY <1>11 DEF Listed, With
<1> HIDE DEF q, r, X, after
<1>13. ASSUME NEW n \in N, NEW u \in N  PROVE Times(B.uses[n], u) = Times(after[u], n)
  <2>1. Times(G.uses[n], u) = IF n = old /\ u = i THEN Times(A.uses[n], u) + 1 ELSE Times(A.uses[n], u)
    BY <1>3 DEF OneMore
  <2>2. Times(B.uses[n], u) = IF n = new /\ u = i THEN Times(A.uses[n], u) + 1 ELSE Times(A.uses[n], u)
    BY <1>5 DEF OneMore
  <2>3. Times(G.uses[n], u) = Times(held[u], n)
    BY <1>1
  <2>4. CASE u # i
    BY <1>12, <2>1, <2>2, <2>3, <2>4
  <2>5. CASE u = i
    <3>1. Times(A.uses[n], u) \in Nat
      <4>1. A.uses[n] \in Seq(N)
        BY <1>3
      <4> QED
        BY <4>1, TimesCounted
    <3>2. Times(G.uses[n], u) = Times(r, n) /\ after[u] = q
      BY <1>12, <2>3, <2>5 DEF r
    <3> QED
      BY <1>10, <2>1, <2>2, <2>5, <3>1, <3>2
  <2> QED
    BY <2>4, <2>5
<1>14. Listed(B.uses, N, after)
  BY <1>1, <1>5, <1>12, <1>13 DEF Listed, OneMore, X
<1> QED
  BY <1>8, <1>9, <1>14 DEF Shifted, H, after, q, r

(* The references r once the first k have been asked, and all of them.     *)
Some(r, k, old, new) == [p \in 1 .. Len(r) |-> IF p <= k /\ r[p] = old THEN new ELSE r[p]]
Swapped(r, old, new) == [p \in 1 .. Len(r) |-> IF r[p] = old THEN new ELSE r[p]]

Swapping(X, r, old, new) ==
  /\ Some(r, 0, old, new) = r
  /\ Some(r, Len(r), old, new) = Swapped(r, old, new)
  /\ \A j \in 0 .. Len(r) : Some(r, j, old, new) \in Seq(X) /\ Len(Some(r, j, old, new)) = Len(r)
  /\ \A j \in 0 .. Len(r) : j < Len(r) =>
       /\ Some(r, j, old, new)[j + 1] = r[j + 1]
       /\ r[j + 1] = old => Put(Some(r, j, old, new), j + 1, new) = Some(r, j + 1, old, new)
       /\ r[j + 1] # old => Some(r, j + 1, old, new) = Some(r, j, old, new)

LEMMA SomeIs ==
  ASSUME NEW X, NEW r \in Seq(X), NEW old, NEW new \in X
  PROVE  Swapping(X, r, old, new)
<1> DEFINE c == Len(r)
           t(j) == Some(r, j, old, new)
<1>1. c \in Nat /\ r \in [1 .. c -> X] /\ r = [p \in 1 .. c |-> r[p]]
  BY LenProperties
<1>2. \A j : t(j) = [p \in 1 .. c |-> IF p <= j /\ r[p] = old THEN new ELSE r[p]]
  BY DEF Some
<1> HIDE DEF c, t
<1>3. ASSUME NEW j \in 0 .. c  PROVE t(j) \in Seq(X) /\ Len(t(j)) = c
  <2>1. t(j) \in [1 .. c -> X] /\ DOMAIN t(j) = 1 .. c
    BY <1>1, <1>2
  <2>2. t(j) \in Seq(X)
    BY <1>1, <2>1, SeqDef
  <2>3. Len(t(j)) \in Nat /\ DOMAIN t(j) = 1 .. Len(t(j))
    BY <2>2, LenProperties
  <2> QED
    BY <1>1, <2>1, <2>2, <2>3
<1>4. t(0) = r
  <2>1. \A p \in 1 .. c : ~(p <= 0)
    BY <1>1
  <2> QED
    BY <1>1, <1>2, <2>1
<1>5. t(c) = Swapped(r, old, new)
  <2>1. \A p \in 1 .. c : p <= c
    BY <1>1
  <2> QED
    BY <1>2, <2>1 DEF Swapped, c
<1>6. ASSUME NEW j \in 0 .. c, j < c
      PROVE  /\ t(j)[j + 1] = r[j + 1]
             /\ r[j + 1] = old => Put(t(j), j + 1, new) = t(j + 1)
             /\ r[j + 1] # old => t(j + 1) = t(j)
  <2>1. j + 1 \in 1 .. c /\ ~(j + 1 <= j)
    BY <1>1, <1>6
  <2>2. t(j)[j + 1] = r[j + 1]
    BY <1>2, <2>1
  <2>3. \A p \in 1 .. c : p <= j + 1 <=> p <= j \/ p = j + 1
    BY <1>1, <1>6
  <2>4. CASE r[j + 1] # old
    BY <1>2, <2>2, <2>3, <2>4
  <2>5. CASE r[j + 1] = old
    <3>1. Put(t(j), j + 1, new) = [p \in 1 .. c |-> IF p = j + 1 THEN new ELSE t(j)[p]]
      BY <1>2, <2>1 DEF Put
    <3>2. ASSUME NEW p \in 1 .. c
          PROVE  (IF p = j + 1 THEN new ELSE t(j)[p]) = IF p <= j + 1 /\ r[p] = old THEN new ELSE r[p]
      BY <1>2, <2>3, <2>5
    <3>3. t(j + 1) = [p \in 1 .. c |-> IF p <= j + 1 /\ r[p] = old THEN new ELSE r[p]]
      BY <1>2
    <3> QED
      BY <2>2, <2>5, <3>1, <3>2, <3>3
  <2> QED
    BY <2>4, <2>5
<1> QED
  BY <1>3, <1>4, <1>5, <1>6 DEF Swapping, c, t

LEMMA MovedAll ==
  ASSUME NEW F, NEW N, Used(F, N), Tagged(F.inst), NEW held, Listed(F.uses, N, held),
         NEW i \in N, i \in DOMAIN F.inst, F.inst[i].refs = held[i],
         NEW old \in N, NEW new \in N \cup {Nil}
  PROVE  LET H == Moved(F, i, old, new)
             r == Swapped(held[i], old, new)
         IN  H = Relinked(F, Rewired(F.inst, i, r), H.uses) /\ Listed(H.uses, N, With(held, i, r))
<1> DEFINE r == held[i]
           c == Len(r)
           X == N \cup {Nil}
           t(j) == Some(r, j, old, new)
<1>1. c \in Nat /\ r \in Seq(X) /\ held \in [N -> Seq(X)]
  BY LenProperties DEF Listed
<1>a. F.inst[i].refs = r
  OBVIOUS
<1> HIDE DEF r
<1>2. PICK f : /\ f[0] = F /\ Moved(F, i, old, new) = f[c]
               /\ \A j \in 1 .. c : f[j] = MovesStep(F, i, old, new, f[j - 1], j)
  <2>1. Len(F.inst[i].refs) \in Nat
    BY <1>1, <1>a
  <2>2. \E f : /\ f[0] = F /\ Moved(F, i, old, new) = f[Len(F.inst[i].refs)]
              /\ \A j \in 1 .. Len(F.inst[i].refs) : f[j] = MovesStep(F, i, old, new, f[j - 1], j)
    BY <2>1, MovesUnfold
  <2> QED
    BY <1>a, <2>2
<1>3. /\ t(0) = r /\ t(c) = Swapped(r, old, new)
      /\ \A j \in 0 .. c : t(j) \in Seq(X) /\ Len(t(j)) = c
      /\ \A j \in 0 .. c : j < c => /\ t(j)[j + 1] = r[j + 1]
                                    /\ r[j + 1] = old => Put(t(j), j + 1, new) = t(j + 1)
                                    /\ r[j + 1] # old => t(j + 1) = t(j)
  <2>1. new \in X
    OBVIOUS
  <2> HIDE DEF X
  <2>2. Swapping(X, r, old, new)
    BY <1>1, <2>1, SomeIs
  <2> QED
    BY <2>2 DEF Swapping
<1> DEFINE S == {j \in 0 .. c : /\ f[j] = Relinked(F, Rewired(F.inst, i, t(j)), f[j].uses)
                                /\ Listed(f[j].uses, N, With(held, i, t(j)))}
<1>4. 0 \in S
  <2>1. Rewired(F.inst, i, r) = F.inst
    <3> DEFINE a == Rewired(F.inst, i, r)
    <3>1. /\ Tagged(a) /\ DOMAIN a = DOMAIN F.inst
          /\ \A u \in DOMAIN F.inst : /\ a[u].kind = F.inst[u].kind /\ a[u].type = F.inst[u].type
                                      /\ a[u].refs = IF u = i THEN r ELSE F.inst[u].refs
      BY RewiredIs
    <3> HIDE DEF a
    <3>2. \A u \in DOMAIN F.inst : a[u].refs = F.inst[u].refs
      BY <1>a, <3>1
    <3>3. a = F.inst
      BY <3>1, <3>2, TaggedSame
    <3> QED
      BY <3>3 DEF a
  <2>2. With(held, i, r) = held
    BY <1>1 DEF With, r
  <2>3. f[0] = Relinked(F, F.inst, f[0].uses)
    BY <1>2 DEF Used, Formed
  <2> HIDE DEF t
  <2> QED
    BY <1>1, <1>2, <1>3, <2>1, <2>2, <2>3
<1>5. ASSUME NEW j \in 0 .. c, j \in S, j < c  PROVE j + 1 \in S
  <2> DEFINE G == f[j]
             H == f[j + 1]
             k == j + 1
             a == With(held, i, t(j))
  <2>1. G = Relinked(F, Rewired(F.inst, i, t(j)), G.uses) /\ Listed(G.uses, N, a)
    BY <1>5
  <2> HIDE DEF S, c, t
  <2>2. k \in 1 .. c /\ k - 1 = j /\ k \in 0 .. c
    BY <1>1, <1>5
  <2>3. H = IF r[k] = old THEN moveRef(G, i, k, old, new) ELSE G
    BY <1>2, <1>a, <2>2 DEF MovesStep
  <2> HIDE DEF G, H
  <2>4. G.inst = Rewired(F.inst, i, t(j)) /\ Used(G, N)
    <3>1. G.uses \in [N -> Seq(N)]
      BY <2>1 DEF Listed
    <3> QED
      BY <2>1, <3>1, UsedOf, RelinkedIs
  <2>5. CASE r[k] # old
    <3>1. t(k) = t(j)
      BY <1>3, <1>5, <2>5
    <3>2. H = G
      BY <2>3, <2>5
    <3> QED
      BY <2>1, <2>2, <3>1, <3>2 DEF S, G, H
  <2>6. CASE r[k] = old
    <3>1. a[i] = t(j) /\ a = [held EXCEPT ![i] = t(j)]
      BY <1>1 DEF With
    <3>2. k \in 1 .. Len(a[i]) /\ a[i][k] = old
      BY <1>3, <1>5, <2>2, <2>6, <3>1
    <3>3. Put(a[i], k, new) = t(k)
      BY <1>3, <1>5, <2>6, <3>1
    <3>4. H = moveRef(G, i, k, old, new)
      BY <2>3, <2>6
    <3> HIDE DEF a, k
    <3>5. /\ H = Relinked(G, [G.inst EXCEPT ![i].refs[k] = new], H.uses)
          /\ Listed(H.uses, N, With(a, i, Put(a[i], k, new)))
      <4>1. Shifted(G, moveRef(G, i, k, old, new), N, a, i, k, new)
        <5>1. Used(G, N) /\ Listed(G.uses, N, a) /\ k \in 1 .. Len(a[i]) /\ a[i][k] = old
          BY <2>1, <2>4, <3>2
        <5> QED
          BY <5>1, MoveOne
      <4> QED
        BY <3>4, <4>1 DEF Shifted
    <3>6. [G.inst EXCEPT ![i].refs[k] = new] = Rewired(F.inst, i, t(k))
      <4>1. [G.inst EXCEPT ![i].refs[k] = new] = Rewired(F.inst, i, Put(t(j), k, new))
        BY <2>4, RewiredOne
      <4> QED
        BY <3>1, <3>3, <4>1
    <3>7. With(a, i, t(k)) = With(held, i, t(k))
      BY <1>1, <3>1 DEF With
    <3>8. H = Relinked(F, Rewired(F.inst, i, t(k)), H.uses)
      BY <2>1, <3>5, <3>6, RelinkedIs
    <3> QED
      BY <2>2, <3>3, <3>5, <3>7, <3>8 DEF S, H, k
  <2> QED
    BY <2>5, <2>6
<1>6. \A j \in 0 .. c : j \in S
  <2> HIDE DEF S, c
  <2>1. \A j \in 0 .. c : j \in S /\ j < c => j + 1 \in S
    BY <1>5
  <2> QED
    BY <1>1, <1>4, <2>1, Climbs
<1>7. c \in S
  BY <1>1, <1>6
<1>8. /\ f[c] = Relinked(F, Rewired(F.inst, i, t(c)), f[c].uses)
      /\ Listed(f[c].uses, N, With(held, i, t(c)))
  BY <1>7
<1> HIDE DEF c, t, S
<1> QED
  BY <1>2, <1>3, <1>8 DEF r

LEMMA SwappedIs ==
  ASSUME NEW X, NEW r \in Seq(X), NEW old, NEW new \in X
  PROVE  LET t == Swapped(r, old, new) IN
         /\ t \in Seq(X) /\ Len(t) = Len(r)
         /\ \A p \in 1 .. Len(r) : t[p] = IF r[p] = old THEN new ELSE r[p]
         /\ Swapped(t, old, new) = t
         /\ (\A p \in 1 .. Len(r) : r[p] # old) => t = r
<1> DEFINE t == Swapped(r, old, new)
           c == Len(r)
<1>1. Swapping(X, r, old, new) /\ c \in Nat
  BY SomeIs, LenProperties
<1>2. t \in Seq(X) /\ Len(t) = c
  <2>1. c \in 0 .. c
    BY <1>1
  <2> QED
    BY <1>1, <2>1 DEF Swapping
<1>3. t = [p \in 1 .. c |-> IF r[p] = old THEN new ELSE r[p]]
  BY DEF Swapped
<1>4. r = [p \in 1 .. c |-> r[p]]
  BY LenProperties
<1>5. Swapped(t, old, new) = [p \in 1 .. c |-> IF t[p] = old THEN new ELSE t[p]]
  <2> HIDE DEF t
  <2> QED
    BY <1>2 DEF Swapped
<1> HIDE DEF t, c
<1>6. Swapped(t, old, new) = t
  <2>1. \A p \in 1 .. c : t[p] = IF r[p] = old THEN new ELSE r[p]
    BY <1>3
  <2>2. \A p \in 1 .. c : (IF t[p] = old THEN new ELSE t[p]) = IF r[p] = old THEN new ELSE r[p]
    BY <2>1
  <2> QED
    BY <1>3, <1>5, <2>2
<1>7. (\A p \in 1 .. c : r[p] # old) => t = r
  BY <1>3, <1>4
<1> QED
  BY <1>2, <1>3, <1>6, <1>7 DEF t, c

(* What the instructions outside X refer to; and F with exact lists.       *)
Held(F, X) == [n \in DOMAIN F.uses |-> IF n \in DOMAIN F.inst \ X THEN F.inst[n].refs ELSE <<>>]
Linked(F, X) ==
  /\ Used(F, DOMAIN F.uses)
  /\ Tagged(F.inst) /\ DOMAIN F.inst \subseteq DOMAIN F.uses
  /\ Listed(F.uses, DOMAIN F.uses, Held(F, X))

(* A conditional has three references.                                     *)
Sided(inst) == \A u \in DOMAIN inst : inst[u].kind = "cond" => Len(inst[u].refs) = 3
FalseTo(inst, u, old) == inst[u].kind = "cond" /\ inst[u].refs[FalseSlot] = old

Redirected(inst, D, old, new) ==
  [i \in DOMAIN inst |-> IF i \in D THEN [kind |-> inst[i].kind, type |-> inst[i].type,
                                          refs |-> Swapped(inst[i].refs, old, new)]
                         ELSE inst[i]]

(* G is F after the instructions D, none of X, have been asked to replace  *)
(* old by new.                                                             *)
Asking(F, G, X, D, old, new) ==
  /\ Linked(G, X)
  /\ DOMAIN G.uses = DOMAIN F.uses /\ DOMAIN G.inst = DOMAIN F.inst
  /\ G.order = F.order /\ G.code = F.code /\ G.next = F.next
  /\ ~G.fault => G.inst = Redirected(F.inst, D, old, new)
  /\ G.fault <=> \E u \in D : FalseTo(F.inst, u, old)

LEMMA RedirectedIs ==
  ASSUME NEW inst, Tagged(inst), NEW D, NEW old, NEW new
  PROVE  LET a == Redirected(inst, D, old, new) IN
         /\ Tagged(a) /\ DOMAIN a = DOMAIN inst
         /\ \A u \in DOMAIN inst :
              /\ a[u].kind = inst[u].kind /\ a[u].type = inst[u].type
              /\ a[u].refs = IF u \in D THEN Swapped(inst[u].refs, old, new) ELSE inst[u].refs
<1> DEFINE a == Redirected(inst, D, old, new)
<1>1. DOMAIN a = DOMAIN inst
  BY DEF Redirected
<1>2. ASSUME NEW u \in DOMAIN inst
      PROVE  /\ a[u] = [kind |-> a[u].kind, type |-> a[u].type, refs |-> a[u].refs]
             /\ a[u].kind = inst[u].kind /\ a[u].type = inst[u].type
             /\ a[u].refs = IF u \in D THEN Swapped(inst[u].refs, old, new) ELSE inst[u].refs
  <2>1. inst[u] = [kind |-> inst[u].kind, type |-> inst[u].type, refs |-> inst[u].refs]
    BY DEF Tagged
  <2>2. a[u] = IF u \in D THEN [kind |-> inst[u].kind, type |-> inst[u].type,
                                refs |-> Swapped(inst[u].refs, old, new)]
               ELSE inst[u]
    BY DEF Redirected
  <2> HIDE DEF a
  <2>3. CASE u \in D
    BY <2>2, <2>3
  <2>4. CASE u \notin D
    BY <2>1, <2>2, <2>4
  <2> QED
    BY <2>3, <2>4
<1>3. a = [u \in DOMAIN inst |-> a[u]]
  BY DEF Redirected
<1> HIDE DEF a
<1>4. Tagged(a)
  BY <1>1, <1>2, <1>3 DEF Tagged
<1> QED
  BY <1>1, <1>2, <1>4 DEF a

LEMMA LinkedRefs ==
  ASSUME NEW F, NEW X, Linked(F, X), NEW u \in DOMAIN F.inst, u \notin X
  PROVE  /\ u \in DOMAIN F.uses /\ F.inst[u].refs = Held(F, X)[u]
         /\ F.inst[u].refs \in Seq(DOMAIN F.uses \cup {Nil})
         /\ Len(F.inst[u].refs) \in Nat
<1> DEFINE N == DOMAIN F.uses
           M == N \cup {Nil}
<1>1. u \in N /\ Held(F, X) \in [N -> Seq(M)]
  BY DEF Linked, Listed
<1>2. Held(F, X)[u] = F.inst[u].refs
  BY <1>1 DEF Held
<1> HIDE DEF M
<1>3. F.inst[u].refs \in Seq(M)
  BY <1>1, <1>2
<1>4. Len(F.inst[u].refs) \in Nat
  BY <1>3, LenProperties
<1> QED
  BY <1>1, <1>2, <1>3, <1>4 DEF M

(* H is G with the references of u changed to r.                           *)
Changed(G, H, X, u, r) ==
  /\ Linked(H, X) /\ DOMAIN H.uses = DOMAIN G.uses
  /\ H.inst = Rewired(G.inst, u, r)
  /\ H.order = G.order /\ H.code = G.code /\ H.next = G.next /\ H.fault = G.fault

LEMMA LinkedMoved ==
  ASSUME NEW G, NEW X, Linked(G, X), NEW u \in DOMAIN G.inst, u \notin X,
         NEW old \in DOMAIN G.uses, NEW new \in DOMAIN G.uses \cup {Nil}
  PROVE  Changed(G, Moved(G, u, old, new), X, u, Swapped(G.inst[u].refs, old, new))
<1> DEFINE N == DOMAIN G.uses
           held == Held(G, X)
           r == Swapped(held[u], old, new)
           H == Moved(G, u, old, new)
<1>1. u \in N /\ G.inst[u].refs = held[u]
  BY LinkedRefs
<1>2. Used(G, N) /\ Tagged(G.inst) /\ Listed(G.uses, N, held)
  BY DEF Linked
<1> HIDE DEF held
<1>3. H = Relinked(G, Rewired(G.inst, u, r), H.uses) /\ Listed(H.uses, N, With(held, u, r))
  BY <1>1, <1>2, MovedAll
<1> HIDE DEF H, r
<1>4. /\ H.inst = Rewired(G.inst, u, r) /\ Used(H, N) /\ DOMAIN H.uses = N
      /\ H.order = G.order /\ H.code = G.code /\ H.next = G.next /\ H.fault = G.fault
  <2>1. H.uses \in [N -> Seq(N)]
    BY <1>3 DEF Listed
  <2> HIDE DEF N
  <2> QED
    BY <1>2, <1>3, <2>1, UsedOf, RelinkedIs
<1>5. /\ Tagged(H.inst) /\ DOMAIN H.inst = DOMAIN G.inst
      /\ \A v \in DOMAIN G.inst : H.inst[v].refs = IF v = u THEN r ELSE G.inst[v].refs
  BY <1>2, <1>4, RewiredIs
<1>6. Held(H, X) = With(held, u, r)
  <2>1. held = [n \in N |-> IF n \in DOMAIN G.inst \ X THEN G.inst[n].refs ELSE <<>>]
    BY DEF held, Held
  <2>2. Held(H, X) = [n \in N |-> IF n \in DOMAIN G.inst \ X THEN H.inst[n].refs ELSE <<>>]
    BY <1>4, <1>5 DEF Held
  <2>3. With(held, u, r) = [n \in N |-> IF n = u THEN r ELSE held[n]]
    BY <2>1 DEF With
  <2>4. \A n \in N : (IF n \in DOMAIN G.inst \ X THEN H.inst[n].refs ELSE <<>>)
                       = IF n = u THEN r ELSE held[n]
    BY <1>1, <1>5, <2>1
  <2> QED
    BY <2>2, <2>3, <2>4
<1>7. Linked(H, X)
  BY <1>3, <1>4, <1>5, <1>6 DEF Linked
<1> QED
  BY <1>1, <1>4, <1>7 DEF Changed, H, r

LEMMA AskOne ==
  ASSUME NEW F, NEW G, NEW X, NEW D, NEW old \in DOMAIN F.uses, NEW new \in DOMAIN F.uses \cup {Nil},
         Linked(F, X), Sided(F.inst), Asking(F, G, X, D, old, new),
         D \subseteq DOMAIN F.inst \ X, NEW u \in DOMAIN F.inst \ X, Nil \notin DOMAIN F.uses
  PROVE  Asking(F, replace(G, u, old, new), X, D \cup {u}, old, new)
<1> DEFINE H == replace(G, u, old, new)
           E == D \cup {u}
           a == Redirected(F.inst, D, old, new)
           b == Redirected(F.inst, E, old, new)
<1>1. /\ Linked(G, X) /\ DOMAIN G.uses = DOMAIN F.uses /\ DOMAIN G.inst = DOMAIN F.inst
      /\ G.order = F.order /\ G.code = F.code /\ G.next = F.next
      /\ ~G.fault => G.inst = a
      /\ G.fault <=> \E v \in D : FalseTo(F.inst, v, old)
  BY DEF Asking
<1>2. /\ Tagged(a) /\ DOMAIN a = DOMAIN F.inst
      /\ \A v \in DOMAIN F.inst :
           /\ a[v].kind = F.inst[v].kind /\ a[v].type = F.inst[v].type
           /\ a[v].refs = IF v \in D THEN Swapped(F.inst[v].refs, old, new) ELSE F.inst[v].refs
  BY RedirectedIs DEF Linked
<1>3. /\ Tagged(b) /\ DOMAIN b = DOMAIN F.inst
      /\ \A v \in DOMAIN F.inst :
           /\ b[v].kind = F.inst[v].kind /\ b[v].type = F.inst[v].type
           /\ b[v].refs = IF v \in E THEN Swapped(F.inst[v].refs, old, new) ELSE F.inst[v].refs
  <2> HIDE DEF E
  <2> QED
    BY RedirectedIs DEF Linked
<1> HIDE DEF a, b
<1>4. H = IF FalseTo(G.inst, u, old) THEN [G EXCEPT !.fault = TRUE] ELSE Moved(G, u, old, new)
  BY DEF replace, FalseTo
<1> DEFINE M == DOMAIN F.uses \cup {Nil}
           r == F.inst[u].refs
           t == Swapped(r, old, new)
<1>5. r \in Seq(M) /\ new \in M /\ Len(r) \in Nat
  BY LinkedRefs
<1>6. /\ t \in Seq(M) /\ Len(t) = Len(r)
      /\ \A p \in 1 .. Len(r) : t[p] = IF r[p] = old THEN new ELSE r[p]
      /\ Swapped(t, old, new) = t
  <2> HIDE DEF M, r
  <2> QED
    BY <1>5, SwappedIs
<1> HIDE DEF t, r
<1>7. ~G.fault => (FalseTo(G.inst, u, old) <=> FalseTo(F.inst, u, old))
  <2> SUFFICES ASSUME ~G.fault  PROVE FalseTo(G.inst, u, old) <=> FalseTo(F.inst, u, old)
    OBVIOUS
  <2>1. G.inst = a
    BY <1>1
  <2>2. CASE u \notin D
    BY <1>2, <2>1, <2>2 DEF FalseTo
  <2>3. CASE u \in D
    <3>1. ~FalseTo(F.inst, u, old)
      BY <1>1, <2>3
    <3>2. a[u].kind = F.inst[u].kind /\ a[u].refs = t
      BY <1>2, <2>3 DEF t, r
    <3>3. F.inst[u].kind = "cond" => t[3] # old
      <4> SUFFICES ASSUME F.inst[u].kind = "cond"  PROVE t[3] # old
        OBVIOUS
      <4>1. Len(r) = 3 /\ r[3] # old
        BY <3>1 DEF Sided, FalseTo, FalseSlot, r
      <4>2. t[3] = r[3]
        BY <1>6, <4>1
      <4> QED
        BY <4>1, <4>2
    <3> QED
      BY <2>1, <3>1, <3>2, <3>3 DEF FalseTo, FalseSlot
  <2> QED
    BY <2>2, <2>3
<1> HIDE DEF H
<1>8. CASE FalseTo(G.inst, u, old)
  <2>1. H = [G EXCEPT !.fault = TRUE]
    BY <1>4, <1>8
  <2>2. /\ H.fault = TRUE /\ H.order = G.order /\ H.code = G.code /\ H.next = G.next
        /\ H.inst = G.inst /\ H.uses = G.uses /\ Formed(H)
    BY <1>1, <2>1 DEF Linked, Used, Formed, Relinked
  <2>3. Linked(H, X)
    <3>1. Held(H, X) = Held(G, X)
      BY <2>2 DEF Held
    <3> QED
      BY <1>1, <2>2, <3>1 DEF Linked, Used
  <2>4. \E v \in E : FalseTo(F.inst, v, old)
    BY <1>1, <1>7, <1>8
  <2> QED
    BY <1>1, <2>2, <2>3, <2>4 DEF Asking, H
<1>9. CASE ~FalseTo(G.inst, u, old)
  <2> DEFINE s == Swapped(G.inst[u].refs, old, new)
  <2>1. H = Moved(G, u, old, new)
    BY <1>4, <1>9
  <2>2. Changed(G, H, X, u, s)
    BY <1>1, <2>1, LinkedMoved
  <2> HIDE DEF s
  <2>3. /\ Tagged(H.inst) /\ DOMAIN H.inst = DOMAIN F.inst
        /\ \A v \in DOMAIN F.inst :
             /\ H.inst[v].kind = G.inst[v].kind /\ H.inst[v].type = G.inst[v].type
             /\ H.inst[v].refs = IF v = u THEN s ELSE G.inst[v].refs
    BY <1>1, <2>2, RewiredIs DEF Changed, Linked
  <2>4. ~H.fault => H.inst = b
    <3> SUFFICES ASSUME ~H.fault  PROVE H.inst = b
      OBVIOUS
    <3>1. G.inst = a
      BY <1>1, <2>2 DEF Changed
    <3>2. s = t
      <4>1. CASE u \in D
        BY <1>2, <1>6, <3>1, <4>1 DEF s, t, r
      <4>2. CASE u \notin D
        BY <1>2, <3>1, <4>2 DEF s, t, r
      <4> QED
        BY <4>1, <4>2
    <3>3. ASSUME NEW v \in DOMAIN F.inst
          PROVE  H.inst[v].kind = b[v].kind /\ H.inst[v].type = b[v].type /\ H.inst[v].refs = b[v].refs
      <4>1. b[u].refs = t
        BY <1>3 DEF t, r
      <4> QED
        BY <1>2, <1>3, <2>3, <3>1, <3>2, <4>1
    <3> QED
      BY <1>3, <2>3, <3>3, TaggedSame
  <2>5. H.fault <=> \E v \in E : FalseTo(F.inst, v, old)
    <3>1. H.fault = G.fault
      BY <2>2 DEF Changed
    <3> QED
      BY <1>1, <1>7, <1>9, <3>1
  <2> QED
    BY <1>1, <2>2, <2>3, <2>4, <2>5 DEF Asking, Changed, H, b
<1> QED
  BY <1>8, <1>9 DEF H

(* The users of a node are the instructions that refer to it.              *)
LEMMA UsersAre ==
  ASSUME NEW F, NEW X, Linked(F, X), NEW n \in DOMAIN F.uses, NEW u
  PROVE  /\ Len(F.uses[n]) \in Nat
         /\ u \in ToSet(F.uses[n]) <=> /\ u \in DOMAIN F.inst \ X
                                       /\ \E p \in 1 .. Len(F.inst[u].refs) : F.inst[u].refs[p] = n
         /\ u \in ToSet(F.uses[n]) <=> \E p \in 1 .. Len(F.uses[n]) : F.uses[n][p] = u
<1> DEFINE N == DOMAIN F.uses
           held == Held(F, X)
           U == F.uses[n]
           M == N \cup {Nil}
<1>1. U \in Seq(N) /\ held \in [N -> Seq(M)] /\ \A v \in N : Times(U, v) = Times(held[v], n)
  BY DEF Linked, Listed
<1>2. Len(U) \in Nat /\ DOMAIN U = 1 .. Len(U)
  BY <1>1, LenProperties
<1>3. u \in ToSet(U) <=> \E p \in 1 .. Len(U) : U[p] = u
  BY <1>2 DEF ToSet
<1>4. u \in ToSet(U) => u \in N
  BY <1>1, <1>2, <1>3, ElementOfSeq
<1> HIDE DEF held, U, M
<1>5. u \in N => (u \in ToSet(U) <=> Times(held[u], n) # 0)
  BY <1>1, <1>2, <1>3, TimesCounted
<1>6. u \in N => (Times(held[u], n) # 0 <=> \E p \in 1 .. Len(held[u]) : held[u][p] = n)
  <2> SUFFICES ASSUME u \in N  PROVE Times(held[u], n) # 0 <=> \E p \in 1 .. Len(held[u]) : held[u][p] = n
    OBVIOUS
  <2>1. held[u] \in Seq(M)
    BY <1>1
  <2> QED
    BY <2>1, TimesCounted
<1>7. CASE u \in DOMAIN F.inst \ X
  <2>1. u \in N /\ F.inst[u].refs = held[u]
    BY <1>7, LinkedRefs DEF held
  <2> QED
    BY <1>2, <1>3, <1>5, <1>6, <1>7, <2>1 DEF U
<1>8. CASE u \notin DOMAIN F.inst \ X
  <2>1. u \in N => held[u] = <<>>
    BY <1>8 DEF held, Held
  <2>2. ~\E p \in 1 .. Len(<<>>) : <<>>[p] = n
    <3>1. Len(<<>>) = 0
      OBVIOUS
    <3> QED
      BY <3>1
  <2>3. u \notin ToSet(U)
    BY <1>4, <1>5, <1>6, <2>1, <2>2
  <2> QED
    BY <1>2, <1>3, <1>8, <2>3 DEF U
<1> QED
  BY <1>7, <1>8

LEMMA UserAt ==
  ASSUME NEW F, NEW X, Linked(F, X), NEW n \in DOMAIN F.uses, NEW p \in 1 .. Len(F.uses[n])
  PROVE  F.uses[n][p] \in ToSet(F.uses[n])
<1> DEFINE U == F.uses[n]
<1>1. U \in Seq(DOMAIN F.uses)
  BY DEF Linked, Listed
<1> HIDE DEF U
<1>2. DOMAIN U = 1 .. Len(U)
  BY <1>1, LenProperties
<1> QED
  BY <1>2 DEF U, ToSet

LEMMA ReplacedAll ==
  ASSUME NEW F, NEW X, Linked(F, X), Sided(F.inst), F.fault = FALSE,
         NEW old \in DOMAIN F.uses, NEW new \in DOMAIN F.uses \cup {Nil}
  PROVE  Asking(F, replaceAllUseWith(F, old, new), X, DOMAIN F.inst \ X, old, new)
<1> DEFINE c == Len(F.uses[old])
           U == F.uses[old]
           I == DOMAIN F.inst \ X
           D(j) == {U[p] : p \in 1 .. j}
<1>1. c \in Nat /\ Nil \notin DOMAIN F.uses /\ Tagged(F.inst)
  BY UsersAre DEF Linked, Used
<1>2. \A p \in 1 .. c : U[p] \in I
  <2> TAKE p \in 1 .. c
  <2>1. U[p] \in ToSet(U)
    BY UserAt
  <2> QED
    BY <2>1, UsersAre
<1>3. PICK f : /\ f[0] = F /\ replaceAllUseWith(F, old, new) = f[c]
               /\ \A j \in 1 .. c : f[j] = AsksStep(F, old, new, f[j - 1], j)
  BY <1>1, AsksUnfold
<1> DEFINE S == {j \in 0 .. c : Asking(F, f[j], X, D(j), old, new)}
<1>4. 0 \in S
  <2>1. D(0) = {}
    OBVIOUS
  <2>2. Redirected(F.inst, {}, old, new) = F.inst
    BY <1>1 DEF Tagged, Redirected
  <2>3. Asking(F, F, X, {}, old, new)
    BY <2>2 DEF Asking
  <2> HIDE DEF D
  <2> QED
    BY <1>1, <1>3, <2>1, <2>3
<1>5. ASSUME NEW j \in 0 .. c, j \in S, j < c  PROVE j + 1 \in S
  <2>1. Asking(F, f[j], X, D(j), old, new)
    BY <1>5
  <2> HIDE DEF S, c, U, I
  <2>2. j + 1 \in 1 .. c /\ (j + 1) - 1 = j /\ j + 1 \in 0 .. c
    BY <1>1, <1>5
  <2>3. f[j + 1] = replace(f[j], U[j + 1], old, new)
    BY <1>3, <2>2 DEF AsksStep, U
  <2>4. D(j + 1) = D(j) \cup {U[j + 1]}
    <3>1. \A p : p \in 1 .. j + 1 <=> p \in 1 .. j \/ p = j + 1
      BY <1>1, <1>5
    <3> QED
      BY <3>1
  <2>5. D(j) \subseteq I /\ U[j + 1] \in I
    <3>1. \A p \in 1 .. j : p \in 1 .. c
      BY <1>1, <1>5
    <3> QED
      BY <1>2, <2>2, <3>1
  <2> HIDE DEF D
  <2>6. Asking(F, f[j + 1], X, D(j + 1), old, new)
    BY <1>1, <2>1, <2>3, <2>4, <2>5, AskOne DEF I
  <2> QED
    BY <2>2, <2>6 DEF S
<1>6. \A j \in 0 .. c : j \in S
  <2> HIDE DEF S, c
  <2>1. \A j \in 0 .. c : j \in S /\ j < c => j + 1 \in S
    BY <1>5
  <2> QED
    BY <1>1, <1>4, <2>1, Climbs
<1>7. Asking(F, f[c], X, D(c), old, new)
  <2> HIDE DEF c, D
  <2>1. c \in 0 .. c
    BY <1>1
  <2> QED
    BY <1>6, <2>1
<1>8. \A u \in I : u \notin D(c) => \A p \in 1 .. Len(F.inst[u].refs) : F.inst[u].refs[p] # old
  <2> TAKE u \in I
  <2>1. u \in D(c) <=> u \in ToSet(U)
    BY UsersAre
  <2> QED
    BY <2>1, UsersAre
<1> HIDE DEF c
<1>9. D(c) \subseteq I
  BY <1>2
<1> HIDE DEF D
<1>10. Redirected(F.inst, D(c), old, new) = Redirected(F.inst, I, old, new)
  <2> DEFINE a == Redirected(F.inst, D(c), old, new)
             b == Redirected(F.inst, I, old, new)
  <2>1. /\ Tagged(a) /\ DOMAIN a = DOMAIN F.inst
        /\ \A v \in DOMAIN F.inst :
             /\ a[v].kind = F.inst[v].kind /\ a[v].type = F.inst[v].type
             /\ a[v].refs = IF v \in D(c) THEN Swapped(F.inst[v].refs, old, new) ELSE F.inst[v].refs
    BY <1>1, RedirectedIs
  <2>2. /\ Tagged(b) /\ DOMAIN b = DOMAIN F.inst
        /\ \A v \in DOMAIN F.inst :
             /\ b[v].kind = F.inst[v].kind /\ b[v].type = F.inst[v].type
             /\ b[v].refs = IF v \in I THEN Swapped(F.inst[v].refs, old, new) ELSE F.inst[v].refs
    <3> HIDE DEF I
    <3> QED
      BY <1>1, RedirectedIs
  <2> HIDE DEF a, b
  <2>3. ASSUME NEW v \in I, v \notin D(c)  PROVE Swapped(F.inst[v].refs, old, new) = F.inst[v].refs
    <3> DEFINE M == DOMAIN F.uses \cup {Nil}
               r == F.inst[v].refs
    <3>1. r \in Seq(M) /\ new \in M
      BY LinkedRefs
    <3>2. \A p \in 1 .. Len(r) : r[p] # old
      BY <1>8, <2>3
    <3> HIDE DEF M, r
    <3>3. Swapped(r, old, new) = r
      BY <3>1, <3>2, SwappedIs
    <3> QED
      BY <3>3 DEF r
  <2>4. \A v \in DOMAIN F.inst : a[v].refs = b[v].refs
    BY <1>9, <2>1, <2>2, <2>3
  <2>5. a = b
    BY <2>1, <2>2, <2>4, TaggedSame
  <2> QED
    BY <2>5 DEF a, b
<1>11. (\E u \in D(c) : FalseTo(F.inst, u, old)) <=> (\E u \in I : FalseTo(F.inst, u, old))
  <2>1. ASSUME NEW u \in I, FalseTo(F.inst, u, old)  PROVE u \in D(c)
    <3>1. Len(F.inst[u].refs) = 3 /\ F.inst[u].refs[3] = old
      BY <2>1 DEF Sided, FalseTo, FalseSlot
    <3>2. 3 \in 1 .. Len(F.inst[u].refs)
      BY <3>1
    <3> QED
      BY <1>8, <3>1, <3>2
  <2> HIDE DEF I
  <2> QED
    BY <1>9, <2>1
<1>12. Asking(F, f[c], X, I, old, new)
  <2> HIDE DEF I
  <2> QED
    BY <1>7, <1>10, <1>11 DEF Asking
<1> QED
  BY <1>3, <1>12

-----------------------------------------------------------------------------
(* A node that nothing refers to any more is forgotten.                    *)

LEMMA WithoutOne ==
  ASSUME NEW X, NEW s \in Seq(X), NEW x, Times(s, x) = 0
  PROVE  s \in Seq(X \ {x})
<1>1. s \in [1 .. Len(s) -> X] /\ Len(s) \in Nat
  BY LenProperties
<1>2. \A k \in 1 .. Len(s) : s[k] # x
  BY TimesCounted
<1>3. s \in [1 .. Len(s) -> X \ {x}]
  BY <1>1, <1>2
<1> QED
  BY <1>1, <1>3, SeqDef

Unnamed(inst, D, i) == \A u \in D : \A p \in 1 .. Len(inst[u].refs) : inst[u].refs[p] # i
Less(G, H, i) ==
  /\ Linked(H, {}) /\ DOMAIN H.uses = DOMAIN G.uses \ {i} /\ DOMAIN H.inst = DOMAIN G.inst \ {i}
  /\ \A u \in DOMAIN H.inst : H.inst[u] = G.inst[u]

LEMMA ForgottenLinked ==
  ASSUME NEW G, NEW i, Linked(G, {i}), i # Nil, Unnamed(G.inst, DOMAIN G.inst \ {i}, i),
         NEW H, Formed(H), H.fault \in BOOLEAN, H.inst = Forget(G.inst, i), H.uses = Forget(G.uses, i)
  PROVE  Less(G, H, i)
<1> DEFINE N == DOMAIN G.uses
           M == DOMAIN H.uses
           held == Held(G, {i})
           rest == Held(H, {})
<1>1. /\ M = N \ {i} /\ \A n \in M : H.uses[n] = G.uses[n]
      /\ H.uses = [n \in M |-> H.uses[n]]
  BY DEF Forget
<1>2. /\ DOMAIN H.inst = DOMAIN G.inst \ {i} /\ \A u \in DOMAIN H.inst : H.inst[u] = G.inst[u]
      /\ H.inst = [u \in DOMAIN H.inst |-> H.inst[u]]
  BY DEF Forget
<1>3. /\ Nil \notin N /\ G.uses \in [N -> Seq(N)] /\ held \in [N -> Seq(N \cup {Nil})]
      /\ \A n, u \in N : Times(G.uses[n], u) = Times(held[u], n)
      /\ DOMAIN G.inst \subseteq N
  BY DEF Linked, Listed
<1>4. held = [n \in N |-> IF n \in DOMAIN G.inst \ {i} THEN G.inst[n].refs ELSE <<>>]
  BY DEF Held
<1>5. rest = [n \in M |-> IF n \in DOMAIN H.inst \ {} THEN H.inst[n].refs ELSE <<>>]
  BY DEF Held
<1> HIDE DEF N, M, held, rest
<1>6. ASSUME NEW u \in N  PROVE Times(held[u], i) = 0
  <2>1. held[u] \in Seq(N \cup {Nil})
    BY <1>3
  <2>2. \A p \in 1 .. Len(held[u]) : held[u][p] # i
    <3>1. CASE u \in DOMAIN G.inst \ {i}
      BY <1>4, <3>1 DEF Unnamed
    <3>2. CASE u \notin DOMAIN G.inst \ {i}
      <4>1. held[u] = <<>>
        BY <1>4, <3>2
      <4>2. Len(<<>>) = 0
        OBVIOUS
      <4> QED
        BY <4>1, <4>2
    <3> QED
      BY <3>1, <3>2
  <2> QED
    BY <2>1, <2>2, TimesCounted
<1>7. ASSUME NEW n \in M  PROVE H.uses[n] \in Seq(M)
  <2>1. n \in N /\ H.uses[n] = G.uses[n] /\ G.uses[n] \in Seq(N)
    BY <1>1, <1>3
  <2>2. Times(G.uses[n], i) = 0
    <3>1. CASE i \in N
      <4>1. held[i] = <<>>
        BY <1>4, <3>1
      <4>2. Times(G.uses[n], i) = Times(held[i], n)
        BY <1>3, <2>1, <3>1
      <4> DEFINE nothing == <<>>
      <4>3. nothing \in Seq(N) /\ \A p \in 1 .. Len(nothing) : nothing[p] # n
        OBVIOUS
      <4> HIDE DEF nothing
      <4>4. Times(nothing, n) = 0
        BY <4>3, TimesCounted
      <4> QED
        BY <4>1, <4>2, <4>4 DEF nothing
    <3>2. CASE i \notin N
      <4>1. \A p \in 1 .. Len(G.uses[n]) : G.uses[n][p] # i
        BY <2>1, <3>2, ElementOfSeq
      <4> QED
        BY <2>1, <4>1, TimesCounted
    <3> QED
      BY <3>1, <3>2
  <2>3. G.uses[n] \in Seq(N \ {i})
    BY <2>1, <2>2, WithoutOne
  <2> QED
    BY <1>1, <2>1, <2>3
<1>8. ASSUME NEW u \in M  PROVE rest[u] = held[u] /\ rest[u] \in Seq(M \cup {Nil})
  <2>1. u \in N /\ u # i /\ rest[u] = held[u]
    BY <1>1, <1>2, <1>4, <1>5
  <2>2. held[u] \in Seq((N \cup {Nil}) \ {i})
    <3>1. held[u] \in Seq(N \cup {Nil})
      BY <1>3, <2>1
    <3>2. Times(held[u], i) = 0
      BY <1>6, <2>1
    <3> QED
      BY <3>1, <3>2, WithoutOne
  <2>3. (N \cup {Nil}) \ {i} = M \cup {Nil}
    BY <1>1
  <2> QED
    BY <2>1, <2>2, <2>3
<1>9. Listed(H.uses, M, rest)
  <2>1. H.uses \in [M -> Seq(M)]
    BY <1>1, <1>7
  <2>2. rest \in [M -> Seq(M \cup {Nil})]
    BY <1>5, <1>8
  <2>3. \A n, u \in M : Times(H.uses[n], u) = Times(rest[u], n)
    BY <1>1, <1>3, <1>8
  <2> QED
    BY <1>1, <1>3, <2>1, <2>2, <2>3 DEF Listed
<1>10. Tagged(H.inst)
  <2>1. Tagged(G.inst)
    BY DEF Linked
  <2> QED
    BY <1>2, <2>1 DEF Tagged
<1>11. Linked(H, {})
  BY <1>1, <1>2, <1>3, <1>9, <1>10 DEF Linked, Used, Listed, M, N, rest
<1> QED
  BY <1>1, <1>2, <1>11 DEF Less, M, N

-----------------------------------------------------------------------------
(* A good function: its use lists are exact, every instruction is at one   *)
(* place of one block, every block once in the list, branches go to blocks *)
(* and whatever is built next is new.                                      *)

Lives(code, b, i) == \A d \in DOMAIN code : Times(code[d], i) = IF d = b THEN 1 ELSE 0
Housed(code, I) ==
  /\ code \in [DOMAIN code -> Seq(I)]
  /\ \A i \in I : \E b \in DOMAIN code : Lives(code, b, i)
Rowed(order, B) == order \in Seq(B) /\ \A b \in B : Times(order, b) = 1
Aimed(inst, B) ==
  \A u \in DOMAIN inst : inst[u].kind \in Branches =>
    \A k \in DOMAIN inst[u].refs \ Values(inst[u]) : inst[u].refs[k] \in B \cup {Nil}

Good(F) ==
  /\ Linked(F, {}) /\ Sided(F.inst)
  /\ Housed(F.code, DOMAIN F.inst) /\ Rowed(F.order, DOMAIN F.code) /\ Aimed(F.inst, DOMAIN F.code)
  /\ DOMAIN F.code \subseteq DOMAIN F.uses \ DOMAIN F.inst
  /\ DOMAIN F.uses \subseteq DOMAIN F.code \cup DOMAIN F.inst
  /\ F.next \in Nat \ {0} /\ DOMAIN F.uses \subseteq 1 .. (F.next - 1)

LEMMA ParentIs ==
  ASSUME NEW F, Housed(F.code, DOMAIN F.inst), NEW i \in DOMAIN F.inst
  PROVE  /\ Parent(F, i) \in DOMAIN F.code /\ Lives(F.code, Parent(F, i), i)
         /\ Contains(F.code[Parent(F, i)], i)
         /\ \A b \in DOMAIN F.code : Contains(F.code[b], i) => b = Parent(F, i)
<1>1. PICK b \in DOMAIN F.code : Lives(F.code, b, i)
  BY DEF Housed
<1>2. ASSUME NEW d \in DOMAIN F.code  PROVE Contains(F.code[d], i) <=> d = b
  <2>1. F.code[d] \in Seq(DOMAIN F.inst)
    BY DEF Housed
  <2>2. Contains(F.code[d], i) <=> Times(F.code[d], i) # 0
    BY <2>1, TimesCounted
  <2> QED
    BY <1>1, <2>2 DEF Lives
<1>3. Parent(F, i) = b
  BY <1>1, <1>2 DEF Parent
<1> QED
  BY <1>1, <1>2, <1>3

LEMMA ValuesSame ==
  ASSUME NEW a, NEW b, a.kind = b.kind, DOMAIN a.refs = DOMAIN b.refs
  PROVE  Values(a) = Values(b)
BY DEF Values

(* Swapping keeps the shape of the branches.                               *)
Swaps(inst, after, D, old, new) ==
  /\ DOMAIN after = D
  /\ \A u \in D : /\ after[u].kind = inst[u].kind /\ after[u].type = inst[u].type
                  /\ after[u].refs = Swapped(inst[u].refs, old, new)

Reaching(inst, M) == \A u \in DOMAIN inst : inst[u].refs \in Seq(M)
Carried(B, C, old, new) == \A x \in B \cup {Nil} : (IF x = old THEN new ELSE x) \in C \cup {Nil}

LEMMA SwappedShape ==
  ASSUME NEW inst, NEW M, Reaching(inst, M), NEW after,
         NEW D, D \subseteq DOMAIN inst, NEW old, NEW new \in M, Swaps(inst, after, D, old, new),
         NEW B, NEW C, Aimed(inst, B), Sided(inst), Carried(B, C, old, new)
  PROVE  Aimed(after, C) /\ Sided(after)
<1>1. ASSUME NEW u \in D
      PROVE  /\ after[u].refs \in Seq(M) /\ Len(after[u].refs) = Len(inst[u].refs)
             /\ DOMAIN inst[u].refs = 1 .. Len(inst[u].refs)
             /\ DOMAIN after[u].refs = 1 .. Len(inst[u].refs)
             /\ \A p \in 1 .. Len(inst[u].refs) :
                  after[u].refs[p] = IF inst[u].refs[p] = old THEN new ELSE inst[u].refs[p]
  <2> DEFINE r == inst[u].refs
             t == after[u].refs
  <2>1. r \in Seq(M) /\ t = Swapped(r, old, new)
    BY DEF Swaps, Reaching
  <2> HIDE DEF r, t
  <2>2. /\ t \in Seq(M) /\ Len(t) = Len(r)
        /\ \A p \in 1 .. Len(r) : t[p] = IF r[p] = old THEN new ELSE r[p]
    BY <2>1, SwappedIs
  <2>3. DOMAIN r = 1 .. Len(r) /\ DOMAIN t = 1 .. Len(t)
    BY <2>1, <2>2, LenProperties
  <2> QED
    BY <2>2, <2>3 DEF r, t
<1>2. ASSUME NEW u \in D, after[u].kind \in Branches, NEW k \in DOMAIN after[u].refs \ Values(after[u])
      PROVE  after[u].refs[k] \in C \cup {Nil}
  <2>1. after[u].kind = inst[u].kind
    BY DEF Swaps
  <2>2. Values(after[u]) = Values(inst[u])
    BY <1>1, <2>1, ValuesSame
  <2>3. k \in DOMAIN inst[u].refs \ Values(inst[u]) /\ k \in 1 .. Len(inst[u].refs)
    BY <1>1, <1>2, <2>2
  <2>4. inst[u].refs[k] \in B \cup {Nil}
    BY <1>2, <2>1, <2>3 DEF Aimed
  <2>5. after[u].refs[k] = IF inst[u].refs[k] = old THEN new ELSE inst[u].refs[k]
    BY <1>1, <2>3
  <2> QED
    BY <2>4, <2>5 DEF Carried
<1>3. Aimed(after, C)
  BY <1>2 DEF Aimed, Swaps
<1>4. Sided(after)
  BY <1>1 DEF Sided, Swaps
<1> QED
  BY <1>3, <1>4

LEMMA GoodRefs ==
  ASSUME NEW F, Good(F)
  PROVE  /\ \A u \in DOMAIN F.inst : F.inst[u].refs \in Seq(DOMAIN F.uses \cup {Nil})
         /\ Nil \notin DOMAIN F.uses /\ Nil \notin DOMAIN F.code /\ DOMAIN F.inst \subseteq DOMAIN F.uses
         /\ F.fault \in BOOLEAN /\ Formed(F) /\ Tagged(F.inst)
<1>1. Linked(F, {}) /\ DOMAIN F.code \subseteq DOMAIN F.uses
  BY DEF Good
<1>2. \A u \in DOMAIN F.inst : F.inst[u].refs \in Seq(DOMAIN F.uses \cup {Nil})
  <2> TAKE u \in DOMAIN F.inst
  <2>1. u \notin {}
    OBVIOUS
  <2> QED
    BY <1>1, <2>1, LinkedRefs
<1> QED
  BY <1>1, <1>2 DEF Linked, Used

(* The references of an instruction are given back.                        *)
LEMMA Released ==
  ASSUME NEW F, Good(F), NEW i \in DOMAIN F.inst
  PROVE  LET G == removeUses(F, F.inst[i].refs, i) IN
         /\ G = Relinked(F, F.inst, G.uses) /\ Linked(G, {i}) /\ DOMAIN G.uses = DOMAIN F.uses
<1> DEFINE N == DOMAIN F.uses
           held == Held(F, {})
           ns == F.inst[i].refs
           G == removeUses(F, ns, i)
           after == With(held, i, <<>>)
<1>1. Linked(F, {}) /\ Used(F, N) /\ Listed(F.uses, N, held) /\ i \in N /\ Nil \notin N
  BY GoodRefs DEF Good, Linked
<1>2. ns = held[i] /\ ns \in Seq(N \cup {Nil})
  BY <1>1, LinkedRefs
<1> HIDE DEF held, ns
<1>3. \A n \in N : Times(F.uses[n], i) = Times(ns, n) /\ Times(ns, n) \in Nat
  <2> TAKE n \in N
  <2>1. Times(F.uses[n], i) = Times(ns, n)
    BY <1>1, <1>2 DEF Listed
  <2> QED
    BY <1>2, <2>1, TimesCounted
<1>4. \A n \in N : Times(ns, n) <= Times(F.uses[n], i)
  BY <1>3
<1>5. /\ G = Relinked(F, F.inst, G.uses) /\ G.uses \in [N -> Seq(N)]
      /\ Gains(G.uses, F.uses, N, i, ns)
  BY <1>1, <1>2, <1>4, RemovedAll
<1> HIDE DEF G
<1>6. Listed(G.uses, N, after)
  <2> DEFINE nothing == <<>>
  <2>1. nothing \in Seq(N \cup {Nil}) /\ nothing \in Seq(N) /\ \A p \in 1 .. Len(nothing) : FALSE
    OBVIOUS
  <2> HIDE DEF nothing
  <2>2. \A n \in N : Times(nothing, n) = 0
    BY <2>1, TimesCounted
  <2>3. \A n \in N : Times(held[i], n) = Times(nothing, n) + Times(ns, n)
    BY <1>2, <1>3, <2>2
  <2> HIDE DEF N
  <2>4. Listed(G.uses, N, With(held, i, nothing))
    BY <1>1, <1>3, <1>5, <2>1, <2>3, LosesListed
  <2> QED
    BY <2>4 DEF nothing
<1>7. G.inst = F.inst /\ Used(G, N) /\ DOMAIN G.uses = N
  <2> HIDE DEF N
  <2> QED
    BY <1>1, <1>5, UsedOf, RelinkedIs
<1>8. Held(G, {i}) = after
  <2>1. held = [n \in N |-> IF n \in DOMAIN F.inst THEN F.inst[n].refs ELSE <<>>]
    BY DEF held, Held
  <2>2. Held(G, {i}) = [n \in N |-> IF n \in DOMAIN F.inst \ {i} THEN F.inst[n].refs ELSE <<>>]
    BY <1>7 DEF Held
  <2>3. after = [n \in N |-> IF n = i THEN <<>> ELSE held[n]]
    BY <2>1 DEF With
  <2>4. \A n \in N : (IF n \in DOMAIN F.inst \ {i} THEN F.inst[n].refs ELSE <<>>) = IF n = i THEN <<>> ELSE held[n]
    BY <2>1
  <2> QED
    BY <2>2, <2>3, <2>4
<1>9. Linked(G, {i})
  BY <1>1, <1>6, <1>7, <1>8 DEF Linked
<1> QED
  BY <1>5, <1>7, <1>9 DEF G, ns

Erasing(F, H, i) ==
  /\ Good(H)
  /\ H.order = F.order /\ H.next = F.next /\ H.fault = FALSE
  /\ DOMAIN H.uses = DOMAIN F.uses \ {i}
  /\ H.code = [F.code EXCEPT ![Parent(F, i)] = RemoveFirst(@, i)]
  /\ Swaps(F.inst, H.inst, DOMAIN F.inst \ {i}, i, Nil)

(* Removing the only occurrence from the block it is in.                   *)
LEMMA Unhoused ==
  ASSUME NEW code, NEW I, Housed(code, I), NEW i \in I, NEW b \in DOMAIN code, Lives(code, b, i)
  PROVE  Housed([code EXCEPT ![b] = RemoveFirst(@, i)], I \ {i})
<1> DEFINE t == RemoveFirst(code[b], i)
           after == [code EXCEPT ![b] = t]
<1>1. code \in [DOMAIN code -> Seq(I)]
  BY DEF Housed
<1>2. Times(code[b], i) = 1 /\ code[b] \in Seq(I)
  BY <1>1 DEF Lives
<1>3. Contains(code[b], i)
  BY <1>2, TimesCounted
<1>4. t \in Seq(I) /\ \A x : Times(code[b], x) = IF x = i THEN Times(t, x) + 1 ELSE Times(t, x)
  BY <1>2, <1>3, TimesRemoved
<1> HIDE DEF t
<1>5. DOMAIN after = DOMAIN code /\ \A d \in DOMAIN code : after[d] = IF d = b THEN t ELSE code[d]
  OBVIOUS
<1>6. ASSUME NEW d \in DOMAIN code  PROVE after[d] \in Seq(I \ {i})
  <2>1. after[d] \in Seq(I)
    BY <1>1, <1>4, <1>5
  <2>2. Times(t, i) \in Nat
    BY <1>4, TimesCounted
  <2>3. Times(after[d], i) = 0
    BY <1>2, <1>4, <1>5, <2>2 DEF Lives
  <2> HIDE DEF after
  <2> QED
    BY <2>1, <2>3, WithoutOne
<1>7. ASSUME NEW u \in I \ {i}  PROVE \E c \in DOMAIN after : Lives(after, c, u)
  <2>1. PICK c \in DOMAIN code : Lives(code, c, u)
    BY DEF Housed
  <2>2. \A d \in DOMAIN code : Times(after[d], u) = Times(code[d], u)
    BY <1>4, <1>5
  <2> HIDE DEF after
  <2> QED
    BY <1>5, <2>1, <2>2 DEF Lives
<1>8. after \in [DOMAIN after -> Seq(I \ {i})]
  BY <1>5, <1>6
<1> QED
  BY <1>7, <1>8 DEF Housed, t

LEMMA ErasedInst ==
  ASSUME NEW F, Good(F), F.fault = FALSE, NEW i \in DOMAIN F.inst
  PROVE  Erasing(F, eraseInst(F, i), i)
<1> DEFINE N == DOMAIN F.uses
           I == DOMAIN F.inst
           B == DOMAIN F.code
           R == removeUses(F, F.inst[i].refs, i)
           G == replaceAllUseWith(R, i, Nil)
           P == Parent(F, i)
           H == eraseInst(F, i)
           M == N \cup {Nil}
<1>1. /\ Linked(F, {}) /\ Sided(F.inst) /\ Aimed(F.inst, B) /\ Housed(F.code, I) /\ Rowed(F.order, B)
      /\ B \subseteq N \ I /\ I \subseteq N /\ Nil \notin N
      /\ F.next \in Nat \ {0} /\ N \subseteq 1 .. (F.next - 1)
      /\ \A u \in I : F.inst[u].refs \in Seq(M)
      /\ Tagged(F.inst)
  BY GoodRefs DEF Good
<1>2. /\ R = Relinked(F, F.inst, R.uses) /\ Linked(R, {i}) /\ DOMAIN R.uses = N
  BY Released
<1> HIDE DEF R
<1>3. /\ R.inst = F.inst /\ R.order = F.order /\ R.code = F.code /\ R.fault = F.fault /\ R.next = F.next
  BY <1>2, RelinkedIs
<1>4. Asking(R, G, {i}, I \ {i}, i, Nil)
  <2>1. i \in DOMAIN R.uses
    BY <1>1, <1>2
  <2> QED
    BY <1>1, <1>2, <1>3, <2>1, ReplacedAll
<1> HIDE DEF G
<1>5. \A u \in I : ~FalseTo(F.inst, u, i)
  <2> SUFFICES ASSUME NEW u \in I, FalseTo(F.inst, u, i)  PROVE FALSE
    OBVIOUS
  <2>1. Len(F.inst[u].refs) = 3 /\ F.inst[u].kind = "cond" /\ F.inst[u].refs[3] = i
    BY <1>1 DEF Sided, FalseTo, FalseSlot
  <2>2. DOMAIN F.inst[u].refs = 1 .. Len(F.inst[u].refs)
    BY <1>1, LenProperties
  <2>3. 3 \in DOMAIN F.inst[u].refs \ Values(F.inst[u])
    BY <2>1, <2>2 DEF Values
  <2>4. F.inst[u].refs[3] \in B \cup {Nil}
    BY <1>1, <2>1, <2>3 DEF Aimed, Branches
  <2> QED
    BY <1>1, <2>1, <2>4
<1>6. /\ G.inst = Redirected(F.inst, I \ {i}, i, Nil) /\ Linked(G, {i}) /\ G.fault = FALSE
      /\ DOMAIN G.uses = N /\ G.order = F.order /\ G.code = F.code /\ G.next = F.next
  <2>1. G.fault \in BOOLEAN
    BY <1>4 DEF Asking, Linked, Used
  <2> QED
    BY <1>2, <1>3, <1>4, <1>5, <2>1 DEF Asking
<1>7. /\ DOMAIN G.inst = I
      /\ \A u \in I \ {i} : /\ G.inst[u].kind = F.inst[u].kind /\ G.inst[u].type = F.inst[u].type
                            /\ G.inst[u].refs = Swapped(F.inst[u].refs, i, Nil)
  BY <1>1, <1>6, RedirectedIs
<1>8. H = [G EXCEPT !.inst = Forget(@, i), !.uses = Forget(@, i), !.code[P] = RemoveFirst(@, i)]
  BY DEF eraseInst, R, G
<1> HIDE DEF H, P
<1>9. /\ H.inst = Forget(G.inst, i) /\ H.uses = Forget(G.uses, i) /\ H.fault = G.fault
      /\ H.code = [F.code EXCEPT ![P] = RemoveFirst(@, i)]
      /\ H.order = F.order /\ H.next = F.next /\ Formed(H)
  <2>1. G = Relinked(G, G.inst, G.uses)
    BY <1>6 DEF Linked, Used, Formed
  <2> QED
    BY <1>6, <1>8, <2>1 DEF Relinked, Formed
<1>11. \A u \in I \ {i} : \A p \in 1 .. Len(G.inst[u].refs) : G.inst[u].refs[p] # i
  <2> TAKE u \in I \ {i}
  <2> DEFINE r == F.inst[u].refs
             t == Swapped(r, i, Nil)
  <2>1. r \in Seq(M) /\ Nil \in M
    BY <1>1
  <2> HIDE DEF r, M
  <2>2. Len(t) = Len(r) /\ \A p \in 1 .. Len(r) : t[p] = IF r[p] = i THEN Nil ELSE r[p]
    BY <2>1, SwappedIs
  <2>3. G.inst[u].refs = t /\ i # Nil
    BY <1>1, <1>7 DEF r
  <2> QED
    BY <2>2, <2>3
<1>12. /\ Linked(H, {}) /\ DOMAIN H.uses = N \ {i} /\ DOMAIN H.inst = I \ {i}
       /\ \A u \in DOMAIN H.inst : H.inst[u] = G.inst[u]
  <2>1. i # Nil /\ H.fault \in BOOLEAN
    BY <1>1, <1>6, <1>9
  <2> QED
    <3>1. Unnamed(G.inst, DOMAIN G.inst \ {i}, i)
      BY <1>7, <1>11 DEF Unnamed
    <3>2. DOMAIN G.inst = I /\ DOMAIN G.uses = N
      BY <1>6, <1>7
    <3> HIDE DEF I, N
    <3>3. Linked(G, {i}) /\ Formed(H) /\ H.inst = Forget(G.inst, i) /\ H.uses = Forget(G.uses, i)
      BY <1>6, <1>9
    <3>4. Less(G, H, i)
      BY <2>1, <3>1, <3>3, ForgottenLinked
    <3> QED
      BY <3>2, <3>4 DEF Less
<1>13. Swaps(F.inst, H.inst, I \ {i}, i, Nil)
  BY <1>7, <1>12 DEF Swaps
<1>14. Aimed(H.inst, B) /\ Sided(H.inst)
  <2>1. Carried(B, B, i, Nil)
    BY DEF Carried
  <2>2. I \ {i} \subseteq DOMAIN F.inst /\ Nil \in M
    OBVIOUS
  <2>3. Reaching(F.inst, M)
    BY <1>1 DEF Reaching
  <2>4. Swaps(F.inst, H.inst, I \ {i}, i, Nil) /\ Aimed(F.inst, B) /\ Sided(F.inst)
    BY <1>1, <1>13
  <2> HIDE DEF B, M, I
  <2> QED
    BY <2>1, <2>2, <2>3, <2>4, SwappedShape
<1>15. P \in B /\ Lives(F.code, P, i)
  BY <1>1, ParentIs DEF P
<1>16. Housed(H.code, I \ {i}) /\ DOMAIN H.code = B
  BY <1>1, <1>9, <1>15, Unhoused
<1>17. Good(H)
  BY <1>1, <1>9, <1>12, <1>14, <1>16 DEF Good
<1> QED
  BY <1>6, <1>9, <1>12, <1>13, <1>17 DEF Erasing, H, P

-----------------------------------------------------------------------------
(* Blocks are erased.                                                      *)

LEMMA OnlyPlace ==
  ASSUME NEW X, NEW s \in Seq(X), NEW x, Times(s, x) = 1,
         NEW p \in 1 .. Len(s), NEW q \in 1 .. Len(s), s[p] = x, s[q] = x
  PROVE  p = q
<1>1. DOMAIN s = 1 .. Len(s)
  BY LenProperties
<1>2. p \in Where(s, x) /\ q \in Where(s, x)
  BY <1>1 DEF Where
<1>3. IsFiniteSet(Where(s, x)) /\ Cardinality(Where(s, x)) = 1
  BY TimesCounted DEF Times
<1>4. PICK y : Where(s, x) = {y}
  BY <1>3, FS_Singleton
<1> QED
  BY <1>2, <1>4

(* H is what is left of F when nodes have gone: references to them are     *)
(* null.                                                                   *)
Nulled(F, H) ==
  \A u \in DOMAIN H.inst :
    /\ u \in DOMAIN F.inst
    /\ H.inst[u].kind = F.inst[u].kind /\ H.inst[u].type = F.inst[u].type
    /\ Len(H.inst[u].refs) = Len(F.inst[u].refs)
    /\ \A p \in 1 .. Len(F.inst[u].refs) :
         H.inst[u].refs[p] = IF F.inst[u].refs[p] \in DOMAIN F.uses \ DOMAIN H.uses THEN Nil
                             ELSE F.inst[u].refs[p]

LEMMA SwapsNulled ==
  ASSUME NEW F, Good(F), NEW H, NEW i \in DOMAIN F.uses, DOMAIN H.uses = DOMAIN F.uses \ {i},
         NEW D, D \subseteq DOMAIN F.inst, Swaps(F.inst, H.inst, D, i, Nil)
  PROVE  Nulled(F, H)
<1> SUFFICES ASSUME NEW u \in DOMAIN H.inst
             PROVE  /\ u \in DOMAIN F.inst
                    /\ H.inst[u].kind = F.inst[u].kind /\ H.inst[u].type = F.inst[u].type
                    /\ Len(H.inst[u].refs) = Len(F.inst[u].refs)
                    /\ \A p \in 1 .. Len(F.inst[u].refs) :
                         H.inst[u].refs[p] = IF F.inst[u].refs[p] \in DOMAIN F.uses \ DOMAIN H.uses THEN Nil
                                             ELSE F.inst[u].refs[p]
  BY DEF Nulled
<1> DEFINE r == F.inst[u].refs
           t == H.inst[u].refs
           M == DOMAIN F.uses \cup {Nil}
<1>1. /\ u \in DOMAIN F.inst /\ t = Swapped(r, i, Nil)
      /\ H.inst[u].kind = F.inst[u].kind /\ H.inst[u].type = F.inst[u].type
  BY DEF Swaps
<1>2. r \in Seq(M) /\ Nil \in M
  BY <1>1, GoodRefs
<1> HIDE DEF M, r, t
<1>3. Len(t) = Len(r) /\ \A p \in 1 .. Len(r) : t[p] = IF r[p] = i THEN Nil ELSE r[p]
  BY <1>1, <1>2, SwappedIs
<1>4. \A x : x \in DOMAIN F.uses \ DOMAIN H.uses <=> x = i
  OBVIOUS
<1> QED
  BY <1>1, <1>3, <1>4 DEF r, t

LEMMA NulledTwice ==
  ASSUME NEW F, NEW G, NEW H, Good(F), Nulled(F, G), Nulled(G, H), Nil \notin DOMAIN G.uses,
         DOMAIN G.uses \subseteq DOMAIN F.uses, DOMAIN H.uses \subseteq DOMAIN G.uses
  PROVE  Nulled(F, H)
<1> SUFFICES ASSUME NEW u \in DOMAIN H.inst
             PROVE  /\ u \in DOMAIN F.inst
                    /\ H.inst[u].kind = F.inst[u].kind /\ H.inst[u].type = F.inst[u].type
                    /\ Len(H.inst[u].refs) = Len(F.inst[u].refs)
                    /\ \A p \in 1 .. Len(F.inst[u].refs) :
                         H.inst[u].refs[p] = IF F.inst[u].refs[p] \in DOMAIN F.uses \ DOMAIN H.uses THEN Nil
                                             ELSE F.inst[u].refs[p]
  BY DEF Nulled
<1>1. /\ u \in DOMAIN G.inst
      /\ H.inst[u].kind = G.inst[u].kind /\ H.inst[u].type = G.inst[u].type
      /\ Len(H.inst[u].refs) = Len(G.inst[u].refs)
      /\ \A p \in 1 .. Len(G.inst[u].refs) :
           H.inst[u].refs[p] = IF G.inst[u].refs[p] \in DOMAIN G.uses \ DOMAIN H.uses THEN Nil
                               ELSE G.inst[u].refs[p]
  BY DEF Nulled
<1>2. /\ u \in DOMAIN F.inst
      /\ G.inst[u].kind = F.inst[u].kind /\ G.inst[u].type = F.inst[u].type
      /\ Len(G.inst[u].refs) = Len(F.inst[u].refs)
      /\ \A p \in 1 .. Len(F.inst[u].refs) :
           G.inst[u].refs[p] = IF F.inst[u].refs[p] \in DOMAIN F.uses \ DOMAIN G.uses THEN Nil
                               ELSE F.inst[u].refs[p]
  BY <1>1 DEF Nulled
<1>3. F.inst[u].refs \in Seq(DOMAIN F.uses \cup {Nil}) /\ Nil \notin DOMAIN F.uses
  BY <1>2, GoodRefs
<1>4. ASSUME NEW p \in 1 .. Len(F.inst[u].refs)
      PROVE  H.inst[u].refs[p] = IF F.inst[u].refs[p] \in DOMAIN F.uses \ DOMAIN H.uses THEN Nil
                                 ELSE F.inst[u].refs[p]
  <2> DEFINE x == F.inst[u].refs[p]
             y == G.inst[u].refs[p]
             z == H.inst[u].refs[p]
  <2>1. y = IF x \in DOMAIN F.uses \ DOMAIN G.uses THEN Nil ELSE x
    BY <1>2
  <2>2. z = IF y \in DOMAIN G.uses \ DOMAIN H.uses THEN Nil ELSE y
    BY <1>1, <1>2
  <2>3. x \in DOMAIN F.uses \cup {Nil}
    <3> DEFINE M == DOMAIN F.uses \cup {Nil}
    <3> HIDE DEF M
    <3> QED
      BY <1>3, ElementOfSeq DEF M
  <2> HIDE DEF x, y, z
  <2>4. z = IF x \in DOMAIN F.uses \ DOMAIN H.uses THEN Nil ELSE x
    BY <1>3, <2>1, <2>2, <2>3
  <2> QED
    BY <2>4 DEF x, z
<1> QED
  BY <1>1, <1>2, <1>4

(* G is F after the instructions D of block b are gone.                    *)
Clearing(F, G, b, D) ==
  /\ Good(G) /\ G.fault = FALSE /\ G.order = F.order /\ G.next = F.next
  /\ DOMAIN G.inst = DOMAIN F.inst \ D /\ DOMAIN G.uses = DOMAIN F.uses \ D
  /\ DOMAIN G.code = DOMAIN F.code
  /\ \A d \in DOMAIN F.code \ {b} : G.code[d] = F.code[d]
  /\ Nulled(F, G)

LEMMA ClearOne ==
  ASSUME NEW F, NEW G, NEW b \in DOMAIN F.code, NEW D, Good(F), Clearing(F, G, b, D),
         NEW i \in DOMAIN F.inst, i \notin D, Contains(F.code[b], i)
  PROVE  Clearing(F, eraseInst(G, i), b, D \cup {i})
<1> DEFINE H == eraseInst(G, i)
<1>1. Good(G) /\ G.fault = FALSE /\ i \in DOMAIN G.inst
  BY DEF Clearing
<1>2. Erasing(G, H, i)
  BY <1>1, ErasedInst
<1> HIDE DEF H
<1>3. Parent(F, i) = b
  BY ParentIs DEF Good
<1>4. /\ Parent(G, i) \in DOMAIN G.code /\ Contains(G.code[Parent(G, i)], i)
      /\ \A d \in DOMAIN G.code : Contains(G.code[d], i) => d = Parent(G, i)
  BY <1>1, ParentIs DEF Good
<1>5. Parent(G, i) = b
  <2>1. CASE Parent(G, i) # b
    <3>1. Parent(G, i) \in DOMAIN F.code /\ G.code[Parent(G, i)] = F.code[Parent(G, i)]
      BY <1>4, <2>1 DEF Clearing
    <3>2. Contains(F.code[Parent(G, i)], i)
      BY <1>4, <3>1
    <3>3. \A d \in DOMAIN F.code : Contains(F.code[d], i) => d = Parent(F, i)
      BY ParentIs DEF Good
    <3> QED
      BY <1>3, <3>1, <3>2, <3>3
  <2> QED
    BY <2>1
<1>6. H.code = [G.code EXCEPT ![b] = RemoveFirst(@, i)]
  BY <1>2, <1>5 DEF Erasing
<1>7. DOMAIN H.code = DOMAIN F.code /\ \A d \in DOMAIN F.code \ {b} : H.code[d] = F.code[d]
  BY <1>6 DEF Clearing
<1>8. DOMAIN H.uses = DOMAIN G.uses \ {i} /\ DOMAIN H.inst = DOMAIN G.inst \ {i}
  BY <1>2 DEF Erasing, Swaps
<1>9. i \in DOMAIN G.uses /\ Nil \notin DOMAIN G.uses
  BY <1>1, GoodRefs
<1>10. Nulled(G, H)
  <2>1. DOMAIN G.inst \ {i} \subseteq DOMAIN G.inst
    OBVIOUS
  <2> QED
    BY <1>1, <1>2, <1>9, <2>1, SwapsNulled DEF Erasing
<1>11. Nulled(F, H)
  <2>1. Nulled(F, G) /\ DOMAIN G.uses \subseteq DOMAIN F.uses /\ DOMAIN H.uses \subseteq DOMAIN G.uses
    BY <1>8 DEF Clearing
  <2> QED
    BY <1>9, <1>10, <2>1, NulledTwice
<1>12. /\ Good(H) /\ H.fault = FALSE /\ H.order = F.order /\ H.next = F.next
       /\ DOMAIN H.inst = DOMAIN F.inst \ (D \cup {i}) /\ DOMAIN H.uses = DOMAIN F.uses \ (D \cup {i})
  BY <1>2, <1>8 DEF Erasing, Clearing
<1> QED
  BY <1>7, <1>11, <1>12 DEF Clearing, H

LEMMA ClearedAll ==
  ASSUME NEW F, Good(F), F.fault = FALSE, NEW b \in DOMAIN F.code
  PROVE  Clearing(F, Cleared(F, b), b, ToSet(F.code[b]))
<1> DEFINE s == F.code[b]
           c == Len(s)
           D(j) == {s[p] : p \in 1 .. j}
<1>1. s \in Seq(DOMAIN F.inst) /\ c \in Nat /\ DOMAIN s = 1 .. c
  <2>1. s \in Seq(DOMAIN F.inst)
    BY DEF Good, Housed
  <2> HIDE DEF s
  <2> QED
    BY <2>1, LenProperties
<1>2. PICK f : /\ f[0] = F /\ Cleared(F, b) = f[c]
               /\ \A j \in 1 .. c : f[j] = ClearsStep(F, b, f[j - 1], j)
  BY <1>1, ClearsUnfold
<1> DEFINE S == {j \in 0 .. c : Clearing(F, f[j], b, D(j))}
<1>3. 0 \in S
  <2>1. D(0) = {}
    OBVIOUS
  <2>2. Nulled(F, F)
    BY DEF Nulled
  <2>3. Clearing(F, F, b, {})
    BY <2>2 DEF Clearing
  <2> HIDE DEF D, s, c
  <2>4. Clearing(F, f[0], b, D(0))
    BY <1>2, <2>1, <2>3
  <2>5. 0 \in 0 .. c
    BY <1>1
  <2> QED
    BY <2>4, <2>5
<1>4. ASSUME NEW j \in 0 .. c, j \in S, j < c  PROVE j + 1 \in S
  <2> DEFINE i == s[j + 1]
  <2>1. Clearing(F, f[j], b, D(j))
    BY <1>4
  <2> HIDE DEF S, c
  <2>2. j + 1 \in 1 .. c /\ (j + 1) - 1 = j /\ j + 1 \in 0 .. c
    BY <1>1, <1>4
  <2>3. f[j + 1] = eraseInst(f[j], i)
    BY <1>2, <2>2 DEF ClearsStep
  <2>4. D(j + 1) = D(j) \cup {i}
    <3>1. \A p : p \in 1 .. j + 1 <=> p \in 1 .. j \/ p = j + 1
      BY <1>1, <1>4
    <3> QED
      BY <3>1
  <2>5. i \in DOMAIN F.inst
    <3> HIDE DEF s
    <3> QED
      BY <1>1, <2>2, ElementOfSeq DEF c
  <2>6. Contains(s, i)
    <3> HIDE DEF s
    <3>1. Times(s, i) # 0
      BY <1>1, <2>2, TimesCounted DEF c
    <3> QED
      BY <1>1, <3>1, TimesCounted
  <2>7. i \notin D(j)
    <3> SUFFICES ASSUME NEW p \in 1 .. j, s[p] = i  PROVE FALSE
      OBVIOUS
    <3>1. Times(s, i) = 1
      <4>1. PICK d \in DOMAIN F.code : Lives(F.code, d, i)
        BY <2>5 DEF Good, Housed
      <4>2. Times(s, i) # 0
        BY <1>1, <2>6, TimesCounted
      <4> QED
        BY <4>1, <4>2 DEF Lives
    <3>2. p \in 1 .. c /\ p # j + 1
      BY <1>1, <1>4
    <3> HIDE DEF s, i
    <3>3. p = j + 1
      BY <1>1, <2>2, <3>1, <3>2, OnlyPlace DEF c, i
    <3> QED
      BY <3>2, <3>3
  <2> HIDE DEF D, i, s
  <2>8. Clearing(F, eraseInst(f[j], i), b, D(j) \cup {i})
    BY <2>1, <2>5, <2>6, <2>7, ClearOne DEF s
  <2> QED
    BY <2>2, <2>3, <2>4, <2>8 DEF S
<1>5. \A j \in 0 .. c : j \in S
  <2> HIDE DEF S, c
  <2>1. \A j \in 0 .. c : j \in S /\ j < c => j + 1 \in S
    BY <1>4
  <2> QED
    BY <1>1, <1>3, <2>1, Climbs
<1>6. Clearing(F, f[c], b, D(c))
  <2> HIDE DEF c, D
  <2>1. c \in 0 .. c
    BY <1>1
  <2> QED
    BY <1>5, <2>1
<1>7. D(c) = ToSet(s)
  BY <1>1 DEF ToSet
<1> QED
  BY <1>2, <1>6, <1>7

LEMMA Unrowed ==
  ASSUME NEW order, NEW B, Rowed(order, B), NEW b \in B
  PROVE  Rowed(RemoveFirst(order, b), B \ {b})
<1> DEFINE t == RemoveFirst(order, b)
<1>1. order \in Seq(B) /\ Times(order, b) = 1 /\ \A d \in B : Times(order, d) = 1
  BY DEF Rowed
<1>2. Contains(order, b)
  BY <1>1, TimesCounted
<1>3. t \in Seq(B) /\ \A x : Times(order, x) = IF x = b THEN Times(t, x) + 1 ELSE Times(t, x)
  BY <1>1, <1>2, TimesRemoved
<1> HIDE DEF t
<1>4. Times(t, b) = 0
  <2>1. Times(t, b) \in Nat
    BY <1>3, TimesCounted
  <2> QED
    BY <1>1, <1>3, <2>1
<1>5. t \in Seq(B \ {b})
  BY <1>3, <1>4, WithoutOne
<1>6. \A d \in B \ {b} : Times(t, d) = 1
  BY <1>1, <1>3
<1> QED
  BY <1>5, <1>6 DEF Rowed, t

(* H is F without the block b and its instructions.                        *)
BlockErasing(F, H, b) ==
  /\ Good(H) /\ H.fault = FALSE /\ H.next = F.next /\ H.order = RemoveFirst(F.order, b)
  /\ DOMAIN H.inst = DOMAIN F.inst \ ToSet(F.code[b])
  /\ DOMAIN H.uses = DOMAIN F.uses \ (ToSet(F.code[b]) \cup {b})
  /\ DOMAIN H.code = DOMAIN F.code \ {b}
  /\ \A d \in DOMAIN H.code : H.code[d] = F.code[d]
  /\ Nulled(F, H)

LEMMA ErasedBlock ==
  ASSUME NEW F, Good(F), F.fault = FALSE, NEW b \in DOMAIN F.code
  PROVE  LET H == eraseBlock(F, b) IN
         \/ BlockErasing(F, H, b)
         \/ H.fault = TRUE /\ \E u \in DOMAIN F.inst : FalseTo(F.inst, u, b)
<1> DEFINE D == ToSet(F.code[b])
           G == Cleared(F, b)
           K == replaceAllUseWith(G, b, Nil)
           H == eraseBlock(F, b)
           I == DOMAIN G.inst
           N == DOMAIN G.uses
           M == N \cup {Nil}
<1>1. Clearing(F, G, b, D)
  BY ClearedAll
<1> HIDE DEF G, D
<1>2. /\ Linked(G, {}) /\ Sided(G.inst) /\ Aimed(G.inst, DOMAIN G.code) /\ Housed(G.code, I)
      /\ Rowed(G.order, DOMAIN G.code) /\ DOMAIN G.code \subseteq N \ I
      /\ G.next \in Nat \ {0} /\ N \subseteq 1 .. (G.next - 1) /\ Good(G) /\ G.fault = FALSE
      /\ DOMAIN G.code = DOMAIN F.code
  BY <1>1 DEF Clearing, Good
<1>3. /\ Nil \notin N /\ I \subseteq N /\ Reaching(G.inst, M) /\ Tagged(G.inst)
      /\ b \in N /\ b \notin I /\ b # Nil
  BY <1>2, GoodRefs DEF Reaching
<1>4. Asking(G, K, {}, I, b, Nil)
  <2>1. Asking(G, K, {}, DOMAIN G.inst \ {}, b, Nil)
    <3>1. Nil \in DOMAIN G.uses \cup {Nil} /\ b \in DOMAIN G.uses
      BY <1>3
    <3> HIDE DEF N, I, M
    <3> QED
      BY <1>2, <3>1, ReplacedAll
  <2>2. DOMAIN G.inst \ {} = I
    OBVIOUS
  <2> QED
    BY <2>1, <2>2
<1> HIDE DEF K
<1>5. H = [K EXCEPT !.order = RemoveFirst(@, b), !.code = Forget(@, b), !.uses = Forget(@, b)]
  BY DEF eraseBlock, K, G
<1> HIDE DEF H
<1>6. /\ Linked(K, {}) /\ DOMAIN K.uses = N /\ DOMAIN K.inst = I /\ K.fault \in BOOLEAN
      /\ K.order = F.order /\ K.code = G.code /\ K.next = F.next
      /\ K = Relinked(K, K.inst, K.uses)
  BY <1>1, <1>4 DEF Asking, Linked, Used, Formed, Clearing
<1>7. /\ H.order = RemoveFirst(F.order, b) /\ H.code = Forget(G.code, b) /\ H.uses = Forget(K.uses, b)
      /\ H.inst = K.inst /\ H.fault = K.fault /\ H.next = F.next /\ Formed(H)
  BY <1>5, <1>6 DEF Relinked, Formed
<1>8. CASE \E u \in I : FalseTo(G.inst, u, b)
  <2>1. K.fault = TRUE
    BY <1>4, <1>6, <1>8 DEF Asking
  <2>2. \E u \in DOMAIN F.inst : FalseTo(F.inst, u, b)
    <3>1. PICK u \in I : FalseTo(G.inst, u, b)
      BY <1>8
    <3>2. Len(G.inst[u].refs) = 3 /\ G.inst[u].kind = "cond" /\ G.inst[u].refs[3] = b
      BY <1>2, <3>1 DEF Sided, FalseTo, FalseSlot
    <3>3. /\ u \in DOMAIN F.inst /\ G.inst[u].kind = F.inst[u].kind
          /\ Len(G.inst[u].refs) = Len(F.inst[u].refs)
          /\ \A p \in 1 .. Len(F.inst[u].refs) :
               G.inst[u].refs[p] = IF F.inst[u].refs[p] \in DOMAIN F.uses \ DOMAIN G.uses THEN Nil
                                   ELSE F.inst[u].refs[p]
      BY <1>1, <3>1 DEF Clearing, Nulled
    <3>4. F.inst[u].refs[3] = b
      <4>1. 3 \in 1 .. Len(F.inst[u].refs)
        BY <3>2, <3>3
      <4> QED
        BY <1>3, <3>2, <3>3, <4>1
    <3> QED
      BY <3>2, <3>3, <3>4 DEF FalseTo, FalseSlot
  <2> QED
    BY <1>7, <2>1, <2>2 DEF H
<1>9. CASE ~\E u \in I : FalseTo(G.inst, u, b)
  <2>1. K.fault = FALSE /\ K.inst = Redirected(G.inst, I, b, Nil)
    BY <1>4, <1>6, <1>9 DEF Asking
  <2>2. Swaps(G.inst, K.inst, I, b, Nil)
    BY <1>3, <2>1, RedirectedIs DEF Swaps
  <2>3. Linked(K, {b})
    <3>1. Held(K, {b}) = Held(K, {})
      BY <1>3, <1>6 DEF Held
    <3> QED
      BY <1>6, <3>1 DEF Linked
  <2>4. Unnamed(K.inst, DOMAIN K.inst \ {b}, b)
    <3> SUFFICES ASSUME NEW u \in I, NEW p \in 1 .. Len(K.inst[u].refs)  PROVE K.inst[u].refs[p] # b
      BY <1>6 DEF Unnamed
    <3> DEFINE r == G.inst[u].refs
               t == Swapped(r, b, Nil)
    <3>1. r \in Seq(M) /\ Nil \in M /\ K.inst[u].refs = t
      BY <1>3, <2>2 DEF Reaching, Swaps
    <3> HIDE DEF r, M
    <3>2. Len(t) = Len(r) /\ \A q \in 1 .. Len(r) : t[q] = IF r[q] = b THEN Nil ELSE r[q]
      BY <3>1, SwappedIs
    <3> QED
      BY <1>3, <3>1, <3>2
  <2>5. H.inst = Forget(K.inst, b)
    <3>1. K.inst = [u \in DOMAIN K.inst |-> K.inst[u]]
      BY <1>6 DEF Linked, Tagged
    <3>2. DOMAIN K.inst \ {b} = DOMAIN K.inst
      BY <1>3, <1>6
    <3> QED
      BY <1>7, <3>1, <3>2 DEF Forget
  <2>6. Less(K, H, b)
    BY <1>3, <1>6, <1>7, <2>3, <2>4, <2>5, ForgottenLinked
  <2>7. /\ Linked(H, {}) /\ DOMAIN H.uses = N \ {b} /\ DOMAIN H.inst = I
    BY <1>3, <1>6, <2>6 DEF Less
  <2>8. Swaps(G.inst, H.inst, I, b, Nil)
    BY <1>7, <2>2
  <2>9. Aimed(H.inst, DOMAIN G.code \ {b}) /\ Sided(H.inst)
    <3>1. Carried(DOMAIN G.code, DOMAIN G.code \ {b}, b, Nil)
      BY DEF Carried
    <3>2. I \subseteq DOMAIN G.inst /\ Nil \in M
      OBVIOUS
    <3> HIDE DEF M, I
    <3> QED
      BY <1>2, <1>3, <2>8, <3>1, <3>2, SwappedShape
  <2>10. /\ DOMAIN H.code = DOMAIN F.code \ {b}
         /\ \A d \in DOMAIN H.code : H.code[d] = F.code[d] /\ H.code[d] = G.code[d]
         /\ H.code = [d \in DOMAIN H.code |-> H.code[d]]
    BY <1>1, <1>7 DEF Forget, Clearing
  <2>11. Housed(H.code, I)
    <3>1. ASSUME NEW i \in I  PROVE \E d \in DOMAIN H.code : Lives(H.code, d, i)
      <4>1. i \in DOMAIN F.inst /\ i \notin D
        BY <1>1 DEF Clearing
      <4>2. PICK d \in DOMAIN F.code : Lives(F.code, d, i)
        BY <4>1 DEF Good, Housed
      <4>3. d # b
        <5> SUFFICES ASSUME d = b  PROVE FALSE
          OBVIOUS
        <5>1. F.code[b] \in Seq(DOMAIN F.inst) /\ Times(F.code[b], i) = 1
          BY <4>2 DEF Good, Housed, Lives
        <5>2. PICK p \in 1 .. Len(F.code[b]) : F.code[b][p] = i
          BY <5>1, TimesCounted
        <5>3. DOMAIN F.code[b] = 1 .. Len(F.code[b])
          BY <5>1, LenProperties
        <5> QED
          BY <4>1, <5>2, <5>3 DEF D, ToSet
      <4> QED
        BY <2>10, <4>2, <4>3 DEF Lives
    <3>2. \A d \in DOMAIN H.code : H.code[d] \in Seq(I)
      BY <1>2, <2>10 DEF Housed
    <3> QED
      BY <2>10, <3>1, <3>2 DEF Housed
  <2>12. Rowed(H.order, DOMAIN H.code)
    BY <1>7, <2>10, Unrowed DEF Good
  <2>13. Nulled(G, H)
    BY <1>2, <1>3, <2>7, <2>8, SwapsNulled
  <2>14. Nulled(F, H)
    BY <1>1, <1>3, <2>7, <2>13, NulledTwice DEF Clearing
  <2>15. Good(H)
    <3>1. DOMAIN H.code = DOMAIN G.code \ {b}
      BY <1>2, <2>10
    <3>2. H.next = G.next
      BY <1>1, <1>7 DEF Clearing
    <3> QED
      BY <1>2, <2>7, <2>9, <2>11, <2>12, <3>1, <3>2 DEF Good
  <2>16. DOMAIN H.inst = DOMAIN F.inst \ D /\ DOMAIN H.uses = DOMAIN F.uses \ (D \cup {b})
    BY <1>1, <2>7 DEF Clearing
  <2> QED
    BY <1>7, <2>1, <2>10, <2>14, <2>15, <2>16 DEF BlockErasing, H, D
<1> QED
  BY <1>8, <1>9

-----------------------------------------------------------------------------
(* A new node, without users.                                              *)

LEMMA EnteredLinked ==
  ASSUME NEW F, Linked(F, {}), NEW n, n # Nil, n \notin DOMAIN F.uses,
         NEW H, Formed(H), H.fault \in BOOLEAN, H.uses = Entered(F.uses, n, <<>>), Tagged(H.inst),
         DOMAIN F.inst \subseteq DOMAIN H.inst, DOMAIN H.inst \subseteq DOMAIN F.inst \cup {n},
         \A u \in DOMAIN F.inst : H.inst[u] = F.inst[u]
  PROVE  Linked(H, {n}) /\ DOMAIN H.uses = DOMAIN F.uses \cup {n}
<1> DEFINE N == DOMAIN F.uses
           M == DOMAIN H.uses
           held == Held(F, {})
           more == Held(H, {n})
           nothing == <<>>
<1>1. M = N \cup {n} /\ H.uses = [m \in M |-> IF m = n THEN nothing ELSE F.uses[m]]
  BY DEF Entered
<1>2. /\ Nil \notin N /\ F.uses \in [N -> Seq(N)] /\ held \in [N -> Seq(N \cup {Nil})]
      /\ \A m, u \in N : Times(F.uses[m], u) = Times(held[u], m)
      /\ DOMAIN F.inst \subseteq N
  BY DEF Linked, Listed
<1>3. held = [u \in N |-> IF u \in DOMAIN F.inst THEN F.inst[u].refs ELSE nothing]
  BY DEF Held
<1>4. more = [u \in M |-> IF u \in DOMAIN H.inst \ {n} THEN H.inst[u].refs ELSE nothing]
  BY DEF Held
<1>5. \A u \in M : more[u] = IF u = n THEN nothing ELSE held[u]
  <2> TAKE u \in M
  <2>1. CASE u = n
    BY <1>4, <2>1
  <2>2. CASE u # n
    <3>1. u \in N /\ (u \in DOMAIN H.inst \ {n} <=> u \in DOMAIN F.inst)
      BY <1>1, <2>2
    <3> HIDE DEF held, more, N, M
    <3>2. more[u] = IF u \in DOMAIN F.inst THEN H.inst[u].refs ELSE nothing
      BY <1>4, <3>1
    <3> QED
      BY <1>3, <2>2, <3>1, <3>2
  <2> QED
    BY <2>1, <2>2
<1>6. nothing \in Seq(M) /\ nothing \in Seq(M \cup {Nil}) /\ nothing \in Seq(N) /\ Len(nothing) = 0
      /\ N \subseteq M
  <2>1. N \subseteq M
    BY <1>1
  <2> HIDE DEF N, M
  <2> QED
    BY <2>1
<1> HIDE DEF N, M, held, more, nothing
<1>7. \A x : Times(nothing, x) = 0
  <2>1. \A p \in 1 .. Len(nothing) : FALSE
    BY <1>6
  <2> QED
    BY <1>6, <2>1, TimesCounted
<1>8. \A u \in M : H.uses[u] \in Seq(M) /\ more[u] \in Seq(M \cup {Nil})
  <2> TAKE u \in M
  <2>1. CASE u = n
    BY <1>1, <1>5, <1>6, <2>1
  <2>2. CASE u # n
    <3>1. u \in N /\ H.uses[u] = F.uses[u] /\ more[u] = held[u]
      BY <1>1, <1>5, <2>2
    <3>2. F.uses[u] \in Seq(N) /\ held[u] \in Seq(N \cup {Nil})
      BY <1>2, <3>1
    <3>3. Seq(N) \subseteq Seq(M) /\ Seq(N \cup {Nil}) \subseteq Seq(M \cup {Nil})
      BY <1>6
    <3> QED
      BY <3>1, <3>2, <3>3
  <2> QED
    BY <2>1, <2>2
<1>9. ASSUME NEW m \in M, NEW u \in M  PROVE Times(H.uses[m], u) = Times(more[u], m)
  <2>1. CASE m = n /\ u = n
    BY <1>1, <1>5, <1>7, <2>1
  <2>2. CASE m = n /\ u # n
    <3>1. u \in N /\ Times(H.uses[m], u) = 0 /\ more[u] = held[u] /\ held[u] \in Seq(N \cup {Nil})
      BY <1>1, <1>2, <1>5, <1>7, <2>2
    <3>2. \A p \in 1 .. Len(held[u]) : held[u][p] # n
      <4> DEFINE X == N \cup {Nil}
      <4>1. n \notin X
        BY DEF N
      <4> HIDE DEF X
      <4> QED
        BY <3>1, <4>1, ElementOfSeq DEF X
    <3>3. Times(held[u], n) = 0
      BY <3>1, <3>2, TimesCounted
    <3> QED
      BY <2>2, <3>1, <3>3
  <2>3. CASE m # n /\ u = n
    <3>1. m \in N /\ Times(more[u], m) = 0 /\ H.uses[m] = F.uses[m] /\ F.uses[m] \in Seq(N)
      BY <1>1, <1>2, <1>5, <1>7, <2>3
    <3>2. \A p \in 1 .. Len(F.uses[m]) : F.uses[m][p] # n
      <4>1. n \notin N
        BY DEF N
      <4> QED
        BY <3>1, <4>1, ElementOfSeq
    <3>3. Times(F.uses[m], n) = 0
      BY <3>1, <3>2, TimesCounted
    <3> QED
      BY <2>3, <3>1, <3>3
  <2>4. CASE m # n /\ u # n
    BY <1>1, <1>2, <1>5, <2>4
  <2> QED
    BY <2>1, <2>2, <2>3, <2>4
<1>10. Listed(H.uses, M, more)
  <2>1. H.uses \in [M -> Seq(M)] /\ more \in [M -> Seq(M \cup {Nil})]
    BY <1>1, <1>4, <1>8
  <2> QED
    BY <1>1, <1>2, <1>9, <2>1 DEF Listed
<1>11. Linked(H, {n})
  <2>1. DOMAIN H.inst \subseteq M
    BY <1>1, <1>2
  <2> QED
    BY <1>10, <2>1 DEF Linked, Used, Listed, M, more
<1> QED
  BY <1>1, <1>11 DEF N, M

(* A block in front of another, or at the end.                             *)
BlockBuilt(F, H) ==
  /\ Good(H) /\ H.fault = F.fault /\ H.inst = F.inst /\ H.next = F.next + 1
  /\ DOMAIN H.uses = DOMAIN F.uses \cup {F.next}
  /\ H.code = Entered(F.code, F.next, <<>>)

FirstAt(s, x) == SelectInSeq(s, LAMBDA y : y = x)

LEMMA FirstPlace ==
  ASSUME NEW X, NEW s \in Seq(X), NEW x, Contains(s, x)
  PROVE  FirstAt(s, x) \in 1 .. Len(s) /\ s[FirstAt(s, x)] = x
<1> DEFINE P == {i \in 1 .. Len(s) : s[i] = x}
           k == SelectInSeq(s, LAMBDA y : y = x)
<1>1. Len(s) \in Nat
  BY LenProperties
<1>2. P # {} /\ P \in SUBSET Nat
  <2>1. P \in SUBSET Nat
    BY <1>1
  <2>2. Times(s, x) # 0
    BY TimesCounted
  <2> QED
    BY <2>1, <2>2, TimesCounted
<1>3. PICK j \in P : \A i \in P : j <= i
  <2> HIDE DEF P
  <2> QED
    BY <1>2, SmallestOf
<1>4. \E m \in P : \A i \in P : m <= i
  BY <1>3
<1>5. Min(P) \in P
  <2> HIDE DEF P
  <2> QED
    BY <1>4 DEF Min
<1>6. k = Min(P)
  BY <1>2 DEF SelectInSeq
<1> QED
  BY <1>5, <1>6 DEF FirstAt

LEMMA BuiltBlock ==
  ASSUME NEW F, Good(F), NEW pos, pos \in DOMAIN F.code \cup {Nil}
  PROVE  BlockBuilt(F, BuildBasicBlock(F, pos))
<1> DEFINE n == F.next
           N == DOMAIN F.uses
           B == DOMAIN F.code
           I == DOMAIN F.inst
           at == IF pos = Nil THEN Len(F.order) + 1 ELSE SelectInSeq(F.order, LAMBDA b : b = pos)
           order == InsertAt(F.order, at, n)
           H == BuildBasicBlock(F, pos)
<1>1. /\ Linked(F, {}) /\ Sided(F.inst) /\ Aimed(F.inst, B) /\ Housed(F.code, I) /\ Rowed(F.order, B)
      /\ B \subseteq N \ I /\ I \subseteq N /\ Nil \notin N /\ Nil \notin B /\ Formed(F)
      /\ F.next \in Nat \ {0} /\ N \subseteq 1 .. (F.next - 1) /\ F.fault \in BOOLEAN /\ Tagged(F.inst)
  BY GoodRefs DEF Good
<1>2. n # Nil /\ n \notin N /\ n \in Nat
  <2>1. n \notin 1 .. (n - 1)
    BY <1>1
  <2> QED
    BY <1>1, <2>1 DEF Nil
<1>3. H = [order |-> order, code |-> Entered(F.code, n, <<>>), inst |-> F.inst,
           uses |-> Entered(F.uses, n, <<>>), fault |-> F.fault, next |-> n + 1]
  <2>1. H = [F EXCEPT !.order = InsertAt(@, at, n), !.code = Entered(@, n, <<>>),
                      !.uses = Entered(@, n, <<>>), !.next = @ + 1]
    BY DEF BuildBasicBlock
  <2> HIDE DEF H, at
  <2> QED
    BY <1>1, <2>1 DEF Formed, Relinked
<1> HIDE DEF H
<1>4. /\ H.order = order /\ H.code = Entered(F.code, n, <<>>) /\ H.inst = F.inst
      /\ H.uses = Entered(F.uses, n, <<>>) /\ H.fault = F.fault /\ H.next = n + 1 /\ Formed(H)
  BY <1>3 DEF Formed, Relinked
<1>5. at \in 1 .. Len(F.order) + 1
  <2>1. F.order \in Seq(B) /\ Len(F.order) \in Nat
    BY <1>1, LenProperties DEF Rowed
  <2>2. CASE pos = Nil
    BY <2>1, <2>2
  <2>3. CASE pos # Nil
    <3>1. pos \in B /\ Times(F.order, pos) = 1
      BY <1>1, <2>3 DEF Rowed
    <3>2. Contains(F.order, pos)
      BY <2>1, <3>1, TimesCounted
    <3>3. FirstAt(F.order, pos) \in 1 .. Len(F.order)
      BY <2>1, <3>2, FirstPlace
    <3> QED
      BY <2>1, <2>3, <3>3 DEF FirstAt
  <2> QED
    BY <2>2, <2>3
<1> HIDE DEF at
<1>6. Linked(H, {n}) /\ DOMAIN H.uses = N \cup {n}
  BY <1>1, <1>2, <1>4, EnteredLinked
<1>7. Linked(H, {})
  <2>1. Held(H, {n}) = Held(H, {})
    BY <1>1, <1>2, <1>4 DEF Held
  <2> QED
    BY <1>6, <2>1 DEF Linked
<1>8. DOMAIN H.code = B \cup {n} /\ \A d \in B \cup {n} : H.code[d] = IF d = n THEN <<>> ELSE F.code[d]
  BY <1>4 DEF Entered
<1>9. Housed(H.code, I)
  <2> DEFINE nothing == <<>>
  <2>1. nothing \in Seq(I) /\ \A p \in 1 .. Len(nothing) : FALSE
    OBVIOUS
  <2> HIDE DEF nothing
  <2>2. \A x : Times(nothing, x) = 0
    BY <2>1, TimesCounted
  <2>3. \A d \in DOMAIN H.code : H.code[d] \in Seq(I)
    BY <1>1, <1>8, <2>1 DEF Housed, nothing
  <2>4. H.code \in [DOMAIN H.code -> Seq(I)]
    BY <1>4, <2>3 DEF Entered
  <2>5. ASSUME NEW i \in I  PROVE \E d \in DOMAIN H.code : Lives(H.code, d, i)
    <3>1. PICK d \in B : Lives(F.code, d, i)
      BY <1>1 DEF Housed
    <3>2. \A e \in DOMAIN H.code : Times(H.code[e], i) = IF e = d THEN 1 ELSE 0
      BY <1>1, <1>2, <1>8, <2>2, <3>1 DEF Lives, nothing
    <3> QED
      BY <1>8, <3>1, <3>2 DEF Lives
  <2> QED
    BY <2>4, <2>5 DEF Housed
<1>10. Rowed(H.order, B \cup {n})
  <2> DEFINE C == B \cup {n}
  <2>1. F.order \in Seq(C) /\ n \in C
    BY <1>1 DEF Rowed
  <2> HIDE DEF C
  <2>2. order \in Seq(C) /\ \A x : Times(order, x) = IF x = n THEN Times(F.order, x) + 1 ELSE Times(F.order, x)
    BY <1>5, <2>1, TimesInserted
  <2>3. Times(F.order, n) = 0
    <3>1. F.order \in Seq(B) /\ n \notin B
      BY <1>1, <1>2 DEF Rowed
    <3>2. \A p \in 1 .. Len(F.order) : F.order[p] # n
      BY <3>1, ElementOfSeq
    <3> QED
      BY <3>1, <3>2, TimesCounted
  <2>4. \A b \in C : Times(order, b) = 1
    <3> TAKE b \in C
    <3>1. CASE b = n
      BY <2>2, <2>3, <3>1
    <3>2. CASE b # n
      <4>1. Times(F.order, b) = 1
        BY <1>1, <3>2 DEF C, Rowed
      <4> QED
        BY <2>2, <3>2, <4>1
    <3> QED
      BY <3>1, <3>2
  <2> QED
    BY <1>4, <2>2, <2>4 DEF Rowed, C
<1>11. Aimed(H.inst, DOMAIN H.code)
  BY <1>1, <1>4, <1>8 DEF Aimed
<1>12. H.next \in Nat \ {0} /\ DOMAIN H.uses \subseteq 1 .. (H.next - 1)
  <2>1. \A x : x \in 1 .. (n - 1) \/ x = n => x \in 1 .. ((n + 1) - 1)
    BY <1>1
  <2> QED
    BY <1>1, <1>4, <1>6, <2>1
<1>13. Good(H)
  BY <1>1, <1>2, <1>4, <1>6, <1>7, <1>8, <1>9, <1>10, <1>11, <1>12 DEF Good
<1> QED
  BY <1>4, <1>6, <1>13 DEF BlockBuilt, H

(* An instruction at the end of a block.                                   *)
Made(kind, type, refs) == [kind |-> kind, type |-> type, refs |-> refs]
Aims(I, B) ==
  I.kind \in Branches => \A k \in DOMAIN I.refs \ Values(I) : I.refs[k] \in B \cup {Nil}
Buildable(F, b, I) ==
  /\ b \in DOMAIN F.code /\ I.refs \in Seq(DOMAIN F.uses \cup {Nil})
  /\ I.kind = "cond" => Len(I.refs) = 3
  /\ Aims(I, DOMAIN F.code)
InstBuilt(F, H, b, I) ==
  /\ Good(H) /\ H.fault = F.fault /\ H.order = F.order /\ H.next = F.next + 1
  /\ DOMAIN H.uses = DOMAIN F.uses \cup {F.next}
  /\ H.inst = Entered(F.inst, F.next, I)
  /\ H.code = [F.code EXCEPT ![b] = Append(@, F.next)]

LEMMA HousedMore ==
  ASSUME NEW code, NEW I, Housed(code, I), NEW b \in DOMAIN code, NEW n, n \notin I
  PROVE  Housed([code EXCEPT ![b] = Append(@, n)], I \cup {n})
<1> DEFINE D == DOMAIN code
           C == [code EXCEPT ![b] = Append(@, n)]
           J == I \cup {n}
<1>1. \A d \in D : code[d] \in Seq(I) /\ code[d] \in Seq(J) /\ n \in J /\ b \in D
  BY DEF Housed
<1>2. DOMAIN C = D /\ \A d \in D : C[d] = IF d = b THEN Append(code[d], n) ELSE code[d]
  BY DEF Housed
<1>3. C = [d \in D |-> C[d]]
  BY DEF Housed
<1> HIDE DEF C, D, J
<1>4. \A d \in D : \A x :
                      /\ Append(code[d], n) \in Seq(J)
                      /\ Times(Append(code[d], n), x) = IF x = n THEN Times(code[d], x) + 1 ELSE Times(code[d], x)
  BY <1>1, TimesAppended
<1>5. C \in [D -> Seq(J)]
  BY <1>1, <1>2, <1>3, <1>4
<1>6. \A d \in D : Times(code[d], n) = 0
  <2> TAKE d \in D
  <2>1. \A k \in 1 .. Len(code[d]) : code[d][k] # n
    BY <1>1, ElementOfSeq
  <2> QED
    BY <1>1, <2>1, TimesCounted
<1>7. ASSUME NEW i \in J  PROVE \E d \in D : Lives(C, d, i)
  <2>1. CASE i = n
    <3>1. ASSUME NEW e \in D  PROVE Times(C[e], i) = IF e = b THEN 1 ELSE 0
      <4>1. CASE e = b
        <5>1. C[e] = Append(code[e], n) /\ Times(code[e], n) = 0
          BY <1>2, <1>6, <4>1
        <5> QED
          BY <1>4, <2>1, <4>1, <5>1
      <4>2. CASE e # b
        BY <1>2, <1>6, <2>1, <4>2
      <4> QED
        BY <4>1, <4>2
    <3> QED
      BY <1>1, <1>2, <3>1 DEF Lives, D
  <2>2. CASE i # n
    <3>1. i \in I
      BY <2>2 DEF J
    <3>2. PICK d \in D : \A e \in D : Times(code[e], i) = IF e = d THEN 1 ELSE 0
      BY <3>1 DEF Housed, Lives, D
    <3>3. ASSUME NEW e \in D  PROVE Times(C[e], i) = IF e = d THEN 1 ELSE 0
      <4>1. CASE e = b
        <5>1. C[e] = Append(code[e], n)
          BY <1>2, <4>1
        <5>2. Times(Append(code[e], n), i) = Times(code[e], i)
          BY <1>4, <2>2
        <5> QED
          BY <3>2, <5>1, <5>2
      <4>2. CASE e # b
        BY <1>2, <3>2, <4>2
      <4> QED
        BY <4>1, <4>2
    <3> QED
      BY <1>2, <3>2, <3>3 DEF Lives
  <2> QED
    BY <2>1, <2>2
<1> QED
  BY <1>2, <1>5, <1>7 DEF Housed, C, D, J

Six(o, c, i, u, f, x) == [order |-> o, code |-> c, inst |-> i, uses |-> u, fault |-> f, next |-> x]
Sixed(F, y, z, d, e, w) == [F EXCEPT !.inst = y, !.uses = z, !.code[d] = e, !.next = w]

LEMMA SixChanged ==
  ASSUME NEW F, Formed(F), NEW y, NEW z, NEW d, NEW e, NEW w
  PROVE  Sixed(F, y, z, d, e, w) = Six(F.order, [F.code EXCEPT ![d] = e], y, z, F.fault, w)
<1> DEFINE o == F.order
           c == F.code
           i == F.inst
           u == F.uses
           f == F.fault
           x == F.next
           k == [c EXCEPT ![d] = e]
<1>1. F = Six(o, c, i, u, f, x)
  BY DEF Formed, Relinked, Six
<1> HIDE DEF o, c, i, u, f, x
<1>2. [F EXCEPT !.inst = y] = Six(o, c, y, u, f, x)
  BY <1>1 DEF Six
<1>3. [Six(o, c, y, u, f, x) EXCEPT !.uses = z] = Six(o, c, y, z, f, x)
  BY DEF Six
<1>4. [Six(o, c, y, z, f, x) EXCEPT !.code[d] = e] = Six(o, k, y, z, f, x)
  BY DEF Six
<1>5. [Six(o, k, y, z, f, x) EXCEPT !.next = w] = Six(o, k, y, z, f, w)
  BY DEF Six
<1>6. Sixed(F, y, z, d, e, w) = Six(o, k, y, z, f, w)
  BY <1>2, <1>3, <1>4, <1>5 DEF Sixed
<1> QED
  BY <1>6 DEF o, c, f

LEMMA BuiltInst ==
  ASSUME NEW F, Good(F), NEW b, NEW kind, NEW type, NEW refs, Buildable(F, b, Made(kind, type, refs))
  PROVE  InstBuilt(F, BuildInst(F, b, kind, type, refs), b, Made(kind, type, refs))
<1> DEFINE n == F.next
           N == DOMAIN F.uses
           M == N \cup {n}
           B == DOMAIN F.code
           I == DOMAIN F.inst
           new == Made(kind, type, refs)
           code == [F.code EXCEPT ![b] = Append(@, n)]
           G == [order |-> F.order, code |-> code, inst |-> Entered(F.inst, n, new),
                 uses |-> Entered(F.uses, n, <<>>), fault |-> F.fault, next |-> n + 1]
           H == addUses(G, refs, n)
<1>1. /\ Linked(F, {}) /\ Sided(F.inst) /\ Aimed(F.inst, B) /\ Housed(F.code, I) /\ Rowed(F.order, B)
      /\ B \subseteq N \ I /\ I \subseteq N /\ Nil \notin N /\ Formed(F)
      /\ F.next \in Nat \ {0} /\ N \subseteq 1 .. (F.next - 1) /\ F.fault \in BOOLEAN /\ Tagged(F.inst)
  BY GoodRefs DEF Good
<1>2. n # Nil /\ n \notin N /\ n \in Nat /\ n \notin I /\ n \notin B /\ Nil \notin M
  <2>1. n \notin 1 .. (n - 1)
    BY <1>1
  <2> QED
    BY <1>1, <2>1 DEF Nil
<1>3. /\ b \in B /\ refs \in Seq(N \cup {Nil}) /\ (kind = "cond" => Len(refs) = 3) /\ Aims(new, B)
      /\ new.kind = kind /\ new.type = type /\ new.refs = refs
  BY DEF Buildable, Made
<1>4. BuildInst(F, b, kind, type, refs) = H
  <2>1. [F EXCEPT !.inst = Entered(@, n, new), !.uses = Entered(@, n, <<>>),
                  !.code[b] = Append(@, n), !.next = @ + 1] = G
    <3> DEFINE x == Entered(F.inst, n, new)
               y == Entered(F.uses, n, <<>>)
               z == Append(F.code[b], n)
               w == n + 1
    <3>1. [F EXCEPT !.inst = Entered(@, n, new), !.uses = Entered(@, n, <<>>),
                    !.code[b] = Append(@, n), !.next = @ + 1]
            = Sixed(F, x, y, b, z, w)
      BY DEF n, Sixed
    <3>2. G = Six(F.order, [F.code EXCEPT ![b] = z], x, y, F.fault, w)
      BY DEF Six
    <3> HIDE DEF new, G, x, y, z, w
    <3>3. Sixed(F, x, y, b, z, w) = Six(F.order, [F.code EXCEPT ![b] = z], x, y, F.fault, w)
      BY <1>1, SixChanged
    <3> QED
      BY <3>1, <3>2, <3>3
  <2> QED
    BY <2>1 DEF BuildInst, Made
<1>5. /\ G.order = F.order /\ G.code = code /\ G.inst = Entered(F.inst, n, new)
      /\ G.uses = Entered(F.uses, n, <<>>) /\ G.fault = F.fault /\ G.next = n + 1 /\ Formed(G)
  BY DEF Formed, Relinked
<1> HIDE DEF G, H, n, new
<1>6. /\ DOMAIN G.inst = I \cup {n}
      /\ \A u \in I \cup {n} : G.inst[u] = IF u = n THEN new ELSE F.inst[u]
  BY <1>5 DEF Entered
<1>7. Tagged(G.inst)
  <2>1. \A u \in I \cup {n} : G.inst[u] = [kind |-> G.inst[u].kind, type |-> G.inst[u].type, refs |-> G.inst[u].refs]
    <3> TAKE u \in I \cup {n}
    <3>1. CASE u = n
      BY <1>6, <3>1 DEF new, Made
    <3>2. CASE u # n
      BY <1>1, <1>6, <3>2 DEF Tagged
    <3> QED
      BY <3>1, <3>2
  <2> QED
    BY <1>5, <1>6, <2>1 DEF Tagged, Entered
<1>8. Linked(G, {n}) /\ DOMAIN G.uses = M
  <2>1. /\ G.fault \in BOOLEAN /\ DOMAIN F.inst \subseteq DOMAIN G.inst
        /\ DOMAIN G.inst \subseteq DOMAIN F.inst \cup {n} /\ n \notin DOMAIN F.uses
        /\ \A u \in DOMAIN F.inst : G.inst[u] = F.inst[u]
    BY <1>1, <1>2, <1>5, <1>6
  <2>2. Formed(G) /\ G.uses = Entered(F.uses, n, <<>>)
    BY <1>5
  <2> QED
    BY <1>1, <1>2, <1>7, <2>1, <2>2, EnteredLinked DEF M
<1>9. Used(G, M) /\ Listed(G.uses, M, Held(G, {n})) /\ n \in M
  BY <1>8 DEF Linked
<1>10. refs \in Seq(M \cup {Nil})
  BY <1>3
<1> HIDE DEF M
<1>11. H = Relinked(G, G.inst, H.uses) /\ Gains(G.uses, H.uses, M, n, refs)
  BY <1>9, <1>10, AddedAll DEF H
<1>12. /\ H.order = F.order /\ H.code = code /\ H.inst = G.inst /\ H.fault = F.fault /\ H.next = n + 1
       /\ Formed(H)
  BY <1>5, <1>11, RelinkedIs
<1> DEFINE held == Held(G, {n})
<1>13. /\ held[n] = <<>> /\ DOMAIN held = M
       /\ \A u \in M : held[u] = IF u \in DOMAIN G.inst \ {n} THEN G.inst[u].refs ELSE <<>>
  BY <1>8, <1>9 DEF Held
<1>14. \A m \in M : Times(refs, m) = Times(held[n], m) + Times(refs, m)
  <2> TAKE m \in M
  <2> DEFINE nothing == <<>>
  <2>1. nothing \in Seq(M) /\ \A p \in 1 .. Len(nothing) : nothing[p] # m
    OBVIOUS
  <2> HIDE DEF nothing
  <2>2. Times(nothing, m) = 0
    BY <2>1, TimesCounted
  <2>3. Times(refs, m) \in Nat
    BY <1>10, TimesCounted
  <2> QED
    BY <1>13, <2>2, <2>3 DEF nothing
<1> HIDE DEF held
<1>15. Listed(H.uses, M, With(held, n, refs))
  <2>1. Listed(G.uses, M, held)
    BY <1>9 DEF held
  <2> QED
    BY <1>9, <1>10, <1>11, <1>14, <2>1, GainsListed
<1>16. H.uses \in [M -> Seq(M)] /\ DOMAIN H.uses = M
  BY <1>11 DEF Gains
<1>17. With(held, n, refs) = Held(H, {})
  <2>1. \A u \in M : With(held, n, refs)[u] = IF u \in DOMAIN H.inst \ {} THEN H.inst[u].refs ELSE <<>>
    <3> TAKE u \in M
    <3>1. CASE u = n
      <4>1. With(held, n, refs)[u] = refs
        BY <1>9, <1>13, <3>1 DEF With
      <4> QED
        BY <1>3, <1>6, <1>12, <3>1, <4>1
    <3>2. CASE u # n
      <4>1. With(held, n, refs)[u] = held[u]
        BY <1>13, <3>2 DEF With
      <4> QED
        BY <1>6, <1>12, <1>13, <3>2, <4>1
    <3> QED
      BY <3>1, <3>2
  <2>2. With(held, n, refs) = [u \in M |-> With(held, n, refs)[u]]
    BY <1>13 DEF With, held, Held
  <2> QED
    BY <1>16, <2>1, <2>2 DEF Held
<1>18. Linked(H, {})
  <2>1. Used(H, M)
    BY <1>1, <1>2, <1>12, <1>16 DEF Used, M
  <2>2. DOMAIN H.inst \subseteq M
    BY <1>1, <1>6, <1>12 DEF M
  <2> QED
    BY <1>7, <1>12, <1>15, <1>16, <1>17, <2>1, <2>2 DEF Linked
<1>19. DOMAIN code = B
  BY DEF code
<1>20. Housed(code, I \cup {n})
  BY <1>1, <1>2, <1>3, HousedMore
<1> HIDE DEF code
<1>21. Aimed(H.inst, B)
  <2> SUFFICES ASSUME NEW u \in I \cup {n}, H.inst[u].kind \in Branches,
                      NEW k \in DOMAIN H.inst[u].refs \ Values(H.inst[u])
               PROVE  H.inst[u].refs[k] \in B \cup {Nil}
    BY <1>6, <1>12 DEF Aimed
  <2>1. CASE u = n
    <3>1. H.inst[u] = new
      BY <1>6, <1>12, <2>1
    <3> QED
      BY <1>3, <3>1 DEF Aims
  <2>2. CASE u # n
    <3>1. u \in I /\ H.inst[u] = F.inst[u]
      BY <1>6, <1>12, <2>2
    <3> QED
      BY <1>1, <3>1 DEF Aimed
  <2> QED
    BY <2>1, <2>2
<1>22. Sided(H.inst)
  <2> SUFFICES ASSUME NEW u \in I \cup {n}, H.inst[u].kind = "cond"  PROVE Len(H.inst[u].refs) = 3
    BY <1>6, <1>12 DEF Sided
  <2>1. CASE u = n
    BY <1>3, <1>6, <1>12, <2>1
  <2>2. CASE u # n
    BY <1>1, <1>6, <1>12, <2>2 DEF Sided
  <2> QED
    BY <2>1, <2>2
<1>23. H.next \in Nat \ {0} /\ M \subseteq 1 .. (H.next - 1)
  <2>1. \A x : x \in 1 .. (n - 1) \/ x = n => x \in 1 .. ((n + 1) - 1)
    BY <1>1 DEF n
  <2> QED
    BY <1>1, <1>2, <1>12, <2>1 DEF M, n
<1>24. B \subseteq M \ (I \cup {n}) /\ M \subseteq B \cup (I \cup {n})
  <2>1. N \subseteq B \cup I
    BY DEF Good
  <2> QED
    BY <1>1, <1>2, <2>1 DEF M
<1>25. Good(H)
  BY <1>1, <1>6, <1>12, <1>16, <1>18, <1>19, <1>20, <1>21, <1>22, <1>23, <1>24 DEF Good
<1> QED
  BY <1>4, <1>5, <1>12, <1>16, <1>25 DEF InstBuilt, M, n, new, code

(* The references of a phi become others.                                  *)
RefsSet(F, H, phi, r) ==
  /\ Good(H) /\ H.fault = F.fault /\ H.order = F.order /\ H.next = F.next /\ H.code = F.code
  /\ DOMAIN H.uses = DOMAIN F.uses /\ H.inst = Rewired(F.inst, phi, r)

LEMMA Rephied ==
  ASSUME NEW F, Good(F), NEW phi \in DOMAIN F.inst, F.inst[phi].kind = "phi",
         NEW r \in Seq(DOMAIN F.uses \cup {Nil}), NEW V,
         Listed(V, DOMAIN F.uses, With(Held(F, {}), phi, r))
  PROVE  RefsSet(F, Relinked(F, Rewired(F.inst, phi, r), V), phi, r)
<1> DEFINE N == DOMAIN F.uses
           I == DOMAIN F.inst
           H == Relinked(F, Rewired(F.inst, phi, r), V)
           held == Held(F, {})
<1>1. /\ Linked(F, {}) /\ Sided(F.inst) /\ Aimed(F.inst, DOMAIN F.code) /\ Housed(F.code, I)
      /\ Rowed(F.order, DOMAIN F.code) /\ DOMAIN F.code \subseteq N \ I /\ I \subseteq N /\ Nil \notin N
      /\ F.next \in Nat \ {0} /\ N \subseteq 1 .. (F.next - 1) /\ F.fault \in BOOLEAN /\ Tagged(F.inst)
  BY GoodRefs DEF Good
<1>2. /\ Formed(H) /\ H.inst = Rewired(F.inst, phi, r) /\ H.uses = V
      /\ H.order = F.order /\ H.code = F.code /\ H.fault = F.fault /\ H.next = F.next
  BY RelinkedIs
<1> HIDE DEF H
<1>3. V \in [N -> Seq(N)] /\ DOMAIN V = N
  BY DEF Listed
<1>4. /\ Tagged(H.inst) /\ DOMAIN H.inst = I
      /\ \A u \in I : /\ H.inst[u].kind = F.inst[u].kind
                      /\ H.inst[u].refs = IF u = phi THEN r ELSE F.inst[u].refs
  BY <1>1, <1>2, RewiredIs
<1>5. With(held, phi, r) = Held(H, {})
  <2>1. DOMAIN held = N /\ \A u \in N : held[u] = IF u \in I \ {} THEN F.inst[u].refs ELSE <<>>
    BY DEF Held
  <2>2. With(held, phi, r) = [u \in N |-> IF u = phi THEN r ELSE held[u]]
    BY <2>1 DEF With
  <2> HIDE DEF held
  <2>3. \A u \in N : (IF u = phi THEN r ELSE held[u]) = IF u \in I \ {} THEN H.inst[u].refs ELSE <<>>
    BY <1>1, <1>4, <2>1
  <2> QED
    BY <1>2, <1>3, <1>4, <2>2, <2>3 DEF Held
<1>6. Linked(H, {})
  <2>1. Used(H, N)
    BY <1>1, <1>2, <1>3 DEF Used
  <2> QED
    BY <1>1, <1>2, <1>3, <1>4, <1>5, <2>1 DEF Linked
<1>7. Aimed(H.inst, DOMAIN F.code)
  <2> SUFFICES ASSUME NEW u \in I, H.inst[u].kind \in Branches,
                      NEW k \in DOMAIN H.inst[u].refs \ Values(H.inst[u])
               PROVE  H.inst[u].refs[k] \in DOMAIN F.code \cup {Nil}
    BY <1>4 DEF Aimed
  <2>1. u # phi
    BY <1>4 DEF Branches
  <2>2. H.inst[u].kind = F.inst[u].kind /\ H.inst[u].refs = F.inst[u].refs
    BY <1>4, <2>1
  <2>3. Values(H.inst[u]) = Values(F.inst[u])
    BY <2>2, ValuesSame
  <2> QED
    BY <1>1, <2>2, <2>3 DEF Aimed
<1>8. Sided(H.inst)
  BY <1>1, <1>4 DEF Sided
<1>9. Good(H)
  BY <1>1, <1>2, <1>3, <1>4, <1>6, <1>7, <1>8 DEF Good
<1> QED
  BY <1>2, <1>3, <1>9 DEF RefsSet, H

LEMMA AddedTwo ==
  ASSUME NEW F, NEW x, NEW y, NEW i
  PROVE  addUses(F, <<x, y>>, i) = addUse(addUse(F, x, i), y, i)
<1> DEFINE ns == <<x, y>>
<1>1. Len(ns) = 2 /\ ns[1] = x /\ ns[2] = y
  OBVIOUS
<1> HIDE DEF ns
<1>2. Len(ns) \in Nat
  BY <1>1
<1>3. PICK f : /\ f[0] = F /\ addUses(F, ns, i) = f[Len(ns)]
               /\ \A j \in 1 .. Len(ns) : f[j] = AddsStep(F, ns, i, f[j - 1], j)
  BY <1>2, AddsUnfold
<1>4. f[1] = AddsStep(F, ns, i, f[0], 1) /\ f[2] = AddsStep(F, ns, i, f[1], 2)
  <2>1. 1 \in 1 .. Len(ns) /\ 2 \in 1 .. Len(ns) /\ 1 - 1 = 0 /\ 2 - 1 = 1
    BY <1>1
  <2> QED
    BY <1>3, <2>1
<1>5. f[1] = addUse(F, x, i) /\ f[2] = addUse(f[1], y, i)
  BY <1>1, <1>3, <1>4 DEF AddsStep
<1> QED
  BY <1>1, <1>3, <1>5 DEF ns

LEMMA CandidateAdded ==
  ASSUME NEW F, Good(F), NEW phi \in DOMAIN F.inst, F.inst[phi].kind = "phi",
         NEW value \in DOMAIN F.uses \cup {Nil}, NEW path \in DOMAIN F.uses \cup {Nil}
  PROVE  RefsSet(F, addCandidate(F, phi, value, path), phi, F.inst[phi].refs \o <<value, path>>)
<1> DEFINE N == DOMAIN F.uses
           s == <<value, path>>
           old == F.inst[phi].refs
           r == old \o s
           A == addUses(F, s, phi)
           held == Held(F, {})
<1>1. /\ Linked(F, {}) /\ Nil \notin N /\ DOMAIN F.inst \subseteq N /\ Formed(F) /\ Tagged(F.inst)
      /\ old \in Seq(N \cup {Nil}) /\ phi \in N
  BY GoodRefs DEF Good
<1>2. Used(F, N) /\ Listed(F.uses, N, held)
  BY <1>1 DEF Linked
<1>3. s \in Seq(N \cup {Nil})
  OBVIOUS
<1>4. A = addUse(addUse(F, value, phi), path, phi)
  BY AddedTwo
<1> HIDE DEF s, r, A, old
<1>5. A = Relinked(F, F.inst, A.uses) /\ Gains(F.uses, A.uses, N, phi, s)
  BY <1>1, <1>2, <1>3, AddedAll DEF A
<1>6. r \in Seq(N \cup {Nil}) /\ \A n \in N : Times(r, n) = Times(old, n) + Times(s, n)
  BY <1>1, <1>3, TimesConcat DEF r
<1>7. held[phi] = old
  BY <1>1 DEF Held, old
<1> HIDE DEF held
<1>8. Listed(A.uses, N, With(held, phi, r))
  <2>1. \A n \in N : Times(r, n) = Times(held[phi], n) + Times(s, n)
    BY <1>6, <1>7
  <2> QED
    BY <1>1, <1>2, <1>5, <1>6, <2>1, GainsListed
<1>9. addCandidate(F, phi, value, path) = Relinked(F, Rewired(F.inst, phi, r), A.uses)
  <2>1. addCandidate(F, phi, value, path) = [A EXCEPT !.inst[phi].refs = @ \o s]
    BY <1>4 DEF addCandidate, s
  <2>2. A.inst = F.inst
    BY <1>5, RelinkedIs
  <2>3. [A EXCEPT !.inst[phi].refs = @ \o s] = [A EXCEPT !.inst[phi].refs = r]
    BY <2>2 DEF r, old
  <2>4. [A EXCEPT !.inst[phi].refs = r] = Relinked(F, [F.inst EXCEPT ![phi].refs = r], A.uses)
    BY <1>5 DEF Relinked
  <2> QED
    BY <2>1, <2>3, <2>4 DEF Rewired
<1> QED
  BY <1>6, <1>8, <1>9, Rephied DEF held, r, old, s

LEMMA CandidatesSet ==
  ASSUME NEW F, Good(F), NEW phi \in DOMAIN F.inst, F.inst[phi].kind = "phi",
         NEW r \in Seq(DOMAIN F.uses \cup {Nil})
  PROVE  RefsSet(F, setCandidates(F, phi, r), phi, r)
<1> DEFINE N == DOMAIN F.uses
           old == F.inst[phi].refs
           both == old \o r
           A == addUses(F, r, phi)
           G == removeUses(A, old, phi)
           held == Held(F, {})
           mid == With(held, phi, both)
<1>1. /\ Linked(F, {}) /\ Nil \notin N /\ DOMAIN F.inst \subseteq N /\ Formed(F) /\ Tagged(F.inst)
      /\ old \in Seq(N \cup {Nil}) /\ phi \in N /\ F.fault \in BOOLEAN
  BY GoodRefs DEF Good
<1>2. Used(F, N) /\ Listed(F.uses, N, held)
  BY <1>1 DEF Linked
<1>3. held[phi] = old /\ DOMAIN held = N
  BY <1>1 DEF Held
<1> HIDE DEF A, G, old, both, held, mid
<1>4. A = Relinked(F, F.inst, A.uses) /\ Gains(F.uses, A.uses, N, phi, r)
  BY <1>1, <1>2, AddedAll DEF A
<1>5. both \in Seq(N \cup {Nil}) /\ \A n \in N : Times(both, n) = Times(old, n) + Times(r, n)
  BY <1>1, TimesConcat DEF both
<1>6. Listed(A.uses, N, mid)
  <2>1. \A n \in N : Times(both, n) = Times(held[phi], n) + Times(r, n)
    BY <1>3, <1>5
  <2> QED
    BY <1>1, <1>2, <1>4, <1>5, <2>1, GainsListed DEF mid
<1>7. A.uses \in [N -> Seq(N)] /\ Used(A, N)
  BY <1>1, <1>2, <1>4, UsedOf DEF Gains
<1>8. \A n \in N : Times(old, n) \in Nat /\ Times(r, n) \in Nat
  BY <1>1, TimesCounted
<1>9. \A n \in N : Times(old, n) <= Times(A.uses[n], phi)
  <2> TAKE n \in N
  <2>1. Times(A.uses[n], phi) = Times(F.uses[n], phi) + Times(r, n)
    BY <1>1, <1>4 DEF Gains
  <2>2. Times(F.uses[n], phi) = Times(old, n)
    BY <1>1, <1>2, <1>3 DEF Listed
  <2> QED
    BY <1>8, <2>1, <2>2
<1>10. /\ G = Relinked(A, A.inst, G.uses) /\ G.uses \in [N -> Seq(N)]
       /\ Gains(G.uses, A.uses, N, phi, old)
  BY <1>1, <1>7, <1>9, RemovedAll DEF G
<1>11. mid[phi] = both /\ With(mid, phi, r) = With(held, phi, r)
  BY <1>1, <1>3 DEF mid, With
<1>12. Listed(G.uses, N, With(held, phi, r))
  <2>1. \A n \in N : Times(mid[phi], n) = Times(r, n) + Times(old, n)
    BY <1>5, <1>8, <1>11
  <2>2. \A n \in N : Times(old, n) \in Nat
    BY <1>8
  <2>3. Listed(G.uses, N, With(mid, phi, r))
    BY <1>1, <1>6, <1>10, <2>1, <2>2, LosesListed
  <2> QED
    BY <1>11, <2>3
<1>13. setCandidates(F, phi, r) = Relinked(F, Rewired(F.inst, phi, r), G.uses)
  <2>1. setCandidates(F, phi, r) = [G EXCEPT !.inst[phi].refs = r]
    BY DEF setCandidates, G, A, old
  <2>2. A.inst = F.inst /\ \A x, y : Relinked(A, x, y) = Relinked(F, x, y)
    BY <1>4, RelinkedIs
  <2>3. G = Relinked(F, F.inst, G.uses)
    BY <1>10, <2>2
  <2>4. [G EXCEPT !.inst[phi].refs = r] = Relinked(F, [F.inst EXCEPT ![phi].refs = r], G.uses)
    BY <2>3, SMTT(30) DEF Relinked
  <2> QED
    BY <2>1, <2>4 DEF Rewired
<1> QED
  BY <1>12, <1>13, Rephied DEF held

(* What is picked from a list, and the phis of a block.                    *)
At(s, P) == {s[k] : k \in P \cap DOMAIN s}

LEMMA PickedIn ==
  ASSUME NEW X, NEW s \in Seq(X), NEW P
  PROVE  Picked(s, P) \in Seq(At(s, P))
<1> DEFINE n == Len(s)
           W == At(s, P)
<1>1. n \in Nat /\ DOMAIN s = 1 .. n
  BY LenProperties
<1>2. PICK f : /\ f[0] = <<>> /\ Picked(s, P) = f[Len(s)]
               /\ \A j \in 1 .. Len(s) : f[j] = PicksStep(s, P, f[j - 1], j)
  BY <1>1, PicksUnfold
<1> DEFINE S == {j \in 0 .. n : f[j] \in Seq(W)}
<1>3. 0 \in S
  <2>1. <<>> \in Seq(W) /\ 0 \in 0 .. n
    BY <1>1
  <2> QED
    BY <1>2, <2>1
<1>4. ASSUME NEW j \in 0 .. n, j \in S, j < n  PROVE j + 1 \in S
  <2>1. j + 1 \in 1 .. n /\ j + 1 \in 0 .. n /\ (j + 1) - 1 = j
    BY <1>1, <1>4
  <2>2. f[j + 1] = IF j + 1 \in P THEN Append(f[j], s[j + 1]) ELSE f[j]
    BY <1>2, <2>1 DEF PicksStep
  <2>3. f[j] \in Seq(W)
    BY <1>4
  <2>4. j + 1 \in P => s[j + 1] \in W
    BY <1>1, <2>1 DEF At
  <2> HIDE DEF W
  <2>5. f[j + 1] \in Seq(W)
    BY <2>2, <2>3, <2>4
  <2> QED
    BY <2>1, <2>5
<1>5. \A j \in 0 .. n : j \in S
  <2>1. \A j \in 0 .. n : j \in S /\ j < n => j + 1 \in S
    BY <1>4
  <2> HIDE DEF S, n
  <2> QED
    BY <1>1, <1>3, <2>1, Climbs
<1>6. n \in S
  <2>1. n \in 0 .. n
    BY <1>1
  <2> QED
    BY <1>5, <2>1
<1> QED
  BY <1>2, <1>6

LEMMA PickedAll ==
  ASSUME NEW X, NEW s \in Seq(X), NEW P, DOMAIN s \subseteq P
  PROVE  Picked(s, P) = s
<1> DEFINE n == Len(s)
<1>1. n \in Nat /\ DOMAIN s = 1 .. n
  BY LenProperties
<1>2. PICK f : /\ f[0] = <<>> /\ Picked(s, P) = f[Len(s)]
               /\ \A j \in 1 .. Len(s) : f[j] = PicksStep(s, P, f[j - 1], j)
  BY <1>1, PicksUnfold
<1> DEFINE S == {j \in 0 .. n : /\ f[j] \in Seq(X) /\ Len(f[j]) = j
                                /\ \A k \in 1 .. j : f[j][k] = s[k]}
<1>3. 0 \in S
  <2>1. <<>> \in Seq(X) /\ Len(<<>>) = 0 /\ 0 \in 0 .. n /\ \A k \in 1 .. 0 : FALSE
    BY <1>1
  <2>2. f[0] \in Seq(X) /\ Len(f[0]) = 0
    BY <1>2, <2>1
  <2>3. \A k \in 1 .. 0 : f[0][k] = s[k]
    BY <2>1
  <2> QED
    BY <2>1, <2>2, <2>3
<1>4. ASSUME NEW j \in 0 .. n, j \in S, j < n  PROVE j + 1 \in S
  <2> DEFINE g == f[j]
             x == s[j + 1]
  <2>1. j + 1 \in 1 .. n /\ j + 1 \in 0 .. n /\ (j + 1) - 1 = j /\ j \in Nat
    BY <1>1, <1>4
  <2>2. f[j + 1] = Append(g, x)
    BY <1>1, <1>2, <2>1 DEF PicksStep
  <2>3. g \in Seq(X) /\ Len(g) = j /\ (\A k \in 1 .. j : g[k] = s[k]) /\ x \in X
    BY <1>1, <1>4, <2>1
  <2> HIDE DEF g, x
  <2>4. Append(g, x) \in Seq(X) /\ Len(Append(g, x)) = j + 1
        /\ \A k \in 1 .. j + 1 : Append(g, x)[k] = IF k <= j THEN g[k] ELSE x
    BY <2>1, <2>3
  <2>5. \A k \in 1 .. j + 1 : Append(g, x)[k] = s[k]
    <3> TAKE k \in 1 .. j + 1
    <3>1. CASE k <= j
      <4>1. k \in 1 .. j
        BY <2>1, <3>1
      <4> QED
        BY <2>3, <2>4, <3>1, <4>1
    <3>2. CASE ~(k <= j)
      <4>1. k = j + 1
        BY <2>1, <3>2
      <4> QED
        BY <2>4, <3>2, <4>1 DEF x
    <3> QED
      BY <3>1, <3>2
  <2> QED
    BY <2>1, <2>2, <2>4, <2>5
<1>5. \A j \in 0 .. n : j \in S
  <2>1. \A j \in 0 .. n : j \in S /\ j < n => j + 1 \in S
    BY <1>4
  <2> HIDE DEF S, n
  <2> QED
    BY <1>1, <1>3, <2>1, Climbs
<1>6. n \in S
  <2>1. n \in 0 .. n
    BY <1>1
  <2> QED
    BY <1>5, <2>1
<1> DEFINE g == f[n]
<1>7. g \in Seq(X) /\ Len(g) = n /\ \A k \in 1 .. n : g[k] = s[k]
  BY <1>6
<1> HIDE DEF g
<1>8. g = s
  BY <1>1, <1>7, SeqEqual
<1> QED
  BY <1>2, <1>8 DEF g

(* Phis at the end of a block that was empty.                              *)
Run(n, j) == [k \in 1 .. j |-> n + k - 1]

LEMMA RunIs ==
  ASSUME NEW n \in Nat, NEW j \in Nat
  PROVE  /\ Run(n, j) \in Seq(n .. n + j - 1) /\ Len(Run(n, j)) = j /\ DOMAIN Run(n, j) = 1 .. j
         /\ Append(Run(n, j), n + j) = Run(n, j + 1)
         /\ Run(n, 0) = <<>>
<1>1. /\ Len(Run(n, j)) = j /\ DOMAIN Run(n, j) = 1 .. j
      /\ Run(n, j) \in Seq(n .. n + j - 1)
  BY DEF Run
<1>2. Append(Run(n, j), n + j) = Run(n, j + 1)
  <2> DEFINE a == Append(Run(n, j), n + j)
             b == Run(n, j + 1)
  <2>1. a \in Seq(Nat) /\ Len(a) = j + 1 /\ \A k \in 1 .. j + 1 : a[k] = n + k - 1
    BY DEF Run
  <2>2. b \in Seq(Nat) /\ Len(b) = j + 1 /\ \A k \in 1 .. j + 1 : b[k] = n + k - 1
    BY DEF Run
  <2> HIDE DEF a, b
  <2>3. a = b
    BY <2>1, <2>2, SeqEqual
  <2> QED
    BY <2>3 DEF a, b
<1>3. Run(n, 0) = <<>>
  BY DEF Run
<1> QED
  BY <1>1, <1>2, <1>3

Fresh(F, j) == F.next .. F.next + j - 1
PhisBuilt(F, H, b, types, j) ==
  /\ Good(H) /\ H.fault = F.fault /\ H.order = F.order /\ H.next = F.next + j
  /\ DOMAIN H.uses = DOMAIN F.uses \cup Fresh(F, j)
  /\ DOMAIN H.inst = DOMAIN F.inst \cup Fresh(F, j)
  /\ \A u \in DOMAIN F.inst : H.inst[u] = F.inst[u]
  /\ \A k \in 1 .. j : H.inst[F.next + k - 1].kind = "phi" /\ H.inst[F.next + k - 1].type = types[k]
  /\ DOMAIN H.code = DOMAIN F.code
  /\ \A d \in DOMAIN F.code : H.code[d] = IF d = b THEN Run(F.next, j) ELSE F.code[d]

LEMMA PhiBuilt ==
  ASSUME NEW F, NEW b \in DOMAIN F.code, F.next \in Nat, DOMAIN F.inst \subseteq 1 .. (F.next - 1),
         NEW types, NEW j \in Nat,
         NEW G, PhisBuilt(F, G, b, types, j), NEW H, InstBuilt(G, H, b, Made("phi", types[j + 1], <<>>))
  PROVE  PhisBuilt(F, H, b, types, j + 1)
<1> DEFINE n == F.next
           p == Made("phi", types[j + 1], <<>>)
           D == DOMAIN F.inst
           E == DOMAIN F.code
           U == DOMAIN F.uses
<1>1. /\ G.fault = F.fault /\ G.order = F.order /\ G.next = n + j /\ DOMAIN G.uses = U \cup Fresh(F, j)
      /\ DOMAIN G.inst = D \cup Fresh(F, j) /\ (\A u \in D : G.inst[u] = F.inst[u])
      /\ (\A k \in 1 .. j : G.inst[n + k - 1].kind = "phi" /\ G.inst[n + k - 1].type = types[k])
      /\ DOMAIN G.code = E
      /\ (\A d \in E : G.code[d] = IF d = b THEN Run(n, j) ELSE F.code[d])
  BY DEF PhisBuilt
<1>2. /\ Good(H) /\ H.fault = G.fault /\ H.order = G.order /\ H.next = (n + j) + 1
      /\ DOMAIN H.uses = DOMAIN G.uses \cup {n + j}
      /\ H.inst = Entered(G.inst, n + j, p)
      /\ H.code = [G.code EXCEPT ![b] = Append(@, n + j)]
  BY <1>1 DEF InstBuilt
<1> HIDE DEF p
<1>3. n \in Nat /\ b \in E
  OBVIOUS
<1>4. Fresh(F, j) \cup {n + j} = Fresh(F, j + 1) /\ n + j \notin D
  BY <1>3 DEF Fresh
<1> HIDE DEF n, D, E, U
<1>5. /\ DOMAIN H.inst = DOMAIN G.inst \cup {n + j}
      /\ \A u \in DOMAIN G.inst \cup {n + j} : H.inst[u] = IF u = n + j THEN p ELSE G.inst[u]
  BY <1>2 DEF Entered
<1>6. DOMAIN H.uses = U \cup Fresh(F, j + 1) /\ DOMAIN H.inst = D \cup Fresh(F, j + 1)
  BY <1>1, <1>2, <1>4, <1>5
<1>7. \A u \in D : H.inst[u] = F.inst[u]
  BY <1>1, <1>4, <1>5
<1>8. ASSUME NEW k \in 1 .. j + 1
      PROVE  H.inst[n + k - 1].kind = "phi" /\ H.inst[n + k - 1].type = types[k]
  <2>1. CASE k = j + 1
    <3>1. n + k - 1 = n + j
      BY <1>3, <2>1
    <3> QED
      BY <1>5, <2>1, <3>1 DEF p, Made
  <2>2. CASE k # j + 1
    <3>1. k \in 1 .. j /\ n + k - 1 # n + j /\ n + k - 1 \in Fresh(F, j)
      BY <1>3, <2>2 DEF Fresh, n
    <3> QED
      BY <1>1, <1>5, <3>1
  <2> QED
    BY <2>1, <2>2
<1>9. Append(Run(n, j), n + j) = Run(n, j + 1)
  BY <1>3, RunIs
<1>10. /\ DOMAIN H.code = E
       /\ \A d \in E : H.code[d] = IF d = b THEN Run(n, j + 1) ELSE F.code[d]
  BY <1>1, <1>2, <1>3, <1>9
<1>11. H.next = n + (j + 1)
  BY <1>2, <1>3
<1> QED
  BY <1>1, <1>2, <1>6, <1>7, <1>8, <1>10, <1>11 DEF PhisBuilt, n, D, E, U

LEMMA BuiltPhis ==
  ASSUME NEW F, Good(F), NEW b \in DOMAIN F.code, F.code[b] = <<>>, NEW types, Len(types) \in Nat
  PROVE  PhisBuilt(F, BuildPhis(F, b, types), b, types, Len(types))
<1> DEFINE n == Len(types)
<1>1. PICK f : /\ f[0] = F /\ BuildPhis(F, b, types) = f[Len(types)]
               /\ \A j \in 1 .. Len(types) : f[j] = LaysStep(F, b, types, f[j - 1], j)
  BY LaysUnfold
<1>2. F.next \in Nat /\ DOMAIN F.inst \subseteq 1 .. (F.next - 1)
  <2>1. DOMAIN F.inst \subseteq DOMAIN F.uses
    BY GoodRefs
  <2> QED
    BY <2>1 DEF Good
<1> DEFINE S == {j \in 0 .. n : PhisBuilt(F, f[j], b, types, j)}
<1>3. 0 \in S
  <2>1. Fresh(F, 0) = {} /\ 1 .. 0 = {} /\ F.next + 0 = F.next /\ 0 \in 0 .. n
    BY <1>2 DEF Fresh
  <2>2. Run(F.next, 0) = <<>>
    BY <1>2, RunIs
  <2>3. PhisBuilt(F, F, b, types, 0)
    BY <2>1, <2>2 DEF PhisBuilt
  <2> QED
    BY <1>1, <2>1, <2>3
<1>4. ASSUME NEW j \in 0 .. n, j \in S, j < n  PROVE j + 1 \in S
  <2> DEFINE G == f[j]
             p == Made("phi", types[j + 1], <<>>)
  <2>1. j + 1 \in 1 .. n /\ j + 1 \in 0 .. n /\ (j + 1) - 1 = j /\ j \in Nat
    BY <1>4
  <2>2. f[j + 1] = BuildInst(G, b, "phi", types[j + 1], <<>>)
    BY <1>1, <2>1 DEF LaysStep
  <2>3. PhisBuilt(F, G, b, types, j)
    BY <1>4
  <2> HIDE DEF G
  <2>4. Good(G) /\ b \in DOMAIN G.code
    BY <2>3 DEF PhisBuilt
  <2>5. Buildable(G, b, p)
    <3>1. p.refs \in Seq(DOMAIN G.uses \cup {Nil}) /\ p.kind = "phi"
      BY DEF Made
    <3> QED
      BY <2>4, <3>1 DEF Buildable, Aims, Branches
  <2>6. InstBuilt(G, BuildInst(G, b, "phi", types[j + 1], <<>>), b, p)
    BY <2>4, <2>5, BuiltInst
  <2>7. PhisBuilt(F, f[j + 1], b, types, j + 1)
    BY <1>2, <2>1, <2>2, <2>3, <2>6, PhiBuilt
  <2> QED
    BY <2>1, <2>7
<1>5. \A j \in 0 .. n : j \in S
  <2>1. \A j \in 0 .. n : j \in S /\ j < n => j + 1 \in S
    BY <1>4
  <2> HIDE DEF S, n
  <2>2. n \in Nat
    BY DEF n
  <2> QED
    BY <1>3, <2>1, <2>2, Climbs
<1>6. n \in S
  <2>1. n \in 0 .. n
    OBVIOUS
  <2> QED
    BY <1>5, <2>1
<1> QED
  BY <1>1, <1>6

(* The phis of a block of phis are all it has.                             *)
LEMMA AllPhis ==
  ASSUME NEW F, NEW b, NEW X, F.code[b] \in Seq(X),
         \A k \in DOMAIN F.code[b] : F.inst[F.code[b][k]].kind = "phi"
  PROVE  Phis(F, b) = F.code[b]
<1> DEFINE s == F.code[b]
           P == {k \in DOMAIN s : F.inst[s[k]].kind = "phi"}
<1>1. s \in Seq(X) /\ DOMAIN s \subseteq P
  OBVIOUS
<1>2. Phis(F, b) = Picked(s, P)
  BY DEF Phis
<1> HIDE DEF s, P
<1>3. Picked(s, P) = s
  BY <1>1, PickedAll
<1> QED
  BY <1>2, <1>3 DEF s

(* A block that is closed ends in its only terminator; one that is open    *)
(* has none.                                                               *)
Closed(inst, s) ==
  /\ Len(s) # 0
  /\ \A k \in 1 .. Len(s) : (inst[s[k]].kind \in Terminators) <=> (k = Len(s))
Unclosed(inst, s) == \A k \in 1 .. Len(s) : inst[s[k]].kind \notin Terminators
Sealed(F, open) ==
  \A b \in DOMAIN F.code :
    IF b \in open THEN Unclosed(F.inst, F.code[b]) ELSE Closed(F.inst, F.code[b])

SameKinds(a, b, D) == \A u \in D : b[u].kind = a[u].kind

LEMMA ClosedSame ==
  ASSUME NEW X, NEW s \in Seq(X), NEW a, NEW b, SameKinds(a, b, X)
  PROVE  /\ Closed(a, s) => Closed(b, s)
         /\ Unclosed(a, s) => Unclosed(b, s)
<1>1. \A k \in 1 .. Len(s) : b[s[k]].kind = a[s[k]].kind
  BY ElementOfSeq DEF SameKinds
<1> QED
  BY <1>1 DEF Closed, Unclosed

LEMMA SealedSame ==
  ASSUME NEW F, NEW H, NEW open, Sealed(F, open), H.code = F.code,
         NEW I, F.code \in [DOMAIN F.code -> Seq(I)], SameKinds(F.inst, H.inst, I)
  PROVE  Sealed(H, open)
<1> SUFFICES ASSUME NEW b \in DOMAIN F.code
             PROVE  IF b \in open THEN Unclosed(H.inst, F.code[b]) ELSE Closed(H.inst, F.code[b])
  BY DEF Sealed
<1>1. F.code[b] \in Seq(I)
  OBVIOUS
<1>2. IF b \in open THEN Unclosed(F.inst, F.code[b]) ELSE Closed(F.inst, F.code[b])
  BY DEF Sealed
<1>3. (Closed(F.inst, F.code[b]) => Closed(H.inst, F.code[b]))
      /\ (Unclosed(F.inst, F.code[b]) => Unclosed(H.inst, F.code[b]))
  BY <1>1, ClosedSame
<1> QED
  BY <1>2, <1>3

LEMMA ClosedWithout ==
  ASSUME NEW X, NEW s \in Seq(X), NEW t \in Seq(X), NEW p, Drops(s, t, p), NEW a,
         a[s[p]].kind \notin Terminators, Closed(a, s)
  PROVE  Closed(a, t)
<1>1. /\ Len(s) \in Nat /\ Len(t) \in Nat /\ p \in 1 .. Len(s) /\ Len(t) = Len(s) - 1
      /\ \A k \in 1 .. Len(t) : t[k] = IF k < p THEN s[k] ELSE s[k + 1]
  BY LenProperties DEF Drops
<1>2. \A k \in 1 .. Len(s) : (a[s[k]].kind \in Terminators) <=> (k = Len(s))
  BY DEF Closed
<1>3. p # Len(s)
  BY <1>1, <1>2
<1>4. Len(t) # 0
  BY <1>1, <1>3
<1>5. ASSUME NEW k \in 1 .. Len(t)  PROVE (a[t[k]].kind \in Terminators) <=> (k = Len(t))
  <2>1. CASE k < p
    <3>1. k \in 1 .. Len(s) /\ k # Len(s) /\ k # Len(t)
      BY <1>1, <1>3, <2>1
    <3> QED
      BY <1>1, <1>2, <2>1, <3>1
  <2>2. CASE ~(k < p)
    <3>1. k + 1 \in 1 .. Len(s) /\ (k + 1 = Len(s) <=> k = Len(t))
      BY <1>1
    <3>2. t[k] = s[k + 1]
      BY <1>1, <2>2
    <3> QED
      BY <1>2, <3>1, <3>2
  <2> QED
    BY <2>1, <2>2
<1> QED
  BY <1>4, <1>5 DEF Closed

LEMMA ClosedWithoutLast ==
  ASSUME NEW X, NEW s \in Seq(X), NEW t \in Seq(X), NEW p, Drops(s, t, p), NEW a,
         a[s[p]].kind \in Terminators, Closed(a, s)
  PROVE  Unclosed(a, t)
<1>1. /\ Len(s) \in Nat /\ Len(t) \in Nat /\ p \in 1 .. Len(s) /\ Len(t) = Len(s) - 1
      /\ \A k \in 1 .. Len(t) : t[k] = IF k < p THEN s[k] ELSE s[k + 1]
  BY LenProperties DEF Drops
<1>2. \A k \in 1 .. Len(s) : (a[s[k]].kind \in Terminators) <=> (k = Len(s))
  BY DEF Closed
<1>3. p = Len(s)
  BY <1>1, <1>2
<1>4. ASSUME NEW k \in 1 .. Len(t)  PROVE a[t[k]].kind \notin Terminators
  <2>1. k \in 1 .. Len(s) /\ k # Len(s) /\ k < p
    BY <1>1, <1>3
  <2> QED
    BY <1>1, <1>2, <2>1
<1> QED
  BY <1>4 DEF Unclosed

(* Erasing an instruction that is no terminator keeps the blocks closed.   *)
LEMMA ErasedAt ==
  ASSUME NEW F, Good(F), NEW H, NEW i \in DOMAIN F.inst, Erasing(F, H, i)
  PROVE  /\ DOMAIN H.code = DOMAIN F.code /\ DOMAIN H.inst = DOMAIN F.inst \ {i}
         /\ SameKinds(F.inst, H.inst, DOMAIN H.inst)
         /\ \A d \in DOMAIN F.code : /\ F.code[d] \in Seq(DOMAIN F.inst)
                                     /\ H.code[d] \in Seq(DOMAIN H.inst) /\ H.code[d] \in Seq(DOMAIN F.inst)
                                     /\ d # Parent(F, i) => H.code[d] = F.code[d]
         /\ \E p : F.code[Parent(F, i)][p] = i /\ Drops(F.code[Parent(F, i)], H.code[Parent(F, i)], p)
<1> DEFINE b == Parent(F, i)
           I == DOMAIN F.inst
<1>1. Housed(F.code, I)
  BY DEF Good
<1>2. b \in DOMAIN F.code /\ Contains(F.code[b], i)
  BY <1>1, ParentIs
<1> HIDE DEF b
<1>3. \A d \in DOMAIN F.code : F.code[d] \in Seq(I)
  BY <1>1 DEF Housed
<1>4. F.code = [d \in DOMAIN F.code |-> F.code[d]]
  BY <1>1 DEF Housed
<1>5. H.code = [F.code EXCEPT ![b] = RemoveFirst(@, i)]
  BY DEF Erasing, b
<1>6. DOMAIN H.code = DOMAIN F.code /\ H.code[b] = RemoveFirst(F.code[b], i)
      /\ \A d \in DOMAIN F.code : d # b => H.code[d] = F.code[d]
  BY <1>2, <1>4, <1>5
<1>7. DOMAIN H.inst = I \ {i} /\ SameKinds(F.inst, H.inst, DOMAIN H.inst)
  BY DEF Erasing, Swaps, SameKinds
<1>8. \A d \in DOMAIN F.code : H.code[d] \in Seq(DOMAIN H.inst)
  BY <1>6 DEF Erasing, Good, Housed
<1>9. \A d \in DOMAIN F.code : H.code[d] \in Seq(I)
  <2> TAKE d \in DOMAIN F.code
  <2>1. DOMAIN H.inst \subseteq I /\ H.code[d] \in Seq(DOMAIN H.inst)
    BY <1>7, <1>8
  <2> QED
    BY <2>1, SeqMonotonic
<1>10. \E p : F.code[b][p] = i /\ Drops(F.code[b], H.code[b], p)
  BY <1>2, <1>3, <1>6, RemovedAt
<1> QED
  BY <1>3, <1>6, <1>7, <1>8, <1>9, <1>10 DEF b

LEMMA ErasedSealed ==
  ASSUME NEW F, Good(F), Sealed(F, {}), NEW H, NEW i \in DOMAIN F.inst, Erasing(F, H, i),
         F.inst[i].kind \notin Terminators
  PROVE  Sealed(H, {})
<1> DEFINE b == Parent(F, i)
           I == DOMAIN F.inst
<1>1. /\ DOMAIN H.code = DOMAIN F.code /\ SameKinds(F.inst, H.inst, DOMAIN H.inst)
      /\ \A d \in DOMAIN F.code : /\ F.code[d] \in Seq(I)
                                  /\ H.code[d] \in Seq(DOMAIN H.inst) /\ H.code[d] \in Seq(I)
                                  /\ d # b => H.code[d] = F.code[d]
      /\ \E p : F.code[b][p] = i /\ Drops(F.code[b], H.code[b], p)
  BY ErasedAt
<1> HIDE DEF b
<1> SUFFICES ASSUME NEW d \in DOMAIN F.code  PROVE Closed(H.inst, H.code[d])
  BY <1>1 DEF Sealed
<1>2. Closed(F.inst, F.code[d])
  BY DEF Sealed
<1>3. Closed(F.inst, H.code[d])
  <2>1. CASE d = b
    <3>1. PICK p : F.code[d][p] = i /\ Drops(F.code[d], H.code[d], p)
      BY <1>1, <2>1
    <3>2. F.code[d] \in Seq(I) /\ H.code[d] \in Seq(I)
      BY <1>1
    <3>3. F.inst[F.code[d][p]].kind \notin Terminators
      BY <3>1
    <3> QED
      BY <1>2, <3>1, <3>2, <3>3, ClosedWithout
  <2>2. CASE d # b
    BY <1>1, <1>2, <2>2
  <2> QED
    BY <2>1, <2>2
<1>4. H.code[d] \in Seq(DOMAIN H.inst)
  BY <1>1
<1> QED
  BY <1>1, <1>3, <1>4, ClosedSame

(* Replacing in a good function.                                           *)
Replacing(F, H, old, new) ==
  /\ Good(H) /\ H.fault = FALSE /\ H.order = F.order /\ H.code = F.code /\ H.next = F.next
  /\ DOMAIN H.uses = DOMAIN F.uses
  /\ Swaps(F.inst, H.inst, DOMAIN F.inst, old, new)
NoFalse(F, old) == \A u \in DOMAIN F.inst : ~FalseTo(F.inst, u, old)

LEMMA ReplacedGood ==
  ASSUME NEW F, Good(F), F.fault = FALSE, NEW old \in DOMAIN F.uses, NEW new \in DOMAIN F.uses \cup {Nil},
         Carried(DOMAIN F.code, DOMAIN F.code, old, new), NoFalse(F, old)
  PROVE  Replacing(F, replaceAllUseWith(F, old, new), old, new)
<1> DEFINE H == replaceAllUseWith(F, old, new)
           I == DOMAIN F.inst
           N == DOMAIN F.uses
           B == DOMAIN F.code
<1>1. /\ Linked(F, {}) /\ Sided(F.inst) /\ Aimed(F.inst, B) /\ Housed(F.code, I) /\ Rowed(F.order, B)
      /\ B \subseteq N \ I /\ F.next \in Nat \ {0} /\ N \subseteq 1 .. (F.next - 1)
  BY DEF Good
<1>2. Asking(F, H, {}, I \ {}, old, new)
  BY <1>1, ReplacedAll
<1> HIDE DEF H
<1>3. /\ Linked(H, {}) /\ DOMAIN H.uses = N /\ DOMAIN H.inst = I
      /\ H.order = F.order /\ H.code = F.code /\ H.next = F.next
      /\ (~H.fault => H.inst = Redirected(F.inst, I \ {}, old, new))
      /\ (H.fault <=> \E u \in I \ {} : FalseTo(F.inst, u, old))
  BY <1>2 DEF Asking
<1>4. H.fault = FALSE
  <2>1. H.fault \in BOOLEAN
    BY <1>3 DEF Linked, Used
  <2>2. ~H.fault
    BY <1>3 DEF NoFalse
  <2> QED
    BY <2>1, <2>2
<1>5. Swaps(F.inst, H.inst, I, old, new)
  <2>1. H.inst = Redirected(F.inst, I, old, new)
    BY <1>3, <1>4
  <2>2. Tagged(F.inst)
    BY <1>1 DEF Linked
  <2> QED
    BY <2>1, <2>2, RedirectedIs DEF Swaps
<1>6. Aimed(H.inst, B) /\ Sided(H.inst)
  <2>1. Reaching(F.inst, N \cup {Nil})
    BY GoodRefs DEF Reaching
  <2> QED
    BY <1>1, <1>5, <2>1, SwappedShape
<1>7. Good(H)
  BY <1>1, <1>3, <1>6 DEF Good
<1> QED
  BY <1>3, <1>4, <1>5, <1>7 DEF Replacing, H

(* What one run of the pass may do.                                        *)
Steady(F) == Good(F) /\ F.fault = FALSE /\ Sealed(F, {})
Shrunk(F, H) ==
  /\ Steady(H) /\ DOMAIN H.code \subseteq DOMAIN F.code /\ DOMAIN H.inst \subseteq DOMAIN F.inst
  /\ \/ \E i \in DOMAIN F.inst : i \notin DOMAIN H.inst
     \/ \E b \in DOMAIN F.code : b \notin DOMAIN H.code

LEMMA ErasedShrinks ==
  ASSUME NEW F, Steady(F), NEW i \in DOMAIN F.inst, F.inst[i].kind \notin Terminators
  PROVE  Shrunk(F, eraseInst(F, i))
<1> DEFINE H == eraseInst(F, i)
<1>1. Good(F) /\ F.fault = FALSE /\ Sealed(F, {})
  BY DEF Steady
<1>2. Erasing(F, H, i)
  BY <1>1, ErasedInst
<1> HIDE DEF H
<1>3. Sealed(H, {})
  BY <1>1, <1>2, ErasedSealed
<1>4. DOMAIN H.code = DOMAIN F.code /\ DOMAIN H.inst = DOMAIN F.inst \ {i}
  BY <1>1, <1>2, ErasedAt
<1>5. Good(H) /\ H.fault = FALSE
  BY <1>2 DEF Erasing
<1> QED
  BY <1>3, <1>4, <1>5 DEF Shrunk, Steady, H

LEMMA HeadPicked ==
  ASSUME NEW X, NEW s \in Seq(X), NEW P, Picked(s, P) # <<>>
  PROVE  \E k \in 1 .. Len(s) : k \in P /\ Head(Picked(s, P)) = s[k]
<1> DEFINE g == Picked(s, P)
           W == At(s, P)
<1>1. g \in Seq(W) /\ DOMAIN s = 1 .. Len(s)
  BY PickedIn
<1>2. g # <<>>
  OBVIOUS
<1> HIDE DEF g, W
<1>3. Head(g) \in W
  BY <1>1, <1>2
<1> QED
  BY <1>1, <1>3 DEF g, W, At

(* deadInstructionElem.                                                    *)
LEMMA DeadInstructionIs ==
  ASSUME NEW F, Steady(F), NEW b \in DOMAIN F.code, HasDeadInstruction(F, b)
  PROVE  LET i == Head(DeadInstructions(F, b)) IN
         i \in DOMAIN F.inst /\ F.inst[i].kind \notin Terminators /\ F.uses[i] = <<>>
<1> DEFINE code == F.code[b]
           P == {k \in DOMAIN code : F.uses[code[k]] = <<>> /\ F.inst[code[k]].kind \in Droppable}
           i == Head(DeadInstructions(F, b))
<1>1. code \in Seq(DOMAIN F.inst)
  BY DEF Steady, Good, Housed
<1>2. DeadInstructions(F, b) = Picked(code, P) /\ Picked(code, P) # <<>>
  BY DEF DeadInstructions, HasDeadInstruction
<1> HIDE DEF code
<1>3. PICK k \in 1 .. Len(code) : k \in P /\ Head(Picked(code, P)) = code[k]
  BY <1>1, <1>2, HeadPicked
<1>4. i = code[k] /\ F.inst[i].kind \in Droppable /\ F.uses[i] = <<>>
  BY <1>2, <1>3
<1>5. i \in DOMAIN F.inst
  BY <1>1, <1>3, <1>4, ElementOfSeq
<1>6. F.inst[i].kind \notin Terminators
  BY <1>4 DEF Droppable, Terminators, Branches
<1> QED
  BY <1>4, <1>5, <1>6

LEMMA DeadInstructionErased ==
  ASSUME NEW F, Steady(F), NEW b \in DOMAIN F.code, HasDeadInstruction(F, b)
  PROVE  Shrunk(F, deadInstructionElem(F, b))
BY DeadInstructionIs, ErasedShrinks DEF deadInstructionElem

(* simplifyTrivialPhi: the phi, and its users once they have the value.    *)
TrivialPhi(F, phi) ==
  /\ phi \in DOMAIN F.inst /\ F.inst[phi].kind = "phi" /\ Len(F.inst[phi].refs) = 2
  /\ Replacing(F, replaceAllUseWith(F, phi, F.inst[phi].refs[1]), phi, F.inst[phi].refs[1])

LEMMA TrivialPhiIs ==
  ASSUME NEW F, Steady(F), NEW b \in DOMAIN F.code, HasTrivialPhi(F, b)
  PROVE  TrivialPhi(F, Head(TrivialPhis(F, b)))
<1> DEFINE code == F.code[b]
           I == DOMAIN F.inst
           B == DOMAIN F.code
           N == DOMAIN F.uses
           phis == Phis(F, b)
           P == {k \in DOMAIN code : F.inst[code[k]].kind = "phi"}
           Q == {k \in DOMAIN phis : Len(F.inst[phis[k]].refs) = 2}
           phi == Head(TrivialPhis(F, b))
           v == F.inst[phi].refs[1]
           R == replaceAllUseWith(F, phi, v)
<1>1. /\ Good(F) /\ F.fault = FALSE /\ Sealed(F, {}) /\ code \in Seq(I)
      /\ F.code \in [B -> Seq(I)] /\ B \subseteq N \ I /\ I \subseteq N /\ Nil \notin N /\ Sided(F.inst)
      /\ Aimed(F.inst, B)
  BY GoodRefs DEF Steady, Good, Housed
<1>2. phi \in I /\ F.inst[phi].kind = "phi" /\ Len(F.inst[phi].refs) = 2
  <2>1. phis = Picked(code, P) /\ TrivialPhis(F, b) = Picked(phis, Q) /\ Picked(phis, Q) # <<>>
    BY DEF Phis, TrivialPhis, HasTrivialPhi
  <2>2. phis \in Seq(At(code, P))
    <3> HIDE DEF P, code
    <3> QED
      BY <1>1, <2>1, PickedIn
  <2>3. \E k \in 1 .. Len(phis) : k \in Q /\ Head(Picked(phis, Q)) = phis[k]
    <3> HIDE DEF P, Q, code, phis
    <3> QED
      BY <2>1, <2>2, HeadPicked
  <2>4. PICK k \in 1 .. Len(phis) : k \in Q /\ phi = phis[k]
    BY <2>1, <2>3
  <2>5. phi \in At(code, P) /\ Len(F.inst[phi].refs) = 2
    BY <2>2, <2>4, ElementOfSeq
  <2> HIDE DEF phi
  <2>6. PICK m \in P : phi = code[m]
    BY <2>5 DEF At
  <2>7. m \in 1 .. Len(code)
    BY <1>1
  <2>8. code[m] \in I
    BY <1>1, <2>7, ElementOfSeq
  <2> QED
    BY <2>5, <2>6, <2>8
<1> HIDE DEF code, phis, P, Q, phi, R
<1>3. v \in N \cup {Nil} /\ phi \in N /\ phi \notin B \cup {Nil}
  <2>1. F.inst[phi].refs \in Seq(N \cup {Nil})
    BY <1>1, <1>2, GoodRefs
  <2>2. 1 \in 1 .. Len(F.inst[phi].refs)
    BY <1>2
  <2> QED
    BY <1>1, <1>2, <2>1, <2>2, ElementOfSeq
<1> HIDE DEF v
<1>4. NoFalse(F, phi)
  <2> SUFFICES ASSUME NEW u \in I, F.inst[u].kind = "cond", F.inst[u].refs[FalseSlot] = phi
               PROVE  FALSE
    BY DEF NoFalse, FalseTo
  <2>1. F.inst[u].refs \in Seq(N \cup {Nil}) /\ Len(F.inst[u].refs) = 3
    BY <1>1, GoodRefs DEF Sided
  <2>2. 3 \in DOMAIN F.inst[u].refs \ Values(F.inst[u])
    BY <2>1 DEF Values
  <2>3. F.inst[u].kind \in Branches
    BY DEF Branches
  <2>4. F.inst[u].refs[3] \in B \cup {Nil}
    BY <1>1, <2>2, <2>3 DEF Aimed
  <2> QED
    BY <1>3, <2>4 DEF FalseSlot
<1>5. Carried(B, B, phi, v)
  BY <1>3 DEF Carried
<1>6. Replacing(F, R, phi, v)
  BY <1>1, <1>3, <1>4, <1>5, ReplacedGood DEF R
<1> QED
  BY <1>2, <1>6 DEF TrivialPhi, R, v, phi

LEMMA TrivialPhiSimplified ==
  ASSUME NEW F, Steady(F), NEW b \in DOMAIN F.code, HasTrivialPhi(F, b)
  PROVE  Shrunk(F, simplifyTrivialPhi(F, b))
<1> DEFINE I == DOMAIN F.inst
           phi == Head(TrivialPhis(F, b))
           v == F.inst[phi].refs[1]
           R == replaceAllUseWith(F, phi, v)
<1>1. TrivialPhi(F, phi)
  BY TrivialPhiIs
<1> HIDE DEF phi
<1>2. phi \in I /\ F.inst[phi].kind = "phi" /\ Replacing(F, R, phi, v)
  BY <1>1 DEF TrivialPhi
<1> HIDE DEF v, R
<1>7. Good(R) /\ R.fault = FALSE /\ R.code = F.code /\ Swaps(F.inst, R.inst, I, phi, v)
  BY <1>2 DEF Replacing
<1>8. DOMAIN R.inst = I /\ SameKinds(F.inst, R.inst, I)
  BY <1>7 DEF Swaps, SameKinds
<1>9. Sealed(R, {})
  <2>1. F.code \in [DOMAIN F.code -> Seq(I)] /\ Sealed(F, {})
    BY DEF Steady, Good, Housed
  <2> QED
    BY <1>7, <1>8, <2>1, SealedSame
<1>10. Steady(R) /\ R.inst[phi].kind \notin Terminators /\ phi \in DOMAIN R.inst
  <2>1. R.inst[phi].kind = "phi"
    BY <1>2, <1>8 DEF SameKinds
  <2> QED
    BY <1>2, <1>7, <1>8, <1>9, <2>1 DEF Steady, Terminators, Branches
<1>11. Shrunk(R, eraseInst(R, phi))
  BY <1>10, ErasedShrinks
<1>12. Shrunk(F, eraseInst(R, phi))
  BY <1>7, <1>8, <1>11 DEF Shrunk
<1> QED
  BY <1>12 DEF simplifyTrivialPhi, R, v, phi

(* G is F with other references in its phis.                               *)
Retuned(F, G) ==
  /\ Good(G) /\ G.order = F.order /\ G.code = F.code /\ G.next = F.next
  /\ DOMAIN G.uses = DOMAIN F.uses /\ DOMAIN G.inst = DOMAIN F.inst
  /\ \A u \in DOMAIN F.inst : /\ G.inst[u].kind = F.inst[u].kind /\ G.inst[u].type = F.inst[u].type
                              /\ F.inst[u].kind # "phi" => G.inst[u].refs = F.inst[u].refs
Tuned(F, G) == Retuned(F, G) /\ G.fault = F.fault

LEMMA TunedMore ==
  ASSUME NEW F, NEW G, Tuned(F, G), NEW phi \in DOMAIN F.inst, F.inst[phi].kind = "phi",
         NEW H, NEW r, RefsSet(G, H, phi, r)
  PROVE  Tuned(F, H)
<1>1. /\ Good(H) /\ H.fault = G.fault /\ H.order = G.order /\ H.next = G.next /\ H.code = G.code
      /\ DOMAIN H.uses = DOMAIN G.uses /\ H.inst = Rewired(G.inst, phi, r)
  BY DEF RefsSet
<1>2. Tagged(G.inst) /\ phi \in DOMAIN G.inst /\ DOMAIN G.inst = DOMAIN F.inst
  BY GoodRefs DEF Tuned, Retuned
<1>3. /\ DOMAIN H.inst = DOMAIN G.inst
      /\ \A u \in DOMAIN G.inst : /\ H.inst[u].kind = G.inst[u].kind /\ H.inst[u].type = G.inst[u].type
                                  /\ H.inst[u].refs = IF u = phi THEN r ELSE G.inst[u].refs
  BY <1>1, <1>2, RewiredIs
<1> QED
  BY <1>1, <1>2, <1>3 DEF Tuned, Retuned

(* The phis that leavePhis asks are phis of the function.                  *)
PhisOf(F) == {i \in DOMAIN F.inst : F.inst[i].kind = "phi"}

LEMMA PhisAre ==
  ASSUME NEW F, Good(F), NEW b \in DOMAIN F.code
  PROVE  ToSet(Phis(F, b)) \subseteq PhisOf(F)
<1> DEFINE code == F.code[b]
           P == {k \in DOMAIN code : F.inst[code[k]].kind = "phi"}
<1>1. code \in Seq(DOMAIN F.inst) /\ Phis(F, b) = Picked(code, P)
  BY DEF Good, Housed, Phis
<1>2. At(code, P) \subseteq PhisOf(F)
  <2> SUFFICES ASSUME NEW k \in P  PROVE code[k] \in PhisOf(F)
    BY DEF At
  <2>1. k \in 1 .. Len(code)
    BY <1>1
  <2>2. code[k] \in DOMAIN F.inst
    BY <1>1, <2>1, ElementOfSeq
  <2> QED
    BY <2>2 DEF PhisOf
<1> HIDE DEF code, P
<1>3. Phis(F, b) \in Seq(At(code, P))
  BY <1>1, PickedIn
<1>4. ToSet(Phis(F, b)) \subseteq At(code, P)
  <2> DEFINE s == Phis(F, b)
             W == At(code, P)
  <2>1. s \in Seq(W)
    BY <1>3
  <2> HIDE DEF s, W
  <2>2. ToSet(s) \subseteq W
    BY <2>1 DEF ToSet
  <2> QED
    BY <2>2 DEF s, W
<1> QED
  BY <1>2, <1>4

LEMMA LastOf ==
  ASSUME NEW F, Steady(F), NEW b \in DOMAIN F.code
  PROVE  /\ Last(F.code[b]) \in DOMAIN F.inst /\ F.inst[Last(F.code[b])].kind \in Terminators
         /\ Len(F.code[b]) \in 1 .. Len(F.code[b]) /\ F.code[b] \in Seq(DOMAIN F.inst)
         /\ Parent(F, Last(F.code[b])) = b
<1> DEFINE s == F.code[b]
<1>1. s \in Seq(DOMAIN F.inst) /\ Closed(F.inst, s)
  BY DEF Steady, Good, Housed, Sealed
<1> HIDE DEF s
<1>2. Len(s) \in Nat /\ Len(s) # 0
  BY <1>1, LenProperties DEF Closed
<1>3. Len(s) \in 1 .. Len(s)
  BY <1>2
<1>4. s[Len(s)] \in DOMAIN F.inst /\ F.inst[s[Len(s)]].kind \in Terminators
  BY <1>1, <1>3, ElementOfSeq DEF Closed
<1>5. Contains(s, s[Len(s)])
  BY <1>3 DEF Contains
<1>6. Housed(F.code, DOMAIN F.inst)
  BY DEF Steady, Good
<1>7. Parent(F, s[Len(s)]) = b
  BY <1>4, <1>5, <1>6, ParentIs DEF s
<1> QED
  BY <1>1, <1>3, <1>4, <1>7 DEF Last, s

LEMMA PhisAfterAre ==
  ASSUME NEW F, Steady(F), NEW b \in DOMAIN F.code
  PROVE  /\ PhisAfter(F, b) \subseteq PhisOf(F)
         /\ SetToSeq(PhisAfter(F, b)) \in Seq(PhisOf(F))
<1> DEFINE i == Last(F.code[b])
           S == PhisAfter(F, b)
<1>1. i \in DOMAIN F.inst
  BY LastOf
<1>2. Good(F)
  BY DEF Steady
<1>3. getOutwardFlow(F, b) = Targets(F.inst[i])
  BY DEF getOutwardFlow
<1> HIDE DEF i
<1>4. Targets(F.inst[i]) \subseteq DOMAIN F.code
  <2>1. CASE F.inst[i].kind \in Branches
    <3>1. \A k \in DOMAIN F.inst[i].refs \ Values(F.inst[i]) : F.inst[i].refs[k] \in DOMAIN F.code \cup {Nil}
      BY <1>1, <1>2, <2>1 DEF Good, Aimed
    <3> QED
      BY <3>1 DEF Targets
  <2>2. CASE F.inst[i].kind \notin Branches
    BY <2>2 DEF Targets
  <2> QED
    BY <2>1, <2>2
<1>5. S \subseteq PhisOf(F)
  <2> SUFFICES ASSUME NEW s \in getOutwardFlow(F, b)  PROVE ToSet(Phis(F, s)) \subseteq PhisOf(F)
    BY DEF PhisAfter
  <2>1. s \in DOMAIN F.code
    BY <1>3, <1>4
  <2> QED
    BY <1>2, <2>1, PhisAre
<1>6. IsFiniteSet(S)
  <2>1. F.next - 1 \in Int /\ S \subseteq 1 .. (F.next - 1)
    <3>1. PhisOf(F) \subseteq DOMAIN F.uses
      BY <1>2, GoodRefs DEF PhisOf
    <3>2. F.next \in Nat /\ DOMAIN F.uses \subseteq 1 .. (F.next - 1)
      BY <1>2 DEF Good
    <3> HIDE DEF S
    <3> QED
      BY <1>5, <3>1, <3>2
  <2>2. IsFiniteSet(1 .. (F.next - 1))
    BY <2>1, FS_Interval
  <2> HIDE DEF S
  <2> QED
    BY <2>1, <2>2, FS_Subset
<1> HIDE DEF S
<1>7. SetToSeq(S) \in Seq(S)
  BY <1>6, Listing
<1>8. SetToSeq(S) \in Seq(PhisOf(F))
  BY <1>5, <1>7, SeqMonotonic
<1> QED
  BY <1>5, <1>8 DEF S

LEMMA PhisLeft ==
  ASSUME NEW F, Steady(F), NEW b \in DOMAIN F.code
  PROVE  Tuned(F, leavePhis(F, b))
<1> DEFINE phis == SetToSeq(PhisAfter(F, b))
           n == Len(phis)
<1>1. phis \in Seq(PhisOf(F))
  BY PhisAfterAre
<1>2. Len(SetToSeq(PhisAfter(F, b))) \in Nat
  BY <1>1, LenProperties
<1>3. PICK f : /\ f[0] = F /\ leavePhis(F, b) = f[Len(SetToSeq(PhisAfter(F, b)))]
               /\ \A j \in 1 .. Len(SetToSeq(PhisAfter(F, b))) : f[j] = LeavesStep(F, b, f[j - 1], j)
  BY <1>2, LeavesUnfold
<1> DEFINE S == {j \in 0 .. n : Tuned(F, f[j])}
<1>4. 0 \in S
  <2>1. Tuned(F, F)
    BY DEF Tuned, Retuned, Steady
  <2> QED
    BY <1>2, <1>3, <2>1
<1>5. ASSUME NEW j \in 0 .. n, j \in S, j < n  PROVE j + 1 \in S
  <2> DEFINE G == f[j]
             phi == phis[j + 1]
             r == Filtered(G, phi, b)
             P == {2 * k : k \in {k \in 1 .. (Len(G.inst[phi].refs) \div 2) : G.inst[phi].refs[2 * k] # b}}
                    \union {2 * k - 1 : k \in {k \in 1 .. (Len(G.inst[phi].refs) \div 2) : G.inst[phi].refs[2 * k] # b}}
             M == DOMAIN G.uses \cup {Nil}
  <2>1. j + 1 \in 1 .. n /\ j + 1 \in 0 .. n /\ (j + 1) - 1 = j
    BY <1>2, <1>5
  <2>2. f[j + 1] = setCandidates(G, phi, r)
    BY <1>3, <2>1 DEF LeavesStep
  <2>3. Tuned(F, G)
    BY <1>5
  <2>4. phi \in DOMAIN F.inst /\ F.inst[phi].kind = "phi"
    <3>1. phi \in PhisOf(F)
      <4> HIDE DEF phis
      <4> QED
        BY <1>1, <2>1, ElementOfSeq
    <3> HIDE DEF phi
    <3> QED
      BY <3>1 DEF PhisOf
  <2>5. r = Picked(G.inst[phi].refs, P)
    BY DEF Filtered
  <2> HIDE DEF G, phi, P, r
  <2>6. Good(G) /\ phi \in DOMAIN G.inst /\ G.inst[phi].kind = "phi"
    BY <2>3, <2>4 DEF Tuned, Retuned
  <2>7. r \in Seq(M)
    <3> DEFINE refs == G.inst[phi].refs
    <3>1. refs \in Seq(M)
      BY <2>6, GoodRefs
    <3> HIDE DEF refs, M
    <3>2. Picked(refs, P) \in Seq(At(refs, P))
      BY <3>1, PickedIn
    <3>3. At(refs, P) \subseteq M
      <4> SUFFICES ASSUME NEW k \in DOMAIN refs  PROVE refs[k] \in M
        BY DEF At
      <4>1. k \in 1 .. Len(refs)
        BY <3>1
      <4> QED
        BY <3>1, <4>1, ElementOfSeq
    <3>4. Picked(refs, P) \in Seq(M)
      BY <3>2, <3>3, SeqMonotonic
    <3> QED
      BY <2>5, <3>4 DEF refs
  <2>8. RefsSet(G, setCandidates(G, phi, r), phi, r)
    BY <2>6, <2>7, CandidatesSet
  <2>9. Tuned(F, f[j + 1])
    BY <2>2, <2>3, <2>4, <2>8, TunedMore
  <2> QED
    BY <2>1, <2>9
<1>6. \A j \in 0 .. n : j \in S
  <2>1. \A j \in 0 .. n : j \in S /\ j < n => j + 1 \in S
    BY <1>5
  <2>2. n \in Nat
    BY <1>2
  <2> HIDE DEF S, n
  <2> QED
    BY <1>4, <2>1, <2>2, Climbs
<1>7. n \in S
  <2>1. n \in 0 .. n
    BY <1>2
  <2> QED
    BY <1>6, <2>1
<1> QED
  BY <1>3, <1>7

LEMMA TunedSealed ==
  ASSUME NEW F, Good(F), NEW G, Tuned(F, G), NEW open, Sealed(F, open)
  PROVE  Sealed(G, open)
<1> DEFINE I == DOMAIN F.inst
<1>1. F.code \in [DOMAIN F.code -> Seq(I)]
  BY DEF Good, Housed
<1>2. G.code = F.code /\ SameKinds(F.inst, G.inst, I)
  BY DEF Tuned, Retuned, SameKinds
<1> HIDE DEF I
<1> QED
  BY <1>1, <1>2, SealedSame

(* A block that no conditional has for its false target is erased.         *)
LEMMA BlockErased ==
  ASSUME NEW F, Good(F), F.fault = FALSE, NEW b \in DOMAIN F.code, NoFalse(F, b),
         \A d \in DOMAIN F.code \ {b} : Closed(F.inst, F.code[d])
  PROVE  LET H == eraseBlock(F, b) IN
         /\ Steady(H) /\ DOMAIN H.code = DOMAIN F.code \ {b} /\ DOMAIN H.inst \subseteq DOMAIN F.inst
<1> DEFINE H == eraseBlock(F, b)
<1>1. BlockErasing(F, H, b) \/ (H.fault = TRUE /\ \E u \in DOMAIN F.inst : FalseTo(F.inst, u, b))
  BY ErasedBlock
<1> HIDE DEF H
<1>2. BlockErasing(F, H, b)
  BY <1>1 DEF NoFalse
<1>3. /\ Good(H) /\ H.fault = FALSE /\ DOMAIN H.code = DOMAIN F.code \ {b} /\ DOMAIN H.inst \subseteq DOMAIN F.inst
      /\ \A d \in DOMAIN H.code : H.code[d] = F.code[d]
      /\ SameKinds(F.inst, H.inst, DOMAIN H.inst)
  BY <1>2 DEF BlockErasing, Nulled, SameKinds
<1>4. Sealed(H, {})
  <2> SUFFICES ASSUME NEW d \in DOMAIN H.code  PROVE Closed(H.inst, H.code[d])
    BY DEF Sealed
  <2>1. H.code[d] \in Seq(DOMAIN H.inst)
    BY <1>3 DEF Good, Housed
  <2>2. Closed(F.inst, H.code[d])
    BY <1>3
  <2> QED
    BY <1>3, <2>1, <2>2, ClosedSame
<1> QED
  BY <1>3, <1>4 DEF Steady, H

(* A branch to a block is one of its branch users.                         *)
LEMMA FalseIsUser ==
  ASSUME NEW F, Good(F), NEW b \in DOMAIN F.code, NEW u \in DOMAIN F.inst, FalseTo(F.inst, u, b)
  PROVE  u \in BranchUsers(F, b)
<1>1. F.inst[u].kind = "cond" /\ F.inst[u].refs[3] = b
  BY DEF FalseTo, FalseSlot
<1>2. Len(F.inst[u].refs) = 3 /\ b \in DOMAIN F.uses /\ Linked(F, {})
  BY <1>1 DEF Good, Sided
<1>3. 3 \in 1 .. Len(F.inst[u].refs)
  BY <1>2
<1>4. u \in ToSet(F.uses[b])
  <2>1. u \in DOMAIN F.inst \ {} /\ \E p \in 1 .. Len(F.inst[u].refs) : F.inst[u].refs[p] = b
    BY <1>1, <1>3
  <2> QED
    BY <1>2, <2>1, UsersAre
<1> QED
  BY <1>1, <1>4 DEF BranchUsers, Branches

(* deadBasicBlockElem: the phis after the block, then the block.           *)
LEMMA DeadBlockLeft ==
  ASSUME NEW F, Steady(F), NEW b \in DOMAIN F.code, HasDeadBasicBlock(F, b)
  PROVE  LET L == leavePhis(F, b) IN
         /\ Steady(L) /\ NoFalse(L, b) /\ L.code = F.code /\ DOMAIN L.inst = DOMAIN F.inst
         /\ BlockErasing(L, deadBasicBlockElem(F, b), b)
<1> DEFINE L == leavePhis(F, b)
           H == eraseBlock(L, b)
<1>1. Good(F) /\ F.fault = FALSE /\ Sealed(F, {}) /\ BranchUsers(F, b) = {}
  BY DEF Steady, HasDeadBasicBlock, hasNoInwardFlow
<1>2. Tuned(F, L)
  BY PhisLeft
<1>3. deadBasicBlockElem(F, b) = H
  BY DEF deadBasicBlockElem
<1> HIDE DEF L
<1>4. Good(L) /\ L.fault = FALSE /\ L.code = F.code /\ DOMAIN L.inst = DOMAIN F.inst /\ Sealed(L, {})
  BY <1>1, <1>2, TunedSealed DEF Tuned, Retuned
<1>5. NoFalse(L, b)
  <2> SUFFICES ASSUME NEW u \in DOMAIN F.inst, FalseTo(L.inst, u, b)  PROVE FALSE
    BY <1>4 DEF NoFalse
  <2>1. L.inst[u].kind = F.inst[u].kind /\ (F.inst[u].kind # "phi" => L.inst[u].refs = F.inst[u].refs)
    BY <1>2 DEF Tuned, Retuned
  <2>2. FalseTo(F.inst, u, b)
    BY <2>1 DEF FalseTo
  <2> QED
    BY <1>1, <2>2, FalseIsUser
<1>6. BlockErasing(L, H, b) \/ (H.fault = TRUE /\ \E u \in DOMAIN L.inst : FalseTo(L.inst, u, b))
  BY <1>4, ErasedBlock
<1> HIDE DEF H
<1>7. BlockErasing(L, H, b)
  BY <1>5, <1>6 DEF NoFalse
<1> QED
  BY <1>3, <1>4, <1>5, <1>7 DEF Steady, L

LEMMA DeadBlockErased ==
  ASSUME NEW F, Steady(F), NEW b \in DOMAIN F.code, HasDeadBasicBlock(F, b)
  PROVE  Shrunk(F, deadBasicBlockElem(F, b))
<1> DEFINE L == leavePhis(F, b)
           H == eraseBlock(L, b)
<1>1. Steady(L) /\ NoFalse(L, b) /\ L.code = F.code /\ DOMAIN L.inst = DOMAIN F.inst
  BY DeadBlockLeft
<1>2. deadBasicBlockElem(F, b) = H
  BY DEF deadBasicBlockElem
<1> HIDE DEF L
<1>3. Good(L) /\ L.fault = FALSE /\ \A d \in DOMAIN L.code \ {b} : Closed(L.inst, L.code[d])
  BY <1>1 DEF Steady, Sealed
<1>4. /\ Steady(H) /\ DOMAIN H.code = DOMAIN L.code \ {b} /\ DOMAIN H.inst \subseteq DOMAIN L.inst
  BY <1>1, <1>3, BlockErased
<1> HIDE DEF H
<1> QED
  BY <1>1, <1>2, <1>4 DEF Shrunk

(* simplifyTrivialBranch.                                                  *)
LEMMA ClosedConcat ==
  ASSUME NEW X, NEW s \in Seq(X), NEW t \in Seq(X), NEW a, Unclosed(a, s), Closed(a, t)
  PROVE  Closed(a, s \o t)
<1> DEFINE c == s \o t
           m == Len(s)
           n == Len(t)
<1>1. c \in Seq(X) /\ Len(c) = m + n
      /\ \A i \in 1 .. m + n : c[i] = IF i <= m THEN s[i] ELSE t[i - m]
  BY ConcatProperties
<1>2. /\ m \in Nat /\ n \in Nat /\ n # 0
      /\ (\A k \in 1 .. m : a[s[k]].kind \notin Terminators)
      /\ (\A k \in 1 .. n : (a[t[k]].kind \in Terminators) <=> (k = n))
  BY LenProperties DEF Closed, Unclosed
<1> HIDE DEF c, m, n
<1>3. Len(c) # 0
  BY <1>1, <1>2
<1>4. ASSUME NEW k \in 1 .. Len(c)  PROVE (a[c[k]].kind \in Terminators) <=> (k = Len(c))
  <2>1. CASE k <= m
    <3>1. k \in 1 .. m /\ k # Len(c) /\ k \in 1 .. m + n
      BY <1>1, <1>2, <2>1
    <3>2. c[k] = s[k]
      BY <1>1, <2>1, <3>1
    <3> QED
      BY <1>2, <3>1, <3>2
  <2>2. CASE ~(k <= m)
    <3>1. k - m \in 1 .. n /\ (k - m = n <=> k = Len(c)) /\ k \in 1 .. m + n
      BY <1>1, <1>2, <2>2
    <3>2. c[k] = t[k - m]
      BY <1>1, <2>2, <3>1
    <3> QED
      BY <1>2, <3>1, <3>2
  <2> QED
    BY <2>1, <2>2
<1> QED
  BY <1>3, <1>4 DEF Closed, c

(* The instructions of a good function in other blocks.                    *)
Recoded(F, code) == Six(F.order, code, F.inst, F.uses, F.fault, F.next)

LEMMA RecodedIs ==
  ASSUME NEW F, Good(F), NEW code, DOMAIN code = DOMAIN F.code, Housed(code, DOMAIN F.inst)
  PROVE  LET H == Recoded(F, code) IN
         /\ Good(H) /\ H.order = F.order /\ H.code = code /\ H.inst = F.inst /\ H.uses = F.uses
         /\ H.fault = F.fault /\ H.next = F.next
<1> DEFINE H == Recoded(F, code)
<1>1. /\ H.order = F.order /\ H.code = code /\ H.inst = F.inst /\ H.uses = F.uses
      /\ H.fault = F.fault /\ H.next = F.next /\ Formed(H)
  BY DEF Recoded, Six, Formed, Relinked
<1> HIDE DEF H
<1>2. Linked(H, {})
  <2>1. Linked(F, {})
    BY DEF Good
  <2>2. Held(H, {}) = Held(F, {})
    BY <1>1 DEF Held
  <2>3. Used(H, DOMAIN H.uses)
    BY <1>1, <2>1 DEF Linked, Used
  <2> QED
    BY <1>1, <2>1, <2>2, <2>3 DEF Linked
<1>3. Good(H)
  BY <1>1, <1>2 DEF Good
<1> QED
  BY <1>1, <1>3 DEF H

Joined(code, p, b) == [[code EXCEPT ![p] = @ \o code[b]] EXCEPT ![b] = <<>>]

LEMMA SpliceIs ==
  ASSUME NEW F, Formed(F), NEW p, NEW b, p # b
  PROVE  splice(F, p, b) = Recoded(F, Joined(F.code, p, b))
<1> DEFINE o == F.order
           c == F.code
           i == F.inst
           u == F.uses
           f == F.fault
           x == F.next
           v == F.code[p] \o F.code[b]
           d == [c EXCEPT ![p] = v]
           e == [d EXCEPT ![b] = <<>>]
<1>1. F = Six(o, c, i, u, f, x)
  BY DEF Formed, Relinked, Six
<1>2. splice(F, p, b) = [[F EXCEPT !.code[p] = v] EXCEPT !.code[b] = <<>>]
  BY DEF splice
<1>3. e = Joined(c, p, b)
  BY DEF Joined
<1> HIDE DEF o, c, i, u, f, x, v
<1>4. [F EXCEPT !.code[p] = v] = Six(o, d, i, u, f, x)
  BY <1>1 DEF Six
<1> HIDE DEF d
<1>5. [Six(o, d, i, u, f, x) EXCEPT !.code[b] = <<>>] = Six(o, e, i, u, f, x)
  BY DEF Six
<1> HIDE DEF e
<1> QED
  BY <1>2, <1>3, <1>4, <1>5 DEF Recoded, o, c, i, u, f, x

LEMMA JoinedHoused ==
  ASSUME NEW code, NEW I, Housed(code, I), NEW p \in DOMAIN code, NEW b \in DOMAIN code, p # b
  PROVE  /\ Housed(Joined(code, p, b), I) /\ DOMAIN Joined(code, p, b) = DOMAIN code
         /\ \A d \in DOMAIN code : Joined(code, p, b)[d] = IF d = b THEN <<>>
                                     ELSE IF d = p THEN code[p] \o code[b] ELSE code[d]
<1> DEFINE D == DOMAIN code
           J == Joined(code, p, b)
           c == code[p] \o code[b]
           nothing == <<>>
<1>1. p \in D /\ b \in D /\ code = [d \in D |-> code[d]] /\ \A d \in D : code[d] \in Seq(I)
  BY DEF Housed
<1>2. J = [d \in D |-> IF d = b THEN nothing ELSE IF d = p THEN c ELSE code[d]]
  <2> HIDE DEF c, D, nothing
  <2>1. [code EXCEPT ![p] = code[p] \o code[b]] = [d \in D |-> IF d = p THEN c ELSE code[d]]
    BY <1>1 DEF c
  <2>2. J = [[d \in D |-> IF d = p THEN c ELSE code[d]] EXCEPT ![b] = nothing]
    BY <2>1 DEF Joined, nothing
  <2> HIDE DEF J
  <2> QED
    BY <1>1, <2>2
<1>3. nothing \in Seq(I) /\ \A k \in 1 .. Len(nothing) : FALSE
  OBVIOUS
<1> HIDE DEF D, J, nothing
<1>4. \A x : Times(nothing, x) = 0
  BY <1>3, TimesCounted
<1>5. c \in Seq(I) /\ \A x : Times(c, x) = Times(code[p], x) + Times(code[b], x)
  BY <1>1, TimesConcat
<1> HIDE DEF c
<1>6. J \in [D -> Seq(I)] /\ DOMAIN J = D
  BY <1>1, <1>2, <1>3, <1>5
<1>7. ASSUME NEW i \in I  PROVE \E d \in D : Lives(J, d, i)
  <2>1. PICK d \in D : \A e \in D : Times(code[e], i) = IF e = d THEN 1 ELSE 0
    BY DEF Housed, Lives, D
  <2> DEFINE h == IF d = b THEN p ELSE d
  <2>2. ASSUME NEW e \in D  PROVE Times(J[e], i) = IF e = h THEN 1 ELSE 0
    <3>1. CASE e = b
      <4>1. J[e] = nothing /\ e # h
        BY <1>2, <3>1
      <4> QED
        BY <1>4, <4>1
    <3>2. CASE e = p
      <4>1. J[e] = c /\ (e = h <=> d = p \/ d = b)
        BY <1>1, <1>2, <3>2
      <4>2. Times(code[p], i) = (IF d = p THEN 1 ELSE 0) /\ Times(code[b], i) = (IF d = b THEN 1 ELSE 0)
        BY <1>1, <2>1
      <4>3. Times(c, i) = Times(code[p], i) + Times(code[b], i)
        BY <1>5
      <4> QED
        BY <4>1, <4>2, <4>3
    <3>3. CASE e # b /\ e # p
      <4>1. J[e] = code[e] /\ (e = h <=> e = d)
        BY <1>2, <3>3
      <4> QED
        BY <2>1, <4>1
    <3> QED
      BY <3>1, <3>2, <3>3
  <2>3. h \in D
    BY <1>1
  <2> HIDE DEF h
  <2> QED
    BY <1>6, <2>2, <2>3 DEF Lives
<1> QED
  BY <1>2, <1>6, <1>7 DEF Housed, D, J, c, nothing

(* The branch at the end of the only predecessor is the only branch here.  *)
OnlyBranch(F, b, p) ==
  /\ p \in DOMAIN F.code
  /\ \A u \in BranchUsers(F, b) : u = Last(F.code[p])

LEMMA PreviousIs ==
  ASSUME NEW F, Steady(F), NEW b \in DOMAIN F.code, Cardinality(getInwardFlow(F, b)) = 1
  PROVE  OnlyBranch(F, b, Previous(F, b))
<1> DEFINE U == BranchUsers(F, b)
           W == getInwardFlow(F, b)
           p == Previous(F, b)
<1>1. Good(F) /\ Sealed(F, {}) /\ b \in DOMAIN F.uses /\ Linked(F, {}) /\ Housed(F.code, DOMAIN F.inst)
  BY DEF Steady, Good
<1>2. U \subseteq DOMAIN F.inst /\ \A u \in U : F.inst[u].kind \in Branches
  <2> SUFFICES ASSUME NEW u \in ToSet(F.uses[b])  PROVE u \in DOMAIN F.inst
    BY DEF BranchUsers
  <2> QED
    BY <1>1, UsersAre
<1>3. W \subseteq DOMAIN F.code /\ W = {Parent(F, u) : u \in U}
  BY <1>1, <1>2, ParentIs DEF getInwardFlow
<1>4. IsFiniteSet(W)
  <2> DEFINE n == F.next - 1
  <2>1. n \in Int /\ 1 \in Int /\ DOMAIN F.code \subseteq 1 .. n
    BY <1>1 DEF Good
  <2> HIDE DEF n
  <2>2. IsFiniteSet(1 .. n)
    BY <2>1, FS_Interval
  <2> HIDE DEF W
  <2>3. W \in SUBSET (1 .. n)
    BY <1>3, <2>1
  <2> QED
    BY <2>2, <2>3, FS_Subset
<1>5. p = CHOOSE q \in W : TRUE
  BY DEF Previous
<1>6. Cardinality(W) = 1
  OBVIOUS
<1> HIDE DEF W, U, p
<1>7. PICK w : W = {w}
  BY <1>4, <1>6, FS_Singleton
<1>8. p = w /\ p \in DOMAIN F.code
  BY <1>3, <1>5, <1>7
<1>9. ASSUME NEW u \in U  PROVE u = Last(F.code[p])
  <2> DEFINE s == F.code[p]
  <2>1. u \in DOMAIN F.inst /\ F.inst[u].kind \in Terminators /\ Parent(F, u) = p
    <3>1. Parent(F, u) \in W
      BY <1>3
    <3> QED
      BY <1>2, <1>7, <1>8, <3>1 DEF Terminators
  <2>2. Contains(s, u)
    BY <1>1, <2>1, ParentIs
  <2>3. Closed(F.inst, s)
    BY <1>1, <1>8 DEF Sealed
  <2> HIDE DEF s
  <2>4. PICK k \in 1 .. Len(s) : s[k] = u
    BY <2>2 DEF Contains
  <2>5. k = Len(s)
    BY <2>1, <2>3, <2>4 DEF Closed
  <2> QED
    BY <2>4, <2>5 DEF Last, s
<1> QED
  BY <1>8, <1>9 DEF OnlyBranch, U, p

LEMMA FalseSwapped ==
  ASSUME NEW F, Good(F), NEW G, NEW D, D \subseteq DOMAIN F.inst, NEW old, NEW new,
         Swaps(F.inst, G.inst, D, old, new), NEW u \in D, NEW b, FalseTo(G.inst, u, b), b # new \/ b = old
  PROVE  FalseTo(F.inst, u, b)
<1> DEFINE r == F.inst[u].refs
           M == DOMAIN F.uses \cup {Nil}
<1>1. G.inst[u].kind = F.inst[u].kind /\ G.inst[u].refs = Swapped(r, old, new)
  BY DEF Swaps
<1>2. F.inst[u].kind = "cond" /\ G.inst[u].refs[3] = b
  BY <1>1 DEF FalseTo, FalseSlot
<1>3. Len(r) = 3
  BY <1>2 DEF Good, Sided
<1>4. Swapped(r, old, new)[3] = IF r[3] = old THEN new ELSE r[3]
  BY <1>3 DEF Swapped
<1>5. r[3] = b
  BY <1>1, <1>2, <1>4
<1> QED
  BY <1>2, <1>5 DEF FalseTo, FalseSlot

Fused(P, S, p, b) ==
  /\ Good(S) /\ S.fault = FALSE /\ S.inst = P.inst /\ S.uses = P.uses /\ S.order = P.order
  /\ DOMAIN S.code = DOMAIN P.code
  /\ \A d \in DOMAIN P.code \ {b} : S.code[d] = IF d = p THEN P.code[p] \o P.code[b] ELSE P.code[d]
  /\ S.code[b] = IF p = b THEN P.code[b] ELSE <<>>

LEMMA SplicedGood ==
  ASSUME NEW P, Good(P), P.fault = FALSE, NEW p \in DOMAIN P.code, NEW b \in DOMAIN P.code
  PROVE  Fused(P, splice(P, p, b), p, b)
<1>1. CASE p = b
  <2>1. splice(P, p, b) = P
    BY <1>1 DEF splice
  <2> QED
    BY <1>1, <2>1 DEF Fused
<1>2. CASE p # b
  <2> DEFINE J == Joined(P.code, p, b)
             S == Recoded(P, J)
  <2>1. splice(P, p, b) = S
    BY <1>2, GoodRefs, SpliceIs
  <2>2. Housed(P.code, DOMAIN P.inst)
    BY DEF Good
  <2>3. /\ Housed(J, DOMAIN P.inst) /\ DOMAIN J = DOMAIN P.code
        /\ \A d \in DOMAIN P.code : J[d] = IF d = b THEN <<>>
                                     ELSE IF d = p THEN P.code[p] \o P.code[b] ELSE P.code[d]
    BY <1>2, <2>2, JoinedHoused
  <2> HIDE DEF J
  <2>4. /\ Good(S) /\ S.code = J /\ S.inst = P.inst /\ S.uses = P.uses /\ S.fault = P.fault
        /\ S.order = P.order
    BY <2>3, RecodedIs
  <2> HIDE DEF S
  <2> QED
    BY <1>2, <2>1, <2>3, <2>4 DEF Fused
<1> QED
  BY <1>1, <1>2

(* The branch goes, the instructions and the users of b move to p.         *)
Folding(F, P, S, R, p, b) ==
  /\ Last(F.code[p]) \in DOMAIN F.inst /\ F.inst[Last(F.code[p])].kind \in Terminators
  /\ Parent(F, Last(F.code[p])) = p
  /\ Erasing(F, P, Last(F.code[p])) /\ Fused(P, S, p, b) /\ Replacing(S, R, b, p)
  /\ NoFalse(R, b)

LEMMA BranchFolds ==
  ASSUME NEW F, Steady(F), NEW b \in DOMAIN F.code, NEW p, OnlyBranch(F, b, p)
  PROVE  LET P == pop_back(F, p)
             S == splice(P, p, b)
             R == replaceAllUseWith(S, b, p)
         IN  Folding(F, P, S, R, p, b)
<1> DEFINE i == Last(F.code[p])
           P == pop_back(F, p)
           S == splice(P, p, b)
           R == replaceAllUseWith(S, b, p)
           B == DOMAIN F.code
           I == DOMAIN F.inst
<1>1. Good(F) /\ F.fault = FALSE /\ Sealed(F, {}) /\ p \in B /\ \A u \in BranchUsers(F, b) : u = i
  BY DEF Steady, OnlyBranch
<1>2. i \in I /\ F.inst[i].kind \in Terminators /\ Parent(F, i) = p
  BY <1>1, LastOf
<1>3. P = eraseInst(F, i)
  BY DEF pop_back
<1> HIDE DEF i, P, S, R
<1>4. Erasing(F, P, i)
  BY <1>1, <1>2, <1>3, ErasedInst
<1>5. /\ DOMAIN P.code = B /\ DOMAIN P.inst = I \ {i} /\ SameKinds(F.inst, P.inst, DOMAIN P.inst)
      /\ \A d \in B : /\ F.code[d] \in Seq(I)
                      /\ P.code[d] \in Seq(DOMAIN P.inst) /\ P.code[d] \in Seq(I)
                      /\ d # p => P.code[d] = F.code[d]
      /\ \E k : F.code[p][k] = i /\ Drops(F.code[p], P.code[p], k)
  BY <1>1, <1>2, <1>4, ErasedAt
<1>6. Good(P) /\ P.fault = FALSE /\ Swaps(F.inst, P.inst, I \ {i}, i, Nil)
  BY <1>4 DEF Erasing
<1>7. b # Nil
  BY <1>1, GoodRefs
<1>8. \A u \in I \ {i} : ~FalseTo(P.inst, u, b)
  <2> SUFFICES ASSUME NEW u \in I \ {i}, FalseTo(P.inst, u, b)  PROVE FALSE
    OBVIOUS
  <2> DEFINE D == I \ {i}
  <2>0. D \subseteq DOMAIN F.inst /\ u \in D /\ (b # Nil \/ b = i) /\ Swaps(F.inst, P.inst, D, i, Nil)
    BY <1>6, <1>7
  <2> HIDE DEF D
  <2>1. FalseTo(F.inst, u, b)
    BY <1>1, <2>0, FalseSwapped
  <2> QED
    BY <1>1, <2>1, FalseIsUser
<1>9. Fused(P, S, p, b)
  BY <1>1, <1>5, <1>6, SplicedGood DEF S
<1>10. /\ Good(S) /\ S.fault = FALSE /\ S.inst = P.inst /\ DOMAIN S.code = B
       /\ \A d \in B \ {b} : S.code[d] = IF d = p THEN P.code[p] \o P.code[b] ELSE P.code[d]
  BY <1>5, <1>9 DEF Fused
<1>11. NoFalse(S, b)
  BY <1>5, <1>8, <1>10 DEF NoFalse
<1>12. p \in DOMAIN S.uses /\ b \in DOMAIN S.uses /\ Carried(DOMAIN S.code, DOMAIN S.code, b, p)
  <2>1. DOMAIN S.code \subseteq DOMAIN S.uses
    BY <1>10 DEF Good
  <2> QED
    BY <1>1, <1>10, <2>1 DEF Carried
<1>13. Replacing(S, R, b, p)
  BY <1>10, <1>11, <1>12, ReplacedGood DEF R
<1>14. /\ Good(R) /\ R.fault = FALSE /\ R.code = S.code /\ Swaps(S.inst, R.inst, DOMAIN S.inst, b, p)
       /\ DOMAIN R.inst = I \ {i} /\ SameKinds(F.inst, R.inst, DOMAIN R.inst)
  BY <1>5, <1>10, <1>13 DEF Replacing, Swaps, SameKinds
<1>15. NoFalse(R, b)
  <2> SUFFICES ASSUME NEW u \in I \ {i}, FalseTo(R.inst, u, b)  PROVE FALSE
    BY <1>14 DEF NoFalse
  <2>1. R.inst[u].kind = "cond" /\ R.inst[u].refs[3] = b
    BY DEF FalseTo, FalseSlot
  <2>2. u \in DOMAIN S.inst
    BY <1>5, <1>10
  <2>3. S.inst[u].kind = "cond" /\ R.inst[u].refs = Swapped(S.inst[u].refs, b, p)
    BY <1>14, <2>1, <2>2 DEF Swaps
  <2>4. Len(S.inst[u].refs) = 3
    BY <1>10, <2>2, <2>3 DEF Good, Sided
  <2>5. Swapped(S.inst[u].refs, b, p)[3] = IF S.inst[u].refs[3] = b THEN p ELSE S.inst[u].refs[3]
    BY <2>4 DEF Swapped
  <2>6. S.inst[u].refs[3] = b
    BY <2>1, <2>3, <2>5
  <2> QED
    BY <1>11, <2>2, <2>3, <2>6 DEF NoFalse, FalseTo, FalseSlot
<1> QED
  BY <1>2, <1>4, <1>9, <1>13, <1>15 DEF Folding, i, P, S, R

LEMMA BranchFolded ==
  ASSUME NEW F, Steady(F), NEW b \in DOMAIN F.code, NEW p, OnlyBranch(F, b, p)
  PROVE  Shrunk(F, eraseBlock(replaceAllUseWith(splice(pop_back(F, p), p, b), b, p), b))
<1> DEFINE i == Last(F.code[p])
           P == pop_back(F, p)
           S == splice(P, p, b)
           R == replaceAllUseWith(S, b, p)
           H == eraseBlock(R, b)
           B == DOMAIN F.code
           I == DOMAIN F.inst
<1>1. Good(F) /\ F.fault = FALSE /\ Sealed(F, {}) /\ p \in B
  BY DEF Steady, OnlyBranch
<1>0. Folding(F, P, S, R, p, b)
  BY BranchFolds
<1> HIDE DEF P, S, R, H
<1>2. /\ i \in I /\ F.inst[i].kind \in Terminators /\ Parent(F, i) = p
      /\ Erasing(F, P, i) /\ Fused(P, S, p, b) /\ Replacing(S, R, b, p) /\ NoFalse(R, b)
  BY <1>0 DEF Folding
<1> HIDE DEF i
<1>5. /\ DOMAIN P.code = B /\ DOMAIN P.inst = I \ {i} /\ SameKinds(F.inst, P.inst, DOMAIN P.inst)
      /\ \A d \in B : /\ F.code[d] \in Seq(I)
                      /\ P.code[d] \in Seq(DOMAIN P.inst) /\ P.code[d] \in Seq(I)
                      /\ d # p => P.code[d] = F.code[d]
      /\ \E k : F.code[p][k] = i /\ Drops(F.code[p], P.code[p], k)
  BY <1>1, <1>2, ErasedAt
<1>10. /\ Good(S) /\ S.fault = FALSE /\ S.inst = P.inst /\ DOMAIN S.code = B
       /\ \A d \in B \ {b} : S.code[d] = IF d = p THEN P.code[p] \o P.code[b] ELSE P.code[d]
  BY <1>2, <1>5 DEF Fused
<1>14. /\ Good(R) /\ R.fault = FALSE /\ R.code = S.code
       /\ DOMAIN R.inst = I \ {i} /\ SameKinds(F.inst, R.inst, DOMAIN R.inst)
  BY <1>2, <1>5, <1>10 DEF Replacing, Swaps, SameKinds
<1>16. ASSUME NEW d \in B \ {b}  PROVE Closed(R.inst, R.code[d])
  <2>1. R.code[d] \in Seq(DOMAIN R.inst)
    BY <1>10, <1>14 DEF Good, Housed
  <2>2. \A e \in B : Closed(F.inst, F.code[e])
    BY <1>1 DEF Sealed
  <2>3. CASE d = p
    <3>1. p # b /\ R.code[d] = P.code[p] \o P.code[b] /\ P.code[b] = F.code[b]
      BY <1>5, <1>10, <1>14, <2>3
    <3>2. Unclosed(F.inst, P.code[p])
      <4>1. PICK k : F.code[p][k] = i /\ Drops(F.code[p], P.code[p], k)
        BY <1>5
      <4>2. F.inst[F.code[p][k]].kind \in Terminators
        BY <1>2, <4>1
      <4>3. F.code[p] \in Seq(I) /\ P.code[p] \in Seq(I) /\ Closed(F.inst, F.code[p])
        BY <1>1, <1>5, <2>2
      <4> QED
        BY <4>1, <4>2, <4>3, ClosedWithoutLast
    <3>3. P.code[p] \in Seq(I) /\ P.code[b] \in Seq(I) /\ Closed(F.inst, P.code[b])
      BY <1>1, <1>5, <2>2, <3>1
    <3>4. Closed(F.inst, R.code[d])
      BY <3>1, <3>2, <3>3, ClosedConcat
    <3> QED
      BY <1>14, <2>1, <3>4, ClosedSame
  <2>4. CASE d # p
    <3>1. R.code[d] = F.code[d]
      BY <1>5, <1>10, <1>14, <2>4
    <3>2. Closed(F.inst, R.code[d])
      BY <2>2, <3>1
    <3> QED
      BY <1>14, <2>1, <3>2, ClosedSame
  <2> QED
    BY <2>3, <2>4
<1>17. Steady(H) /\ DOMAIN H.code = B \ {b} /\ DOMAIN H.inst \subseteq I \ {i}
  <2>1. DOMAIN R.code = B
    BY <1>10, <1>14
  <2>2. \A d \in DOMAIN R.code \ {b} : Closed(R.inst, R.code[d])
    BY <1>16, <2>1
  <2>3. Good(R) /\ R.fault = FALSE /\ b \in DOMAIN R.code /\ DOMAIN R.inst = I \ {i}
    BY <1>14, <2>1
  <2> HIDE DEF R, I, B
  <2>4. Steady(eraseBlock(R, b)) /\ DOMAIN eraseBlock(R, b).code = DOMAIN R.code \ {b}
        /\ DOMAIN eraseBlock(R, b).inst \subseteq DOMAIN R.inst
    BY <1>2, <2>2, <2>3, BlockErased
  <2> QED
    BY <2>1, <2>3, <2>4 DEF H
<1> QED
  BY <1>17 DEF Shrunk, H, R, S, P

LEMMA TrivialBranchSimplified ==
  ASSUME NEW F, Steady(F), NEW b \in DOMAIN F.code, HasTrivialBranch(F, b)
  PROVE  Shrunk(F, simplifyTrivialBranch(F, b))
<1> DEFINE p == Previous(F, b)
<1>1. OnlyBranch(F, b, p)
  BY PreviousIs DEF HasTrivialBranch
<1>2. simplifyTrivialBranch(F, b) = eraseBlock(replaceAllUseWith(splice(pop_back(F, p), p, b), b, p), b)
  BY DEF simplifyTrivialBranch
<1> HIDE DEF p
<1> QED
  BY <1>1, <1>2, BranchFolded

(* One run of the pass: it stops at a block of the function and what it    *)
(* does there takes something away.                                        *)
LEMMA StopsAtBlock ==
  ASSUME NEW F, Steady(F), ~Converged(F)
  PROVE  FirstRewritable(F) \in DOMAIN F.code /\ Rewritable(F, FirstRewritable(F))
<1> DEFINE s == F.order
           P == {k \in 1 .. Len(s) : Rewritable(F, s[k])}
           at == SelectInSeq(s, LAMBDA b : Rewritable(F, b))
<1>1. s \in Seq(DOMAIN F.code)
  BY DEF Steady, Good, Rowed
<1>2. Len(s) \in Nat /\ DOMAIN s = 1 .. Len(s)
  BY <1>1, LenProperties
<1>3. P # {} /\ P \in SUBSET Nat
  <2>1. PICK k \in DOMAIN s : Rewritable(F, s[k])
    BY DEF Converged, ToSet
  <2> QED
    BY <1>2, <2>1
<1>4. PICK j \in P : \A i \in P : j <= i
  <2> HIDE DEF P
  <2> QED
    BY <1>3, SmallestOf
<1>5. \E m \in P : \A i \in P : m <= i
  BY <1>4
<1>6. Min(P) \in P
  <2> HIDE DEF P
  <2> QED
    BY <1>5 DEF Min
<1>7. at = Min(P)
  BY <1>3 DEF SelectInSeq
<1>8. FirstRewritable(F) = s[Min(P)]
  BY <1>7 DEF FirstRewritable
<1>9. s[Min(P)] \in DOMAIN F.code /\ Rewritable(F, s[Min(P)])
  <2>1. Min(P) \in 1 .. Len(s) /\ Rewritable(F, s[Min(P)])
    BY <1>6
  <2> HIDE DEF P, s
  <2> QED
    BY <1>1, <2>1, ElementOfSeq
<1> QED
  BY <1>8, <1>9

(* Building: everything stays where it is, and more comes.                 *)
Prefixed(s, t) == Len(s) <= Len(t) /\ \A k \in 1 .. Len(s) : t[k] = s[k]
Grown(F, G) ==
  /\ Good(G)
  /\ DOMAIN F.code \subseteq DOMAIN G.code /\ DOMAIN F.inst \subseteq DOMAIN G.inst
  /\ DOMAIN F.uses \subseteq DOMAIN G.uses
  /\ \A u \in DOMAIN F.inst : G.inst[u].kind = F.inst[u].kind /\ G.inst[u].type = F.inst[u].type
  /\ \A d \in DOMAIN F.code : Prefixed(F.code[d], G.code[d])

LEMMA CodeIs ==
  ASSUME NEW F, Good(F), NEW d \in DOMAIN F.code
  PROVE  /\ F.code[d] \in Seq(DOMAIN F.inst) /\ Len(F.code[d]) \in Nat
         /\ DOMAIN F.code[d] = 1 .. Len(F.code[d])
         /\ \A k \in 1 .. Len(F.code[d]) : F.code[d][k] \in DOMAIN F.inst
<1> DEFINE s == F.code[d]
<1>1. s \in Seq(DOMAIN F.inst)
  BY DEF Good, Housed
<1> HIDE DEF s
<1> QED
  BY <1>1, LenProperties, ElementOfSeq DEF s

LEMMA GrownTwice ==
  ASSUME NEW F, NEW G, NEW H, Good(F), Grown(F, G), Grown(G, H)
  PROVE  Grown(F, H)
<1>1. \A d \in DOMAIN F.code : Prefixed(F.code[d], H.code[d])
  <2> TAKE d \in DOMAIN F.code
  <2> DEFINE r == F.code[d]
             s == G.code[d]
             t == H.code[d]
  <2>1. d \in DOMAIN G.code /\ d \in DOMAIN H.code /\ Good(G) /\ Good(H)
    BY DEF Grown
  <2>2. Prefixed(r, s) /\ Prefixed(s, t)
    BY <2>1 DEF Grown
  <2>3. Len(r) \in Nat /\ Len(s) \in Nat /\ Len(t) \in Nat
    BY <2>1, CodeIs
  <2> HIDE DEF r, s, t
  <2>4. Len(r) <= Len(s) /\ Len(s) <= Len(t)
    BY <2>2 DEF Prefixed
  <2>5. Len(r) <= Len(t)
    BY <2>3, <2>4
  <2>6. ASSUME NEW k \in 1 .. Len(r)  PROVE t[k] = r[k]
    <3>1. k \in 1 .. Len(s)
      BY <2>3, <2>4
    <3> QED
      BY <2>2, <3>1 DEF Prefixed
  <2>7. Prefixed(r, t)
    BY <2>5, <2>6 DEF Prefixed
  <2> QED
    BY <2>7 DEF r, t
<1> QED
  BY <1>1 DEF Grown

LEMMA GrownSelf ==
  ASSUME NEW F, Good(F)
  PROVE  Grown(F, F)
<1>1. \A d \in DOMAIN F.code : Prefixed(F.code[d], F.code[d])
  BY CodeIs DEF Prefixed
<1> QED
  BY <1>1 DEF Grown

(* The block b begins with phis of these types, and values have theirs.    *)
Heads(F, b, types) ==
  /\ b \in DOMAIN F.code /\ Len(types) <= Len(F.code[b])
  /\ \A k \in 1 .. Len(types) : /\ F.inst[F.code[b][k]].kind = "phi"
                                /\ F.inst[F.code[b][k]].type = types[k]
Typed(F, values, types) ==
  Len(values) = Len(types) /\ \A k \in 1 .. Len(types) : F.inst[values[k]].type = types[k]

LEMMA HeadsGrown ==
  ASSUME NEW F, Good(F), NEW G, Grown(F, G), NEW b, NEW types, Len(types) \in Nat, Heads(F, b, types)
  PROVE  Heads(G, b, types)
<1> DEFINE n == Len(types)
<1>1. b \in DOMAIN F.code /\ n <= Len(F.code[b]) /\ n \in Nat
  BY DEF Heads
<1>2. b \in DOMAIN G.code /\ Prefixed(F.code[b], G.code[b]) /\ Good(G)
  BY <1>1 DEF Grown
<1>3. Len(F.code[b]) \in Nat /\ Len(G.code[b]) \in Nat
      /\ \A k \in 1 .. Len(F.code[b]) : F.code[b][k] \in DOMAIN F.inst
  BY <1>1, <1>2, CodeIs
<1>4. n <= Len(G.code[b])
  BY <1>1, <1>2, <1>3 DEF Prefixed
<1>5. ASSUME NEW k \in 1 .. n
      PROVE  G.inst[G.code[b][k]].kind = "phi" /\ G.inst[G.code[b][k]].type = types[k]
  <2>1. k \in 1 .. Len(F.code[b])
    BY <1>1, <1>3
  <2>2. G.code[b][k] = F.code[b][k] /\ F.code[b][k] \in DOMAIN F.inst
    BY <1>2, <1>3, <2>1 DEF Prefixed
  <2>3. F.inst[F.code[b][k]].kind = "phi" /\ F.inst[F.code[b][k]].type = types[k]
    BY DEF Heads
  <2> QED
    BY <2>2, <2>3 DEF Grown
<1> QED
  BY <1>2, <1>4, <1>5 DEF Heads

LEMMA TypedGrown ==
  ASSUME NEW F, NEW G, Grown(F, G), NEW values \in Seq(DOMAIN F.inst), NEW types, Typed(F, values, types)
  PROVE  Typed(G, values, types)
<1>1. \A k \in 1 .. Len(types) : values[k] \in DOMAIN F.inst
  BY ElementOfSeq DEF Typed
<1> QED
  BY <1>1 DEF Typed, Grown

(* A new block is open.                                                    *)
Opened(F, G, n) ==
  /\ Grown(F, G) /\ G.fault = F.fault /\ G.next = F.next + 1 /\ n = F.next
  /\ n \in DOMAIN G.code /\ n \notin DOMAIN F.code /\ G.code[n] = <<>> /\ n \notin DOMAIN F.inst
  /\ DOMAIN G.code = DOMAIN F.code \cup {n} /\ G.inst = F.inst
  /\ \A d \in DOMAIN F.code : G.code[d] = F.code[d]
  /\ \A open : Sealed(F, open) => Sealed(G, open \cup {n})

LEMMA BlockGrown ==
  ASSUME NEW F, Good(F), NEW G, BlockBuilt(F, G)
  PROVE  Opened(F, G, F.next)
<1> DEFINE n == F.next
           nothing == <<>>
<1>1. /\ Good(G) /\ G.fault = F.fault /\ G.inst = F.inst /\ G.next = n + 1
      /\ DOMAIN G.uses = DOMAIN F.uses \cup {n} /\ G.code = Entered(F.code, n, nothing)
  BY DEF BlockBuilt
<1>2. n \notin DOMAIN F.uses /\ DOMAIN F.code \subseteq DOMAIN F.uses /\ DOMAIN F.inst \subseteq DOMAIN F.uses
  <2>1. n \in Nat /\ DOMAIN F.uses \subseteq 1 .. (n - 1)
    BY DEF Good
  <2>2. n \notin 1 .. (n - 1)
    BY <2>1
  <2>3. DOMAIN F.inst \subseteq DOMAIN F.uses /\ DOMAIN F.code \subseteq DOMAIN F.uses
    BY GoodRefs DEF Good
  <2> QED
    BY <2>1, <2>2, <2>3
<1>3. \A k \in 1 .. Len(nothing) : FALSE
  OBVIOUS
<1> HIDE DEF n, nothing
<1>4. /\ DOMAIN G.code = DOMAIN F.code \cup {n} /\ G.code[n] = nothing
      /\ \A d \in DOMAIN F.code : G.code[d] = F.code[d]
  BY <1>1, <1>2 DEF Entered
<1>5. \A d \in DOMAIN F.code : Prefixed(F.code[d], G.code[d])
  BY <1>4, CodeIs DEF Prefixed
<1>6. Grown(F, G)
  BY <1>1, <1>4, <1>5 DEF Grown
<1>7. ASSUME NEW open, Sealed(F, open)  PROVE Sealed(G, open \cup {n})
  <2> SUFFICES ASSUME NEW b \in DOMAIN G.code
               PROVE  IF b \in open \cup {n} THEN Unclosed(G.inst, G.code[b]) ELSE Closed(G.inst, G.code[b])
    BY DEF Sealed
  <2>1. CASE b = n
    BY <1>3, <1>4, <2>1 DEF Unclosed
  <2>2. CASE b # n
    <3>1. b \in DOMAIN F.code /\ G.code[b] = F.code[b] /\ G.inst = F.inst
      BY <1>1, <1>4, <2>2
    <3> QED
      BY <1>7, <2>2, <3>1 DEF Sealed
  <2> QED
    BY <2>1, <2>2
<1> QED
  BY <1>1, <1>2, <1>4, <1>6, <1>7 DEF Opened, n, nothing

(* An instruction goes to the end of an open block; a terminator closes it.*)
Put1(F, G, b, kind, type) ==
  /\ Grown(F, G) /\ G.fault = F.fault /\ G.next = F.next + 1 /\ DOMAIN G.code = DOMAIN F.code
  /\ F.next \in DOMAIN G.inst /\ F.next \notin DOMAIN F.inst
  /\ G.inst[F.next].kind = kind /\ G.inst[F.next].type = type
  /\ \A d \in DOMAIN F.code : d # b => G.code[d] = F.code[d]
  /\ \A open : Sealed(F, open) /\ b \in open =>
       Sealed(G, IF kind \in Terminators THEN open \ {b} ELSE open)

LEMMA InstGrown ==
  ASSUME NEW F, Good(F), NEW b \in DOMAIN F.code, NEW I, NEW G, InstBuilt(F, G, b, I)
  PROVE  Put1(F, G, b, I.kind, I.type)
<1> DEFINE n == F.next
           s == F.code[b]
           t == G.code[b]
<1>1. /\ Good(G) /\ G.fault = F.fault /\ G.next = n + 1
      /\ DOMAIN G.uses = DOMAIN F.uses \cup {n} /\ G.inst = Entered(F.inst, n, I)
      /\ G.code = [F.code EXCEPT ![b] = Append(@, n)]
  BY DEF InstBuilt
<1>2. n \notin DOMAIN F.inst
  <2>1. n \in Nat /\ DOMAIN F.uses \subseteq 1 .. (n - 1)
    BY DEF Good
  <2>2. n \notin 1 .. (n - 1)
    BY <2>1
  <2>3. DOMAIN F.inst \subseteq DOMAIN F.uses
    BY GoodRefs
  <2> QED
    BY <2>1, <2>2, <2>3
<1>3. /\ DOMAIN G.inst = DOMAIN F.inst \cup {n} /\ G.inst[n] = I
      /\ \A u \in DOMAIN F.inst : G.inst[u] = F.inst[u]
  BY <1>1, <1>2 DEF Entered
<1>4. F.code = [d \in DOMAIN F.code |-> F.code[d]]
  BY DEF Good, Housed
<1>5. /\ DOMAIN G.code = DOMAIN F.code /\ t = Append(s, n)
      /\ \A d \in DOMAIN F.code : d # b => G.code[d] = F.code[d]
  BY <1>1, <1>4
<1>6. s \in Seq(DOMAIN F.inst) /\ Len(s) \in Nat /\ \A k \in 1 .. Len(s) : s[k] \in DOMAIN F.inst
  BY CodeIs
<1> HIDE DEF s, t, n
<1>7. Len(t) = Len(s) + 1 /\ \A k \in 1 .. Len(s) + 1 : t[k] = IF k <= Len(s) THEN s[k] ELSE n
  BY <1>5, <1>6
<1>8. Prefixed(s, t)
  <2>1. \A k \in 1 .. Len(s) : k \in 1 .. Len(s) + 1 /\ k <= Len(s)
    BY <1>6
  <2> QED
    BY <1>6, <1>7, <2>1 DEF Prefixed
<1>9. \A d \in DOMAIN F.code : Prefixed(F.code[d], G.code[d])
  <2> TAKE d \in DOMAIN F.code
  <2>1. CASE d = b
    BY <1>8, <2>1 DEF s, t
  <2>2. CASE d # b
    BY <1>5, <2>2, CodeIs DEF Prefixed
  <2> QED
    BY <2>1, <2>2
<1>10. Grown(F, G)
  BY <1>1, <1>3, <1>5, <1>9 DEF Grown
<1>11. SameKinds(F.inst, G.inst, DOMAIN F.inst)
  BY <1>3 DEF SameKinds
<1>12. ASSUME NEW open, Sealed(F, open), b \in open
       PROVE  Sealed(G, IF I.kind \in Terminators THEN open \ {b} ELSE open)
  <2> DEFINE after == IF I.kind \in Terminators THEN open \ {b} ELSE open
  <2> SUFFICES ASSUME NEW d \in DOMAIN F.code
               PROVE  IF d \in after THEN Unclosed(G.inst, G.code[d]) ELSE Closed(G.inst, G.code[d])
    BY <1>5 DEF Sealed
  <2>1. CASE d = b
    <3>1. Unclosed(F.inst, s)
      BY <1>12 DEF Sealed, s
    <3>2. \A k \in 1 .. Len(s) : G.inst[t[k]].kind \notin Terminators
      <4>1. Unclosed(G.inst, s)
        BY <1>6, <1>11, <3>1, ClosedSame
      <4> QED
        BY <1>8, <4>1 DEF Unclosed, Prefixed
    <3>3. G.inst[t[Len(s) + 1]].kind = I.kind
      <4>1. Len(s) + 1 \in 1 .. Len(s) + 1 /\ ~(Len(s) + 1 <= Len(s))
        BY <1>6
      <4> QED
        BY <1>3, <1>7, <4>1
    <3>4. CASE I.kind \in Terminators
      <4>1. Closed(G.inst, t)
        <5>1. Len(t) # 0
          BY <1>6, <1>7
        <5>2. ASSUME NEW k \in 1 .. Len(t)  PROVE (G.inst[t[k]].kind \in Terminators) <=> (k = Len(t))
          <6>1. CASE k = Len(t)
            BY <1>7, <3>3, <3>4, <6>1
          <6>2. CASE k # Len(t)
            <7>1. k \in 1 .. Len(s)
              BY <1>6, <1>7, <6>2
            <7> QED
              BY <3>2, <6>2, <7>1
          <6> QED
            BY <6>1, <6>2
        <5> QED
          BY <5>1, <5>2 DEF Closed
      <4> QED
        BY <2>1, <3>4, <4>1 DEF t
    <3>5. CASE I.kind \notin Terminators
      <4>1. ASSUME NEW k \in 1 .. Len(t)  PROVE G.inst[t[k]].kind \notin Terminators
        <5>1. CASE k = Len(s) + 1
          BY <3>3, <3>5, <5>1
        <5>2. CASE k # Len(s) + 1
          <6>1. k \in 1 .. Len(s)
            BY <1>6, <1>7, <5>2
          <6> QED
            BY <3>2, <6>1
        <5> QED
          BY <5>1, <5>2
      <4>2. Unclosed(G.inst, t)
        BY <4>1 DEF Unclosed
      <4> QED
        BY <1>12, <2>1, <3>5, <4>2 DEF t
    <3> QED
      BY <3>4, <3>5
  <2>2. CASE d # b
    <3>1. G.code[d] = F.code[d] /\ F.code[d] \in Seq(DOMAIN F.inst) /\ (d \in after <=> d \in open)
      BY <1>5, <2>2, CodeIs
    <3>2. IF d \in open THEN Unclosed(F.inst, F.code[d]) ELSE Closed(F.inst, F.code[d])
      BY <1>12 DEF Sealed
    <3> HIDE DEF after
    <3>3. (Closed(F.inst, F.code[d]) => Closed(G.inst, F.code[d]))
          /\ (Unclosed(F.inst, F.code[d]) => Unclosed(G.inst, F.code[d]))
      BY <1>11, <3>1, ClosedSame
    <3> QED
      BY <3>1, <3>2, <3>3
  <2> QED
    BY <2>1, <2>2
<1> QED
  BY <1>1, <1>2, <1>3, <1>5, <1>10, <1>12 DEF Put1, n

(* Phis in an open block that was empty.                                   *)
PhisPut(F, G, b, types, j) ==
  /\ Grown(F, G) /\ G.fault = F.fault /\ G.next = F.next + j /\ DOMAIN G.code = DOMAIN F.code
  /\ \A d \in DOMAIN F.code : d # b => G.code[d] = F.code[d]
  /\ G.code[b] = Run(F.next, j) /\ Phis(G, b) = G.code[b] /\ G.code[b] \in Seq(DOMAIN G.inst)
  /\ Len(G.code[b]) = j
  /\ \A k \in 1 .. j : /\ G.inst[G.code[b][k]].kind = "phi"
                       /\ G.inst[G.code[b][k]].type = types[k]
  /\ \A open : Sealed(F, open) /\ b \in open => Sealed(G, open)

LEMMA PhisGrown ==
  ASSUME NEW F, Good(F), NEW b \in DOMAIN F.code, F.code[b] = <<>>, NEW types, NEW j \in Nat,
         NEW G, PhisBuilt(F, G, b, types, j)
  PROVE  PhisPut(F, G, b, types, j)
<1> DEFINE n == F.next
           t == G.code[b]
           none == <<>>
<1>1. /\ Good(G) /\ G.fault = F.fault /\ G.next = n + j /\ DOMAIN G.uses = DOMAIN F.uses \cup Fresh(F, j)
      /\ DOMAIN G.inst = DOMAIN F.inst \cup Fresh(F, j)
      /\ (\A u \in DOMAIN F.inst : G.inst[u] = F.inst[u])
      /\ (\A k \in 1 .. j : G.inst[n + k - 1].kind = "phi" /\ G.inst[n + k - 1].type = types[k])
      /\ DOMAIN G.code = DOMAIN F.code /\ t = Run(n, j)
      /\ (\A d \in DOMAIN F.code : d # b => G.code[d] = F.code[d])
  BY DEF PhisBuilt
<1>2. n \in Nat
  BY DEF Good
<1>3. none = F.code[b] /\ Len(none) = 0 /\ \A k \in 1 .. Len(none) : FALSE
  OBVIOUS
<1> HIDE DEF n, t, none
<1>4. Len(t) = j /\ DOMAIN t = 1 .. j /\ \A k \in 1 .. j : t[k] = n + k - 1
  BY <1>1, <1>2, RunIs DEF Run
<1>5. \A k \in 1 .. j : G.inst[t[k]].kind = "phi" /\ G.inst[t[k]].type = types[k]
  BY <1>1, <1>4
<1>6. t \in Seq(DOMAIN G.inst)
  BY <1>1, CodeIs DEF t
<1>7. Phis(G, b) = t
  <2>1. \A k \in DOMAIN G.code[b] : G.inst[G.code[b][k]].kind = "phi"
    BY <1>4, <1>5 DEF t
  <2>2. G.code[b] \in Seq(DOMAIN G.inst)
    BY <1>6 DEF t
  <2> QED
    BY <2>1, <2>2, AllPhis DEF t
<1>8. \A d \in DOMAIN F.code : Prefixed(F.code[d], G.code[d])
  <2> TAKE d \in DOMAIN F.code
  <2>1. CASE d = b
    <3>1. F.code[d] = none /\ Len(G.code[d]) = j
      BY <1>3, <1>4, <2>1 DEF t
    <3> QED
      BY <1>3, <3>1 DEF Prefixed
  <2>2. CASE d # b
    BY <1>1, <2>2, CodeIs DEF Prefixed
  <2> QED
    BY <2>1, <2>2
<1>9. Grown(F, G)
  BY <1>1, <1>8 DEF Grown
<1>10. ASSUME NEW open, Sealed(F, open), b \in open  PROVE Sealed(G, open)
  <2> SUFFICES ASSUME NEW d \in DOMAIN F.code
               PROVE  IF d \in open THEN Unclosed(G.inst, G.code[d]) ELSE Closed(G.inst, G.code[d])
    BY <1>1 DEF Sealed
  <2>1. CASE d = b
    <3>1. Unclosed(G.inst, t)
      BY <1>4, <1>5 DEF Unclosed, Terminators, Branches
    <3> QED
      BY <1>10, <2>1, <3>1 DEF t
  <2>2. CASE d # b
    <3>1. G.code[d] = F.code[d] /\ F.code[d] \in Seq(DOMAIN F.inst)
      BY <1>1, <2>2, CodeIs
    <3>2. IF d \in open THEN Unclosed(F.inst, F.code[d]) ELSE Closed(F.inst, F.code[d])
      BY <1>10 DEF Sealed
    <3>3. SameKinds(F.inst, G.inst, DOMAIN F.inst)
      BY <1>1 DEF SameKinds
    <3>4. (Closed(F.inst, F.code[d]) => Closed(G.inst, F.code[d]))
          /\ (Unclosed(F.inst, F.code[d]) => Unclosed(G.inst, F.code[d]))
      BY <3>1, <3>3, ClosedSame
    <3> QED
      BY <3>1, <3>2, <3>4
  <2> QED
    BY <2>1, <2>2
<1> QED
  BY <1>1, <1>4, <1>5, <1>6, <1>7, <1>9, <1>10 DEF PhisPut, n, t

(* Phis whose references change while they are put.                        *)
LEMMA PhisBuiltSet ==
  ASSUME NEW F, NEW b, NEW types, NEW j \in Nat, F.next \in Nat, DOMAIN F.inst \subseteq 1 .. (F.next - 1),
         NEW G, PhisBuilt(F, G, b, types, j),
         NEW phi \in Fresh(F, j), NEW r, NEW H, RefsSet(G, H, phi, r)
  PROVE  PhisBuilt(F, H, b, types, j)
<1>1. /\ Good(H) /\ H.fault = G.fault /\ H.order = G.order /\ H.next = G.next /\ H.code = G.code
      /\ DOMAIN H.uses = DOMAIN G.uses /\ H.inst = Rewired(G.inst, phi, r)
  BY DEF RefsSet
<1>2. Tagged(G.inst) /\ phi \in DOMAIN G.inst /\ phi \notin DOMAIN F.inst
  <2>1. Good(G) /\ phi \in DOMAIN G.inst
    BY DEF PhisBuilt
  <2>2. phi \notin 1 .. (F.next - 1)
    BY DEF Fresh
  <2> QED
    BY <2>1, <2>2, GoodRefs
<1>3. /\ DOMAIN H.inst = DOMAIN G.inst
      /\ \A u \in DOMAIN G.inst : H.inst[u].kind = G.inst[u].kind /\ H.inst[u].type = G.inst[u].type
  BY <1>1, <1>2, RewiredIs
<1>4. \A u \in DOMAIN F.inst : H.inst[u] = F.inst[u]
  <2> TAKE u \in DOMAIN F.inst
  <2>1. u # phi /\ u \in DOMAIN G.inst /\ G.inst[u] = F.inst[u]
    BY <1>2 DEF PhisBuilt
  <2>2. H.inst[u] = G.inst[u]
    BY <1>1, <2>1 DEF Rewired
  <2> QED
    BY <2>1, <2>2
<1>5. ASSUME NEW k \in 1 .. j
      PROVE  H.inst[F.next + k - 1].kind = "phi" /\ H.inst[F.next + k - 1].type = types[k]
  <2>1. F.next + k - 1 \in Fresh(F, j)
    BY DEF Fresh
  <2>2. F.next + k - 1 \in DOMAIN G.inst
    BY <2>1 DEF PhisBuilt
  <2> QED
    BY <1>3, <2>2 DEF PhisBuilt
<1> QED
  BY <1>1, <1>3, <1>4, <1>5 DEF PhisBuilt

(* Other references in the phis.                                           *)
Resting(F, G) ==
  /\ Grown(F, G) /\ G.next = F.next /\ G.code = F.code /\ DOMAIN G.inst = DOMAIN F.inst
  /\ \A open : Sealed(F, open) => Sealed(G, open)

LEMMA RetunedGrown ==
  ASSUME NEW F, Good(F), NEW G, Retuned(F, G)
  PROVE  Resting(F, G)
<1>1. /\ Good(G) /\ G.next = F.next /\ G.code = F.code /\ DOMAIN G.inst = DOMAIN F.inst
      /\ DOMAIN G.uses = DOMAIN F.uses
      /\ \A u \in DOMAIN F.inst : G.inst[u].kind = F.inst[u].kind /\ G.inst[u].type = F.inst[u].type
  BY DEF Retuned
<1>2. \A d \in DOMAIN F.code : Prefixed(F.code[d], G.code[d])
  BY <1>1, CodeIs DEF Prefixed
<1>3. Grown(F, G)
  BY <1>1, <1>2 DEF Grown
<1>4. F.code \in [DOMAIN F.code -> Seq(DOMAIN F.inst)] /\ SameKinds(F.inst, G.inst, DOMAIN F.inst)
  BY <1>1 DEF Good, Housed, SameKinds
<1>5. ASSUME NEW open, Sealed(F, open)  PROVE Sealed(G, open)
  <2> DEFINE I == DOMAIN F.inst
  <2>1. F.code \in [DOMAIN F.code -> Seq(I)] /\ SameKinds(F.inst, G.inst, I) /\ G.code = F.code
    BY <1>1, <1>4
  <2> HIDE DEF I
  <2> QED
    BY <1>5, <2>1, SealedSame
<1> QED
  BY <1>1, <1>3, <1>5 DEF Resting

Failed(F, v) == [F EXCEPT !.fault = v]

LEMMA SixFault ==
  ASSUME NEW o, NEW c, NEW i, NEW u, NEW f, NEW x, NEW v
  PROVE  [Six(o, c, i, u, f, x) EXCEPT !.fault = v] = Six(o, c, i, u, v, x)
BY DEF Six

LEMMA FailedRetuned ==
  ASSUME NEW F, Good(F), NEW v \in BOOLEAN
  PROVE  Retuned(F, Failed(F, v))
<1> DEFINE H == Failed(F, v)
<1>1. Formed(F) /\ Linked(F, {})
  BY GoodRefs DEF Good
<1> DEFINE o == F.order
           c == F.code
           i == F.inst
           u == F.uses
           f == F.fault
           x == F.next
<1>2. F = Six(o, c, i, u, f, x)
  BY <1>1 DEF Formed, Relinked, Six
<1> HIDE DEF o, c, i, u, f, x
<1>21. [Six(o, c, i, u, f, x) EXCEPT !.fault = v] = Six(o, c, i, u, v, x)
  BY SixFault
<1>22. H = Six(o, c, i, u, v, x)
  BY <1>2, <1>21 DEF Failed
<1> HIDE DEF H
<1>23. /\ H.order = o /\ H.code = c /\ H.inst = i /\ H.uses = u
       /\ H.fault = v /\ H.next = x
       /\ F.order = o /\ F.code = c /\ F.inst = i /\ F.uses = u /\ F.next = x
  BY <1>2, <1>22 DEF Six
<1>3. /\ H.order = F.order /\ H.code = F.code /\ H.inst = F.inst /\ H.uses = F.uses
      /\ H.fault = v /\ H.next = F.next /\ Formed(H)
  BY <1>22, <1>23 DEF Formed, Relinked, Six
<1>4. Linked(H, {})
  <2>1. Held(H, {}) = Held(F, {})
    BY <1>3 DEF Held
  <2>2. Used(H, DOMAIN H.uses)
    BY <1>1, <1>3 DEF Linked, Used
  <2> QED
    BY <1>1, <1>3, <2>1, <2>2 DEF Linked
<1>5. Good(H)
  BY <1>3, <1>4 DEF Good
<1> QED
  BY <1>3, <1>5 DEF Retuned, H

LEMMA RetunedSet ==
  ASSUME NEW F, NEW G, Retuned(F, G), NEW phi \in DOMAIN F.inst, F.inst[phi].kind = "phi",
         NEW H, NEW r, RefsSet(G, H, phi, r)
  PROVE  Retuned(F, H) /\ H.fault = G.fault
<1>1. /\ Good(H) /\ H.fault = G.fault /\ H.order = G.order /\ H.next = G.next /\ H.code = G.code
      /\ DOMAIN H.uses = DOMAIN G.uses /\ H.inst = Rewired(G.inst, phi, r)
  BY DEF RefsSet
<1>2. Tagged(G.inst) /\ phi \in DOMAIN G.inst /\ DOMAIN G.inst = DOMAIN F.inst
  BY GoodRefs DEF Retuned
<1>3. /\ DOMAIN H.inst = DOMAIN G.inst
      /\ \A u \in DOMAIN G.inst : /\ H.inst[u].kind = G.inst[u].kind /\ H.inst[u].type = G.inst[u].type
                                  /\ H.inst[u].refs = IF u = phi THEN r ELSE G.inst[u].refs
  BY <1>1, <1>2, RewiredIs
<1> QED
  BY <1>1, <1>2, <1>3 DEF Retuned

LEMMA RetunedTwice ==
  ASSUME NEW F, NEW G, NEW H, Retuned(F, G), Retuned(G, H)
  PROVE  Retuned(F, H)
BY DEF Retuned

(* The empty function.                                                     *)
LEMMA EmptyGood ==
  /\ Good(EmptyFunction) /\ EmptyFunction.fault = FALSE /\ EmptyFunction.next = 1
  /\ DOMAIN EmptyFunction.code = {} /\ DOMAIN EmptyFunction.inst = {}
  /\ \A open : Sealed(EmptyFunction, open)
<1> DEFINE E == EmptyFunction
           none == <<>>
<1>1. /\ E.order = none /\ E.code = none /\ E.inst = none /\ E.uses = none /\ E.fault = FALSE /\ E.next = 1
      /\ Formed(E)
  BY DEF EmptyFunction, Formed, Relinked
<1>2. DOMAIN none = {} /\ none = [x \in {} |-> x] /\ none \in Seq({})
  OBVIOUS
<1> HIDE DEF E, none
<1>3. Linked(E, {})
  <2>1. Used(E, DOMAIN E.uses)
    BY <1>1, <1>2 DEF Used
  <2>2. Tagged(E.inst)
    BY <1>1, <1>2 DEF Tagged
  <2>3. Listed(E.uses, DOMAIN E.uses, Held(E, {}))
    BY <1>1, <1>2 DEF Listed, Held
  <2> QED
    BY <1>1, <2>1, <2>2, <2>3 DEF Linked
<1>4. Housed(E.code, DOMAIN E.inst) /\ Rowed(E.order, DOMAIN E.code) /\ Aimed(E.inst, DOMAIN E.code) /\ Sided(E.inst)
  BY <1>1, <1>2 DEF Housed, Rowed, Aimed, Sided
<1>5. Good(E)
  BY <1>1, <1>2, <1>3, <1>4 DEF Good
<1> QED
  BY <1>1, <1>2, <1>5 DEF Sealed, E

-----------------------------------------------------------------------------
(* Phis and flow.  The references r name b; u sits in the block b; c       *)
(* branches to b; a phi with the references r has a candidate for the path *)
(* c.                                                                      *)
Names(r, b)   == \E k \in 1 .. Len(r) : r[k] = b
Sits(F, b, u) == Names(F.code[b], u)
Comes(F, c, b) ==
  /\ c \in DOMAIN F.code
  /\ \E u \in DOMAIN F.inst : F.inst[u].kind \in Branches /\ Names(F.inst[u].refs, b) /\ Sits(F, c, u)
Through(r, c) == \E k \in 1 .. Len(r) : k % 2 = 0 /\ r[k] = c

(* Where a value is expected there is no block.                            *)
Valued(F) ==
  \A u \in DOMAIN F.inst : \A k \in 1 .. Len(F.inst[u].refs) :
    k \in Values(F.inst[u]) => F.inst[u].refs[k] \notin DOMAIN F.code

(* The phi u of b has a candidate for the blocks that branch to b; or it   *)
(* has strayed, after a br_table that named its block twice.               *)
Meets(F, b, u) ==
  /\ Len(F.inst[u].refs) % 2 = 0
  /\ \A c : Through(F.inst[u].refs, c) <=> Comes(F, c, b)
Strays(F, b, u) ==
  /\ Len(F.inst[u].refs) % 2 = 0 /\ Len(F.inst[u].refs) >= 4
  /\ \A c : Through(F.inst[u].refs, c) <=> c = b
Matched(F) ==
  \A b \in DOMAIN F.code : \A u \in DOMAIN F.inst :
    F.inst[u].kind = "phi" /\ Sits(F, b, u) => Meets(F, b, u)
Loose(F) ==
  \A b \in DOMAIN F.code : \A u \in DOMAIN F.inst :
    F.inst[u].kind = "phi" /\ Sits(F, b, u) => Meets(F, b, u) \/ Strays(F, b, u)

LEMMA SitsIs ==
  ASSUME NEW F, Good(F), NEW b \in DOMAIN F.code, NEW u
  PROVE  /\ Sits(F, b, u) => u \in DOMAIN F.inst
         /\ u \in DOMAIN F.inst => (Sits(F, b, u) <=> Contains(F.code[b], u))
         /\ u \in DOMAIN F.inst => (Sits(F, b, u) <=> b = Parent(F, u))
<1>1. F.code[b] \in Seq(DOMAIN F.inst) /\ Housed(F.code, DOMAIN F.inst)
  BY DEF Good, Housed
<1>2. Sits(F, b, u) => u \in DOMAIN F.inst
  BY <1>1, ElementOfSeq DEF Sits, Names
<1>3. Sits(F, b, u) <=> Contains(F.code[b], u)
  <2>1. Contains(F.code[b], u) <=> Times(F.code[b], u) # 0
    BY <1>1, TimesCounted
  <2>2. Times(F.code[b], u) = 0 <=> \A k \in 1 .. Len(F.code[b]) : F.code[b][k] # u
    BY <1>1, TimesCounted
  <2> QED
    BY <2>1, <2>2 DEF Sits, Names
<1>4. ASSUME u \in DOMAIN F.inst  PROVE Contains(F.code[b], u) <=> b = Parent(F, u)
  BY <1>1, <1>4, ParentIs
<1> QED
  BY <1>2, <1>3, <1>4

LEMMA InwardIs ==
  ASSUME NEW F, Good(F), NEW b \in DOMAIN F.code
  PROVE  getInwardFlow(F, b) = {c \in DOMAIN F.code : Comes(F, c, b)}
<1>1. Linked(F, {}) /\ b \in DOMAIN F.uses /\ Housed(F.code, DOMAIN F.inst)
  BY DEF Good
<1>2. ASSUME NEW u
      PROVE  u \in BranchUsers(F, b) <=> u \in DOMAIN F.inst /\ F.inst[u].kind \in Branches /\ Names(F.inst[u].refs, b)
  <2>1. u \in ToSet(F.uses[b]) <=> /\ u \in DOMAIN F.inst \ {}
                                   /\ \E p \in 1 .. Len(F.inst[u].refs) : F.inst[u].refs[p] = b
    BY <1>1, UsersAre
  <2> QED
    BY <2>1 DEF BranchUsers, Names
<1>3. ASSUME NEW u \in DOMAIN F.inst
      PROVE  Parent(F, u) \in DOMAIN F.code /\ \A c \in DOMAIN F.code : Sits(F, c, u) <=> c = Parent(F, u)
  <2>1. Parent(F, u) \in DOMAIN F.code
    BY <1>1, ParentIs
  <2>2. ASSUME NEW c \in DOMAIN F.code  PROVE Sits(F, c, u) <=> c = Parent(F, u)
    BY SitsIs
  <2> QED
    BY <2>1, <2>2
<1> QED
  BY <1>2, <1>3 DEF getInwardFlow, Comes

(* A reference that is swapped for another.                                *)
LEMMA SwappedNames ==
  ASSUME NEW M, NEW r \in Seq(M), NEW old, NEW new
  PROVE  LET t == Swapped(r, old, new) IN
         /\ Len(t) = Len(r) /\ Len(r) \in Nat
         /\ DOMAIN t = DOMAIN r /\ DOMAIN r = 1 .. Len(r)
         /\ \A k \in 1 .. Len(r) : t[k] = IF r[k] = old THEN new ELSE r[k]
         /\ \A b : b # old /\ b # new => (Names(t, b) <=> Names(r, b))
         /\ \A B : old \notin B /\ new \notin B /\ (\A c : Through(r, c) => c \in B)
              => \A c : Through(t, c) <=> Through(r, c)
<1> DEFINE t == Swapped(r, old, new)
<1>1. Len(r) \in Nat /\ DOMAIN r = 1 .. Len(r)
  BY LenProperties
<1>2. t = [k \in 1 .. Len(r) |-> IF r[k] = old THEN new ELSE r[k]]
  BY DEF Swapped
<1> HIDE DEF t
<1>3. Len(t) = Len(r) /\ DOMAIN t = 1 .. Len(r)
  BY <1>1, <1>2
<1>4. \A k \in 1 .. Len(r) : t[k] = IF r[k] = old THEN new ELSE r[k]
  BY <1>2
<1>5. \A b : b # old /\ b # new => (Names(t, b) <=> Names(r, b))
  BY <1>3, <1>4 DEF Names
<1>6. ASSUME NEW B, old \notin B, new \notin B, \A c : Through(r, c) => c \in B
      PROVE  \A c : Through(t, c) <=> Through(r, c)
  <2>1. \A k \in 1 .. Len(r) : k % 2 = 0 => r[k] \in B
    BY <1>6 DEF Through
  <2>2. \A k \in 1 .. Len(r) : k % 2 = 0 => t[k] = r[k]
    BY <1>4, <1>6, <2>1
  <2> QED
    BY <1>3, <2>2 DEF Through
<1> QED
  BY <1>1, <1>3, <1>4, <1>5, <1>6 DEF t

(* Nothing about blocks changes: references to one node that is none go to *)
(* another, and an instruction that is no branch may go.                   *)
Swept(F, H, D, old, new) ==
  /\ DOMAIN H.code = DOMAIN F.code /\ D \subseteq DOMAIN F.inst
  /\ old \notin DOMAIN F.code /\ new \notin DOMAIN F.code
  /\ Swaps(F.inst, H.inst, D, old, new)
  /\ \A u \in DOMAIN F.inst \ D : F.inst[u].kind \notin Branches
  /\ \A b \in DOMAIN F.code : \A u \in D : Sits(H, b, u) <=> Sits(F, b, u)

LEMMA SweptComes ==
  ASSUME NEW F, Good(F), NEW H, NEW D, NEW old, NEW new, Swept(F, H, D, old, new),
         NEW b \in DOMAIN F.code, NEW c
  PROVE  Comes(H, c, b) <=> Comes(F, c, b)
<1>1. /\ DOMAIN H.inst = D /\ D \subseteq DOMAIN F.inst /\ b # old /\ b # new /\ DOMAIN H.code = DOMAIN F.code
      /\ \A u \in D : H.inst[u].kind = F.inst[u].kind /\ H.inst[u].refs = Swapped(F.inst[u].refs, old, new)
  BY DEF Swept, Swaps
<1>2. ASSUME NEW u \in D  PROVE Names(H.inst[u].refs, b) <=> Names(F.inst[u].refs, b)
  <2>1. F.inst[u].refs \in Seq(DOMAIN F.uses \cup {Nil})
    BY <1>1, GoodRefs
  <2>2. H.inst[u].refs = Swapped(F.inst[u].refs, old, new)
    BY <1>1
  <2> QED
    BY <1>1, <2>1, <2>2, SwappedNames
<1>3. \A u \in DOMAIN F.inst : F.inst[u].kind \in Branches => u \in D
  BY DEF Swept
<1>4. \A u \in D : c \in DOMAIN F.code => (Sits(H, c, u) <=> Sits(F, c, u))
  BY DEF Swept
<1> QED
  BY <1>1, <1>2, <1>3, <1>4 DEF Comes

(* The paths of a phi are blocks.                                          *)
LEMMA PathsAre ==
  ASSUME NEW F, NEW b \in DOMAIN F.code, NEW u, Meets(F, b, u) \/ Strays(F, b, u)
  PROVE  /\ \A c : Through(F.inst[u].refs, c) => c \in DOMAIN F.code
         /\ Len(F.inst[u].refs) % 2 = 0
BY DEF Meets, Strays, Comes

LEMMA SweptKeeps ==
  ASSUME NEW F, Good(F), Valued(F), Loose(F), NEW H, NEW D, NEW old, NEW new, Swept(F, H, D, old, new)
  PROVE  Valued(H) /\ Loose(H)
<1>1. /\ DOMAIN H.inst = D /\ D \subseteq DOMAIN F.inst /\ DOMAIN H.code = DOMAIN F.code
      /\ old \notin DOMAIN F.code /\ new \notin DOMAIN F.code
      /\ \A u \in D : H.inst[u].kind = F.inst[u].kind /\ H.inst[u].refs = Swapped(F.inst[u].refs, old, new)
      /\ \A b \in DOMAIN F.code : \A u \in D : Sits(H, b, u) <=> Sits(F, b, u)
  BY DEF Swept, Swaps
<1>2. ASSUME NEW u \in D
      PROVE  /\ Len(H.inst[u].refs) = Len(F.inst[u].refs) /\ DOMAIN H.inst[u].refs = DOMAIN F.inst[u].refs
             /\ DOMAIN F.inst[u].refs = 1 .. Len(F.inst[u].refs)
             /\ \A k \in 1 .. Len(F.inst[u].refs) :
                  H.inst[u].refs[k] = IF F.inst[u].refs[k] = old THEN new ELSE F.inst[u].refs[k]
             /\ (\A c : Through(F.inst[u].refs, c) => c \in DOMAIN F.code)
                  => \A c : Through(H.inst[u].refs, c) <=> Through(F.inst[u].refs, c)
  <2>1. F.inst[u].refs \in Seq(DOMAIN F.uses \cup {Nil})
    BY <1>1, GoodRefs
  <2>2. H.inst[u].refs = Swapped(F.inst[u].refs, old, new)
    BY <1>1
  <2> DEFINE r == F.inst[u].refs
             B == DOMAIN F.code
  <2>3. r \in Seq(DOMAIN F.uses \cup {Nil}) /\ old \notin B /\ new \notin B /\ H.inst[u].refs = Swapped(r, old, new)
    BY <1>1, <2>1, <2>2
  <2> HIDE DEF r, B
  <2>4. LET t == Swapped(r, old, new) IN
        /\ Len(t) = Len(r) /\ DOMAIN t = DOMAIN r /\ DOMAIN r = 1 .. Len(r)
        /\ \A k \in 1 .. Len(r) : t[k] = IF r[k] = old THEN new ELSE r[k]
        /\ (\A c : Through(r, c) => c \in B) => \A c : Through(t, c) <=> Through(r, c)
    BY <2>3, SwappedNames
  <2> QED
    BY <2>3, <2>4 DEF r, B
<1>3. Valued(H)
  <2> SUFFICES ASSUME NEW u \in D, NEW k \in 1 .. Len(H.inst[u].refs), k \in Values(H.inst[u])
               PROVE  H.inst[u].refs[k] \notin DOMAIN F.code
    BY <1>1 DEF Valued
  <2>1. Values(H.inst[u]) = Values(F.inst[u])
    BY <1>1, <1>2, ValuesSame
  <2>2. k \in 1 .. Len(F.inst[u].refs) /\ F.inst[u].refs[k] \notin DOMAIN F.code
    BY <1>1, <1>2, <2>1 DEF Valued
  <2> QED
    BY <1>1, <1>2, <2>2
<1>4. Loose(H)
  <2> SUFFICES ASSUME NEW b \in DOMAIN F.code, NEW u \in D, H.inst[u].kind = "phi", Sits(H, b, u)
               PROVE  Meets(H, b, u) \/ Strays(H, b, u)
    BY <1>1 DEF Loose
  <2>1. Meets(F, b, u) \/ Strays(F, b, u)
    BY <1>1 DEF Loose
  <2>2. /\ \A c : Through(H.inst[u].refs, c) <=> Through(F.inst[u].refs, c)
        /\ Len(H.inst[u].refs) = Len(F.inst[u].refs)
    BY <1>2, <2>1, PathsAre
  <2>3. \A c : Comes(H, c, b) <=> Comes(F, c, b)
    BY SweptComes
  <2> QED
    BY <2>1, <2>2, <2>3 DEF Meets, Strays
<1> QED
  BY <1>3, <1>4

(* What else a list has when one place of it is dropped.                   *)
LEMMA DroppedSame ==
  ASSUME NEW s, NEW t, NEW p, Len(s) \in Nat, Drops(s, t, p), NEW u, u # s[p]
  PROVE  Names(t, u) <=> Names(s, u)
<1>1. /\ p \in 1 .. Len(s) /\ Len(t) = Len(s) - 1
      /\ \A k \in 1 .. Len(t) : t[k] = IF k < p THEN s[k] ELSE s[k + 1]
  BY DEF Drops
<1>2. ASSUME NEW k \in 1 .. Len(t), t[k] = u  PROVE \E j \in 1 .. Len(s) : s[j] = u
  <2>1. CASE k < p
    BY <1>1, <1>2, <2>1
  <2>2. CASE ~(k < p)
    <3>1. k + 1 \in 1 .. Len(s) /\ s[k + 1] = u
      BY <1>1, <1>2, <2>2
    <3> QED
      BY <3>1
  <2> QED
    BY <2>1, <2>2
<1>3. ASSUME NEW k \in 1 .. Len(s), s[k] = u  PROVE \E j \in 1 .. Len(t) : t[j] = u
  <2>1. CASE k < p
    BY <1>1, <1>3, <2>1
  <2>2. CASE k > p
    <3>1. k - 1 \in 1 .. Len(t) /\ ~(k - 1 < p) /\ (k - 1) + 1 = k
      BY <1>1, <2>2
    <3>2. t[k - 1] = u
      BY <1>1, <1>3, <3>1
    <3> QED
      BY <3>1, <3>2
  <2> QED
    BY <1>1, <1>3, <2>1, <2>2
<1> QED
  BY <1>2, <1>3 DEF Names

(* Erasing an instruction that is no terminator.                           *)
LEMMA ErasedFlow ==
  ASSUME NEW F, Good(F), Valued(F), Loose(F), F.fault = FALSE,
         NEW i \in DOMAIN F.inst, F.inst[i].kind \notin Terminators
  PROVE  LET H == eraseInst(F, i) IN Valued(H) /\ Loose(H)
<1> DEFINE H == eraseInst(F, i)
           I == DOMAIN F.inst
           q == Parent(F, i)
<1>1. Erasing(F, H, i)
  BY ErasedInst
<1> HIDE DEF H
<1>2. /\ DOMAIN H.code = DOMAIN F.code
      /\ \A d \in DOMAIN F.code : d # q => H.code[d] = F.code[d]
      /\ \E p : F.code[q][p] = i /\ Drops(F.code[q], H.code[q], p)
  BY <1>1, ErasedAt
<1>3. Swaps(F.inst, H.inst, I \ {i}, i, Nil)
  BY <1>1 DEF Erasing
<1>4. i \notin DOMAIN F.code /\ Nil \notin DOMAIN F.code
  BY GoodRefs DEF Good
<1>5. ASSUME NEW b \in DOMAIN F.code, NEW u \in I \ {i}  PROVE Sits(H, b, u) <=> Sits(F, b, u)
  <2>1. CASE b # q
    BY <1>2, <2>1 DEF Sits, Names
  <2>2. CASE b = q
    <3>1. PICK p : F.code[q][p] = i /\ Drops(F.code[q], H.code[q], p)
      BY <1>2
    <3> DEFINE s == F.code[q]
               t == H.code[q]
    <3>2. Len(s) \in Nat
      BY <2>2, CodeIs
    <3>3. Drops(s, t, p) /\ u # s[p]
      BY <3>1
    <3> HIDE DEF s, t
    <3>4. Names(t, u) <=> Names(s, u)
      BY <3>2, <3>3, DroppedSame
    <3> QED
      BY <2>2, <3>4 DEF Sits, s, t
  <2> QED
    BY <2>1, <2>2
<1>6. F.inst[i].kind \notin Branches
  BY DEF Terminators
<1>7. Swept(F, H, I \ {i}, i, Nil)
  BY <1>2, <1>3, <1>4, <1>5, <1>6 DEF Swept
<1>8. Valued(H) /\ Loose(H)
  BY <1>7, SweptKeeps
<1> QED
  BY <1>8 DEF H

(* simplifyTrivialPhi.                                                     *)
LEMMA TrivialPhiFlow ==
  ASSUME NEW F, Steady(F), Valued(F), Loose(F), NEW b \in DOMAIN F.code, HasTrivialPhi(F, b)
  PROVE  LET H == simplifyTrivialPhi(F, b) IN Valued(H) /\ Loose(H)
<1> DEFINE phi == Head(TrivialPhis(F, b))
           v == F.inst[phi].refs[1]
           R == replaceAllUseWith(F, phi, v)
           I == DOMAIN F.inst
<1>1. TrivialPhi(F, phi)
  BY TrivialPhiIs
<1> HIDE DEF phi
<1>2. phi \in I /\ F.inst[phi].kind = "phi" /\ Len(F.inst[phi].refs) = 2 /\ Replacing(F, R, phi, v)
  BY <1>1 DEF TrivialPhi
<1> HIDE DEF R
<1>3. Good(R) /\ R.fault = FALSE /\ R.code = F.code /\ Swaps(F.inst, R.inst, I, phi, v)
  BY <1>2 DEF Replacing
<1>4. Good(F) /\ phi \notin DOMAIN F.code
  BY <1>2 DEF Steady, Good
<1>5. v \notin DOMAIN F.code
  <2>1. 1 \in 1 .. Len(F.inst[phi].refs)
    BY <1>2
  <2>2. F.inst[phi].refs \in Seq(DOMAIN F.uses \cup {Nil})
    BY <1>2, <1>4, GoodRefs
  <2>3. 1 \in Values(F.inst[phi])
    BY <1>2, <2>1, <2>2 DEF Values
  <2> QED
    BY <1>2, <2>1, <2>3 DEF Valued
<1> HIDE DEF v
<1>6. Swept(F, R, I, phi, v)
  BY <1>3, <1>4, <1>5 DEF Swept, Sits
<1>7. Valued(R) /\ Loose(R)
  BY <1>4, <1>6, SweptKeeps
<1>8. phi \in DOMAIN R.inst /\ R.inst[phi].kind \notin Terminators
  <2>1. phi \in DOMAIN R.inst /\ R.inst[phi].kind = "phi"
    BY <1>2, <1>3 DEF Swaps
  <2> QED
    BY <2>1 DEF Terminators, Branches
<1>9. LET H == eraseInst(R, phi) IN Valued(H) /\ Loose(H)
  BY <1>3, <1>7, <1>8, ErasedFlow
<1> QED
  BY <1>9 DEF simplifyTrivialPhi, R, v, phi

(* deadInstructionElem.                                                    *)
LEMMA DeadInstructionFlow ==
  ASSUME NEW F, Steady(F), Valued(F), Loose(F), NEW b \in DOMAIN F.code, HasDeadInstruction(F, b)
  PROVE  LET H == deadInstructionElem(F, b) IN Valued(H) /\ Loose(H)
BY DeadInstructionIs, ErasedFlow DEF deadInstructionElem, Steady

-----------------------------------------------------------------------------
(* The phis outside b have forgotten b.                                    *)
Lax(F, b) ==
  \A d \in DOMAIN F.code \ {b} : \A u \in DOMAIN F.inst :
    F.inst[u].kind = "phi" /\ Sits(F, d, u) =>
      \/ /\ Len(F.inst[u].refs) % 2 = 0
         /\ \A c : Through(F.inst[u].refs, c) <=> Comes(F, c, d) /\ c # b
      \/ Strays(F, d, u)

LEMMA LooseLax ==
  ASSUME NEW F, Loose(F), NEW b, \A d \in DOMAIN F.code \ {b} : ~Comes(F, b, d)
  PROVE  Lax(F, b)
<1> SUFFICES ASSUME NEW d \in DOMAIN F.code \ {b}, NEW u \in DOMAIN F.inst,
                    F.inst[u].kind = "phi", Sits(F, d, u), ~Strays(F, d, u)
             PROVE  /\ Len(F.inst[u].refs) % 2 = 0
                    /\ \A c : Through(F.inst[u].refs, c) <=> Comes(F, c, d) /\ c # b
  BY DEF Lax
<1>1. Meets(F, d, u)
  BY DEF Loose
<1> QED
  BY <1>1 DEF Meets

LEMMA BlockErasedFlow ==
  ASSUME NEW F, Good(F), Valued(F), NEW b \in DOMAIN F.code, Lax(F, b), NEW H, BlockErasing(F, H, b)
  PROVE  Valued(H) /\ Loose(H)
<1> DEFINE B == DOMAIN F.code
           C == DOMAIN H.code
           gone == ToSet(F.code[b]) \cup {b}
<1>1. /\ DOMAIN H.inst = DOMAIN F.inst \ ToSet(F.code[b]) /\ DOMAIN H.uses = DOMAIN F.uses \ gone
      /\ C = B \ {b} /\ \A d \in C : H.code[d] = F.code[d]
      /\ Nulled(F, H) /\ Good(H)
  BY DEF BlockErasing
<1>2. Nil \notin B /\ B \subseteq DOMAIN F.uses
  BY GoodRefs DEF Good
<1>3. C \subseteq DOMAIN H.uses
  BY <1>1 DEF Good
<1>4. ASSUME NEW u \in DOMAIN H.inst
      PROVE  /\ u \in DOMAIN F.inst /\ H.inst[u].kind = F.inst[u].kind
             /\ Len(H.inst[u].refs) = Len(F.inst[u].refs)
             /\ \A k \in 1 .. Len(F.inst[u].refs) :
                  /\ H.inst[u].refs[k] = F.inst[u].refs[k] \/ H.inst[u].refs[k] = Nil
                  /\ F.inst[u].refs[k] \in C => H.inst[u].refs[k] = F.inst[u].refs[k]
             /\ Values(H.inst[u]) = Values(F.inst[u])
  <2>1. /\ u \in DOMAIN F.inst /\ H.inst[u].kind = F.inst[u].kind
        /\ Len(H.inst[u].refs) = Len(F.inst[u].refs)
        /\ \A k \in 1 .. Len(F.inst[u].refs) :
             H.inst[u].refs[k] = IF F.inst[u].refs[k] \in DOMAIN F.uses \ DOMAIN H.uses THEN Nil
                                 ELSE F.inst[u].refs[k]
    BY <1>1 DEF Nulled
  <2>2. \A k \in 1 .. Len(F.inst[u].refs) :
          /\ H.inst[u].refs[k] = F.inst[u].refs[k] \/ H.inst[u].refs[k] = Nil
          /\ F.inst[u].refs[k] \in C => H.inst[u].refs[k] = F.inst[u].refs[k]
    BY <1>3, <2>1
  <2>3. /\ F.inst[u].refs \in Seq(DOMAIN F.uses \cup {Nil})
        /\ H.inst[u].refs \in Seq(DOMAIN H.uses \cup {Nil})
    BY <1>1, <2>1, GoodRefs
  <2>4. DOMAIN F.inst[u].refs = 1 .. Len(F.inst[u].refs) /\ DOMAIN H.inst[u].refs = 1 .. Len(H.inst[u].refs)
    BY <2>3, LenProperties
  <2>5. Values(H.inst[u]) = Values(F.inst[u])
    BY <2>1, <2>4, ValuesSame
  <2> QED
    BY <2>1, <2>2, <2>5
<1> HIDE DEF B, C, gone
<1>5. Valued(H)
  <2> SUFFICES ASSUME NEW u \in DOMAIN H.inst, NEW k \in 1 .. Len(H.inst[u].refs), k \in Values(H.inst[u])
               PROVE  H.inst[u].refs[k] \notin C
    BY DEF Valued, C
  <2>1. k \in 1 .. Len(F.inst[u].refs) /\ F.inst[u].refs[k] \notin B
    BY <1>4 DEF Valued, B
  <2> QED
    BY <1>1, <1>2, <1>4, <2>1
<1>6. ASSUME NEW d \in C, NEW c \in C  PROVE Comes(H, c, d) <=> Comes(F, c, d)
  <2>1. c \in B /\ c # b /\ d \in B /\ d # Nil
    BY <1>1, <1>2
  <2>2. \A u : Sits(H, c, u) <=> Sits(F, c, u)
    BY <1>1 DEF Sits, Names
  <2>3. ASSUME NEW u \in DOMAIN F.inst, Sits(F, c, u)  PROVE u \in DOMAIN H.inst
    <3>1. c = Parent(F, u)
      BY <2>1, <2>3, SitsIs DEF B
    <3>2. b # Parent(F, u)
      BY <2>1, <3>1
    <3>3. ~Sits(F, b, u)
      BY <3>2, SitsIs
    <3>4. F.code[b] \in Seq(DOMAIN F.inst)
      BY CodeIs
    <3>5. u \notin ToSet(F.code[b])
      BY <3>3, <3>4 DEF ToSet, Sits, Names
    <3> QED
      BY <1>1, <3>5
  <2>4. ASSUME NEW u \in DOMAIN H.inst
        PROVE  Names(H.inst[u].refs, d) <=> Names(F.inst[u].refs, d)
    BY <1>4, <2>1 DEF Names
  <2>5. \A u \in DOMAIN H.inst : u \in DOMAIN F.inst /\ H.inst[u].kind = F.inst[u].kind
    BY <1>4
  <2>6. c \in DOMAIN H.code /\ c \in DOMAIN F.code
    BY <2>1 DEF C, B
  <2> QED
    BY <2>2, <2>3, <2>4, <2>5, <2>6 DEF Comes
<1>7. Loose(H)
  <2> SUFFICES ASSUME NEW d \in C, NEW u \in DOMAIN H.inst, H.inst[u].kind = "phi", Sits(H, d, u)
               PROVE  Meets(H, d, u) \/ Strays(H, d, u)
    BY DEF Loose, C
  <2>1. /\ d \in B \ {b} /\ u \in DOMAIN F.inst /\ F.inst[u].kind = "phi" /\ Sits(F, d, u)
        /\ Len(H.inst[u].refs) = Len(F.inst[u].refs)
    BY <1>1, <1>4 DEF Sits, Names
  <2>2. \/ /\ Len(F.inst[u].refs) % 2 = 0
           /\ \A c : Through(F.inst[u].refs, c) <=> Comes(F, c, d) /\ c # b
        \/ Strays(F, d, u)
    BY <2>1 DEF Lax, B
  <2>3. \A c : Through(F.inst[u].refs, c) => c \in C
    BY <1>1, <2>1, <2>2 DEF Strays, Comes, B
  <2>4. \A c : Through(H.inst[u].refs, c) <=> Through(F.inst[u].refs, c)
    <3>1. \A k \in 1 .. Len(F.inst[u].refs) : k % 2 = 0 => F.inst[u].refs[k] \in C
      BY <2>3 DEF Through
    <3>2. \A k \in 1 .. Len(F.inst[u].refs) : k % 2 = 0 => H.inst[u].refs[k] = F.inst[u].refs[k]
      BY <1>4, <3>1
    <3> QED
      BY <2>1, <3>2 DEF Through
  <2>5. CASE /\ Len(F.inst[u].refs) % 2 = 0
             /\ \A c : Through(F.inst[u].refs, c) <=> Comes(F, c, d) /\ c # b
    <3>1. \A c : Comes(H, c, d) => c \in C
      BY DEF Comes, C
    <3>2. \A c : Comes(F, c, d) /\ c # b => c \in C
      BY <1>1 DEF Comes, B
    <3>3. \A c : Comes(H, c, d) <=> Comes(F, c, d) /\ c # b
      BY <1>1, <1>6, <3>1, <3>2
    <3>4. Meets(H, d, u)
      BY <2>1, <2>4, <2>5, <3>3 DEF Meets
    <3> QED
      BY <3>4
  <2>6. CASE Strays(F, d, u)
    BY <2>1, <2>4, <2>6 DEF Strays
  <2> QED
    BY <2>2, <2>5, <2>6
<1> QED
  BY <1>5, <1>7

(* A candidate more.                                                       *)
Gives(r, x) == \E k \in 1 .. Len(r) : k % 2 = 1 /\ r[k] = x
(* A phi with the references r has the candidate v for the path c.         *)
Brings(r, v, c) == \E k \in 1 .. Len(r) : k % 2 = 1 /\ k + 1 \in 1 .. Len(r) /\ r[k] = v /\ r[k + 1] = c
PairMore(t, s, x, y) ==
  /\ Len(s) = Len(t) + 2 /\ Len(s) % 2 = 0
  /\ \A c : Through(s, c) <=> Through(t, c) \/ c = y
  /\ \A c : Gives(s, c) <=> Gives(t, c) \/ c = x
  /\ \A v, c : Brings(s, v, c) <=> Brings(t, v, c) \/ (v = x /\ c = y)

LEMMA PairAdded ==
  ASSUME NEW M, NEW t \in Seq(M), Len(t) % 2 = 0, NEW x, NEW y
  PROVE  /\ PairMore(t, t \o <<x, y>>, x, y)
         /\ Append(Append(t, x), y) = t \o <<x, y>>
<1> DEFINE s == t \o <<x, y>>
           n == Len(t)
<1>1. n \in Nat /\ n % 2 = 0 /\ t = [k \in 1 .. n |-> t[k]]
  BY LenProperties
<1>2. Len(s) = n + 2 /\ s[n + 1] = x /\ s[n + 2] = y /\ \A k \in 1 .. n : s[k] = t[k]
  <2>1. t \in Seq(M \cup {x, y}) /\ <<x, y>> \in Seq(M \cup {x, y})
    <3>1. M \subseteq M \cup {x, y}
      OBVIOUS
    <3>2. t \in Seq(M \cup {x, y})
      BY <3>1, SeqMonotonic
    <3> QED
      BY <3>2
  <2>2. Len(<<x, y>>) = 2 /\ <<x, y>>[1] = x /\ <<x, y>>[2] = y
    OBVIOUS
  <2> DEFINE Y == M \cup {x, y}
             e == <<x, y>>
  <2>3. t \in Seq(Y) /\ e \in Seq(Y) /\ Len(e) = 2 /\ e[1] = x /\ e[2] = y
    BY <2>1, <2>2
  <2> HIDE DEF Y, e
  <2>4. Len(t \o e) = n + 2 /\ (\A k \in 1 .. n + 2 : (t \o e)[k] = IF k <= n THEN t[k] ELSE e[k - n])
    <3>1. /\ Len(t \o e) = Len(t) + Len(e)
          /\ \A k \in 1 .. Len(t) + Len(e) : (t \o e)[k] = IF k <= Len(t) THEN t[k] ELSE e[k - Len(t)]
      BY <2>3, ConcatProperties
    <3> QED
      BY <2>3, <3>1
  <2>5. (n + 1) \in 1 .. n + 2 /\ (n + 2) \in 1 .. n + 2 /\ (n + 1) - n = 1 /\ (n + 2) - n = 2
        /\ ~(n + 1 <= n) /\ ~(n + 2 <= n)
    BY <1>1
  <2> HIDE DEF n
  <2>6. \A k \in 1 .. n : k \in 1 .. n + 2 /\ k <= n
    BY <1>1
  <2> QED
    BY <2>3, <2>4, <2>5, <2>6 DEF e
<1>3. Append(Append(t, x), y) = s
  <2> DEFINE a == Append(t, x)
             Y == M \cup {x, y}
  <2>1. M \subseteq Y /\ x \in Y /\ y \in Y
    OBVIOUS
  <2>2. t \in Seq(Y)
    BY <2>1, SeqMonotonic
  <2> HIDE DEF Y
  <2>3. a \in Seq(Y) /\ Len(a) = n + 1 /\ a[n + 1] = x /\ \A k \in 1 .. n : a[k] = t[k]
    BY <2>1, <2>2, AppendProperties
  <2> HIDE DEF a
  <2>4. /\ Append(a, y) \in Seq(Y) /\ Len(Append(a, y)) = Len(a) + 1 /\ Append(a, y)[Len(a) + 1] = y
        /\ \A k \in 1 .. Len(a) : Append(a, y)[k] = a[k]
    BY <2>1, <2>3, AppendProperties
  <2>5. s \in Seq(Y)
    <3>1. <<x, y>> \in Seq(Y)
      BY <2>1
    <3> QED
      BY <2>2, <3>1, ConcatProperties
  <2> DEFINE z == Append(a, y)
  <2>6. z \in Seq(Y) /\ s \in Seq(Y) /\ Len(z) = n + 2 /\ Len(s) = n + 2
    BY <1>1, <1>2, <2>3, <2>4, <2>5
  <2>7. ASSUME NEW k \in 1 .. n + 2  PROVE z[k] = s[k]
    <3>1. CASE k \in 1 .. n
      BY <1>1, <1>2, <2>3, <2>4, <3>1
    <3>2. CASE k = n + 1
      BY <1>1, <1>2, <2>3, <2>4, <3>2
    <3>3. CASE k = n + 2
      BY <1>1, <1>2, <2>3, <2>4, <3>3
    <3>4. k \in 1 .. n \/ k = n + 1 \/ k = n + 2
      <4> HIDE DEF n
      <4> QED
        BY <1>1
    <3> QED
      BY <3>1, <3>2, <3>3, <3>4
  <2> HIDE DEF z, s
  <2>8. z = s
    <3>1. \A k \in 1 .. Len(z) : z[k] = s[k]
      BY <2>6, <2>7
    <3> QED
      BY <2>6, <3>1, SeqEqual
  <2> QED
    BY <2>8 DEF z, a, s
<1> HIDE DEF s, n
<1>4. \A k \in 1 .. n + 2 : k \in 1 .. n \/ k = n + 1 \/ k = n + 2
  BY <1>1
<1>5. (n + 1) % 2 = 1 /\ (n + 2) % 2 = 0 /\ n + 1 \in 1 .. n + 2 /\ n + 2 \in 1 .. n + 2
      /\ \A k \in 1 .. n : k \in 1 .. n + 2
  BY <1>1
<1>6. ASSUME NEW c  PROVE Through(s, c) <=> Through(t, c) \/ c = y
  <2>1. Through(s, c) <=> \E k \in 1 .. n + 2 : k % 2 = 0 /\ s[k] = c
    BY <1>2 DEF Through
  <2>2. Through(t, c) <=> \E k \in 1 .. n : k % 2 = 0 /\ t[k] = c
    BY DEF Through, n
  <2> QED
    BY <1>2, <1>4, <1>5, <2>1, <2>2
<1>7. ASSUME NEW c  PROVE Gives(s, c) <=> Gives(t, c) \/ c = x
  <2>1. Gives(s, c) <=> \E k \in 1 .. n + 2 : k % 2 = 1 /\ s[k] = c
    BY <1>2 DEF Gives
  <2>2. Gives(t, c) <=> \E k \in 1 .. n : k % 2 = 1 /\ t[k] = c
    BY DEF Gives, n
  <2> QED
    BY <1>2, <1>4, <1>5, <2>1, <2>2
<1>8. ASSUME NEW v, NEW c  PROVE Brings(s, v, c) <=> Brings(t, v, c) \/ (v = x /\ c = y)
  <2>1. Brings(s, v, c) <=> \E k \in 1 .. n + 2 : k % 2 = 1 /\ k + 1 \in 1 .. n + 2 /\ s[k] = v /\ s[k + 1] = c
    BY <1>2 DEF Brings
  <2>2. Brings(t, v, c) <=> \E k \in 1 .. n : k % 2 = 1 /\ k + 1 \in 1 .. n /\ t[k] = v /\ t[k + 1] = c
    BY DEF Brings, n
  <2>3. \A k \in 1 .. n + 2 : k % 2 = 1 => k = n + 1 \/ (k \in 1 .. n /\ k + 1 \in 1 .. n)
    BY <1>1
  <2>4. \A k \in 1 .. n : k + 1 \in 1 .. n + 2
    BY <1>1
  <2>5. s[(n + 1) + 1] = y /\ (n + 1) + 1 \in 1 .. n + 2
    <3>1. (n + 1) + 1 = n + 2
      BY <1>1
    <3> QED
      BY <1>2, <1>5, <3>1
  <2>6. ASSUME Brings(s, v, c)  PROVE Brings(t, v, c) \/ (v = x /\ c = y)
    <3>1. PICK k \in 1 .. n + 2 : k % 2 = 1 /\ k + 1 \in 1 .. n + 2 /\ s[k] = v /\ s[k + 1] = c
      BY <2>1, <2>6
    <3>2. CASE k = n + 1
      BY <1>2, <2>5, <3>1, <3>2
    <3>3. CASE k \in 1 .. n /\ k + 1 \in 1 .. n
      <4>1. t[k] = v /\ t[k + 1] = c
        BY <1>2, <3>1, <3>3
      <4> QED
        BY <2>2, <3>1, <3>3, <4>1
    <3> QED
      BY <2>3, <3>1, <3>2, <3>3
  <2>7. ASSUME Brings(t, v, c)  PROVE Brings(s, v, c)
    <3>1. PICK k \in 1 .. n : k % 2 = 1 /\ k + 1 \in 1 .. n /\ t[k] = v /\ t[k + 1] = c
      BY <2>2, <2>7
    <3>2. s[k] = v /\ s[k + 1] = c
      BY <1>2, <3>1
    <3> QED
      BY <1>5, <2>1, <2>4, <3>1, <3>2
  <2>8. ASSUME v = x, c = y  PROVE Brings(s, v, c)
    BY <1>2, <1>5, <2>1, <2>5, <2>8
  <2> QED
    BY <2>6, <2>7, <2>8
<1> QED
  BY <1>2, <1>3, <1>5, <1>6, <1>7, <1>8 DEF PairMore, s, n

(* The references t are r without the candidates for b.                    *)
Weeds(r, t, b) ==
  /\ Len(t) % 2 = 0
  /\ \A c : Through(t, c) <=> Through(r, c) /\ c # b
  /\ \A c : Gives(t, c) => Gives(r, c)
  /\ \A v, c : Brings(t, v, c) => Brings(r, v, c)
  /\ ~Through(r, b) => Len(t) = Len(r)

LEMMA FilteredWeeds ==
  ASSUME NEW F, NEW phi, NEW M, F.inst[phi].refs \in Seq(M), Len(F.inst[phi].refs) % 2 = 0, NEW b
  PROVE  Weeds(F.inst[phi].refs, Filtered(F, phi, b), b)
<1> DEFINE r == F.inst[phi].refs
           h == Len(r) \div 2
           kept == {k \in 1 .. h : r[2 * k] # b}
           P == {2 * k : k \in kept} \union {2 * k - 1 : k \in kept}
           g == Picked(r, P)
<1>1. r \in Seq(M) /\ Len(r) \in Nat /\ h \in Nat /\ Len(r) = 2 * h
  <2>1. r \in Seq(M) /\ Len(r) \in Nat /\ Len(r) % 2 = 0
    BY LenProperties
  <2> HIDE DEF r
  <2> QED
    BY <2>1
<1>2. Filtered(F, phi, b) = g
  BY DEF Filtered
<1> HIDE DEF r, h
<1>3. \A m \in 1 .. h : (2 * m \in P <=> r[2 * m] # b) /\ (2 * m - 1 \in P <=> r[2 * m] # b)
  <2> TAKE m \in 1 .. h
  <2>1. \A k \in 1 .. h : (2 * k = 2 * m <=> k = m) /\ 2 * k - 1 # 2 * m /\ 2 * k # 2 * m - 1
                          /\ (2 * k - 1 = 2 * m - 1 <=> k = m)
    BY <1>1
  <2>2. \A x : x \in P <=> \E k \in 1 .. h : r[2 * k] # b /\ (x = 2 * k \/ x = 2 * k - 1)
    OBVIOUS
  <2> HIDE DEF P
  <2>3. 2 * m \in P <=> r[2 * m] # b
    BY <2>1, <2>2
  <2>4. 2 * m - 1 \in P <=> r[2 * m] # b
    BY <2>1, <2>2
  <2> QED
    BY <2>3, <2>4
<1> HIDE DEF P
<1>4. PICK f : /\ f[0] = <<>> /\ Picked(r, P) = f[Len(r)]
               /\ \A j \in 1 .. Len(r) : f[j] = PicksStep(r, P, f[j - 1], j)
  BY <1>1, PicksUnfold
<1> DEFINE Fit(t, m) == /\ t \in Seq(M) /\ Len(t) % 2 = 0
                        /\ \A c : Through(t, c) <=> \E k \in 1 .. m : r[2 * k] = c /\ c # b
                        /\ \A c : Gives(t, c) => \E k \in 1 .. m : r[2 * k - 1] = c
                        /\ (\A v, c : Brings(t, v, c) => \E k \in 1 .. m : r[2 * k - 1] = v /\ r[2 * k] = c)
                        /\ (\A k \in 1 .. m : r[2 * k] # b) => Len(t) = 2 * m
           Had(m) == Fit(f[2 * m], m)
           S == {m \in 0 .. h : Had(m)}
<1>5. 0 \in S
  <2>1. f[2 * 0] = <<>> /\ Len(<<>>) = 0 /\ <<>> \in Seq(M)
    BY <1>4
  <2>2. \A c : ~Through(<<>>, c) /\ ~Gives(<<>>, c) /\ \A v : ~Brings(<<>>, v, c)
    BY DEF Through, Gives, Brings
  <2>3. Had(0)
    <3>1. Fit(<<>>, 0)
      <4> DEFINE z == <<>>
      <4>1. z \in Seq(M) /\ Len(z) = 0
        BY <2>1
      <4>2. \A c : ~Through(z, c) /\ ~Gives(z, c) /\ \A v : ~Brings(z, v, c)
        BY <2>2
      <4> HIDE DEF z
      <4>3. \A k \in 1 .. 0 : FALSE
        OBVIOUS
      <4>4. Fit(z, 0)
        BY <4>1, <4>2, <4>3
      <4> QED
        BY <4>4 DEF z
    <3> HIDE DEF Fit
    <3> QED
      BY <2>1, <3>1
  <2>4. 0 \in 0 .. h
    BY <1>1
  <2> HIDE DEF Had
  <2> QED
    BY <2>3, <2>4
<1>6. ASSUME NEW m \in 0 .. h, m \in S, m < h  PROVE m + 1 \in S
  <2> DEFINE t == f[2 * m]
             x == r[2 * m + 1]
             y == r[2 * m + 2]
  <2>1. /\ m + 1 \in 1 .. h /\ m + 1 \in 0 .. h /\ 2 * (m + 1) = 2 * m + 2 /\ 2 * (m + 1) - 1 = 2 * m + 1
        /\ 2 * m + 1 \in 1 .. Len(r) /\ 2 * m + 2 \in 1 .. Len(r)
        /\ (2 * m + 1) - 1 = 2 * m /\ (2 * m + 2) - 1 = 2 * m + 1
    BY <1>1, <1>6
  <2>2. Had(m)
    BY <1>6
  <2>3. (2 * m + 2 \in P <=> y # b) /\ (2 * m + 1 \in P <=> y # b)
    BY <1>3, <2>1
  <2>4. /\ f[2 * m + 1] = IF 2 * m + 1 \in P THEN Append(t, x) ELSE t
        /\ f[2 * m + 2] = IF 2 * m + 2 \in P THEN Append(f[2 * m + 1], y) ELSE f[2 * m + 1]
    BY <1>4, <2>1 DEF PicksStep
  <2>5. f[2 * (m + 1)] = IF y # b THEN Append(Append(t, x), y) ELSE t
    BY <2>1, <2>3, <2>4
  <2>6. x \in M /\ y \in M
    BY <1>1, <2>1, ElementOfSeq
  <2> DEFINE R(c, k) == r[2 * k] = c /\ c # b
             Q(c, k) == r[2 * k - 1] = c
  <2>7. \A k \in 1 .. m + 1 : k \in 1 .. m \/ k = m + 1
    BY <1>1
  <2>8. \A k \in 1 .. m : k \in 1 .. m + 1
    BY <1>1
  <2>9. t \in Seq(M) /\ Len(t) % 2 = 0
    BY <2>2
  <2>10. m + 1 \in 1 .. m + 1 /\ r[2 * (m + 1)] = y /\ r[2 * (m + 1) - 1] = x
    BY <2>1
  <2> HIDE DEF t, x, y
  <2>11. CASE y # b
    <3> DEFINE s == t \o <<x, y>>
    <3>1. f[2 * (m + 1)] = s /\ PairMore(t, s, x, y) /\ s \in Seq(M)
      <4>1. f[2 * (m + 1)] = s /\ PairMore(t, s, x, y)
        BY <2>5, <2>9, <2>11, PairAdded
      <4>2. <<x, y>> \in Seq(M)
        BY <2>6
      <4> QED
        BY <2>9, <4>1, <4>2, ConcatProperties
    <3> HIDE DEF s
    <3>2. /\ Len(s) = Len(t) + 2 /\ Len(s) % 2 = 0
          /\ \A c : Through(s, c) <=> Through(t, c) \/ c = y
          /\ \A c : Gives(s, c) <=> Gives(t, c) \/ c = x
          /\ \A v, c : Brings(s, v, c) <=> Brings(t, v, c) \/ (v = x /\ c = y)
      BY <3>1 DEF PairMore
    <3>3. \A c : Through(s, c) <=> \E k \in 1 .. m + 1 : r[2 * k] = c /\ c # b
      <4> TAKE c
      <4>1. Through(t, c) <=> \E k \in 1 .. m : r[2 * k] = c /\ c # b
        BY <2>2 DEF t
      <4> QED
        BY <2>7, <2>8, <2>10, <2>11, <3>2, <4>1
    <3>4. \A c : Gives(s, c) => \E k \in 1 .. m + 1 : r[2 * k - 1] = c
      <4> TAKE c
      <4>1. Gives(t, c) => \E k \in 1 .. m : r[2 * k - 1] = c
        BY <2>2 DEF t
      <4> QED
        BY <2>8, <2>10, <3>2, <4>1
    <3>5. (\A k \in 1 .. m + 1 : r[2 * k] # b) => Len(s) = 2 * (m + 1)
      <4>1. (\A k \in 1 .. m : r[2 * k] # b) => Len(t) = 2 * m
        BY <2>2 DEF t
      <4> QED
        BY <2>1, <2>8, <3>2, <4>1
    <3>6. \A v, c : Brings(s, v, c) => \E k \in 1 .. m + 1 : r[2 * k - 1] = v /\ r[2 * k] = c
      <4> TAKE v, c
      <4>1. Brings(t, v, c) => \E k \in 1 .. m : r[2 * k - 1] = v /\ r[2 * k] = c
        BY <2>2 DEF t
      <4> QED
        BY <2>8, <2>10, <3>2, <4>1
    <3>7. Fit(s, m + 1)
      BY <3>1, <3>2, <3>3, <3>4, <3>5, <3>6
    <3> HIDE DEF Fit
    <3> QED
      BY <2>1, <3>1, <3>7
  <2>12. CASE y = b
    <3>1. f[2 * (m + 1)] = t
      BY <2>5, <2>12
    <3>3. \A c : Through(t, c) <=> \E k \in 1 .. m + 1 : r[2 * k] = c /\ c # b
      <4> TAKE c
      <4>1. Through(t, c) <=> \E k \in 1 .. m : r[2 * k] = c /\ c # b
        BY <2>2 DEF t
      <4> QED
        BY <2>7, <2>8, <2>10, <2>12, <4>1
    <3>4. \A c : Gives(t, c) => \E k \in 1 .. m + 1 : r[2 * k - 1] = c
      <4> TAKE c
      <4>1. Gives(t, c) => \E k \in 1 .. m : r[2 * k - 1] = c
        BY <2>2 DEF t
      <4> QED
        BY <2>8, <4>1
    <3>5. ~(\A k \in 1 .. m + 1 : r[2 * k] # b)
      BY <2>10, <2>12
    <3>6. \A v, c : Brings(t, v, c) => \E k \in 1 .. m + 1 : r[2 * k - 1] = v /\ r[2 * k] = c
      <4> TAKE v, c
      <4>1. Brings(t, v, c) => \E k \in 1 .. m : r[2 * k - 1] = v /\ r[2 * k] = c
        BY <2>2 DEF t
      <4> QED
        BY <2>8, <4>1
    <3>7. Fit(t, m + 1)
      BY <2>9, <3>3, <3>4, <3>5, <3>6
    <3> HIDE DEF Fit
    <3> QED
      BY <2>1, <3>1, <3>7
  <2> QED
    BY <2>11, <2>12
<1>7. h \in S
  <2>1. \A j \in 0 .. h : j \in S /\ j < h => j + 1 \in S
    BY <1>6
  <2> HIDE DEF S
  <2>2. \A j \in 0 .. h : j \in S
    BY <1>1, <1>5, <2>1, Climbs
  <2> QED
    BY <1>1, <2>2
<1>8. Had(h) /\ f[2 * h] = g
  BY <1>1, <1>4, <1>7
<1>9. \A c : Through(r, c) <=> \E k \in 1 .. h : r[2 * k] = c
  <2>1. \A k \in 1 .. h : 2 * k \in 1 .. Len(r) /\ (2 * k) % 2 = 0
    BY <1>1
  <2>2. \A j \in 1 .. Len(r) : j % 2 = 0 => j \div 2 \in 1 .. h /\ 2 * (j \div 2) = j
    BY <1>1
  <2> QED
    BY <2>1, <2>2 DEF Through
<1>10. \A k \in 1 .. h : 2 * k - 1 \in 1 .. Len(r) /\ (2 * k - 1) % 2 = 1
  BY <1>1
<1> HIDE DEF g
<1>11. \A c : Through(g, c) <=> Through(r, c) /\ c # b
  BY <1>8, <1>9
<1>12. \A c : Gives(g, c) => Gives(r, c)
  <2> TAKE c
  <2>1. Gives(g, c) => \E k \in 1 .. h : r[2 * k - 1] = c
    BY <1>8
  <2> QED
    BY <1>10, <2>1 DEF Gives
<1>13. ~Through(r, b) => Len(g) = Len(r)
  BY <1>1, <1>8, <1>9
<1>14. \A v, c : Brings(g, v, c) => Brings(r, v, c)
  <2> TAKE v, c
  <2>1. Brings(g, v, c) => \E k \in 1 .. h : r[2 * k - 1] = v /\ r[2 * k] = c
    BY <1>8
  <2>2. \A k \in 1 .. h : (2 * k - 1) + 1 = 2 * k /\ 2 * k \in 1 .. Len(r)
    BY <1>1
  <2> QED
    BY <1>10, <2>1, <2>2 DEF Brings
<1> QED
  BY <1>2, <1>8, <1>11, <1>12, <1>13, <1>14 DEF Weeds, r

(* Where a phi gives a value there is no block.                            *)
LEMMA ValuedPhi ==
  ASSUME NEW F, Good(F), NEW u \in DOMAIN F.inst, F.inst[u].kind = "phi"
  PROVE  (\A k \in 1 .. Len(F.inst[u].refs) : k \in Values(F.inst[u]) => F.inst[u].refs[k] \notin DOMAIN F.code)
           <=> \A x : Gives(F.inst[u].refs, x) => x \notin DOMAIN F.code
<1>1. F.inst[u].refs \in Seq(DOMAIN F.uses \cup {Nil})
  BY GoodRefs
<1>2. DOMAIN F.inst[u].refs = 1 .. Len(F.inst[u].refs)
  BY <1>1, LenProperties
<1>3. \A k \in 1 .. Len(F.inst[u].refs) : k \in Values(F.inst[u]) <=> k % 2 = 1
  BY <1>2 DEF Values
<1> QED
  BY <1>3 DEF Gives

(* G is F after the phis D have forgotten b.                               *)
Weeded(F, G, b, D) ==
  /\ Tuned(F, G)
  /\ \A u \in PhisOf(F) : IF u \in D THEN Weeds(F.inst[u].refs, G.inst[u].refs, b)
                          ELSE G.inst[u].refs = F.inst[u].refs

LEMMA WeedsTwice ==
  ASSUME NEW r, NEW t, NEW s, NEW b, Weeds(r, t, b), Weeds(t, s, b)
  PROVE  Weeds(r, s, b)
BY DEF Weeds

LEMMA WeededOne ==
  ASSUME NEW F, Good(F), NEW G, NEW b, NEW D, Weeded(F, G, b, D),
         NEW phi \in PhisOf(F), Len(F.inst[phi].refs) % 2 = 0
  PROVE  Weeded(F, setCandidates(G, phi, Filtered(G, phi, b)), b, D \cup {phi})
<1> DEFINE r == F.inst[phi].refs
           t == G.inst[phi].refs
           x == Filtered(G, phi, b)
           H == setCandidates(G, phi, x)
           M == DOMAIN G.uses \cup {Nil}
<1>1. Good(G) /\ phi \in DOMAIN F.inst /\ phi \in DOMAIN G.inst /\ F.inst[phi].kind = "phi" /\ G.inst[phi].kind = "phi"
      /\ Tuned(F, G)
  BY DEF Weeded, Tuned, Retuned, PhisOf
<1>2. t \in Seq(M)
  BY <1>1, GoodRefs
<1>3. Len(t) % 2 = 0 /\ (phi \in D => Weeds(r, t, b)) /\ (phi \notin D => t = r)
  BY DEF Weeded, Weeds
<1>4. Weeds(t, x, b)
  BY <1>2, <1>3, FilteredWeeds
<1>5. Weeds(r, x, b)
  <2>1. CASE phi \in D
    <3> HIDE DEF r, t, x
    <3> QED
      BY <1>3, <1>4, <2>1, WeedsTwice
  <2>2. CASE phi \notin D
    BY <1>3, <1>4, <2>2
  <2> QED
    BY <2>1, <2>2
<1>6. x \in Seq(M)
  <2> DEFINE P == {2 * k : k \in {k \in 1 .. (Len(t) \div 2) : t[2 * k] # b}}
                    \union {2 * k - 1 : k \in {k \in 1 .. (Len(t) \div 2) : t[2 * k] # b}}
  <2>1. x = Picked(t, P)
    BY DEF Filtered
  <2> HIDE DEF t, P, M, x
  <2>2. Picked(t, P) \in Seq(At(t, P))
    BY <1>2, PickedIn
  <2>3. At(t, P) \subseteq M
    <3> SUFFICES ASSUME NEW k \in DOMAIN t  PROVE t[k] \in M
      BY DEF At
    <3>1. k \in 1 .. Len(t)
      BY <1>2
    <3> QED
      BY <1>2, <3>1, ElementOfSeq
  <2>4. Picked(t, P) \in Seq(M)
    BY <2>2, <2>3, SeqMonotonic
  <2> QED
    BY <2>1, <2>4
<1> HIDE DEF x
<1>7. RefsSet(G, H, phi, x)
  BY <1>1, <1>6, CandidatesSet
<1> HIDE DEF H
<1>8. Tuned(F, H)
  BY <1>1, <1>7, TunedMore
<1>9. ASSUME NEW u \in PhisOf(F)
      PROVE  H.inst[u].refs = IF u = phi THEN x ELSE G.inst[u].refs
  <2>1. u \in DOMAIN G.inst /\ Tagged(G.inst)
    BY <1>1, GoodRefs DEF Tuned, Retuned, PhisOf
  <2>2. H.inst = Rewired(G.inst, phi, x)
    BY <1>7 DEF RefsSet
  <2> QED
    BY <1>1, <2>1, <2>2, RewiredIs
<1>10. ASSUME NEW u \in PhisOf(F)
       PROVE  IF u \in D \cup {phi} THEN Weeds(F.inst[u].refs, H.inst[u].refs, b)
              ELSE H.inst[u].refs = F.inst[u].refs
  <2>1. IF u \in D THEN Weeds(F.inst[u].refs, G.inst[u].refs, b) ELSE G.inst[u].refs = F.inst[u].refs
    BY DEF Weeded
  <2>2. CASE u = phi
    BY <1>5, <1>9, <2>2
  <2>3. CASE u # phi
    BY <1>9, <2>1, <2>3
  <2> QED
    BY <2>2, <2>3
<1> QED
  BY <1>8, <1>10 DEF Weeded, H, x

LEMMA PhisWeeded ==
  ASSUME NEW F, Steady(F), NEW b \in DOMAIN F.code, \A u \in PhisOf(F) : Len(F.inst[u].refs) % 2 = 0
  PROVE  Weeded(F, leavePhis(F, b), b, PhisAfter(F, b))
<1> DEFINE phis == SetToSeq(PhisAfter(F, b))
           n == Len(phis)
           D(j) == {phis[k] : k \in 1 .. j}
<1>1. phis \in Seq(PhisOf(F)) /\ Good(F) /\ PhisAfter(F, b) \subseteq PhisOf(F)
  BY PhisAfterAre DEF Steady
<1>2. Len(SetToSeq(PhisAfter(F, b))) \in Nat
  BY <1>1, LenProperties
<1>3. PICK f : /\ f[0] = F /\ leavePhis(F, b) = f[Len(SetToSeq(PhisAfter(F, b)))]
               /\ \A j \in 1 .. Len(SetToSeq(PhisAfter(F, b))) : f[j] = LeavesStep(F, b, f[j - 1], j)
  BY <1>2, LeavesUnfold
<1> DEFINE S == {j \in 0 .. n : Weeded(F, f[j], b, D(j))}
<1>4. 0 \in S
  <2>1. Tuned(F, F)
    BY <1>1 DEF Tuned, Retuned
  <2>2. D(0) = {}
    OBVIOUS
  <2>3. Weeded(F, f[0], b, D(0))
    BY <1>3, <2>1, <2>2 DEF Weeded
  <2> QED
    BY <1>2, <2>3
<1>5. ASSUME NEW j \in 0 .. n, j \in S, j < n  PROVE j + 1 \in S
  <2>1. j + 1 \in 1 .. n /\ j + 1 \in 0 .. n /\ (j + 1) - 1 = j
    BY <1>2, <1>5
  <2>2. f[j + 1] = setCandidates(f[j], phis[j + 1], Filtered(f[j], phis[j + 1], b))
    BY <1>3, <2>1 DEF LeavesStep
  <2>3. phis[j + 1] \in PhisOf(F)
    <3> HIDE DEF phis
    <3> QED
      BY <1>1, <2>1, ElementOfSeq
  <2>4. D(j + 1) = D(j) \cup {phis[j + 1]}
    <3>1. 1 .. j + 1 = (1 .. j) \cup {j + 1}
      BY <1>2
    <3> HIDE DEF phis
    <3> QED
      BY <3>1
  <2>5. Weeded(F, f[j], b, D(j))
    BY <1>5
  <2> HIDE DEF D, phis
  <2>6. Len(F.inst[phis[j + 1]].refs) % 2 = 0
    BY <2>3
  <2>7. Weeded(F, f[j + 1], b, D(j + 1))
    <3> DEFINE g == f[j]
               phi == phis[j + 1]
               E == D(j)
    <3>1. Weeded(F, g, b, E) /\ phi \in PhisOf(F) /\ Len(F.inst[phi].refs) % 2 = 0
      BY <2>3, <2>5, <2>6
    <3>2. f[j + 1] = setCandidates(g, phi, Filtered(g, phi, b)) /\ D(j + 1) = E \cup {phi}
      BY <2>2, <2>4
    <3> HIDE DEF g, phi, E
    <3>3. Good(F)
      BY <1>1
    <3>4. Weeded(F, setCandidates(g, phi, Filtered(g, phi, b)), b, E \cup {phi})
      BY <3>1, <3>3, WeededOne
    <3> QED
      BY <3>2, <3>4
  <2> QED
    BY <2>1, <2>7
<1>6. n \in S
  <2>1. \A j \in 0 .. n : j \in S /\ j < n => j + 1 \in S
    BY <1>5
  <2>2. n \in Nat
    BY <1>2
  <2> HIDE DEF S, n
  <2>3. \A j \in 0 .. n : j \in S
    BY <1>4, <2>1, <2>2, Climbs
  <2> QED
    BY <2>2, <2>3
<1>7. D(n) = PhisAfter(F, b)
  <2> DEFINE A == PhisAfter(F, b)
  <2>1. IsFiniteSet(A)
    <3>1. F.next - 1 \in Int /\ A \subseteq 1 .. (F.next - 1)
      <4>1. PhisOf(F) \subseteq DOMAIN F.uses
        BY <1>1, GoodRefs DEF PhisOf
      <4>2. F.next \in Nat /\ DOMAIN F.uses \subseteq 1 .. (F.next - 1)
        BY <1>1 DEF Good
      <4> HIDE DEF A
      <4> QED
        BY <1>1, <4>1, <4>2 DEF A
    <3>2. IsFiniteSet(1 .. (F.next - 1))
      BY <3>1, FS_Interval
    <3> HIDE DEF A
    <3> QED
      BY <3>1, <3>2, FS_Subset
  <2> HIDE DEF A
  <2>2. ToSet(SetToSeq(A)) = A
    BY <2>1, Listing
  <2> QED
    BY <1>1, <2>2 DEF A, ToSet
<1>8. Weeded(F, f[n], b, D(n))
  BY <1>6
<1> QED
  BY <1>3, <1>7, <1>8

(* Everything that is picked is there.                                     *)
LEMMA PickedHas ==
  ASSUME NEW X, NEW s \in Seq(X), NEW P
  PROVE  \A k \in 1 .. Len(s) : k \in P => Names(Picked(s, P), s[k])
<1> DEFINE n == Len(s)
<1>1. n \in Nat /\ DOMAIN s = 1 .. n
  BY LenProperties
<1>2. PICK f : /\ f[0] = <<>> /\ Picked(s, P) = f[Len(s)]
               /\ \A j \in 1 .. Len(s) : f[j] = PicksStep(s, P, f[j - 1], j)
  BY <1>1, PicksUnfold
<1> DEFINE Had(j) == f[j] \in Seq(X) /\ \A k \in 1 .. j : k \in P => Names(f[j], s[k])
           S == {j \in 0 .. n : Had(j)}
<1>3. 0 \in S
  <2>1. Had(0)
    BY <1>2
  <2>2. 0 \in 0 .. n
    BY <1>1
  <2> HIDE DEF Had
  <2> QED
    BY <2>1, <2>2
<1>4. ASSUME NEW j \in 0 .. n, j \in S, j < n  PROVE j + 1 \in S
  <2> DEFINE g == f[j]
             x == s[j + 1]
             h == f[j + 1]
  <2>1. j + 1 \in 1 .. n /\ j + 1 \in 0 .. n /\ (j + 1) - 1 = j /\ j \in Nat
    BY <1>1, <1>4
  <2>2. h = IF j + 1 \in P THEN Append(g, x) ELSE g
    BY <1>1, <1>2, <2>1 DEF PicksStep
  <2>3. g \in Seq(X) /\ x \in X
    BY <1>1, <1>4, <2>1
  <2>4. \A k \in 1 .. j : k \in P => Names(g, s[k])
    BY <1>4
  <2> HIDE DEF g, x, h
  <2>5. /\ Append(g, x) \in Seq(X) /\ Len(g) \in Nat /\ Len(Append(g, x)) = Len(g) + 1
        /\ Append(g, x)[Len(g) + 1] = x /\ \A k \in 1 .. Len(g) : Append(g, x)[k] = g[k]
    BY <2>3, AppendProperties, LenProperties
  <2>6. h \in Seq(X) /\ (j + 1 \in P => Names(h, x)) /\ \A y : Names(g, y) => Names(h, y)
    <3>1. CASE j + 1 \in P
      BY <2>2, <2>5, <3>1 DEF Names
    <3>2. CASE j + 1 \notin P
      BY <2>2, <2>3, <3>2
    <3> QED
      BY <3>1, <3>2
  <2>7. \A k \in 1 .. j + 1 : k \in P => Names(h, s[k])
    <3> TAKE k \in 1 .. j + 1
    <3>1. k \in 1 .. j \/ k = j + 1
      BY <2>1
    <3>2. CASE k \in 1 .. j
      BY <2>4, <2>6, <3>2
    <3>3. CASE k = j + 1
      BY <2>6, <3>3 DEF x
    <3> QED
      BY <3>1, <3>2, <3>3
  <2>8. Had(j + 1)
    BY <2>6, <2>7 DEF h
  <2> HIDE DEF Had
  <2> QED
    BY <2>1, <2>8
<1>5. n \in S
  <2>1. \A j \in 0 .. n : j \in S /\ j < n => j + 1 \in S
    BY <1>4
  <2> HIDE DEF S, n
  <2>2. \A j \in 0 .. n : j \in S
    BY <1>1, <1>3, <2>1, Climbs
  <2> QED
    BY <1>1, <2>2
<1> QED
  BY <1>2, <1>5

LEMMA PhisHere ==
  ASSUME NEW F, Good(F), NEW b \in DOMAIN F.code, NEW u
  PROVE  u \in ToSet(Phis(F, b)) <=> u \in DOMAIN F.inst /\ F.inst[u].kind = "phi" /\ Sits(F, b, u)
<1> DEFINE code == F.code[b]
           P == {k \in DOMAIN code : F.inst[code[k]].kind = "phi"}
<1>1. code \in Seq(DOMAIN F.inst) /\ Phis(F, b) = Picked(code, P)
  BY DEF Good, Housed, Phis
<1>2. DOMAIN code = 1 .. Len(code)
  BY <1>1, LenProperties
<1>3. \A k : k \in P <=> k \in 1 .. Len(code) /\ F.inst[code[k]].kind = "phi"
  BY <1>2
<1>4. Sits(F, b, u) <=> \E k \in 1 .. Len(code) : code[k] = u
  BY DEF Sits, Names
<1> DEFINE g == Phis(F, b)
<1> HIDE DEF code, P, g
<1>5. g \in Seq(At(code, P)) /\ \A k \in 1 .. Len(code) : k \in P => Names(g, code[k])
  BY <1>1, PickedIn, PickedHas DEF g
<1>6. DOMAIN g = 1 .. Len(g)
  BY <1>5, LenProperties
<1>7. u \in ToSet(g) <=> Names(g, u)
  BY <1>6 DEF ToSet, Names
<1>8. ASSUME Names(g, u)  PROVE u \in DOMAIN F.inst /\ F.inst[u].kind = "phi" /\ Sits(F, b, u)
  <2>1. u \in At(code, P)
    BY <1>5, <1>8, ElementOfSeq DEF Names
  <2>2. PICK k \in P : u = code[k]
    BY <2>1 DEF At
  <2> QED
    BY <1>1, <1>3, <1>4, <2>2, ElementOfSeq
<1>9. ASSUME F.inst[u].kind = "phi", Sits(F, b, u)  PROVE Names(g, u)
  BY <1>3, <1>4, <1>5, <1>9
<1> QED
  BY <1>7, <1>8, <1>9 DEF g

(* Where a block branches to.                                              *)
LEMMA GoesOut ==
  ASSUME NEW F, Steady(F), Valued(F), NEW b \in DOMAIN F.code
  PROVE  /\ \A d \in DOMAIN F.code : Comes(F, b, d) => d \in getOutwardFlow(F, b)
         /\ \A u : Sits(F, b, u) /\ F.inst[u].kind \in Terminators => u = Last(F.code[b])
<1> DEFINE s == F.code[b]
           i == Last(s)
<1>1. Good(F) /\ Closed(F.inst, s)
  BY DEF Steady, Sealed
<1>2. ASSUME NEW u, Sits(F, b, u), F.inst[u].kind \in Terminators  PROVE u = i
  <2>1. PICK k \in 1 .. Len(s) : s[k] = u
    BY <1>2 DEF Sits, Names
  <2> HIDE DEF s
  <2>2. k = Len(s)
    BY <1>1, <1>2, <2>1 DEF Closed
  <2> QED
    BY <2>1, <2>2 DEF Last
<1>3. ASSUME NEW d \in DOMAIN F.code, Comes(F, b, d)  PROVE d \in getOutwardFlow(F, b)
  <2>1. PICK u \in DOMAIN F.inst : F.inst[u].kind \in Branches /\ Names(F.inst[u].refs, d) /\ Sits(F, b, u)
    BY <1>3 DEF Comes
  <2>2. u = i
    BY <1>2, <2>1 DEF Terminators
  <2>3. PICK k \in 1 .. Len(F.inst[u].refs) : F.inst[u].refs[k] = d
    BY <2>1 DEF Names
  <2>4. k \notin Values(F.inst[u])
    BY <2>3 DEF Valued
  <2>5. F.inst[u].refs \in Seq(DOMAIN F.uses \cup {Nil}) /\ d # Nil
    BY <1>1, GoodRefs
  <2>6. k \in DOMAIN F.inst[u].refs
    BY <2>3, <2>5, LenProperties
  <2>7. d \in Targets(F.inst[u])
    BY <2>1, <2>3, <2>4, <2>5, <2>6 DEF Targets
  <2> QED
    BY <2>2, <2>7 DEF getOutwardFlow
<1> QED
  BY <1>2, <1>3

(* The phis of a function have their candidates in pairs.                  *)
LEMMA PhisPaired ==
  ASSUME NEW F, Good(F), Loose(F), NEW u \in PhisOf(F)
  PROVE  Len(F.inst[u].refs) % 2 = 0
<1>1. u \in DOMAIN F.inst /\ F.inst[u].kind = "phi" /\ Housed(F.code, DOMAIN F.inst)
  BY DEF PhisOf, Good
<1>2. Parent(F, u) \in DOMAIN F.code
  BY <1>1, ParentIs
<1>3. Sits(F, Parent(F, u), u)
  BY <1>1, <1>2, SitsIs
<1>4. Meets(F, Parent(F, u), u) \/ Strays(F, Parent(F, u), u)
  BY <1>1, <1>2, <1>3 DEF Loose
<1> QED
  BY <1>2, <1>4, PathsAre

(* deadBasicBlockElem.                                                     *)
LEMMA DeadBlockFlow ==
  ASSUME NEW F, Steady(F), Valued(F), Loose(F), NEW b \in DOMAIN F.code, HasDeadBasicBlock(F, b)
  PROVE  LET H == deadBasicBlockElem(F, b) IN Valued(H) /\ Loose(H)
<1> DEFINE L == leavePhis(F, b)
           H == deadBasicBlockElem(F, b)
           D == PhisAfter(F, b)
<1>1. Good(F)
  BY DEF Steady
<1>2. Steady(L) /\ BlockErasing(L, H, b)
  BY DeadBlockLeft
<1>3. Weeded(F, L, b, D)
  BY <1>1, PhisPaired, PhisWeeded
<1> HIDE DEF L, H
<1>4. /\ Good(L) /\ L.code = F.code /\ DOMAIN L.inst = DOMAIN F.inst
      /\ \A u \in DOMAIN F.inst : /\ L.inst[u].kind = F.inst[u].kind
                                  /\ F.inst[u].kind # "phi" => L.inst[u].refs = F.inst[u].refs
  BY <1>3 DEF Weeded, Tuned, Retuned
<1>5. ASSUME NEW u \in DOMAIN F.inst, F.inst[u].kind = "phi"
      PROVE  IF u \in D THEN Weeds(F.inst[u].refs, L.inst[u].refs, b) ELSE L.inst[u].refs = F.inst[u].refs
  BY <1>3, <1>5 DEF Weeded, PhisOf
<1> HIDE DEF D
<1>6. Valued(L)
  <2> SUFFICES ASSUME NEW u \in DOMAIN F.inst
               PROVE  \A k \in 1 .. Len(L.inst[u].refs) :
                        k \in Values(L.inst[u]) => L.inst[u].refs[k] \notin DOMAIN L.code
    BY <1>4 DEF Valued
  <2>1. \A k \in 1 .. Len(F.inst[u].refs) : k \in Values(F.inst[u]) => F.inst[u].refs[k] \notin DOMAIN F.code
    BY DEF Valued
  <2>2. CASE F.inst[u].kind = "phi"
    <3>1. \A x : Gives(F.inst[u].refs, x) => x \notin DOMAIN F.code
      BY <1>1, <2>1, <2>2, ValuedPhi
    <3>2. \A x : Gives(L.inst[u].refs, x) => Gives(F.inst[u].refs, x)
      BY <1>5, <2>2 DEF Weeds
    <3>3. \A x : Gives(L.inst[u].refs, x) => x \notin DOMAIN L.code
      BY <1>4, <3>1, <3>2
    <3>4. u \in DOMAIN L.inst /\ L.inst[u].kind = "phi"
      BY <1>4, <2>2
    <3> QED
      BY <1>4, <3>3, <3>4, ValuedPhi
  <2>3. CASE F.inst[u].kind # "phi"
    <3>1. L.inst[u].refs = F.inst[u].refs /\ L.inst[u].kind = F.inst[u].kind
      BY <1>4, <2>3
    <3>2. Values(L.inst[u]) = Values(F.inst[u])
      BY <3>1, ValuesSame
    <3> QED
      BY <1>4, <2>1, <3>1, <3>2
  <2> QED
    BY <2>2, <2>3
<1>7. \A d, c : Comes(L, c, d) <=> Comes(F, c, d)
  <2>1. \A u \in DOMAIN F.inst : F.inst[u].kind \in Branches => L.inst[u].refs = F.inst[u].refs
    BY <1>4 DEF Branches
  <2> QED
    BY <1>4, <2>1 DEF Comes, Sits
<1>8. Lax(L, b)
  <2> SUFFICES ASSUME NEW d \in DOMAIN F.code \ {b}, NEW u \in DOMAIN F.inst,
                      F.inst[u].kind = "phi", Sits(F, d, u)
               PROVE  \/ /\ Len(L.inst[u].refs) % 2 = 0
                         /\ \A c : Through(L.inst[u].refs, c) <=> Comes(L, c, d) /\ c # b
                      \/ Strays(L, d, u)
    BY <1>4 DEF Lax, Sits
  <2>1. Meets(F, d, u) \/ Strays(F, d, u)
    BY DEF Loose
  <2>2. CASE u \in D
    <3>1. Weeds(F.inst[u].refs, L.inst[u].refs, b)
      BY <1>5, <2>2
    <3>2. CASE Meets(F, d, u)
      BY <1>7, <3>1, <3>2 DEF Weeds, Meets
    <3>3. CASE Strays(F, d, u)
      <4>1. ~Through(F.inst[u].refs, b)
        BY <3>3 DEF Strays
      <4>2. Strays(L, d, u)
        BY <3>1, <3>3, <4>1 DEF Weeds, Strays
      <4> QED
        BY <4>2
    <3> QED
      BY <2>1, <3>2, <3>3
  <2>3. CASE u \notin D
    <3>1. L.inst[u].refs = F.inst[u].refs
      BY <1>5, <2>3
    <3>2. ~Comes(F, b, d)
      <4> SUFFICES ASSUME Comes(F, b, d)  PROVE FALSE
        OBVIOUS
      <4>1. d \in getOutwardFlow(F, b)
        BY GoesOut
      <4>2. u \in ToSet(Phis(F, d))
        BY <1>1, PhisHere
      <4> QED
        BY <2>3, <4>1, <4>2 DEF D, PhisAfter
    <3>3. CASE Meets(F, d, u)
      BY <1>7, <3>1, <3>2, <3>3 DEF Meets
    <3>4. CASE Strays(F, d, u)
      <4>1. Strays(L, d, u)
        BY <3>1, <3>4 DEF Strays
      <4> QED
        BY <4>1
    <3> QED
      BY <2>1, <3>3, <3>4
  <2> QED
    BY <2>2, <2>3
<1>9. b \in DOMAIN L.code
  BY <1>4
<1>10. Valued(H) /\ Loose(H)
  BY <1>2, <1>4, <1>6, <1>8, <1>9, BlockErasedFlow
<1> QED
  BY <1>10 DEF H

-----------------------------------------------------------------------------
(* The references of an instruction once b has been folded into p by the   *)
(* end of its branch i.                                                    *)
Refolded(F, R, u, i, p, b) ==
  /\ R.inst[u].kind = F.inst[u].kind /\ Len(R.inst[u].refs) = Len(F.inst[u].refs)
  /\ Values(R.inst[u]) = Values(F.inst[u])
  /\ \A k \in 1 .. Len(F.inst[u].refs) :
       LET x == F.inst[u].refs[k] IN R.inst[u].refs[k] = IF x = i THEN Nil ELSE IF x = b THEN p ELSE x

LEMMA FoldedRefs ==
  ASSUME NEW F, Good(F), NEW b \in DOMAIN F.code, NEW p, NEW P, NEW S, NEW R, Folding(F, P, S, R, p, b),
         NEW u \in DOMAIN F.inst \ {Last(F.code[p])}
  PROVE  u \in DOMAIN R.inst /\ Refolded(F, R, u, Last(F.code[p]), p, b)
<1> DEFINE i == Last(F.code[p])
           r == F.inst[u].refs
           M == DOMAIN F.uses \cup {Nil}
<1>1. /\ Swaps(F.inst, P.inst, DOMAIN F.inst \ {i}, i, Nil) /\ S.inst = P.inst
      /\ Swaps(S.inst, R.inst, DOMAIN S.inst, b, p)
  BY DEF Folding, Erasing, Fused, Replacing
<1> HIDE DEF i
<1>2. /\ u \in DOMAIN P.inst /\ P.inst[u].kind = F.inst[u].kind /\ P.inst[u].refs = Swapped(r, i, Nil)
  BY <1>1 DEF Swaps, i
<1>3. /\ u \in DOMAIN R.inst /\ R.inst[u].kind = F.inst[u].kind
      /\ R.inst[u].refs = Swapped(P.inst[u].refs, b, p)
  BY <1>1, <1>2 DEF Swaps
<1>4. r \in Seq(M) /\ Nil \in M /\ b # Nil
  BY GoodRefs
<1>5. Len(Swapped(r, i, Nil)) = Len(r) /\ Swapped(r, i, Nil) \in Seq(M)
      /\ \A k \in 1 .. Len(r) : Swapped(r, i, Nil)[k] = IF r[k] = i THEN Nil ELSE r[k]
  BY <1>4, SwappedIs
<1> DEFINE t == P.inst[u].refs
<1>6. t \in Seq(M) /\ Len(t) = Len(r) /\ \A k \in 1 .. Len(r) : t[k] = IF r[k] = i THEN Nil ELSE r[k]
  BY <1>2, <1>5
<1> HIDE DEF t, r
<1>7. /\ Len(Swapped(t, b, p)) = Len(t) /\ DOMAIN Swapped(t, b, p) = DOMAIN t
      /\ \A k \in 1 .. Len(t) : Swapped(t, b, p)[k] = IF t[k] = b THEN p ELSE t[k]
  BY <1>6, SwappedNames
<1>8. DOMAIN t = 1 .. Len(t) /\ DOMAIN r = 1 .. Len(r)
  BY <1>4, <1>6, LenProperties
<1>9. Values(R.inst[u]) = Values(F.inst[u])
  <2>1. DOMAIN R.inst[u].refs = DOMAIN F.inst[u].refs
    BY <1>3, <1>6, <1>7, <1>8 DEF t, r
  <2> QED
    BY <1>3, <2>1, ValuesSame
<1>10. ASSUME NEW k \in 1 .. Len(r)  PROVE Swapped(t, b, p)[k] = IF r[k] = i THEN Nil ELSE IF r[k] = b THEN p ELSE r[k]
  <2>1. t[k] = IF r[k] = i THEN Nil ELSE r[k]
    BY <1>6
  <2>2. Swapped(t, b, p)[k] = IF t[k] = b THEN p ELSE t[k]
    BY <1>6, <1>7
  <2> QED
    BY <1>4, <2>1, <2>2
<1> QED
  BY <1>3, <1>6, <1>7, <1>9, <1>10 DEF Refolded, t, r, i

LEMMA ConcatNames ==
  ASSUME NEW X, NEW s \in Seq(X), NEW t \in Seq(X), NEW u
  PROVE  Names(s \o t, u) <=> Names(s, u) \/ Names(t, u)
<1> DEFINE m == Len(s)
           n == Len(t)
           c == s \o t
<1>1. m \in Nat /\ n \in Nat /\ Len(c) = m + n
      /\ \A k \in 1 .. m + n : c[k] = IF k <= m THEN s[k] ELSE t[k - m]
  BY LenProperties, ConcatProperties
<1> HIDE DEF m, n, c
<1>2. \A k \in 1 .. m : k \in 1 .. m + n /\ c[k] = s[k]
  BY <1>1
<1>3. \A k \in 1 .. n : m + k \in 1 .. m + n /\ c[m + k] = t[k]
  <2> TAKE k \in 1 .. n
  <2>1. m + k \in 1 .. m + n /\ ~(m + k <= m) /\ (m + k) - m = k
    BY <1>1
  <2> QED
    BY <1>1, <2>1
<1>4. \A k \in 1 .. m + n : k \in 1 .. m \/ (k - m \in 1 .. n /\ c[k] = t[k - m])
  BY <1>1
<1>5. /\ Names(c, u) <=> \E k \in 1 .. m + n : c[k] = u
      /\ Names(s, u) <=> \E k \in 1 .. m : s[k] = u
      /\ Names(t, u) <=> \E k \in 1 .. n : t[k] = u
  BY <1>1 DEF Names, m, n
<1>6. Names(c, u) => Names(s, u) \/ Names(t, u)
  BY <1>2, <1>4, <1>5
<1>7. Names(s, u) \/ Names(t, u) => Names(c, u)
  BY <1>2, <1>3, <1>5
<1> QED
  BY <1>6, <1>7 DEF c

(* Where what is left sits once b has been folded into p.                  *)
LEMMA FoldedSits ==
  ASSUME NEW F, Good(F), NEW b \in DOMAIN F.code, NEW p \in DOMAIN F.code,
         NEW P, NEW S, NEW R, Folding(F, P, S, R, p, b)
  PROVE  LET i == Last(F.code[p]) IN
         /\ DOMAIN R.inst = DOMAIN F.inst \ {i} /\ DOMAIN R.code = DOMAIN F.code
         /\ \A d \in DOMAIN F.code : \A u \in DOMAIN F.inst \ {i} :
              Sits(R, d, u) <=> IF d = b THEN p = b /\ Sits(F, b, u)
                                ELSE Sits(F, d, u) \/ (d = p /\ Sits(F, b, u))
<1> DEFINE i == Last(F.code[p])
           I == DOMAIN F.inst
           B == DOMAIN F.code
<1>1. /\ i \in I /\ Parent(F, i) = p /\ Erasing(F, P, i) /\ Fused(P, S, p, b) /\ Replacing(S, R, b, p)
  BY DEF Folding
<1> HIDE DEF i
<1>2. /\ DOMAIN P.code = B /\ DOMAIN P.inst = I \ {i}
      /\ \A d \in B : P.code[d] \in Seq(I) /\ F.code[d] \in Seq(I) /\ (d # p => P.code[d] = F.code[d])
      /\ \E k : F.code[p][k] = i /\ Drops(F.code[p], P.code[p], k)
  BY <1>1, ErasedAt
<1>3. /\ DOMAIN R.inst = I \ {i} /\ DOMAIN R.code = B /\ R.code = S.code
      /\ \A d \in B \ {b} : R.code[d] = IF d = p THEN P.code[p] \o P.code[b] ELSE P.code[d]
      /\ R.code[b] = IF p = b THEN P.code[b] ELSE <<>>
  BY <1>1, <1>2 DEF Fused, Replacing, Swaps
<1>4. ASSUME NEW d \in B, NEW u \in I \ {i}  PROVE Names(P.code[d], u) <=> Sits(F, d, u)
  <2>1. CASE d = p
    <3>1. PICK k : F.code[p][k] = i /\ Drops(F.code[p], P.code[p], k)
      BY <1>2
    <3> DEFINE s == F.code[p]
               t == P.code[p]
    <3>2. Len(s) \in Nat /\ Drops(s, t, k) /\ u # s[k]
      BY <1>2, <3>1, LenProperties
    <3> HIDE DEF s, t
    <3>3. Names(t, u) <=> Names(s, u)
      BY <3>2, DroppedSame
    <3> QED
      BY <2>1, <3>3 DEF Sits, s, t
  <2>2. CASE d # p
    BY <1>2, <2>2 DEF Sits
  <2> QED
    BY <2>1, <2>2
<1>5. ASSUME NEW d \in B, NEW u \in I \ {i}
      PROVE  Sits(R, d, u) <=> IF d = b THEN p = b /\ Sits(F, b, u)
                               ELSE Sits(F, d, u) \/ (d = p /\ Sits(F, b, u))
  <2>1. CASE d = b
    <3>1. CASE p = b
      BY <1>3, <1>4, <2>1, <3>1 DEF Sits
    <3>2. CASE p # b
      <4>1. R.code[d] = <<>>
        BY <1>3, <2>1, <3>2
      <4>2. ~Names(<<>>, u)
        BY DEF Names
      <4> QED
        BY <2>1, <3>2, <4>1, <4>2 DEF Sits
    <3> QED
      BY <3>1, <3>2
  <2>2. CASE d # b /\ d = p
    <3>1. P.code[p] \in Seq(I) /\ P.code[b] \in Seq(I)
      BY <1>2
    <3>2. Names(P.code[p] \o P.code[b], u) <=> Names(P.code[p], u) \/ Names(P.code[b], u)
      BY <3>1, ConcatNames
    <3>3. R.code[d] = P.code[p] \o P.code[b]
      BY <1>3, <2>2
    <3>4. Names(P.code[p], u) <=> Sits(F, p, u)
      BY <1>4
    <3>5. Names(P.code[b], u) <=> Sits(F, b, u)
      BY <1>4
    <3>6. Sits(R, d, u) <=> Names(P.code[p] \o P.code[b], u)
      BY <3>3 DEF Sits
    <3> QED
      BY <2>2, <3>2, <3>4, <3>5, <3>6
  <2>3. CASE d # b /\ d # p
    BY <1>3, <1>4, <2>3 DEF Sits
  <2> QED
    BY <2>1, <2>2, <2>3
<1> QED
  BY <1>3, <1>5 DEF i

(* A block with one predecessor, which has one successor.                  *)
Chained(F, p, b) ==
  /\ p \in DOMAIN F.code /\ OnlyBranch(F, b, p)
  /\ \A c : Comes(F, c, b) <=> c = p
  /\ \A d \in DOMAIN F.code : Comes(F, p, d) => d = b

LEMMA TrivialBranchChained ==
  ASSUME NEW F, Steady(F), Valued(F), NEW b \in DOMAIN F.code, HasTrivialBranch(F, b)
  PROVE  Chained(F, Previous(F, b), b)
<1> DEFINE W == getInwardFlow(F, b)
           p == Previous(F, b)
           T == getOutwardFlow(F, p)
           B == DOMAIN F.code
<1>1. Good(F) /\ OnlyBranch(F, b, p) /\ Cardinality(W) = 1 /\ Cardinality(T) = 1
  BY PreviousIs DEF Steady, HasTrivialBranch
<1>2. p = CHOOSE q \in W : TRUE
  BY DEF Previous
<1>3. W = {c \in B : Comes(F, c, b)}
  BY <1>1, InwardIs
<1> HIDE DEF p, T, W
<1>4. \A X : X \subseteq B => IsFiniteSet(X)
  <2> DEFINE n == F.next - 1
  <2>1. n \in Int /\ 1 \in Int /\ B \subseteq 1 .. n
    BY <1>1 DEF Good
  <2> HIDE DEF n, B
  <2>2. IsFiniteSet(1 .. n)
    BY <2>1, FS_Interval
  <2> QED
    BY <2>1, <2>2, FS_Subset
<1>5. PICK w : W = {w}
  <2>1. IsFiniteSet(W)
    <3>1. W \subseteq B
      BY <1>3
    <3> QED
      BY <1>4, <3>1
  <2> QED
    BY <1>1, <2>1, FS_Singleton
<1>6. p = w /\ p \in B
  BY <1>2, <1>3, <1>5
<1>7. \A c : Comes(F, c, b) <=> c = p
  BY <1>3, <1>5, <1>6 DEF Comes
<1>8. \A d \in B : Comes(F, p, d) => d \in T
  BY <1>6, GoesOut DEF T
<1>9. T \subseteq B
  <2> DEFINE u == Last(F.code[p])
  <2>1. u \in DOMAIN F.inst
    BY <1>6, LastOf
  <2>2. T = Targets(F.inst[u])
    BY DEF T, getOutwardFlow
  <2> HIDE DEF u, T
  <2> QED
    BY <1>1, <2>1, <2>2 DEF Targets, Good, Aimed
<1>10. PICK t : T = {t}
  <2>1. IsFiniteSet(T)
    BY <1>4, <1>9
  <2> QED
    BY <1>1, <2>1, FS_Singleton
<1>11. \A d \in B : Comes(F, p, d) => d = b
  BY <1>7, <1>8, <1>10
<1> QED
  BY <1>1, <1>6, <1>7, <1>11 DEF Chained, p

(* The flow once b has been folded into p.                                 *)
LEMMA FoldedComes ==
  ASSUME NEW F, Steady(F), Valued(F), NEW b \in DOMAIN F.code, NEW p, Chained(F, p, b),
         NEW P, NEW S, NEW R, Folding(F, P, S, R, p, b), NEW d \in DOMAIN F.code \ {b}, NEW c
  PROVE  Comes(R, c, d) <=> c # b /\ Comes(F, IF c = p THEN b ELSE c, d)
<1> DEFINE i == Last(F.code[p])
           I == DOMAIN F.inst
           B == DOMAIN F.code
           J(u) == F.inst[u].kind \in Branches /\ Names(F.inst[u].refs, d)
<1>1. Good(F) /\ p \in B /\ \A u \in BranchUsers(F, b) : u = i
  BY DEF Steady, Chained, OnlyBranch
<1>2. /\ DOMAIN R.inst = I \ {i} /\ DOMAIN R.code = B
      /\ \A e \in B : \A u \in I \ {i} :
           Sits(R, e, u) <=> IF e = b THEN p = b /\ Sits(F, b, u)
                             ELSE Sits(F, e, u) \/ (e = p /\ Sits(F, b, u))
  BY <1>1, FoldedSits
<1>3. i \in I /\ Parent(F, i) = p
  BY <1>1, LastOf
<1>4. ASSUME NEW u \in I \ {i}
      PROVE  R.inst[u].kind \in Branches /\ Names(R.inst[u].refs, d) <=> J(u)
  <2>1. Refolded(F, R, u, i, p, b)
    BY <1>1, FoldedRefs
  <2> HIDE DEF i
  <2>2. /\ R.inst[u].kind = F.inst[u].kind /\ Len(R.inst[u].refs) = Len(F.inst[u].refs)
        /\ \A k \in 1 .. Len(F.inst[u].refs) :
             R.inst[u].refs[k] = IF F.inst[u].refs[k] = i THEN Nil
                                 ELSE IF F.inst[u].refs[k] = b THEN p ELSE F.inst[u].refs[k]
    BY <2>1 DEF Refolded
  <2>3. ASSUME F.inst[u].kind \in Branches  PROVE ~Names(F.inst[u].refs, b)
    <3>1. Linked(F, {}) /\ b \in DOMAIN F.uses
      BY <1>1 DEF Good
    <3>2. u \in ToSet(F.uses[b]) <=> \E k \in 1 .. Len(F.inst[u].refs) : F.inst[u].refs[k] = b
      BY <3>1, UsersAre
    <3> QED
      BY <1>1, <2>3, <3>2 DEF BranchUsers, Names
  <2>4. d # Nil /\ d # i /\ d # b
    BY <1>1, <1>3, GoodRefs DEF Good
  <2>5. ASSUME F.inst[u].kind \in Branches  PROVE Names(R.inst[u].refs, d) <=> Names(F.inst[u].refs, d)
    <3>1. \A k \in 1 .. Len(F.inst[u].refs) : F.inst[u].refs[k] # b
      BY <2>3, <2>5 DEF Names
    <3>2. \A k \in 1 .. Len(F.inst[u].refs) : R.inst[u].refs[k] = d <=> F.inst[u].refs[k] = d
      BY <2>2, <2>4, <3>1
    <3> QED
      BY <2>2, <3>2 DEF Names
  <2> QED
    BY <2>2, <2>5
<1>5. \A u : Sits(F, p, u) /\ F.inst[u].kind \in Branches => u = i
  BY <1>1, GoesOut DEF Terminators
<1>6. \A e \in B : Sits(F, e, i) => e = p
  <2> TAKE e \in B
  <2>1. i \in I => (Sits(F, e, i) <=> e = Parent(F, i))
    BY <1>1, SitsIs
  <2> QED
    BY <1>3, <2>1
<1> HIDE DEF i, J
<1>7. Comes(R, c, d) <=> c \in B /\ \E u \in I \ {i} : J(u) /\ Sits(R, c, u)
  <2>1. Comes(R, c, d) <=> c \in B /\ \E u \in I \ {i} :
                             R.inst[u].kind \in Branches /\ Names(R.inst[u].refs, d) /\ Sits(R, c, u)
    BY <1>2 DEF Comes
  <2> QED
    BY <1>4, <2>1
<1>8. \A e : Comes(F, e, d) <=> e \in B /\ \E u \in I : J(u) /\ Sits(F, e, u)
  BY DEF Comes, J
<1>9. \A u \in I : J(u) => F.inst[u].kind \in Branches
  BY DEF J
<1>10. CASE c \notin B
  BY <1>1, <1>7, <1>8, <1>10
<1>11. CASE c = b
  BY <1>1, <1>2, <1>5, <1>7, <1>9, <1>11
<1>12. CASE c \in B /\ c # b /\ c = p
  <2>1. \A u \in I \ {i} : J(u) => (Sits(R, c, u) <=> Sits(F, b, u))
    BY <1>2, <1>5, <1>9, <1>12
  <2>2. Comes(F, b, d) <=> \E u \in I \ {i} : J(u) /\ Sits(F, b, u)
    BY <1>6, <1>8, <1>12
  <2> QED
    BY <1>7, <1>12, <2>1, <2>2
<1>13. CASE c \in B /\ c # b /\ c # p
  <2>1. \A u \in I \ {i} : Sits(R, c, u) <=> Sits(F, c, u)
    BY <1>2, <1>13
  <2>2. Comes(F, c, d) <=> \E u \in I \ {i} : J(u) /\ Sits(F, c, u)
    BY <1>6, <1>8, <1>13
  <2> QED
    BY <1>7, <1>13, <2>1, <2>2
<1> QED
  BY <1>10, <1>11, <1>12, <1>13

(* The paths of what is left: r as it is when the branch i has gone and b  *)
(* has become p.                                                           *)
Rebound(r, t, i, p, b) ==
  /\ Len(t) = Len(r)
  /\ \A k \in 1 .. Len(r) : t[k] = IF r[k] = i THEN Nil ELSE IF r[k] = b THEN p ELSE r[k]
Renamed(r, t, p, b) == \A c : Through(t, c) <=> \E e : Through(r, e) /\ c = IF e = b THEN p ELSE e

LEMMA FoldedThrough ==
  ASSUME NEW r, NEW t, NEW i, NEW p, NEW b, Rebound(r, t, i, p, b), ~Through(r, i)
  PROVE  Renamed(r, t, p, b)
<1> DEFINE n == Len(r)
<1> SUFFICES ASSUME NEW c  PROVE Through(t, c) <=> \E e : Through(r, e) /\ c = IF e = b THEN p ELSE e
  BY DEF Renamed
<1>1. Len(t) = n /\ \A k \in 1 .. n : t[k] = IF r[k] = i THEN Nil ELSE IF r[k] = b THEN p ELSE r[k]
  BY DEF Rebound
<1>2. \A k \in 1 .. n : k % 2 = 0 => r[k] # i
  BY DEF Through
<1>3. \A k \in 1 .. n : k % 2 = 0 => t[k] = IF r[k] = b THEN p ELSE r[k]
  BY <1>1, <1>2
<1>4. Through(t, c) <=> \E k \in 1 .. n : k % 2 = 0 /\ t[k] = c
  BY <1>1 DEF Through
<1>5. \A e : Through(r, e) <=> \E k \in 1 .. n : k % 2 = 0 /\ r[k] = e
  BY DEF Through
<1>6. Through(t, c) <=> \E e : Through(r, e) /\ c = IF e = b THEN p ELSE e
  <2>1. ASSUME Through(t, c)  PROVE \E e : Through(r, e) /\ c = IF e = b THEN p ELSE e
    <3>1. PICK k \in 1 .. n : k % 2 = 0 /\ t[k] = c
      BY <1>4, <2>1
    <3>2. Through(r, r[k]) /\ c = IF r[k] = b THEN p ELSE r[k]
      BY <1>3, <1>5, <3>1
    <3> QED
      BY <3>2
  <2>2. ASSUME NEW e, Through(r, e), c = IF e = b THEN p ELSE e  PROVE Through(t, c)
    <3>1. PICK k \in 1 .. n : k % 2 = 0 /\ r[k] = e
      BY <1>5, <2>2
    <3> QED
      BY <1>3, <1>4, <2>2, <3>1
  <2> QED
    BY <2>1, <2>2
<1> QED
  BY <1>6

LEMMA NotTrivial ==
  ASSUME NEW F, Good(F), NEW b \in DOMAIN F.code, ~HasTrivialPhi(F, b),
         NEW u \in DOMAIN F.inst, F.inst[u].kind = "phi", Sits(F, b, u)
  PROVE  Len(F.inst[u].refs) # 2
<1> DEFINE phis == Phis(F, b)
           P == {k \in DOMAIN phis : Len(F.inst[phis[k]].refs) = 2}
           X == At(F.code[b], {k \in DOMAIN F.code[b] : F.inst[F.code[b][k]].kind = "phi"})
<1>1. phis \in Seq(X)
  <2>1. F.code[b] \in Seq(DOMAIN F.inst)
    BY CodeIs
  <2> QED
    BY <2>1, PickedIn DEF Phis
<1>2. u \in ToSet(phis)
  BY PhisHere
<1>3. Picked(phis, P) = <<>>
  BY DEF HasTrivialPhi, TrivialPhis
<1> HIDE DEF phis, X
<1>4. DOMAIN phis = 1 .. Len(phis)
  BY <1>1, LenProperties
<1>5. PICK k \in 1 .. Len(phis) : phis[k] = u
  BY <1>2, <1>4 DEF ToSet
<1>6. k \in P => Names(Picked(phis, P), u)
  BY <1>1, <1>5, PickedHas
<1>7. ~Names(<<>>, u)
  BY DEF Names
<1>8. k \notin P
  BY <1>3, <1>6, <1>7
<1> QED
  BY <1>4, <1>5, <1>8

(* simplifyTrivialBranch.                                                  *)
LEMMA FoldedLax ==
  ASSUME NEW F, Steady(F), Valued(F), Loose(F), NEW b \in DOMAIN F.code, ~HasTrivialPhi(F, b),
         NEW p, Chained(F, p, b), NEW P, NEW S, NEW R, Folding(F, P, S, R, p, b)
  PROVE  Valued(R) /\ Lax(R, b)
<1> DEFINE i == Last(F.code[p])
           I == DOMAIN F.inst
           B == DOMAIN F.code
<1>1. /\ Good(F) /\ p \in B /\ \A c : Comes(F, c, b) <=> c = p
      /\ \A d \in B : Comes(F, p, d) => d = b
  BY DEF Steady, Chained
<1>2. /\ DOMAIN R.inst = I \ {i} /\ DOMAIN R.code = B
      /\ \A e \in B : \A u \in I \ {i} :
           Sits(R, e, u) <=> IF e = b THEN p = b /\ Sits(F, b, u)
                             ELSE Sits(F, e, u) \/ (e = p /\ Sits(F, b, u))
  BY <1>1, FoldedSits
<1>3. i \in I /\ i \notin B /\ Nil \notin B
  BY <1>1, LastOf, GoodRefs DEF Good
<1>4. \A u \in I \ {i} : Refolded(F, R, u, i, p, b)
  BY <1>1, FoldedRefs
<1>5. \A d \in B \ {b} : \A c : Comes(R, c, d) <=> c # b /\ Comes(F, IF c = p THEN b ELSE c, d)
  BY FoldedComes
<1> HIDE DEF i
<1>6. Valued(R)
  <2> SUFFICES ASSUME NEW u \in I \ {i}, NEW k \in 1 .. Len(R.inst[u].refs), k \in Values(R.inst[u])
               PROVE  R.inst[u].refs[k] \notin B
    BY <1>2 DEF Valued
  <2>1. k \in 1 .. Len(F.inst[u].refs) /\ k \in Values(F.inst[u])
        /\ R.inst[u].refs[k] = IF F.inst[u].refs[k] = i THEN Nil
                               ELSE IF F.inst[u].refs[k] = b THEN p ELSE F.inst[u].refs[k]
    BY <1>4 DEF Refolded
  <2>2. F.inst[u].refs[k] \notin B
    BY <2>1 DEF Valued
  <2> QED
    BY <1>3, <2>1, <2>2
<1>7. ASSUME NEW d \in B \ {b}, NEW u \in I \ {i}, R.inst[u].kind = "phi", Sits(R, d, u)
      PROVE  \/ /\ Len(R.inst[u].refs) % 2 = 0
                /\ \A c : Through(R.inst[u].refs, c) <=> Comes(R, c, d) /\ c # b
             \/ Strays(R, d, u)
  <2>1. /\ F.inst[u].kind = "phi" /\ Len(R.inst[u].refs) = Len(F.inst[u].refs)
        /\ Refolded(F, R, u, i, p, b)
    BY <1>4, <1>7 DEF Refolded
  <2>2. Sits(F, d, u) \/ (d = p /\ Sits(F, b, u))
    BY <1>2, <1>7
  <2>3. PICK e \in B : Sits(F, e, u) /\ (e = d \/ (e = b /\ d = p))
    BY <2>2
  <2>4. Meets(F, e, u) \/ Strays(F, e, u)
    BY <2>1, <2>3 DEF Loose
  <2>5. (\A c : Through(F.inst[u].refs, c) => c \in B) /\ Len(F.inst[u].refs) % 2 = 0
    BY <2>4, PathsAre
  <2>6. \A c : Through(R.inst[u].refs, c)
                 <=> \E x : Through(F.inst[u].refs, x) /\ c = IF x = b THEN p ELSE x
    <3>1. Rebound(F.inst[u].refs, R.inst[u].refs, i, p, b)
      BY <2>1 DEF Refolded, Rebound
    <3>2. ~Through(F.inst[u].refs, i)
      BY <1>3, <2>5
    <3>3. Renamed(F.inst[u].refs, R.inst[u].refs, p, b)
      BY <3>1, <3>2, FoldedThrough
    <3> QED
      BY <3>3 DEF Renamed
  <2>7. CASE e = d /\ Meets(F, d, u)
    <3>1. \A c : Through(F.inst[u].refs, c) <=> Comes(F, c, d)
      BY <2>7 DEF Meets
    <3>2. ~Comes(F, p, d)
      BY <1>1
    <3>3. \A c : Comes(R, c, d) <=> c # b /\ Comes(F, IF c = p THEN b ELSE c, d)
      BY <1>5
    <3>4. ASSUME NEW c  PROVE Through(R.inst[u].refs, c) <=> Comes(R, c, d) /\ c # b
      <4>1. CASE c = p
        BY <2>6, <3>1, <3>2, <3>3, <4>1
      <4>2. CASE c # p
        BY <2>6, <3>1, <3>2, <3>3, <4>2
      <4> QED
        BY <4>1, <4>2
    <3> QED
      BY <2>1, <2>5, <3>4
  <2>8. CASE e = d /\ Strays(F, d, u)
    <3>1. \A c : Through(F.inst[u].refs, c) <=> c = d
      BY <2>8 DEF Strays
    <3>2. \A c : Through(R.inst[u].refs, c) <=> c = d
      BY <2>6, <3>1
    <3>3. Strays(R, d, u)
      BY <2>1, <2>8, <3>2 DEF Strays
    <3> QED
      BY <3>3
  <2>9. CASE e = b /\ d = p
    <3>1. Sits(F, b, u)
      BY <2>3, <2>9
    <3>2. Len(F.inst[u].refs) # 2
      BY <1>1, <2>1, <3>1, NotTrivial
    <3>3. PICK a \in {b, p} : \A c : Through(F.inst[u].refs, c) <=> c = a
      <4>1. CASE Meets(F, b, u)
        BY <1>1, <4>1 DEF Meets
      <4>2. CASE Strays(F, b, u)
        BY <4>2 DEF Strays
      <4> QED
        BY <2>4, <2>9, <4>1, <4>2
    <3>4. Len(F.inst[u].refs) >= 4
      <4>1. F.inst[u].refs \in Seq(DOMAIN F.uses \cup {Nil})
        BY <1>1, GoodRefs
      <4> DEFINE n == Len(F.inst[u].refs)
      <4>2. n \in Nat /\ n % 2 = 0 /\ n # 2
        BY <2>5, <3>2, <4>1, LenProperties
      <4>3. n # 0
        BY <3>3 DEF Through
      <4> HIDE DEF n
      <4>4. n >= 4
        BY <4>2, <4>3
      <4> QED
        BY <4>4 DEF n
    <3>5. \A c : Through(R.inst[u].refs, c) <=> c = p
      BY <2>6, <3>3
    <3>6. Strays(R, d, u)
      BY <2>1, <2>5, <2>9, <3>4, <3>5 DEF Strays
    <3> QED
      BY <3>6
  <2> QED
    BY <2>3, <2>4, <2>7, <2>8, <2>9
<1> QED
  BY <1>2, <1>6, <1>7 DEF Lax

LEMMA TrivialBranchFlow ==
  ASSUME NEW F, Steady(F), Valued(F), Loose(F), NEW b \in DOMAIN F.code,
         ~HasTrivialPhi(F, b), HasTrivialBranch(F, b)
  PROVE  LET H == simplifyTrivialBranch(F, b) IN Valued(H) /\ Loose(H)
<1> DEFINE p == Previous(F, b)
           P == pop_back(F, p)
           S == splice(P, p, b)
           R == replaceAllUseWith(S, b, p)
           H == eraseBlock(R, b)
<1>1. Chained(F, p, b)
  BY TrivialBranchChained
<1>2. Folding(F, P, S, R, p, b)
  BY <1>1, BranchFolds DEF Chained
<1>3. simplifyTrivialBranch(F, b) = H
  BY DEF simplifyTrivialBranch
<1> HIDE DEF p, P, S, R
<1>4. Valued(R) /\ Lax(R, b)
  BY <1>1, <1>2, FoldedLax
<1>5. Good(R) /\ R.fault = FALSE /\ NoFalse(R, b) /\ b \in DOMAIN R.code
  <2>1. p \in DOMAIN F.code /\ Good(F)
    BY <1>1 DEF Chained, Steady
  <2>2. DOMAIN R.code = DOMAIN F.code
    BY <1>2, <2>1, FoldedSits
  <2> QED
    BY <1>2, <2>2 DEF Folding, Replacing
<1>6. BlockErasing(R, H, b)
  <2>1. BlockErasing(R, H, b) \/ (H.fault = TRUE /\ \E u \in DOMAIN R.inst : FalseTo(R.inst, u, b))
    BY <1>5, ErasedBlock
  <2> QED
    BY <1>5, <2>1 DEF NoFalse
<1> HIDE DEF H
<1>7. Valued(H) /\ Loose(H)
  BY <1>4, <1>5, <1>6, BlockErasedFlow
<1> QED
  BY <1>3, <1>7

(* One run of the pass.                                                    *)
LEMMA SimplifiedFlow ==
  ASSUME NEW F, Steady(F), Valued(F), Loose(F), ~Converged(F)
  PROVE  LET H == Simplified(F) IN Valued(H) /\ Loose(H)
<1> DEFINE b == FirstRewritable(F)
<1>1. b \in DOMAIN F.code /\ Rewritable(F, b)
  BY StopsAtBlock
<1> HIDE DEF b
<1>2. CASE HasTrivialPhi(F, b)
  <2>1. Simplified(F) = simplifyTrivialPhi(F, b)
    BY <1>2 DEF Simplified, b
  <2> QED
    BY <1>1, <1>2, <2>1, TrivialPhiFlow
<1>3. CASE ~HasTrivialPhi(F, b) /\ HasTrivialBranch(F, b)
  <2>1. Simplified(F) = simplifyTrivialBranch(F, b)
    BY <1>3 DEF Simplified, b
  <2> QED
    BY <1>1, <1>3, <2>1, TrivialBranchFlow
<1>4. CASE ~HasTrivialPhi(F, b) /\ ~HasTrivialBranch(F, b) /\ HasDeadBasicBlock(F, b)
  <2>1. Simplified(F) = deadBasicBlockElem(F, b)
    BY <1>4 DEF Simplified, b
  <2> QED
    BY <1>1, <1>4, <2>1, DeadBlockFlow
<1>5. CASE ~HasTrivialPhi(F, b) /\ ~HasTrivialBranch(F, b) /\ ~HasDeadBasicBlock(F, b)
  <2>1. Simplified(F) = deadInstructionElem(F, b)
    BY <1>5 DEF Simplified, b
  <2>2. HasDeadInstruction(F, b)
    BY <1>1, <1>5 DEF Rewritable
  <2> QED
    BY <1>1, <2>1, <2>2, DeadInstructionFlow
<1> QED
  BY <1>2, <1>3, <1>4, <1>5

-----------------------------------------------------------------------------
(* Flow as a set of pairs: the phis of b have a candidate for the paths x  *)
(* of the pairs <<x, b>> in W; the branches of F are the pairs in V.        *)
Leads(r, b, W) == Len(r) % 2 = 0 /\ \A x : Through(r, x) <=> <<x, b>> \in W
Follows(F, W) ==
  /\ Valued(F)
  /\ \A b \in DOMAIN F.code : \A u \in DOMAIN F.inst :
       F.inst[u].kind = "phi" /\ Sits(F, b, u) => Leads(F.inst[u].refs, b, W)
Flowing(F, V) ==
  /\ V \subseteq (DOMAIN F.code) \X (DOMAIN F.code)
  /\ \A b \in DOMAIN F.code : \A x : Comes(F, x, b) <=> <<x, b>> \in V
Edges(F) == {w \in (DOMAIN F.code) \X (DOMAIN F.code) : Comes(F, w[1], w[2])}

Arrows(b, T) == {<<b, d>> : d \in T}

LEMMA PairIs ==
  ASSUME NEW A, NEW x, NEW y
  PROVE  <<x, y>> \in A \X A <=> x \in A /\ y \in A
OBVIOUS

LEMMA PairsAre ==
  ASSUME NEW A, NEW V, V \subseteq A \X A, NEW b \in A, NEW T, T \subseteq A
  PROVE  V \cup Arrows(b, T) \subseteq A \X A
BY DEF Arrows

LEMMA EdgesAre ==
  ASSUME NEW F, Valued(F), Matched(F)
  PROVE  Follows(F, Edges(F)) /\ Flowing(F, Edges(F))
<1>1. \A b \in DOMAIN F.code : \A x : Comes(F, x, b) <=> <<x, b>> \in Edges(F)
  <2> TAKE b \in DOMAIN F.code
  <2> TAKE x
  <2>1. Comes(F, x, b) => x \in DOMAIN F.code
    BY DEF Comes
  <2>2. <<x, b>>[1] = x /\ <<x, b>>[2] = b
    OBVIOUS
  <2>3. <<x, b>> \in (DOMAIN F.code) \X (DOMAIN F.code) <=> x \in DOMAIN F.code
    <3> DEFINE B == DOMAIN F.code
    <3>1. b \in B
      OBVIOUS
    <3> HIDE DEF B
    <3>2. <<x, b>> \in B \X B <=> x \in B
      BY <3>1, PairIs
    <3> QED
      BY <3>2 DEF B
  <2>4. <<x, b>> \in Edges(F) <=> <<x, b>> \in (DOMAIN F.code) \X (DOMAIN F.code) /\ Comes(F, <<x, b>>[1], <<x, b>>[2])
    BY DEF Edges
  <2> QED
    BY <2>1, <2>2, <2>3, <2>4
<1>2. Edges(F) \subseteq (DOMAIN F.code) \X (DOMAIN F.code)
  BY DEF Edges
<1>3. \A b \in DOMAIN F.code : \A u \in DOMAIN F.inst :
        F.inst[u].kind = "phi" /\ Sits(F, b, u) => Leads(F.inst[u].refs, b, Edges(F))
  <2> TAKE b \in DOMAIN F.code
  <2> TAKE u \in DOMAIN F.inst
  <2> HAVE F.inst[u].kind = "phi" /\ Sits(F, b, u)
  <2>1. Meets(F, b, u)
    BY DEF Matched
  <2> QED
    BY <1>1, <2>1 DEF Meets, Leads
<1> QED
  BY <1>1, <1>2, <1>3 DEF Follows, Flowing

LEMMA FlowMatches ==
  ASSUME NEW F, NEW V, Follows(F, V), Flowing(F, V)
  PROVE  Valued(F) /\ Matched(F)
BY DEF Follows, Flowing, Matched, Meets, Leads

(* After its first n instructions the block b has no phi.                  *)
Bare(F, b, n) == \A k \in 1 .. Len(F.code[b]) : k > n => F.inst[F.code[b][k]].kind # "phi"
BareKept(F, G) == \A b \in DOMAIN F.code : \A n \in Nat : Bare(F, b, n) => Bare(G, b, n)

(* F has become G: its phis follow W, its branches are V.                  *)
On(F, G, W, V) ==
  /\ Grown(F, G) /\ Follows(G, W) /\ Flowing(G, V) /\ BareKept(F, G)

LEMMA OnSelf ==
  ASSUME NEW F, Good(F), NEW W, NEW V, Follows(F, W), Flowing(F, V)
  PROVE  On(F, F, W, V)
BY GrownSelf DEF On, BareKept

LEMMA OnIs ==
  ASSUME NEW F, NEW G, NEW W, NEW V, On(F, G, W, V)
  PROVE  /\ Grown(F, G) /\ Good(G) /\ DOMAIN F.code \subseteq DOMAIN G.code
         /\ DOMAIN F.inst \subseteq DOMAIN G.inst
         /\ Follows(G, W) /\ Flowing(G, V) /\ BareKept(F, G)
         /\ \A b \in DOMAIN F.code : \A n \in Nat : Bare(F, b, n) => Bare(G, b, n)
BY DEF On, Grown, BareKept

LEMMA AppendNames ==
  ASSUME NEW X, NEW s \in Seq(X), NEW n, NEW u
  PROVE  Names(Append(s, n), u) <=> Names(s, u) \/ u = n
<1>1. Len(s) \in Nat /\ s \in [1 .. Len(s) -> X]
  BY LenProperties
<1>2. Len(Append(s, n)) = Len(s) + 1
  BY <1>1, AppendProperties
<1>3. \A k \in 1 .. Len(s) : Append(s, n)[k] = s[k]
  BY <1>1
<1>4. Append(s, n)[Len(s) + 1] = n
  BY <1>1
<1>5. \A k : k \in 1 .. Len(s) + 1 <=> k \in 1 .. Len(s) \/ k = Len(s) + 1
  BY <1>1
<1> QED
  BY <1>2, <1>3, <1>4, <1>5 DEF Names

-----------------------------------------------------------------------------
(* The instruction n, of that kind and with the references r, comes to the *)
(* end of b.                                                               *)
TakesOn(F, H, b, n, kind, r) ==
  /\ Good(H) /\ n \notin DOMAIN F.inst /\ n \notin DOMAIN F.code /\ n # Nil
  /\ DOMAIN H.code = DOMAIN F.code /\ DOMAIN H.inst = DOMAIN F.inst \cup {n}
  /\ \A u \in DOMAIN F.inst : H.inst[u] = F.inst[u]
  /\ H.inst[n].kind = kind /\ H.inst[n].refs = r
  /\ \A d \in DOMAIN F.code : H.code[d] = IF d = b THEN Append(F.code[b], n) ELSE F.code[d]

LEMMA AddsSits ==
  ASSUME NEW F, Good(F), NEW b \in DOMAIN F.code, NEW H, NEW n, NEW kind, NEW r, TakesOn(F, H, b, n, kind, r),
         NEW d \in DOMAIN F.code, NEW u
  PROVE  /\ u # n => (Sits(H, d, u) <=> Sits(F, d, u))
         /\ Sits(H, d, n) <=> d = b
<1>1. F.code[d] \in Seq(DOMAIN F.inst) /\ F.code[b] \in Seq(DOMAIN F.inst)
  BY CodeIs
<1>2. ~Sits(F, d, n)
  BY SitsIs DEF TakesOn
<1>3. CASE d = b
  <2>1. H.code[d] = Append(F.code[d], n)
    BY <1>3 DEF TakesOn
  <2>2. \A v : Names(Append(F.code[d], n), v) <=> Names(F.code[d], v) \/ v = n
    BY <1>1, AppendNames
  <2> QED
    BY <1>2, <1>3, <2>1, <2>2 DEF Sits
<1>4. CASE d # b
  <2>1. H.code[d] = F.code[d]
    BY <1>4 DEF TakesOn
  <2> QED
    BY <1>2, <1>4, <2>1 DEF Sits
<1> QED
  BY <1>3, <1>4

LEMMA AddsComes ==
  ASSUME NEW F, Good(F), NEW b \in DOMAIN F.code, NEW H, NEW n, NEW kind, NEW r, TakesOn(F, H, b, n, kind, r),
         NEW d \in DOMAIN F.code, NEW x
  PROVE  Comes(H, x, d) <=> Comes(F, x, d) \/ (x = b /\ kind \in Branches /\ Names(r, d))
<1>1. ASSUME x \in DOMAIN F.code, NEW u
      PROVE  /\ u # n => (Sits(H, x, u) <=> Sits(F, x, u))
             /\ Sits(H, x, n) <=> x = b
  BY <1>1, AddsSits
<1>2. /\ DOMAIN H.code = DOMAIN F.code /\ DOMAIN H.inst = DOMAIN F.inst \cup {n} /\ n \notin DOMAIN F.inst
      /\ \A u \in DOMAIN F.inst : H.inst[u] = F.inst[u]
      /\ H.inst[n].kind = kind /\ H.inst[n].refs = r
  BY DEF TakesOn
<1>3. ASSUME x \in DOMAIN F.code
      PROVE  (\E u \in DOMAIN H.inst : H.inst[u].kind \in Branches /\ Names(H.inst[u].refs, d) /\ Sits(H, x, u))
        <=> \/ \E u \in DOMAIN F.inst : F.inst[u].kind \in Branches /\ Names(F.inst[u].refs, d) /\ Sits(F, x, u)
            \/ kind \in Branches /\ Names(r, d) /\ x = b
  <2>1. \A u \in DOMAIN F.inst : u # n /\ u \in DOMAIN H.inst /\ H.inst[u] = F.inst[u] /\ (Sits(H, x, u) <=> Sits(F, x, u))
    BY <1>1, <1>2, <1>3
  <2>2. Sits(H, x, n) <=> x = b
    BY <1>1, <1>3
  <2> QED
    BY <1>2, <2>1, <2>2
<1> QED
  BY <1>2, <1>3 DEF Comes

(* What such an instruction asks for, and what it adds.                    *)
Targeting(F, kind, r, T) ==
  /\ T \subseteq DOMAIN F.code
  /\ \A d \in DOMAIN F.code : kind \in Branches /\ Names(r, d) <=> d \in T
Fitting(F, b, kind, r, W) ==
  /\ \A k \in 1 .. Len(r) : k \in Values(Made(kind, Void, r)) => r[k] \notin DOMAIN F.code
  /\ kind = "phi" => Leads(r, b, W)

LEMMA AddsFollow ==
  ASSUME NEW F, Good(F), NEW b \in DOMAIN F.code, NEW H, NEW n, NEW kind, NEW r, TakesOn(F, H, b, n, kind, r),
         NEW W, Follows(F, W), Fitting(F, b, kind, r, W), DOMAIN r = 1 .. Len(r)
  PROVE  Follows(H, W)
<1>1. /\ DOMAIN H.code = DOMAIN F.code /\ DOMAIN H.inst = DOMAIN F.inst \cup {n} /\ n \notin DOMAIN F.inst
      /\ \A u \in DOMAIN F.inst : H.inst[u] = F.inst[u]
      /\ H.inst[n].kind = kind /\ H.inst[n].refs = r
  BY DEF TakesOn
<1>2. Values(H.inst[n]) = Values(Made(kind, Void, r))
  <2>1. Made(kind, Void, r).kind = kind /\ Made(kind, Void, r).refs = r
    BY DEF Made
  <2> QED
    BY <1>1, <2>1, ValuesSame
<1>3. Valued(H)
  <2> SUFFICES ASSUME NEW u \in DOMAIN H.inst, NEW k \in 1 .. Len(H.inst[u].refs), k \in Values(H.inst[u])
               PROVE  H.inst[u].refs[k] \notin DOMAIN F.code
    BY <1>1 DEF Valued
  <2>1. CASE u = n
    BY <1>1, <1>2, <2>1 DEF Fitting
  <2>2. CASE u # n
    BY <1>1, <2>2 DEF Follows, Valued
  <2> QED
    BY <2>1, <2>2
<1>4. ASSUME NEW d \in DOMAIN F.code, NEW u \in DOMAIN H.inst, H.inst[u].kind = "phi", Sits(H, d, u)
      PROVE  Leads(H.inst[u].refs, d, W)
  <2>1. CASE u = n
    <3>1. d = b
      BY <1>4, <2>1, AddsSits
    <3> QED
      BY <1>1, <1>4, <2>1, <3>1 DEF Fitting
  <2>2. CASE u # n
    <3>1. Sits(F, d, u) /\ u \in DOMAIN F.inst /\ H.inst[u] = F.inst[u]
      BY <1>1, <1>4, <2>2, AddsSits
    <3> QED
      BY <1>4, <3>1 DEF Follows
  <2> QED
    BY <2>1, <2>2
<1> QED
  BY <1>1, <1>3, <1>4 DEF Follows

LEMMA AddsFlow ==
  ASSUME NEW F, Good(F), NEW b \in DOMAIN F.code, NEW H, NEW n, NEW kind, NEW r, TakesOn(F, H, b, n, kind, r),
         NEW V, Flowing(F, V), NEW T, Targeting(F, kind, r, T)
  PROVE  Flowing(H, V \cup Arrows(b, T))
<1> DEFINE U == V \cup Arrows(b, T)
<1>1. DOMAIN H.code = DOMAIN F.code
  BY DEF TakesOn
<1>2. U \subseteq (DOMAIN H.code) \X (DOMAIN H.code)
  <2>1. V \subseteq (DOMAIN F.code) \X (DOMAIN F.code)
    BY DEF Flowing
  <2> DEFINE B == DOMAIN F.code
  <2>2. V \subseteq B \X B /\ b \in B /\ T \subseteq B
    BY <2>1 DEF Targeting
  <2> HIDE DEF B
  <2>3. U \subseteq B \X B
    BY <2>2, PairsAre
  <2> QED
    BY <1>1, <2>3 DEF B
<1>3. ASSUME NEW d \in DOMAIN F.code, NEW x  PROVE Comes(H, x, d) <=> <<x, d>> \in U
  <2>1. Comes(H, x, d) <=> Comes(F, x, d) \/ (x = b /\ kind \in Branches /\ Names(r, d))
    BY AddsComes
  <2>2. Comes(F, x, d) <=> <<x, d>> \in V
    BY DEF Flowing
  <2>3. <<x, d>> \in Arrows(b, T) <=> x = b /\ d \in T
    BY DEF Arrows
  <2>4. kind \in Branches /\ Names(r, d) <=> d \in T
    BY DEF Targeting
  <2> QED
    BY <2>1, <2>2, <2>3, <2>4
<1> QED
  BY <1>1, <1>2, <1>3 DEF Flowing

LEMMA AddsBare ==
  ASSUME NEW F, Good(F), NEW b \in DOMAIN F.code, NEW H, NEW n, NEW kind, NEW r, TakesOn(F, H, b, n, kind, r),
         NEW d \in DOMAIN F.code, kind # "phi" \/ d # b, NEW m, Bare(F, d, m)
  PROVE  Bare(H, d, m)
<1>1. /\ \A u \in DOMAIN F.inst : H.inst[u] = F.inst[u]
      /\ H.inst[n].kind = kind
      /\ H.code[d] = IF d = b THEN Append(F.code[b], n) ELSE F.code[d]
  BY DEF TakesOn
<1>2. /\ F.code[d] \in Seq(DOMAIN F.inst) /\ Len(F.code[d]) \in Nat
      /\ \A k \in 1 .. Len(F.code[d]) : F.code[d][k] \in DOMAIN F.inst
  BY CodeIs
<1>3. CASE d = b
  <2> DEFINE s == F.code[d]
             e == Append(s, n)
  <2>0. s \in Seq(DOMAIN F.inst) /\ Len(s) \in Nat
    BY <1>2
  <2>1. H.code[d] = e /\ kind # "phi"
    BY <1>1, <1>3
  <2>2. Len(e) = Len(s) + 1 /\ e[Len(s) + 1] = n /\ \A k \in 1 .. Len(s) : e[k] = s[k]
    BY <2>0, AppendProperties
  <2> SUFFICES ASSUME NEW k \in 1 .. Len(e), k > m  PROVE H.inst[e[k]].kind # "phi"
    BY <2>1 DEF Bare
  <2>3. CASE k = Len(s) + 1
    BY <1>1, <2>1, <2>2, <2>3
  <2>4. CASE k # Len(s) + 1
    <3>1. k \in 1 .. Len(s)
      BY <2>0, <2>2, <2>4
    <3>2. F.inst[s[k]].kind # "phi" /\ s[k] \in DOMAIN F.inst
      BY <1>2, <3>1 DEF Bare
    <3> QED
      BY <1>1, <2>2, <3>1, <3>2
  <2> QED
    BY <2>3, <2>4
<1>4. CASE d # b
  BY <1>1, <1>2, <1>4 DEF Bare
<1> QED
  BY <1>3, <1>4

LEMMA OnAdds ==
  ASSUME NEW F, NEW G, NEW W, NEW V, On(F, G, W, V), NEW b \in DOMAIN G.code, NEW H, Grown(F, H),
         NEW n, NEW kind, NEW r, TakesOn(G, H, b, n, kind, r), kind # "phi" \/ b \notin DOMAIN F.code,
         Fitting(G, b, kind, r, W), DOMAIN r = 1 .. Len(r), NEW T, Targeting(G, kind, r, T)
  PROVE  On(F, H, W, V \cup Arrows(b, T))
<1>1. /\ Good(G) /\ DOMAIN F.code \subseteq DOMAIN G.code /\ Follows(G, W) /\ Flowing(G, V)
      /\ \A d \in DOMAIN F.code : \A m \in Nat : Bare(F, d, m) => Bare(G, d, m)
  BY OnIs
<1>2. Follows(H, W)
  BY <1>1, AddsFollow
<1>3. Flowing(H, V \cup Arrows(b, T))
  BY <1>1, AddsFlow
<1>4. BareKept(F, H)
  <2> SUFFICES ASSUME NEW d \in DOMAIN F.code, NEW m \in Nat, Bare(F, d, m)
               PROVE  Bare(H, d, m)
    BY DEF BareKept
  <2>1. Bare(G, d, m) /\ d \in DOMAIN G.code /\ (kind # "phi" \/ d # b)
    BY <1>1
  <2> QED
    BY <1>1, <2>1, AddsBare
<1> QED
  BY <1>2, <1>3, <1>4 DEF On

LEMMA BuiltAdds ==
  ASSUME NEW F, Good(F), NEW b \in DOMAIN F.code, NEW I, NEW H, InstBuilt(F, H, b, I)
  PROVE  TakesOn(F, H, b, F.next, I.kind, I.refs) /\ Grown(F, H)
<1> DEFINE n == F.next
<1>1. /\ Good(H) /\ H.inst = Entered(F.inst, n, I)
      /\ H.code = [F.code EXCEPT ![b] = Append(@, n)]
  BY DEF InstBuilt
<1>2. n \notin DOMAIN F.inst /\ n \notin DOMAIN F.code /\ n # Nil
  <2>1. n \in Nat \ {0} /\ DOMAIN F.uses \subseteq 1 .. (n - 1) /\ DOMAIN F.code \subseteq DOMAIN F.uses
    BY DEF Good
  <2>2. n \notin 1 .. (n - 1)
    BY <2>1
  <2>3. DOMAIN F.inst \subseteq DOMAIN F.uses
    BY GoodRefs
  <2> QED
    BY <2>1, <2>2, <2>3 DEF Nil
<1>3. /\ DOMAIN H.inst = DOMAIN F.inst \cup {n} /\ H.inst[n] = I
      /\ \A u \in DOMAIN F.inst : H.inst[u] = F.inst[u]
  BY <1>1, <1>2 DEF Entered
<1>4. F.code = [d \in DOMAIN F.code |-> F.code[d]]
  BY DEF Good, Housed
<1>5. /\ DOMAIN H.code = DOMAIN F.code
      /\ \A d \in DOMAIN F.code : H.code[d] = IF d = b THEN Append(F.code[b], n) ELSE F.code[d]
  BY <1>1, <1>4
<1>6. Grown(F, H)
  BY InstGrown DEF Put1
<1> QED
  BY <1>1, <1>2, <1>3, <1>5, <1>6 DEF TakesOn

LEMMA OnBuilt ==
  ASSUME NEW F, Good(F), NEW G, NEW W, NEW V, On(F, G, W, V), NEW b \in DOMAIN G.code,
         NEW kind, NEW type, NEW r, Buildable(G, b, Made(kind, type, r)),
         kind # "phi" \/ b \notin DOMAIN F.code,
         Fitting(G, b, kind, r, W), NEW T, Targeting(G, kind, r, T)
  PROVE  On(F, BuildInst(G, b, kind, type, r), W, V \cup Arrows(b, T))
<1> DEFINE I == Made(kind, type, r)
           H == BuildInst(G, b, kind, type, r)
<1>1. Good(G) /\ Grown(F, G)
  BY OnIs
<1>2. InstBuilt(G, H, b, I)
  BY <1>1, BuiltInst
<1>3. I.kind = kind /\ I.refs = r
  BY DEF Made
<1>4. DOMAIN r = 1 .. Len(r)
  <2>1. r \in Seq(DOMAIN G.uses \cup {Nil})
    BY <1>3 DEF Buildable
  <2> QED
    BY <2>1, LenProperties
<1> HIDE DEF I, H
<1>5. TakesOn(G, H, b, G.next, kind, r) /\ Grown(G, H)
  BY <1>1, <1>2, <1>3, BuiltAdds
<1>6. Grown(F, H)
  BY <1>1, <1>5, GrownTwice
<1>7. On(F, H, W, V \cup Arrows(b, T))
  BY <1>4, <1>5, <1>6, OnAdds
<1> QED
  BY <1>7 DEF H

LEMMA PlainBuildable ==
  ASSUME NEW F, Good(F), NEW b \in DOMAIN F.code, NEW kind, kind \notin Branches, NEW type,
         NEW refs \in Seq(DOMAIN F.inst)
  PROVE  Buildable(F, b, Made(kind, type, refs))
<1>1. refs \in Seq(DOMAIN F.uses \cup {Nil})
  <2>1. DOMAIN F.inst \subseteq DOMAIN F.uses \cup {Nil}
    BY GoodRefs
  <2> QED
    BY <2>1, SeqMonotonic
<1> QED
  BY <1>1 DEF Buildable, Made, Aims, Branches

LEMMA OnPlain ==
  ASSUME NEW F, Good(F), NEW G, NEW W, NEW V, On(F, G, W, V), NEW b \in DOMAIN G.code,
         NEW kind, kind \notin Branches, kind # "phi", NEW type, NEW refs \in Seq(DOMAIN G.inst)
  PROVE  On(F, BuildInst(G, b, kind, type, refs), W, V)
<1>1. Good(G)
  BY OnIs
<1>2. Buildable(G, b, Made(kind, type, refs))
  BY <1>1, PlainBuildable
<1>3. Fitting(G, b, kind, refs, W)
  <2>1. \A k \in 1 .. Len(refs) : refs[k] \in DOMAIN G.inst
    BY ElementOfSeq
  <2>2. DOMAIN G.inst \cap DOMAIN G.code = {}
    BY <1>1 DEF Good
  <2> QED
    BY <2>1, <2>2 DEF Fitting
<1>4. Targeting(G, kind, refs, {})
  BY DEF Targeting
<1>5. On(F, BuildInst(G, b, kind, type, refs), W, V \cup Arrows(b, {}))
  BY <1>2, <1>3, <1>4, OnBuilt
<1>6. V \cup Arrows(b, {}) = V
  BY DEF Arrows
<1> QED
  BY <1>5, <1>6

LEMMA BranchBuildable ==
  ASSUME NEW F, Good(F), NEW b \in DOMAIN F.code, NEW x \in DOMAIN F.code
  PROVE  Buildable(F, b, Made("br", Void, <<x>>))
<1> DEFINE refs == <<x>>
           I == Made("br", Void, refs)
<1>1. x \in DOMAIN F.uses \cup {Nil} /\ x \in DOMAIN F.code \cup {Nil}
  BY DEF Good
<1>2. refs \in Seq(DOMAIN F.uses \cup {Nil}) /\ \A k \in DOMAIN refs : refs[k] = x
  BY <1>1
<1> HIDE DEF refs
<1>3. I.kind = "br" /\ I.refs = refs
  BY DEF Made
<1> HIDE DEF I
<1>4. Aims(I, DOMAIN F.code)
  BY <1>1, <1>2, <1>3 DEF Aims
<1>5. Buildable(F, b, I)
  BY <1>2, <1>3, <1>4 DEF Buildable
<1> QED
  BY <1>5 DEF I, refs

LEMMA OnBranch ==
  ASSUME NEW F, Good(F), NEW G, NEW W, NEW V, On(F, G, W, V), NEW b \in DOMAIN G.code,
         NEW x \in DOMAIN G.code
  PROVE  On(F, BuildInst(G, b, "br", Void, <<x>>), W, V \cup {<<b, x>>})
<1> DEFINE r == <<x>>
<1>1. Good(G)
  BY OnIs
<1>2. Buildable(G, b, Made("br", Void, r))
  BY <1>1, BranchBuildable
<1>3. Len(r) = 1 /\ 1 .. 1 = {1} /\ r[1] = x
  OBVIOUS
<1> HIDE DEF r
<1>4. Fitting(G, b, "br", r, W)
  <2>1. Values(Made("br", Void, r)) = {}
    BY DEF Values, Made
  <2> QED
    BY <2>1 DEF Fitting
<1>5. "br" \in Branches /\ "br" # "phi" /\ {x} \subseteq DOMAIN G.code
  BY DEF Branches
<1>6. Targeting(G, "br", r, {x})
  BY <1>3, <1>5 DEF Names, Targeting
<1>7. On(F, BuildInst(G, b, "br", Void, r), W, V \cup Arrows(b, {x}))
  BY <1>2, <1>4, <1>5, <1>6, OnBuilt
<1>8. Arrows(b, {x}) = {<<b, x>>}
  BY DEF Arrows
<1> QED
  BY <1>7, <1>8 DEF r

LEMMA ChoiceBuildable ==
  ASSUME NEW F, Good(F), NEW b \in DOMAIN F.code, NEW kind \in {"cond", "switch"},
         NEW v \in DOMAIN F.inst, NEW x \in DOMAIN F.code, NEW y \in DOMAIN F.code
  PROVE  Buildable(F, b, Made(kind, Void, <<v, x, y>>))
<1> DEFINE refs == <<v, x, y>>
           I == Made(kind, Void, refs)
           N == DOMAIN F.uses \cup {Nil}
<1>1. v \in N /\ x \in N /\ y \in N
  BY GoodRefs DEF Good
<1>2. refs \in Seq(N) /\ Len(refs) = 3 /\ DOMAIN refs = {1, 2, 3} /\ refs[2] = x /\ refs[3] = y
  <2> HIDE DEF N
  <2>1. DOMAIN refs = 1 .. 3 /\ 1 .. 3 = {1, 2, 3}
    OBVIOUS
  <2> QED
    BY <1>1, <2>1
<1> HIDE DEF refs
<1>3. I.kind = kind /\ I.refs = refs
  BY DEF Made
<1> HIDE DEF I
<1>4. Values(I) = {1}
  BY <1>3 DEF Values
<1>5. Aims(I, DOMAIN F.code)
  BY <1>2, <1>3, <1>4 DEF Aims
<1>6. Buildable(F, b, I)
  BY <1>2, <1>3, <1>5 DEF Buildable, N
<1> QED
  BY <1>6 DEF I, refs

LEMMA OnChoice ==
  ASSUME NEW F, Good(F), NEW G, NEW W, NEW V, On(F, G, W, V), NEW b \in DOMAIN G.code,
         NEW kind \in {"cond", "switch"}, NEW v \in DOMAIN G.inst,
         NEW x \in DOMAIN G.code, NEW y \in DOMAIN G.code
  PROVE  On(F, BuildInst(G, b, kind, Void, <<v, x, y>>), W, V \cup {<<b, x>>, <<b, y>>})
<1> DEFINE r == <<v, x, y>>
<1>1. Good(G)
  BY OnIs
<1>2. Buildable(G, b, Made(kind, Void, r))
  BY <1>1, ChoiceBuildable
<1>3. v \notin DOMAIN G.code
  BY <1>1 DEF Good
<1>4. Len(r) = 3 /\ 1 .. 3 = {1, 2, 3} /\ r[1] = v /\ r[2] = x /\ r[3] = y
  OBVIOUS
<1> HIDE DEF r
<1>5. Fitting(G, b, kind, r, W)
  <2>1. Values(Made(kind, Void, r)) = {1} /\ kind # "phi"
    BY DEF Values, Made
  <2> QED
    BY <1>3, <1>4, <2>1 DEF Fitting
<1>6. kind \in Branches /\ kind # "phi" /\ {x, y} \subseteq DOMAIN G.code
  BY DEF Branches
<1>7. Targeting(G, kind, r, {x, y})
  BY <1>3, <1>4, <1>6 DEF Names, Targeting
<1>8. On(F, BuildInst(G, b, kind, Void, r), W, V \cup Arrows(b, {x, y}))
  BY <1>2, <1>5, <1>6, <1>7, OnBuilt
<1>9. Arrows(b, {x, y}) = {<<b, x>>, <<b, y>>}
  BY DEF Arrows
<1> QED
  BY <1>8, <1>9 DEF r

(* A new block has no phi: whatever W says of it.                          *)
Agrees(W, U, B) == \A b \in B : \A x : <<x, b>> \in U <=> <<x, b>> \in W

LEMMA OnBlock ==
  ASSUME NEW F, Good(F), NEW G, NEW W, NEW V, On(F, G, W, V), NEW pos \in DOMAIN G.code \cup {Nil},
         NEW U, Agrees(W, U, DOMAIN G.code)
  PROVE  LET H == BuildBasicBlock(G, pos) IN
         On(F, H, U, V) /\ Opened(G, H, G.next) /\ \A x : <<x, G.next>> \notin V
<1> DEFINE H == BuildBasicBlock(G, pos)
           n == G.next
<1>1. /\ Good(G) /\ Grown(F, G) /\ Follows(G, W) /\ Flowing(G, V) /\ BareKept(F, G)
      /\ DOMAIN F.code \subseteq DOMAIN G.code
  BY OnIs
<1>2. BlockBuilt(G, H)
  BY <1>1, BuiltBlock
<1> HIDE DEF H
<1>3. Opened(G, H, n)
  BY <1>1, <1>2, BlockGrown
<1>4. /\ Grown(G, H) /\ n \in DOMAIN H.code /\ n \notin DOMAIN G.code /\ H.code[n] = <<>>
      /\ DOMAIN H.code = DOMAIN G.code \cup {n} /\ H.inst = G.inst
      /\ \A d \in DOMAIN G.code : H.code[d] = G.code[d]
  BY <1>3 DEF Opened
<1>5. \A u \in DOMAIN G.inst : \A k \in 1 .. Len(G.inst[u].refs) : G.inst[u].refs[k] # n
  <2>1. n \notin DOMAIN G.uses \cup {Nil}
    <3>1. n \in Nat \ {0} /\ DOMAIN G.uses \subseteq 1 .. (n - 1)
      BY <1>1 DEF Good
    <3> QED
      BY <3>1 DEF Nil
  <2>2. \A u \in DOMAIN G.inst : G.inst[u].refs \in Seq(DOMAIN G.uses \cup {Nil})
    BY <1>1, GoodRefs
  <2> TAKE u \in DOMAIN G.inst
  <2> TAKE k \in 1 .. Len(G.inst[u].refs)
  <2>3. G.inst[u].refs[k] \in DOMAIN G.uses \cup {Nil}
    BY <2>2, ElementOfSeq
  <2> QED
    BY <2>1, <2>3
<1>6. Valued(H)
  BY <1>1, <1>4, <1>5 DEF Valued, Follows
<1>7. \A u : ~Sits(H, n, u)
  BY <1>4 DEF Sits, Names
<1>8. \A d \in DOMAIN G.code : \A u : Sits(H, d, u) <=> Sits(G, d, u)
  BY <1>4 DEF Sits
<1>9. Follows(H, U)
  <2> SUFFICES ASSUME NEW d \in DOMAIN H.code, NEW u \in DOMAIN H.inst, H.inst[u].kind = "phi", Sits(H, d, u)
               PROVE  Leads(H.inst[u].refs, d, U)
    BY <1>6 DEF Follows
  <2>1. d \in DOMAIN G.code
    BY <1>4, <1>7
  <2>2. Leads(G.inst[u].refs, d, W)
    BY <1>1, <1>4, <1>8, <2>1 DEF Follows
  <2>3. \A x : <<x, d>> \in U <=> <<x, d>> \in W
    BY <2>1 DEF Agrees
  <2> QED
    BY <1>4, <2>2, <2>3 DEF Leads
<1>10. V \subseteq (DOMAIN G.code) \X (DOMAIN G.code)
  BY <1>1 DEF Flowing
<1>11. \A x : <<x, n>> \notin V
  <2> DEFINE B == DOMAIN G.code
  <2>1. V \subseteq B \X B /\ n \notin B
    BY <1>4, <1>10
  <2> HIDE DEF B, n
  <2> QED
    BY <2>1
<1>12. Flowing(H, V)
  <2>1. ASSUME NEW d \in DOMAIN G.code, NEW x  PROVE Comes(H, x, d) <=> Comes(G, x, d)
    BY <1>4, <1>7, <1>8 DEF Comes
  <2>2. \A x : ~Comes(H, x, n)
    BY <1>4, <1>5 DEF Comes, Names
  <2>3. \A d \in DOMAIN G.code : \A x : Comes(G, x, d) <=> <<x, d>> \in V
    BY <1>1 DEF Flowing
  <2>4. V \subseteq (DOMAIN H.code) \X (DOMAIN H.code)
    <3> DEFINE B == DOMAIN G.code
    <3>1. V \subseteq B \X B /\ B \subseteq DOMAIN H.code
      BY <1>4, <1>10
    <3> HIDE DEF B
    <3> QED
      BY <3>1
  <2> QED
    BY <1>4, <1>11, <2>1, <2>2, <2>3, <2>4 DEF Flowing
<1>13. BareKept(F, H)
  <2>1. \A d \in DOMAIN F.code : \A m \in Nat : Bare(F, d, m) => Bare(G, d, m)
    BY OnIs
  <2>2. \A d \in DOMAIN G.code : \A m \in Nat : Bare(G, d, m) => Bare(H, d, m)
    BY <1>4 DEF Bare
  <2> QED
    BY <1>1, <2>1, <2>2 DEF BareKept
<1>14. Grown(F, H)
  BY <1>1, <1>4, GrownTwice
<1> QED
  BY <1>3, <1>9, <1>11, <1>12, <1>13, <1>14 DEF On, H

(* A phi without candidates, in a block no pair leads to.                  *)
LEMMA OnPhi ==
  ASSUME NEW F, Good(F), NEW G, NEW W, NEW V, On(F, G, W, V), NEW b \in DOMAIN G.code,
         b \notin DOMAIN F.code, \A x : <<x, b>> \notin W, NEW type
  PROVE  LET H == BuildInst(G, b, "phi", type, <<>>) IN On(F, H, W, V) /\ b \in DOMAIN H.code
<1> DEFINE r == <<>>
<1>1. Good(G)
  BY OnIs
<1>2. Len(r) = 0 /\ 1 .. 0 = {} /\ (\A X : r \in Seq(X)) /\ 0 % 2 = 0
  OBVIOUS
<1>3. Made("phi", type, r).kind = "phi" /\ Made("phi", type, r).refs = r /\ "phi" \notin Branches /\ "phi" # "cond"
  BY DEF Made, Branches
<1> HIDE DEF r
<1>4. Buildable(G, b, Made("phi", type, r))
  BY <1>2, <1>3 DEF Buildable, Aims
<1>5. Fitting(G, b, "phi", r, W)
  <2>1. \A x : ~Through(r, x)
    BY <1>2 DEF Through
  <2> QED
    BY <1>2, <2>1 DEF Fitting, Leads
<1>6. Targeting(G, "phi", r, {})
  BY <1>3 DEF Targeting
<1>7. On(F, BuildInst(G, b, "phi", type, r), W, V \cup Arrows(b, {}))
  BY <1>4, <1>5, <1>6, OnBuilt
<1>8. V \cup Arrows(b, {}) = V
  BY DEF Arrows
<1>9. b \in DOMAIN BuildInst(G, b, "phi", type, r).code
  <2>1. InstBuilt(G, BuildInst(G, b, "phi", type, r), b, Made("phi", type, r))
    BY <1>1, <1>4, BuiltInst
  <2> HIDE DEF r
  <2> DEFINE I == Made("phi", type, r)
             H == BuildInst(G, b, "phi", type, r)
  <2>2. TakesOn(G, H, b, G.next, I.kind, I.refs)
    BY <1>1, <2>1, BuiltAdds
  <2> QED
    BY <2>2 DEF TakesOn
<1> QED
  BY <1>7, <1>8, <1>9 DEF r

LEMMA OnPhis ==
  ASSUME NEW F, Good(F), NEW G, NEW W, NEW V, On(F, G, W, V), NEW b \in DOMAIN G.code,
         b \notin DOMAIN F.code, G.code[b] = <<>>, \A x : <<x, b>> \notin W,
         NEW types, Len(types) \in Nat
  PROVE  LET H == BuildPhis(G, b, types) IN On(F, H, W, V) /\ Bare(H, b, Len(types))
<1> DEFINE n == Len(types)
           H == BuildPhis(G, b, types)
<1>1. PICK f : /\ f[0] = G /\ H = f[n]
               /\ \A j \in 1 .. n : f[j] = LaysStep(G, b, types, f[j - 1], j)
  BY LaysUnfold
<1> DEFINE S == {j \in 0 .. n : On(F, f[j], W, V) /\ b \in DOMAIN f[j].code}
<1> HIDE DEF n
<1>2. n \in Nat
  BY DEF n
<1>3. 0 \in S
  BY <1>1, <1>2
<1>4. ASSUME NEW j \in 0 .. n, j \in S, j < n  PROVE j + 1 \in S
  <2>1. j + 1 \in 1 .. n /\ j + 1 \in 0 .. n /\ (j + 1) - 1 = j
    BY <1>2, <1>4
  <2>2. f[j + 1] = BuildInst(f[j], b, "phi", types[j + 1], <<>>)
    BY <1>1, <2>1 DEF LaysStep
  <2> DEFINE K == f[j]
  <2>3. On(F, K, W, V) /\ b \in DOMAIN K.code
    BY <1>4
  <2> HIDE DEF K
  <2>4. LET L == BuildInst(K, b, "phi", types[j + 1], <<>>) IN On(F, L, W, V) /\ b \in DOMAIN L.code
    BY <2>3, OnPhi
  <2> QED
    BY <2>1, <2>2, <2>4 DEF K
<1>5. n \in S
  <2>1. \A j \in 0 .. n : j \in S /\ j < n => j + 1 \in S
    BY <1>4
  <2> HIDE DEF S
  <2>2. \A j \in 0 .. n : j \in S
    BY <1>2, <1>3, <2>1, Climbs
  <2> QED
    BY <1>2, <2>2
<1>6. On(F, H, W, V)
  BY <1>1, <1>5
<1>7. Bare(H, b, n)
  <2>1. Good(G)
    BY OnIs
  <2>2. PhisBuilt(G, H, b, types, n)
    BY <2>1, BuiltPhis DEF n
  <2> HIDE DEF H
  <2>3. PhisPut(G, H, b, types, n)
    BY <1>2, <2>1, <2>2, PhisGrown
  <2>4. Len(H.code[b]) = n
    BY <2>3 DEF PhisPut
  <2> QED
    BY <1>2, <2>4 DEF Bare
<1> QED
  BY <1>6, <1>7 DEF n

-----------------------------------------------------------------------------
(* Dominance.  A chart has the blocks R that control does not leave once   *)
(* it is in them, with, for each, blocks D[x] that are on every way from   *)
(* the entry e to x.                                                       *)
Rooted(F, e) ==
  /\ e \in DOMAIN F.code /\ F.order # <<>> /\ Head(F.order) = e
  /\ \A c : ~Comes(F, c, e)
Charted(F, R, D, e) ==
  /\ R \subseteq DOMAIN F.code /\ e \in R
  /\ D \in [R -> SUBSET R] /\ D[e] = {e}
  /\ \A x \in R : x \in D[x]
  /\ \A x \in R : \A a \in D[x] : D[a] \subseteq D[x]
  /\ \A x \in R : \A z \in DOMAIN F.code : Comes(F, x, z) => z \in R /\ D[z] \subseteq D[x] \cup {z}

(* The value v is computed in the block a; at the end of c it is there; at *)
(* the instruction u of x it is there.                                     *)
Yields(F, a, v) == v \in DOMAIN F.inst /\ Sits(F, a, v) /\ F.inst[v].kind \notin Terminators
There(F, D, v, c) == \E a \in D[c] : Yields(F, a, v)
Before(s, v, u) == \E j, k \in 1 .. Len(s) : j < k /\ s[j] = v /\ s[k] = u
Above(F, D, v, x, u) == (\E a \in D[x] \ {x} : Yields(F, a, v)) \/ Before(F.code[x], v, u)

(* Whatever the blocks of R use is there.                                  *)
Brought(F, R, D, u) == \A v : \A c \in R : Brings(F.inst[u].refs, v, c) => There(F, D, v, c)
Given(F, D, x, u)   ==
  \A k \in Values(F.inst[u]) : k \in 1 .. Len(F.inst[u].refs) /\ Above(F, D, F.inst[u].refs[k], x, u)
Backed(F, R, D) ==
  \A x \in R : \A u \in DOMAIN F.inst : Sits(F, x, u) =>
    IF F.inst[u].kind = "phi" THEN Brought(F, R, D, u) ELSE Given(F, D, x, u)
Ruled(F, R, D, e) == Charted(F, R, D, e) /\ Backed(F, R, D)
Dominated(F, e) == Rooted(F, e) /\ \E R, D : Ruled(F, R, D, e)

(* What no way from the entry reaches leaves the chart.                    *)
LEMMA ChartShrunk ==
  ASSUME NEW F, NEW R, NEW D, NEW e, Ruled(F, R, D, e), NEW b \in DOMAIN F.code, b # e,
         \A x \in R : Comes(F, x, b) => b \in D[x]
  PROVE  LET S == {x \in R : b \notin D[x]} IN Ruled(F, S, [x \in S |-> D[x]], e) /\ b \notin S
<1> DEFINE S == {x \in R : b \notin D[x]}
           E == [x \in S |-> D[x]]
<1>1. Charted(F, R, D, e) /\ Backed(F, R, D)
  BY DEF Ruled
<1>2. \A x \in S : E[x] = D[x] /\ x \in R /\ b \notin D[x]
  OBVIOUS
<1>3. \A x \in S : D[x] \subseteq S
  <2> SUFFICES ASSUME NEW x \in S, NEW a \in D[x]  PROVE a \in S
    OBVIOUS
  <2>1. a \in R /\ D[a] \subseteq D[x]
    BY <1>1, <1>2 DEF Charted
  <2> QED
    BY <1>2, <2>1
<1>4. e \in S /\ b \notin S
  BY <1>1 DEF Charted
<1>5. E \in [S -> SUBSET S]
  BY <1>3
<1>6. ASSUME NEW x \in S, NEW z \in DOMAIN F.code, Comes(F, x, z)  PROVE z \in S /\ E[z] \subseteq E[x] \cup {z}
  <2>1. z \in R /\ D[z] \subseteq D[x] \cup {z}
    BY <1>1, <1>2, <1>6 DEF Charted
  <2>2. z # b
    BY <1>2, <1>6
  <2>3. z \in S
    BY <1>2, <2>1, <2>2
  <2> QED
    BY <1>2, <2>1, <2>3
<1> HIDE DEF S, E
<1>7. Charted(F, S, E, e)
  <2>1. S \subseteq DOMAIN F.code
    BY <1>1, <1>2 DEF Charted
  <2>2. E[e] = {e}
    BY <1>1, <1>2, <1>4 DEF Charted
  <2>3. \A x \in S : x \in E[x]
    BY <1>1, <1>2 DEF Charted
  <2>4. ASSUME NEW x \in S, NEW a \in E[x]  PROVE E[a] \subseteq E[x]
    <3>1. a \in S /\ D[a] \subseteq D[x]
      BY <1>1, <1>2, <1>3 DEF Charted
    <3> QED
      BY <1>2, <3>1
  <2> QED
    BY <1>4, <1>5, <1>6, <2>1, <2>2, <2>3, <2>4 DEF Charted
<1>8. ASSUME NEW v, NEW c \in S  PROVE There(F, D, v, c) <=> There(F, E, v, c)
  BY <1>2 DEF There
<1>9. ASSUME NEW v, NEW x \in S, NEW u  PROVE Above(F, D, v, x, u) <=> Above(F, E, v, x, u)
  BY <1>2 DEF Above
<1>10. Backed(F, S, E)
  <2> SUFFICES ASSUME NEW x \in S, NEW u \in DOMAIN F.inst, Sits(F, x, u)
               PROVE  IF F.inst[u].kind = "phi" THEN Brought(F, S, E, u) ELSE Given(F, E, x, u)
    BY DEF Backed
  <2>1. IF F.inst[u].kind = "phi" THEN Brought(F, R, D, u) ELSE Given(F, D, x, u)
    BY <1>1, <1>2 DEF Backed
  <2>2. Brought(F, R, D, u) => Brought(F, S, E, u)
    BY <1>2, <1>8 DEF Brought
  <2>3. Given(F, D, x, u) => Given(F, E, x, u)
    BY <1>9 DEF Given
  <2> QED
    BY <2>1, <2>2, <2>3
<1> QED
  BY <1>4, <1>7, <1>10 DEF Ruled, S, E

(* H is F with less: in the blocks R everything that is used stays.        *)
Live(F, R, v) == v \in DOMAIN F.inst /\ \E a \in R : Sits(F, a, v)
Kept(F, H, R, v) ==
  /\ v \in DOMAIN H.inst /\ H.inst[v].kind = F.inst[v].kind
  /\ \A a \in R : Sits(F, a, v) => Sits(H, a, v)
KeepsValues(F, H, R, u) ==
  \A k \in Values(H.inst[u]) :
    /\ k \in Values(F.inst[u])
    /\ k \in 1 .. Len(F.inst[u].refs) =>
         /\ k \in 1 .. Len(H.inst[u].refs)
         /\ LET v == F.inst[u].refs[k] IN Live(F, R, v) => H.inst[u].refs[k] = v /\ Kept(F, H, R, v)
KeepsPaths(F, H, R, u) ==
  \A w : \A c \in R : Brings(H.inst[u].refs, w, c) =>
    \E v : Brings(F.inst[u].refs, v, c) /\ (Live(F, R, v) => w = v /\ Kept(F, H, R, v))
Thins(F, H, R) ==
  /\ R \subseteq DOMAIN H.code /\ DOMAIN H.code \subseteq DOMAIN F.code
  /\ \A x \in R : \A z \in DOMAIN H.code : Comes(H, x, z) => Comes(F, x, z)
  /\ \A x \in R : \A u \in DOMAIN H.inst : Sits(H, x, u) =>
       /\ u \in DOMAIN F.inst /\ Sits(F, x, u) /\ H.inst[u].kind = F.inst[u].kind
       /\ IF H.inst[u].kind = "phi" THEN KeepsPaths(F, H, R, u) ELSE KeepsValues(F, H, R, u)
  /\ \A x \in R : \A v, u \in DOMAIN H.inst : Before(F.code[x], v, u) => Before(H.code[x], v, u)

LEMMA BeforeSits ==
  ASSUME NEW F, Good(F), NEW x \in DOMAIN F.code, NEW v, NEW u, Before(F.code[x], v, u)
  PROVE  Sits(F, x, v) /\ v \in DOMAIN F.inst
<1>1. F.code[x] \in Seq(DOMAIN F.inst)
  BY CodeIs
<1>2. PICK j \in 1 .. Len(F.code[x]) : F.code[x][j] = v
  BY DEF Before
<1> QED
  BY <1>1, <1>2 DEF Sits, Names

LEMMA ThinRuled ==
  ASSUME NEW F, Good(F), NEW R, NEW D, NEW e, Ruled(F, R, D, e), NEW H, Thins(F, H, R)
  PROVE  Ruled(H, R, D, e)
<1>1. Charted(F, R, D, e) /\ Backed(F, R, D)
  BY DEF Ruled
<1>2. R \subseteq DOMAIN H.code /\ DOMAIN H.code \subseteq DOMAIN F.code
  BY DEF Thins
<1>3. \A x \in R : \A z \in DOMAIN H.code : Comes(H, x, z) => z \in R /\ D[z] \subseteq D[x] \cup {z}
  <2> SUFFICES ASSUME NEW x \in R, NEW z \in DOMAIN H.code, Comes(H, x, z)
               PROVE  z \in R /\ D[z] \subseteq D[x] \cup {z}
    OBVIOUS
  <2>1. z \in DOMAIN F.code /\ Comes(F, x, z)
    BY <1>2 DEF Thins
  <2> QED
    BY <1>1, <2>1 DEF Charted
<1>4. Charted(H, R, D, e)
  BY <1>1, <1>2, <1>3 DEF Charted
<1>5. \A x \in R : D[x] \subseteq R
  BY <1>1 DEF Charted
<1>6. ASSUME NEW v, NEW c \in R, There(F, D, v, c)  PROVE Live(F, R, v)
  BY <1>5, <1>6 DEF There, Yields, Live
<1>7. ASSUME NEW v, Kept(F, H, R, v), NEW a \in R, Yields(F, a, v)  PROVE Yields(H, a, v)
  BY <1>7 DEF Kept, Yields
<1>8. ASSUME NEW x \in R, NEW u \in DOMAIN H.inst, Sits(H, x, u), H.inst[u].kind = "phi"
      PROVE  Brought(H, R, D, u)
  <2>1. u \in DOMAIN F.inst /\ Sits(F, x, u) /\ F.inst[u].kind = "phi" /\ KeepsPaths(F, H, R, u)
    BY <1>8 DEF Thins
  <2>2. Brought(F, R, D, u)
    BY <1>1, <2>1 DEF Backed
  <2> SUFFICES ASSUME NEW w, NEW c \in R, Brings(H.inst[u].refs, w, c)  PROVE There(H, D, w, c)
    BY DEF Brought
  <2>3. PICK v : Brings(F.inst[u].refs, v, c) /\ (Live(F, R, v) => w = v /\ Kept(F, H, R, v))
    BY <2>1 DEF KeepsPaths
  <2>4. There(F, D, v, c)
    BY <2>2, <2>3 DEF Brought
  <2>5. w = v /\ Kept(F, H, R, v)
    BY <1>6, <2>3, <2>4
  <2>6. PICK a \in D[c] : Yields(F, a, v)
    BY <2>4 DEF There
  <2>7. Yields(H, a, w)
    BY <1>5, <1>7, <2>5, <2>6
  <2> QED
    BY <2>7 DEF There
<1>9. ASSUME NEW x \in R, NEW u \in DOMAIN H.inst, Sits(H, x, u), H.inst[u].kind # "phi"
      PROVE  Given(H, D, x, u)
  <2>1. u \in DOMAIN F.inst /\ Sits(F, x, u) /\ F.inst[u].kind # "phi" /\ KeepsValues(F, H, R, u)
    BY <1>9 DEF Thins
  <2>2. Given(F, D, x, u)
    BY <1>1, <2>1 DEF Backed
  <2> SUFFICES ASSUME NEW k \in Values(H.inst[u])  
               PROVE k \in 1 .. Len(H.inst[u].refs) /\ Above(H, D, H.inst[u].refs[k], x, u)
    BY DEF Given
  <2> DEFINE v == F.inst[u].refs[k]
  <2>7. k \in Values(F.inst[u])
    BY <2>1 DEF KeepsValues
  <2>4. k \in 1 .. Len(F.inst[u].refs) /\ Above(F, D, v, x, u)
    BY <2>2, <2>7 DEF Given
  <2>3. k \in 1 .. Len(H.inst[u].refs) /\ (Live(F, R, v) => H.inst[u].refs[k] = v /\ Kept(F, H, R, v))
    BY <2>1, <2>4 DEF KeepsValues
  <2> HIDE DEF v
  <2>5. CASE \E a \in D[x] \ {x} : Yields(F, a, v)
    <3>1. PICK a \in D[x] \ {x} : Yields(F, a, v)
      BY <2>5
    <3>2. a \in R /\ Live(F, R, v)
      BY <1>5, <3>1 DEF Yields, Live
    <3>3. Yields(H, a, H.inst[u].refs[k])
      BY <1>7, <2>3, <3>1, <3>2
    <3> QED
      BY <2>3, <3>1, <3>3 DEF Above
  <2>6. CASE Before(F.code[x], v, u)
    <3>1. Sits(F, x, v) /\ v \in DOMAIN F.inst
      BY <1>2, <2>6, BeforeSits
    <3>2. Live(F, R, v)
      BY <3>1 DEF Live
    <3>3. H.inst[u].refs[k] = v /\ v \in DOMAIN H.inst
      BY <2>3, <3>2 DEF Kept
    <3>4. Before(H.code[x], v, u)
      BY <2>6, <3>3 DEF Thins
    <3> QED
      BY <2>3, <3>3, <3>4 DEF Above
  <2> QED
    BY <2>3, <2>4, <2>5, <2>6 DEF Above
<1> QED
  BY <1>4, <1>8, <1>9 DEF Ruled, Backed

(* References to one node go to another, where nothing of the chart is      *)
(* needed of the first.                                                    *)
Spared(F, R, D, i) ==
  \/ \A x \in R : ~Sits(F, x, i)
  \/ \A u \in D : ~Names(F.inst[u].refs, i)

LEMMA SweptThin ==
  ASSUME NEW F, Good(F), NEW H, NEW D, NEW old, NEW new, Swept(F, H, D, old, new),
         NEW R, R \subseteq DOMAIN F.code, DOMAIN F.inst \ D \subseteq {old}, Spared(F, R, D, old),
         \A x \in R : \A v, u \in D : Before(F.code[x], v, u) => Before(H.code[x], v, u)
  PROVE  Thins(F, H, R)
<1>1. /\ DOMAIN H.code = DOMAIN F.code /\ D \subseteq DOMAIN F.inst /\ DOMAIN H.inst = D
      /\ old \notin DOMAIN F.code /\ new \notin DOMAIN F.code
      /\ \A b \in DOMAIN F.code : \A u \in D : Sits(H, b, u) <=> Sits(F, b, u)
      /\ \A u \in D : H.inst[u].kind = F.inst[u].kind /\ H.inst[u].refs = Swapped(F.inst[u].refs, old, new)
  BY DEF Swept, Swaps
<1>2. \A x \in R : \A z \in DOMAIN H.code : Comes(H, x, z) => Comes(F, x, z)
  BY <1>1, SweptComes
<1> DEFINE r(u) == F.inst[u].refs
           t(u) == H.inst[u].refs
<1>3. ASSUME NEW u \in D
      PROVE  /\ Len(t(u)) = Len(r(u)) /\ Len(r(u)) \in Nat /\ DOMAIN t(u) = DOMAIN r(u)
             /\ \A k \in 1 .. Len(r(u)) : t(u)[k] = IF r(u)[k] = old THEN new ELSE r(u)[k]
  <2>1. r(u) \in Seq(DOMAIN F.uses \cup {Nil}) /\ t(u) = Swapped(r(u), old, new)
    BY <1>1, <1>3, GoodRefs
  <2> HIDE DEF r, t
  <2> QED
    BY <2>1, SwappedNames
<1>4. ASSUME NEW u \in D, NEW k \in 1 .. Len(r(u)), Live(F, R, r(u)[k])
      PROVE  t(u)[k] = r(u)[k] /\ Kept(F, H, R, r(u)[k])
  <2> DEFINE v == r(u)[k]
  <2>1. v # old
    BY <1>4 DEF Spared, Live, Names
  <2>2. v \in D /\ t(u)[k] = v
    BY <1>3, <1>4, <2>1 DEF Live
  <2> HIDE DEF v
  <2>3. Kept(F, H, R, v)
    BY <1>1, <2>2 DEF Kept
  <2> QED
    BY <2>2, <2>3 DEF v
<1>5. ASSUME NEW u \in D  PROVE KeepsValues(F, H, R, u)
  <2>1. Values(H.inst[u]) = Values(F.inst[u])
    <3>1. H.inst[u].kind = F.inst[u].kind /\ DOMAIN H.inst[u].refs = DOMAIN F.inst[u].refs
      BY <1>1, <1>3, <1>5
    <3> QED
      BY <3>1, ValuesSame
  <2> QED
    BY <1>3, <1>4, <1>5, <2>1 DEF KeepsValues
<1>6. ASSUME NEW u \in D  PROVE KeepsPaths(F, H, R, u)
  <2> SUFFICES ASSUME NEW w, NEW c \in R, Brings(t(u), w, c)
               PROVE  \E v : Brings(r(u), v, c) /\ (Live(F, R, v) => w = v /\ Kept(F, H, R, v))
    BY DEF KeepsPaths
  <2>1. PICK k \in 1 .. Len(t(u)) : k % 2 = 1 /\ k + 1 \in 1 .. Len(t(u)) /\ t(u)[k] = w /\ t(u)[k + 1] = c
    BY DEF Brings
  <2>2. k \in 1 .. Len(r(u)) /\ k + 1 \in 1 .. Len(r(u))
    BY <1>3, <2>1
  <2>3. c \in DOMAIN F.code
    OBVIOUS
  <2>4. r(u)[k + 1] = c
    BY <1>1, <1>3, <2>1, <2>2, <2>3
  <2>5. Brings(r(u), r(u)[k], c)
    BY <2>1, <2>2, <2>4 DEF Brings
  <2>6. Live(F, R, r(u)[k]) => w = r(u)[k] /\ Kept(F, H, R, r(u)[k])
    BY <1>4, <2>1, <2>2
  <2> QED
    BY <2>5, <2>6
<1>7. \A x \in R : \A u \in D : Sits(H, x, u) <=> Sits(F, x, u)
  BY <1>1
<1> HIDE DEF r, t
<1> QED
  BY <1>1, <1>2, <1>5, <1>6, <1>7 DEF Thins

(* What was before something else still is when one place is dropped.      *)
LEMMA DroppedBefore ==
  ASSUME NEW s, NEW t, NEW p, Len(s) \in Nat, Drops(s, t, p), NEW v, v # s[p], NEW u, u # s[p],
         Before(s, v, u)
  PROVE  Before(t, v, u)
<1>1. /\ p \in 1 .. Len(s) /\ Len(t) = Len(s) - 1
      /\ \A k \in 1 .. Len(t) : t[k] = IF k < p THEN s[k] ELSE s[k + 1]
  BY DEF Drops
<1>2. PICK j \in 1 .. Len(s), k \in 1 .. Len(s) : j < k /\ s[j] = v /\ s[k] = u
  BY DEF Before
<1>3. j # p /\ k # p
  BY <1>2
<1> DEFINE to(n) == IF n < p THEN n ELSE n - 1
<1>4. to(j) \in 1 .. Len(t) /\ to(k) \in 1 .. Len(t) /\ to(j) < to(k)
  BY <1>1, <1>2, <1>3
<1>5. t[to(j)] = v
  <2>1. CASE j < p
    <3>1. to(j) = j /\ j \in 1 .. Len(t)
      BY <1>4, <2>1
    <3> HIDE DEF to
    <3> QED
      BY <1>1, <1>2, <2>1, <3>1
  <2>2. CASE j > p
    <3>1. to(j) = j - 1 /\ j - 1 \in 1 .. Len(t) /\ ~(j - 1 < p) /\ (j - 1) + 1 = j
      BY <1>1, <1>4, <2>2
    <3> HIDE DEF to
    <3>2. t[j - 1] = s[(j - 1) + 1]
      BY <1>1, <3>1
    <3> QED
      BY <1>2, <3>1, <3>2
  <2> QED
    BY <1>1, <1>3, <2>1, <2>2
<1>6. t[to(k)] = u
  <2>1. CASE k < p
    <3>1. to(k) = k /\ k \in 1 .. Len(t)
      BY <1>4, <2>1
    <3> HIDE DEF to
    <3> QED
      BY <1>1, <1>2, <2>1, <3>1
  <2>2. CASE k > p
    <3>1. to(k) = k - 1 /\ k - 1 \in 1 .. Len(t) /\ ~(k - 1 < p) /\ (k - 1) + 1 = k
      BY <1>1, <1>4, <2>2
    <3> HIDE DEF to
    <3>2. t[k - 1] = s[(k - 1) + 1]
      BY <1>1, <3>1
    <3> QED
      BY <1>2, <3>1, <3>2
  <2> QED
    BY <1>1, <1>3, <2>1, <2>2
<1> HIDE DEF to
<1> QED
  BY <1>4, <1>5, <1>6 DEF Before

(* Erasing an instruction that is no terminator.                           *)
LEMMA ErasedThin ==
  ASSUME NEW F, Good(F), NEW i \in DOMAIN F.inst, F.inst[i].kind \notin Terminators,
         NEW H, Erasing(F, H, i), NEW R, R \subseteq DOMAIN F.code,
         Spared(F, R, DOMAIN F.inst \ {i}, i)
  PROVE  Thins(F, H, R)
<1> DEFINE I == DOMAIN F.inst
           q == Parent(F, i)
<1>2. /\ DOMAIN H.code = DOMAIN F.code
      /\ \A d \in DOMAIN F.code : d # q => H.code[d] = F.code[d]
      /\ \E p : F.code[q][p] = i /\ Drops(F.code[q], H.code[q], p)
  BY ErasedAt
<1>3. Swaps(F.inst, H.inst, I \ {i}, i, Nil)
  BY DEF Erasing
<1>4. i \notin DOMAIN F.code /\ Nil \notin DOMAIN F.code
  BY GoodRefs DEF Good
<1>5. ASSUME NEW b \in DOMAIN F.code, NEW u \in I \ {i}, b = q
      PROVE  /\ Sits(H, b, u) <=> Sits(F, b, u)
             /\ \A v \in I \ {i} : Before(F.code[b], v, u) => Before(H.code[b], v, u)
  <2>1. PICK p : F.code[q][p] = i /\ Drops(F.code[q], H.code[q], p)
    BY <1>2
  <2> DEFINE s == F.code[q]
             t == H.code[q]
  <2>2. Len(s) \in Nat
    BY <1>5, CodeIs
  <2>3. Drops(s, t, p) /\ i = s[p]
    BY <2>1
  <2> HIDE DEF s, t
  <2>4. Names(t, u) <=> Names(s, u)
    BY <2>2, <2>3, DroppedSame
  <2>5. \A v \in I \ {i} : Before(s, v, u) => Before(t, v, u)
    BY <2>2, <2>3, DroppedBefore
  <2> QED
    BY <1>5, <2>4, <2>5 DEF Sits, s, t
<1>6. ASSUME NEW b \in DOMAIN F.code, NEW u \in I \ {i}
      PROVE  /\ Sits(H, b, u) <=> Sits(F, b, u)
             /\ \A v \in I \ {i} : Before(F.code[b], v, u) => Before(H.code[b], v, u)
  <2>1. CASE b # q
    BY <1>2, <2>1 DEF Sits, Names
  <2> QED
    BY <1>5, <2>1
<1>7. F.inst[i].kind \notin Branches
  BY DEF Terminators
<1>8. Swept(F, H, I \ {i}, i, Nil)
  BY <1>2, <1>3, <1>4, <1>6, <1>7 DEF Swept
<1>9. \A x \in R : \A v, u \in I \ {i} : Before(F.code[x], v, u) => Before(H.code[x], v, u)
  BY <1>6
<1>10. DOMAIN F.inst \ (I \ {i}) \subseteq {i}
  OBVIOUS
<1> QED
  BY <1>8, <1>9, <1>10, SweptThin

LEMMA ErasedSwept ==
  ASSUME NEW F, Good(F), NEW i \in DOMAIN F.inst, F.inst[i].kind \notin Terminators,
         NEW H, Erasing(F, H, i)
  PROVE  Swept(F, H, DOMAIN F.inst \ {i}, i, Nil)
<1> DEFINE I == DOMAIN F.inst
           q == Parent(F, i)
<1>2. /\ DOMAIN H.code = DOMAIN F.code
      /\ \A d \in DOMAIN F.code : d # q => H.code[d] = F.code[d]
      /\ \E p : F.code[q][p] = i /\ Drops(F.code[q], H.code[q], p)
  BY ErasedAt
<1>3. Swaps(F.inst, H.inst, I \ {i}, i, Nil)
  BY DEF Erasing
<1>4. i \notin DOMAIN F.code /\ Nil \notin DOMAIN F.code
  BY GoodRefs DEF Good
<1>5. ASSUME NEW b \in DOMAIN F.code, NEW u \in I \ {i}, b = q
      PROVE  Sits(H, b, u) <=> Sits(F, b, u)
  <2>1. PICK p : F.code[q][p] = i /\ Drops(F.code[q], H.code[q], p)
    BY <1>2
  <2> DEFINE s == F.code[q]
             t == H.code[q]
  <2>2. Len(s) \in Nat
    BY <1>5, CodeIs
  <2>3. Drops(s, t, p) /\ i = s[p]
    BY <2>1
  <2> HIDE DEF s, t
  <2>4. Names(t, u) <=> Names(s, u)
    BY <2>2, <2>3, DroppedSame
  <2> QED
    BY <1>5, <2>4 DEF Sits, s, t
<1>6. ASSUME NEW b \in DOMAIN F.code, NEW u \in I \ {i}
      PROVE  Sits(H, b, u) <=> Sits(F, b, u)
  <2>1. CASE b # q
    BY <1>2, <2>1 DEF Sits, Names
  <2> QED
    BY <1>5, <2>1
<1>7. F.inst[i].kind \notin Branches
  BY DEF Terminators
<1> QED
  BY <1>2, <1>3, <1>4, <1>6, <1>7 DEF Swept

(* The root stays the root.                                                *)
LEMMA SweptRooted ==
  ASSUME NEW F, Good(F), NEW H, NEW D, NEW old, NEW new, Swept(F, H, D, old, new),
         H.order = F.order, NEW e, Rooted(F, e)
  PROVE  Rooted(H, e)
<1>1. e \in DOMAIN F.code /\ DOMAIN H.code = DOMAIN F.code
  BY DEF Rooted, Swept
<1>2. \A c : Comes(H, c, e) <=> Comes(F, c, e)
  BY <1>1, SweptComes
<1> QED
  BY <1>1, <1>2 DEF Rooted

LEMMA ErasedRuled ==
  ASSUME NEW F, Good(F), F.fault = FALSE, NEW i \in DOMAIN F.inst, F.inst[i].kind \notin Terminators,
         NEW R, NEW D, NEW e, Rooted(F, e), Ruled(F, R, D, e), Spared(F, R, DOMAIN F.inst \ {i}, i)
  PROVE  Dominated(eraseInst(F, i), e)
<1> DEFINE H == eraseInst(F, i)
<1>1. Erasing(F, H, i)
  BY ErasedInst
<1> HIDE DEF H
<1>2. R \subseteq DOMAIN F.code
  BY DEF Ruled, Charted
<1>3. Thins(F, H, R)
  BY <1>1, <1>2, ErasedThin
<1>4. Ruled(H, R, D, e)
  BY <1>3, ThinRuled
<1>5. Swept(F, H, DOMAIN F.inst \ {i}, i, Nil) /\ H.order = F.order
  BY <1>1, ErasedSwept DEF Erasing
<1>6. Rooted(H, e)
  BY <1>5, SweptRooted
<1> QED
  BY <1>4, <1>6 DEF Dominated, H

(* deadInstructionElem: what nobody uses may go.                           *)
LEMMA DeadInstructionRuled ==
  ASSUME NEW F, Steady(F), NEW b \in DOMAIN F.code, HasDeadInstruction(F, b), NEW e, Dominated(F, e)
  PROVE  Dominated(deadInstructionElem(F, b), e)
<1> DEFINE i == Head(DeadInstructions(F, b))
<1>1. i \in DOMAIN F.inst /\ F.inst[i].kind \notin Terminators /\ F.uses[i] = <<>>
  BY DeadInstructionIs
<1> HIDE DEF i
<1>2. Good(F) /\ F.fault = FALSE
  BY DEF Steady
<1>3. Linked(F, {}) /\ i \in DOMAIN F.uses
  BY <1>1, <1>2, GoodRefs DEF Good
<1>4. \A u \in DOMAIN F.inst : ~Names(F.inst[u].refs, i)
  <2>1. ToSet(F.uses[i]) = {}
    BY <1>1 DEF ToSet
  <2> QED
    BY <1>3, <2>1, UsersAre DEF Names
<1>5. PICK R, D : Ruled(F, R, D, e)
  BY DEF Dominated
<1>6. Spared(F, R, DOMAIN F.inst \ {i}, i)
  BY <1>4 DEF Spared
<1>7. Dominated(eraseInst(F, i), e)
  BY <1>1, <1>2, <1>5, <1>6, ErasedRuled DEF Dominated
<1> QED
  BY <1>7 DEF deadInstructionElem, i

(* What dominates c dominates whatever y does.                             *)
Drawn(R, D, y, c) == [x \in R |-> IF y \in D[x] THEN D[x] \cup D[c] ELSE D[x]]

LEMMA DrawnCharted ==
  ASSUME NEW F, NEW R, NEW D, NEW e, Charted(F, R, D, e), NEW y \in R, NEW c \in R, y # e, y \notin D[c],
         \A x : Comes(F, x, y) => x = c
  PROVE  Charted(F, R, Drawn(R, D, y, c), e)
<1> DEFINE E == Drawn(R, D, y, c)
<1>1. \A x \in R : E[x] = IF y \in D[x] THEN D[x] \cup D[c] ELSE D[x]
  BY DEF Drawn
<1>2. E \in [R -> SUBSET R]
  <2>1. D \in [R -> SUBSET R]
    BY DEF Charted
  <2> QED
    BY <2>1 DEF Drawn
<1> HIDE DEF E
<1>3. E[e] = {e} /\ \A x \in R : x \in E[x]
  BY <1>1 DEF Charted
<1>4. ASSUME NEW x \in R, NEW a \in E[x]  PROVE E[a] \subseteq E[x]
  <2>1. CASE a \in D[x]
    <3>1. a \in R /\ D[a] \subseteq D[x]
      BY <2>1 DEF Charted
    <3> QED
      BY <1>1, <3>1
  <2>2. CASE a \notin D[x]
    <3>1. y \in D[x] /\ a \in D[c]
      BY <1>1, <1>4, <2>2
    <3>2. a \in R /\ D[a] \subseteq D[c]
      BY <3>1 DEF Charted
    <3>3. E[a] = D[a] /\ E[x] = D[x] \cup D[c]
      BY <1>1, <3>1, <3>2
    <3> QED
      BY <3>2, <3>3
  <2> QED
    BY <2>1, <2>2
<1>5. ASSUME NEW x \in R, NEW z \in DOMAIN F.code, Comes(F, x, z)  PROVE z \in R /\ E[z] \subseteq E[x] \cup {z}
  <2>1. z \in R /\ D[z] \subseteq D[x] \cup {z}
    BY <1>5 DEF Charted
  <2>2. CASE y \notin D[z]
    BY <1>1, <2>1, <2>2
  <2>3. CASE y \in D[z] /\ y \in D[x]
    BY <1>1, <2>1, <2>3
  <2>4. CASE y \in D[z] /\ y \notin D[x]
    <3>1. y = z
      BY <2>1, <2>4
    <3>2. x = c
      BY <1>5, <3>1
    <3> QED
      BY <1>1, <2>1, <3>1, <3>2
  <2> QED
    BY <2>2, <2>3, <2>4
<1>6. R \subseteq DOMAIN F.code /\ e \in R
  BY DEF Charted
<1>7. Charted(F, R, E, e)
  BY <1>2, <1>3, <1>4, <1>5, <1>6 DEF Charted
<1> QED
  BY <1>7 DEF E

(* A phi of y with one candidate, the value v for the path c.              *)
Sole(F, y, phi, v, c) ==
  /\ y \in DOMAIN F.code /\ Sits(F, y, phi) /\ v \notin DOMAIN F.code
  /\ Brings(F.inst[phi].refs, v, c)
  /\ c \in DOMAIN F.code /\ \A x : Comes(F, x, y) <=> x = c

LEMMA TrivialPhiSole ==
  ASSUME NEW F, Good(F), Valued(F), Loose(F),
         NEW phi \in DOMAIN F.inst, F.inst[phi].kind = "phi", Len(F.inst[phi].refs) = 2
  PROVE  \E y, c : Sole(F, y, phi, F.inst[phi].refs[1], c)
<1> DEFINE y == Parent(F, phi)
           r == F.inst[phi].refs
           v == r[1]
           c == r[2]
<1>1. y \in DOMAIN F.code /\ Sits(F, y, phi)
  <2>1. y \in DOMAIN F.code
    BY ParentIs DEF Good
  <2> QED
    BY <2>1, SitsIs
<1>2. Meets(F, y, phi)
  <2>1. Meets(F, y, phi) \/ Strays(F, y, phi)
    BY <1>1 DEF Loose
  <2> QED
    BY <2>1 DEF Strays
<1>3. v \notin DOMAIN F.code
  <2>1. 1 \in 1 .. Len(r) /\ r \in Seq(DOMAIN F.uses \cup {Nil})
    BY GoodRefs
  <2>2. 1 \in Values(F.inst[phi])
    BY <2>1 DEF Values
  <2> QED
    BY <2>1, <2>2 DEF Valued
<1> HIDE DEF y, v
<1>4. \A x : Through(r, x) <=> x = c
  BY DEF Through
<1>5. \A x : Comes(F, x, y) <=> x = c
  BY <1>2, <1>4 DEF Meets
<1>6. Brings(r, v, c)
  BY DEF Brings, v
<1>7. c \in DOMAIN F.code
  BY <1>5 DEF Comes
<1>8. Sole(F, y, phi, v, c)
  BY <1>1, <1>3, <1>5, <1>6, <1>7 DEF Sole
<1> QED
  BY <1>8 DEF v

(* Its users take the value.                                               *)
LEMMA MovedRuled ==
  ASSUME NEW F, Good(F), NEW R, NEW D, NEW e, Ruled(F, R, D, e), NEW y \in R, NEW c \in R, y # e, y \notin D[c],
         NEW phi \in DOMAIN F.inst, F.inst[phi].kind = "phi", NEW v, Sole(F, y, phi, v, c),
         NEW G, G.code = F.code, Swept(F, G, DOMAIN F.inst, phi, v)
  PROVE  Ruled(G, R, Drawn(R, D, y, c), e) /\ v # phi
<1> DEFINE I == DOMAIN F.inst
           E == Drawn(R, D, y, c)
<1>1. Charted(F, R, D, e) /\ Backed(F, R, D) /\ R \subseteq DOMAIN F.code
  BY DEF Ruled, Charted
<1>2. /\ DOMAIN G.code = DOMAIN F.code /\ phi \notin DOMAIN F.code /\ v \notin DOMAIN F.code /\ DOMAIN G.inst = I
      /\ \A b \in DOMAIN F.code : \A u \in I : Sits(G, b, u) <=> Sits(F, b, u)
      /\ \A u \in I : G.inst[u].kind = F.inst[u].kind /\ G.inst[u].refs = Swapped(F.inst[u].refs, phi, v)
  BY DEF Swept, Swaps
<1>3. Charted(F, R, E, e)
  BY <1>1, DrawnCharted DEF Sole
<1>4. \A x \in R : \A z \in DOMAIN G.code : Comes(G, x, z) => Comes(F, x, z)
  BY <1>2, SweptComes
<1>5. \A x \in R : E[x] = IF y \in D[x] THEN D[x] \cup D[c] ELSE D[x]
  BY DEF Drawn
<1> HIDE DEF E
<1>6. Charted(G, R, E, e)
  <2>1. \A x \in R : \A z \in DOMAIN G.code : Comes(G, x, z) => z \in R /\ E[z] \subseteq E[x] \cup {z}
    BY <1>2, <1>3, <1>4 DEF Charted
  <2> QED
    BY <1>2, <1>3, <2>1 DEF Charted
<1>7. \A x \in R : D[x] \subseteq R /\ x \in D[x] /\ \A a \in D[x] : D[a] \subseteq D[x]
  BY <1>1 DEF Charted
<1>8. ASSUME NEW a \in R, NEW w, Yields(F, a, w)  PROVE Yields(G, a, w)
  BY <1>1, <1>2, <1>8 DEF Yields
<1>9. ASSUME NEW a \in R, Sits(F, a, phi)  PROVE a = y
  BY <1>1, <1>9, SitsIs DEF Sole
<1>10. PICK a \in D[c] : Yields(F, a, v)
  <2>1. Sits(F, y, phi) /\ Brings(F.inst[phi].refs, v, c)
    BY DEF Sole
  <2>2. Brought(F, R, D, phi)
    BY <1>1, <2>1 DEF Backed
  <2>3. There(F, D, v, c)
    BY <2>1, <2>2 DEF Brought
  <2> QED
    BY <2>3 DEF There
<1>11. a \in R /\ a # y /\ Yields(G, a, v)
  BY <1>7, <1>8, <1>10
<1>12. v # phi
  BY <1>9, <1>10, <1>11 DEF Yields
<1>13. ASSUME NEW x \in R, y \in D[x]  PROVE a \in E[x] \ {x}
  <2>1. a \in E[x]
    BY <1>5, <1>10, <1>13
  <2>2. a # x
    BY <1>7, <1>10, <1>13
  <2> QED
    BY <2>1, <2>2
<1>14. ASSUME NEW u \in I
       PROVE  LET r == F.inst[u].refs
                  t == G.inst[u].refs
              IN  /\ Len(t) = Len(r) /\ Len(r) \in Nat /\ DOMAIN t = DOMAIN r
                  /\ \A k \in 1 .. Len(r) : t[k] = IF r[k] = phi THEN v ELSE r[k]
  <2> DEFINE r == F.inst[u].refs
             t == G.inst[u].refs
  <2>1. r \in Seq(DOMAIN F.uses \cup {Nil}) /\ t = Swapped(r, phi, v)
    BY <1>2, <1>14, GoodRefs
  <2> HIDE DEF r, t
  <2>2. Len(t) = Len(r) /\ Len(r) \in Nat /\ DOMAIN t = DOMAIN r
        /\ \A k \in 1 .. Len(r) : t[k] = IF r[k] = phi THEN v ELSE r[k]
    BY <2>1, SwappedNames
  <2> QED
    BY <2>2 DEF r, t
<1>15. ASSUME NEW w, NEW q \in R, There(F, D, w, q)  PROVE There(G, E, IF w = phi THEN v ELSE w, q)
  <2>1. PICK d \in D[q] : Yields(F, d, w)
    BY <1>15 DEF There
  <2>2. d \in R /\ d \in E[q]
    BY <1>5, <1>7, <2>1
  <2>3. CASE w = phi
    <3>1. d = y
      BY <1>9, <2>1, <2>2, <2>3 DEF Yields
    <3>2. a \in E[q]
      BY <1>13, <2>1, <3>1
    <3> QED
      BY <1>11, <2>3, <3>2 DEF There
  <2>4. CASE w # phi
    BY <1>8, <2>1, <2>2, <2>4 DEF There
  <2> QED
    BY <2>3, <2>4
<1>16. ASSUME NEW x \in R, NEW w, NEW u, Above(F, D, w, x, u)  PROVE Above(G, E, IF w = phi THEN v ELSE w, x, u)
  <2>1. CASE \E d \in D[x] \ {x} : Yields(F, d, w)
    <3>1. PICK d \in D[x] \ {x} : Yields(F, d, w)
      BY <2>1
    <3>2. d \in R /\ d \in E[x] \ {x}
      BY <1>5, <1>7, <3>1
    <3>3. CASE w = phi
      <4>1. d = y
        BY <1>9, <3>1, <3>2, <3>3 DEF Yields
      <4>2. a \in E[x] \ {x}
        BY <1>13, <3>1, <4>1
      <4> QED
        BY <1>11, <3>3, <4>2 DEF Above
    <3>4. CASE w # phi
      BY <1>8, <3>1, <3>2, <3>4 DEF Above
    <3> QED
      BY <3>3, <3>4
  <2>2. CASE Before(F.code[x], w, u)
    <3>1. CASE w = phi
      <4>1. Sits(F, x, phi)
        BY <1>1, <2>2, <3>1, BeforeSits
      <4>2. x = y
        BY <1>9, <4>1
      <4>3. a \in E[x] \ {x}
        BY <1>7, <1>13, <4>2
      <4> QED
        BY <1>11, <3>1, <4>3 DEF Above
    <3>2. CASE w # phi
      BY <2>2, <3>2 DEF Above
    <3> QED
      BY <3>1, <3>2
  <2> QED
    BY <1>16, <2>1, <2>2 DEF Above
<1>17. ASSUME NEW x \in R, NEW u \in I, Sits(F, x, u), F.inst[u].kind = "phi"  PROVE Brought(G, R, E, u)
  <2> DEFINE r == F.inst[u].refs
             t == G.inst[u].refs
  <2>1. Brought(F, R, D, u)
    BY <1>1, <1>17 DEF Backed
  <2> SUFFICES ASSUME NEW w, NEW q \in R, Brings(t, w, q)  PROVE There(G, E, w, q)
    BY DEF Brought
  <2>2. PICK k \in 1 .. Len(t) : k % 2 = 1 /\ k + 1 \in 1 .. Len(t) /\ t[k] = w /\ t[k + 1] = q
    BY DEF Brings
  <2>3. k \in 1 .. Len(r) /\ k + 1 \in 1 .. Len(r) /\ (t[k] = IF r[k] = phi THEN v ELSE r[k])
        /\ (t[k + 1] = IF r[k + 1] = phi THEN v ELSE r[k + 1])
    BY <1>14, <2>2
  <2>4. r[k + 1] = q
    BY <1>1, <1>2, <2>2, <2>3
  <2>5. Brings(r, r[k], q)
    BY <2>2, <2>3, <2>4 DEF Brings
  <2>6. There(F, D, r[k], q)
    BY <2>1, <2>5 DEF Brought
  <2> HIDE DEF r, t
  <2>7. There(G, E, IF r[k] = phi THEN v ELSE r[k], q)
    BY <1>15, <2>6
  <2> QED
    BY <2>2, <2>3, <2>7
<1>18. ASSUME NEW x \in R, NEW u \in I, Sits(F, x, u), F.inst[u].kind # "phi"  PROVE Given(G, E, x, u)
  <2> DEFINE r == F.inst[u].refs
             t == G.inst[u].refs
  <2>1. Given(F, D, x, u)
    BY <1>1, <1>18 DEF Backed
  <2>2. Values(G.inst[u]) = Values(F.inst[u])
    <3>1. G.inst[u].kind = F.inst[u].kind /\ DOMAIN G.inst[u].refs = DOMAIN F.inst[u].refs
      BY <1>2, <1>14
    <3> QED
      BY <3>1, ValuesSame
  <2> SUFFICES ASSUME NEW k \in Values(F.inst[u])  PROVE k \in 1 .. Len(t) /\ Above(G, E, t[k], x, u)
    BY <2>2 DEF Given
  <2>3. k \in 1 .. Len(r) /\ Above(F, D, r[k], x, u)
    BY <2>1 DEF Given
  <2>4. k \in 1 .. Len(t) /\ (t[k] = IF r[k] = phi THEN v ELSE r[k])
    BY <1>14, <2>3
  <2> HIDE DEF r, t
  <2>5. Above(G, E, IF r[k] = phi THEN v ELSE r[k], x, u)
    BY <1>16, <2>3
  <2> QED
    BY <2>4, <2>5
<1>19. Backed(G, R, E)
  BY <1>1, <1>2, <1>17, <1>18 DEF Backed
<1> QED
  BY <1>6, <1>12, <1>19 DEF Ruled, E

(* simplifyTrivialPhi.                                                     *)
LEMMA TrivialPhiRuled ==
  ASSUME NEW F, Steady(F), Valued(F), Loose(F), NEW b \in DOMAIN F.code, HasTrivialPhi(F, b),
         NEW e, Dominated(F, e)
  PROVE  Dominated(simplifyTrivialPhi(F, b), e)
<1> DEFINE phi == Head(TrivialPhis(F, b))
           v == F.inst[phi].refs[1]
           G == replaceAllUseWith(F, phi, v)
           I == DOMAIN F.inst
<1>1. TrivialPhi(F, phi)
  BY TrivialPhiIs
<1> HIDE DEF phi
<1>2. phi \in I /\ F.inst[phi].kind = "phi" /\ Len(F.inst[phi].refs) = 2 /\ Replacing(F, G, phi, v)
  BY <1>1 DEF TrivialPhi
<1>3. Good(F)
  BY DEF Steady
<1>4. PICK y, c : Sole(F, y, phi, v, c)
  BY <1>2, <1>3, TrivialPhiSole
<1> HIDE DEF G, v
<1>5. Good(G) /\ G.fault = FALSE /\ G.code = F.code /\ G.order = F.order /\ Swaps(F.inst, G.inst, I, phi, v)
  BY <1>2 DEF Replacing
<1>6. Swept(F, G, I, phi, v)
  <2>1. phi \notin DOMAIN F.code /\ v \notin DOMAIN F.code
    BY <1>2, <1>3, <1>4 DEF Good, Sole
  <2> QED
    BY <1>5, <2>1 DEF Swept, Sits
<1>7. phi \in DOMAIN G.inst /\ DOMAIN G.inst = I /\ G.inst[phi].kind \notin Terminators
  <2>1. phi \in DOMAIN G.inst /\ DOMAIN G.inst = I /\ G.inst[phi].kind = "phi"
    BY <1>2, <1>5 DEF Swaps
  <2> QED
    BY <2>1 DEF Terminators, Branches
<1>8. Rooted(F, e) /\ Rooted(G, e)
  BY <1>3, <1>5, <1>6, SweptRooted DEF Dominated
<1>9. PICK R, D : Ruled(F, R, D, e)
  BY DEF Dominated
<1>10. y \in DOMAIN F.code /\ c \in DOMAIN F.code /\ y # e /\ \A x : Comes(F, x, y) <=> x = c
  BY <1>4, <1>8 DEF Sole, Rooted
<1>11. CASE y \in R /\ c \in R /\ y \notin D[c]
  <2>1. Ruled(G, R, Drawn(R, D, y, c), e) /\ v # phi
    BY <1>2, <1>3, <1>4, <1>5, <1>6, <1>9, <1>10, <1>11, MovedRuled
  <2>2. \A u \in I : ~Names(G.inst[u].refs, phi)
    <3> SUFFICES ASSUME NEW u \in I, NEW k \in 1 .. Len(G.inst[u].refs), G.inst[u].refs[k] = phi  PROVE FALSE
      BY DEF Names
    <3>1. F.inst[u].refs \in Seq(DOMAIN F.uses \cup {Nil}) /\ G.inst[u].refs = Swapped(F.inst[u].refs, phi, v)
      BY <1>3, <1>5, GoodRefs DEF Swaps
    <3>2. Len(G.inst[u].refs) = Len(F.inst[u].refs)
          /\ \A m \in 1 .. Len(F.inst[u].refs) :
               G.inst[u].refs[m] = IF F.inst[u].refs[m] = phi THEN v ELSE F.inst[u].refs[m]
      BY <3>1, SwappedNames
    <3> QED
      BY <2>1, <3>2
  <2>3. Spared(G, R, DOMAIN G.inst \ {phi}, phi)
    BY <1>7, <2>2 DEF Spared
  <2> QED
    BY <1>5, <1>7, <1>8, <2>1, <2>3, ErasedRuled DEF simplifyTrivialPhi, G, v, phi
<1>12. CASE ~(y \in R /\ c \in R /\ y \notin D[c])
  <2>1. \A x \in R : Comes(F, x, y) => y \in D[x]
    <3> SUFFICES ASSUME NEW x \in R, Comes(F, x, y)  PROVE y \in D[x]
      OBVIOUS
    <3>1. x = c /\ y \in R
      BY <1>9, <1>10 DEF Ruled, Charted
    <3> QED
      BY <1>12, <3>1
  <2> DEFINE S == {x \in R : y \notin D[x]}
             E == [x \in S |-> D[x]]
  <2>2. Ruled(F, S, E, e) /\ y \notin S
    BY <1>9, <1>10, <2>1, ChartShrunk
  <2> HIDE DEF S, E
  <2>3. S \subseteq DOMAIN F.code
    BY <2>2 DEF Ruled, Charted
  <2>4. \A x \in S : ~Sits(F, x, phi)
    BY <1>2, <1>3, <1>4, <2>2, <2>3, SitsIs DEF Sole
  <2>5. Spared(F, S, I, phi)
    BY <2>4 DEF Spared
  <2>6. \A x \in S : \A w, u \in I : Before(F.code[x], w, u) => Before(G.code[x], w, u)
    BY <1>5
  <2>7. Thins(F, G, S)
    BY <1>3, <1>6, <2>3, <2>5, <2>6, SweptThin
  <2>8. Ruled(G, S, E, e)
    BY <1>3, <2>2, <2>7, ThinRuled
  <2>9. Spared(G, S, DOMAIN G.inst \ {phi}, phi)
    BY <1>5, <2>4 DEF Spared, Sits
  <2> QED
    BY <1>5, <1>7, <1>8, <2>8, <2>9, ErasedRuled DEF simplifyTrivialPhi, G, v, phi
<1> QED
  BY <1>11, <1>12

(* Phis that forget b are fewer candidates.                                *)
LEMMA WeededThin ==
  ASSUME NEW F, Good(F), NEW L, NEW b, NEW D, Weeded(F, L, b, D), NEW R, R \subseteq DOMAIN F.code
  PROVE  Thins(F, L, R) /\ L.order = F.order /\ \A c, z : Comes(L, c, z) <=> Comes(F, c, z)
<1>1. /\ L.code = F.code /\ DOMAIN L.inst = DOMAIN F.inst /\ L.order = F.order
      /\ \A u \in DOMAIN F.inst : /\ L.inst[u].kind = F.inst[u].kind
                                  /\ F.inst[u].kind # "phi" => L.inst[u].refs = F.inst[u].refs
  BY DEF Weeded, Tuned, Retuned
<1>2. ASSUME NEW u \in DOMAIN F.inst, F.inst[u].kind = "phi", NEW v, NEW c, Brings(L.inst[u].refs, v, c)
      PROVE  Brings(F.inst[u].refs, v, c)
  <2>1. IF u \in D THEN Weeds(F.inst[u].refs, L.inst[u].refs, b) ELSE L.inst[u].refs = F.inst[u].refs
    BY <1>2 DEF Weeded, PhisOf
  <2> QED
    BY <1>2, <2>1 DEF Weeds
<1>3. \A c, z : Comes(L, c, z) <=> Comes(F, c, z)
  <2>1. \A u \in DOMAIN F.inst : F.inst[u].kind \in Branches => L.inst[u].refs = F.inst[u].refs
    BY <1>1 DEF Branches
  <2> QED
    BY <1>1, <2>1 DEF Comes, Sits
<1>4. \A v : Live(F, R, v) => Kept(F, L, R, v)
  BY <1>1 DEF Live, Kept, Sits
<1>5. ASSUME NEW u \in DOMAIN F.inst, F.inst[u].kind = "phi"  PROVE KeepsPaths(F, L, R, u)
  BY <1>2, <1>4, <1>5 DEF KeepsPaths
<1>6. ASSUME NEW u \in DOMAIN F.inst, F.inst[u].kind # "phi"  PROVE KeepsValues(F, L, R, u)
  <2>1. L.inst[u].refs = F.inst[u].refs /\ L.inst[u].kind = F.inst[u].kind
    BY <1>1, <1>6
  <2>2. Values(L.inst[u]) = Values(F.inst[u])
    BY <2>1, ValuesSame
  <2> QED
    BY <1>4, <2>1, <2>2 DEF KeepsValues
<1>7. Thins(F, L, R)
  BY <1>1, <1>3, <1>5, <1>6 DEF Thins, Sits
<1> QED
  BY <1>1, <1>3, <1>7

(* A block outside of R goes.                                              *)
LEMMA BlockThin ==
  ASSUME NEW F, Good(F), NEW b \in DOMAIN F.code, NEW H, BlockErasing(F, H, b),
         NEW R, R \subseteq DOMAIN F.code, b \notin R
  PROVE  Thins(F, H, R) /\ \A c : \A z \in DOMAIN H.code : Comes(H, c, z) => Comes(F, c, z)
<1> DEFINE B == DOMAIN F.code
           C == DOMAIN H.code
<1>1. /\ DOMAIN H.inst = DOMAIN F.inst \ ToSet(F.code[b])
      /\ DOMAIN H.uses = DOMAIN F.uses \ (ToSet(F.code[b]) \cup {b})
      /\ C = B \ {b} /\ \A d \in C : H.code[d] = F.code[d]
      /\ Nulled(F, H) /\ Good(H)
  BY DEF BlockErasing
<1>2. Nil \notin B /\ B \subseteq DOMAIN F.uses /\ C \subseteq DOMAIN H.uses
      /\ DOMAIN F.inst \subseteq DOMAIN F.uses /\ b \notin DOMAIN F.inst /\ Nil \notin DOMAIN F.uses
  BY <1>1, GoodRefs DEF Good
<1>3. R \subseteq C
  BY <1>1
<1>4. ASSUME NEW u \in DOMAIN H.inst
      PROVE  /\ u \in DOMAIN F.inst /\ H.inst[u].kind = F.inst[u].kind
             /\ Len(H.inst[u].refs) = Len(F.inst[u].refs)
             /\ \A k \in 1 .. Len(F.inst[u].refs) :
                  /\ H.inst[u].refs[k] = F.inst[u].refs[k] \/ H.inst[u].refs[k] = Nil
                  /\ F.inst[u].refs[k] \in DOMAIN H.uses => H.inst[u].refs[k] = F.inst[u].refs[k]
             /\ Values(H.inst[u]) = Values(F.inst[u])
  <2>1. /\ u \in DOMAIN F.inst /\ H.inst[u].kind = F.inst[u].kind
        /\ Len(H.inst[u].refs) = Len(F.inst[u].refs)
        /\ \A k \in 1 .. Len(F.inst[u].refs) :
             H.inst[u].refs[k] = IF F.inst[u].refs[k] \in DOMAIN F.uses \ DOMAIN H.uses THEN Nil
                                 ELSE F.inst[u].refs[k]
    BY <1>1 DEF Nulled
  <2>3. /\ F.inst[u].refs \in Seq(DOMAIN F.uses \cup {Nil})
        /\ H.inst[u].refs \in Seq(DOMAIN H.uses \cup {Nil})
    BY <1>1, <2>1, GoodRefs
  <2>4. DOMAIN F.inst[u].refs = 1 .. Len(F.inst[u].refs) /\ DOMAIN H.inst[u].refs = 1 .. Len(H.inst[u].refs)
    BY <2>3, LenProperties
  <2>5. Values(H.inst[u]) = Values(F.inst[u])
    BY <2>1, <2>4, ValuesSame
  <2> QED
    BY <2>1, <2>5
<1> HIDE DEF B, C
<1>5. \A d \in C : \A u : Sits(H, d, u) <=> Sits(F, d, u)
  BY <1>1 DEF Sits, Names
<1>6. \A c : \A z \in C : Comes(H, c, z) => Comes(F, c, z)
  <2> SUFFICES ASSUME NEW c, NEW z \in C, Comes(H, c, z)  PROVE Comes(F, c, z)
    OBVIOUS
  <2>1. PICK u \in DOMAIN H.inst : H.inst[u].kind \in Branches /\ Names(H.inst[u].refs, z) /\ Sits(H, c, u)
    BY DEF Comes
  <2>2. c \in C /\ c \in B /\ z # Nil
    BY <1>1, <1>2 DEF Comes, C
  <2>3. Names(F.inst[u].refs, z)
    BY <1>4, <2>1, <2>2 DEF Names
  <2> QED
    BY <1>4, <1>5, <2>1, <2>2, <2>3 DEF Comes, B
<1>7. ASSUME NEW v, Live(F, R, v)  PROVE Kept(F, H, R, v) /\ v \in DOMAIN H.uses
  <2>1. PICK a \in R : v \in DOMAIN F.inst /\ Sits(F, a, v)
    BY <1>7 DEF Live
  <2>2. ~Sits(F, b, v)
    <3>1. a \in DOMAIN F.code /\ a # b
      OBVIOUS
    <3> QED
      BY <2>1, <3>1, SitsIs
  <2>3. v \notin ToSet(F.code[b])
    <3>1. F.code[b] \in Seq(DOMAIN F.inst)
      BY CodeIs
    <3> QED
      BY <2>2, <3>1 DEF ToSet, Sits, Names
  <2>4. v \in DOMAIN H.inst /\ v \in DOMAIN H.uses
    BY <1>1, <1>2, <2>1, <2>3
  <2>5. H.inst[v].kind = F.inst[v].kind
    BY <1>4, <2>4
  <2> QED
    BY <1>3, <1>5, <2>4, <2>5 DEF Kept
<1>8. ASSUME NEW u \in DOMAIN H.inst  PROVE KeepsValues(F, H, R, u)
  BY <1>4, <1>7, <1>8 DEF KeepsValues
<1>9. ASSUME NEW u \in DOMAIN H.inst  PROVE KeepsPaths(F, H, R, u)
  <2> DEFINE r == F.inst[u].refs
             t == H.inst[u].refs
  <2> SUFFICES ASSUME NEW w, NEW c \in R, Brings(t, w, c)
               PROVE  \E v : Brings(r, v, c) /\ (Live(F, R, v) => w = v /\ Kept(F, H, R, v))
    BY DEF KeepsPaths
  <2>1. PICK k \in 1 .. Len(t) : k % 2 = 1 /\ k + 1 \in 1 .. Len(t) /\ t[k] = w /\ t[k + 1] = c
    BY DEF Brings
  <2>2. k \in 1 .. Len(r) /\ k + 1 \in 1 .. Len(r)
    BY <1>4, <2>1
  <2>3. c # Nil
    BY <1>1, <1>2, <1>3
  <2>4. r[k + 1] = c
    BY <1>4, <2>1, <2>2, <2>3
  <2>5. Brings(r, r[k], c)
    BY <2>1, <2>2, <2>4 DEF Brings
  <2>6. Live(F, R, r[k]) => w = r[k] /\ Kept(F, H, R, r[k])
    BY <1>4, <1>7, <2>1, <2>2
  <2> QED
    BY <2>5, <2>6
<1>10. \A x \in R : \A v, u \in DOMAIN H.inst : Before(F.code[x], v, u) => Before(H.code[x], v, u)
  BY <1>1, <1>3
<1>11. C \subseteq B
  BY <1>1
<1> QED
  BY <1>3, <1>4, <1>5, <1>6, <1>8, <1>9, <1>10, <1>11 DEF Thins, B, C

(* The first block of the list stays the first.                            *)
LEMMA HeadStays ==
  ASSUME NEW F, Good(F), NEW b \in DOMAIN F.code, F.order # <<>>, Head(F.order) # b
  PROVE  RemoveFirst(F.order, b) # <<>> /\ Head(RemoveFirst(F.order, b)) = Head(F.order)
<1> DEFINE s == F.order
           B == DOMAIN F.code
           t == RemoveFirst(s, b)
<1>1. s \in Seq(B) /\ Times(s, b) = 1
  BY DEF Good, Rowed
<1> HIDE DEF s
<1>2. Contains(s, b)
  BY <1>1, TimesCounted
<1>3. t \in Seq(B) /\ Len(t) = Len(s) - 1 /\ \E p : s[p] = b /\ Drops(s, t, p)
  BY <1>1, <1>2, RemovedAt
<1> HIDE DEF t
<1>4. PICK p : s[p] = b /\ Drops(s, t, p)
  BY <1>3
<1>5. p \in 1 .. Len(s) /\ p # 1 /\ Len(s) \in Nat
  <2>1. s # <<>> /\ Head(s) # b
    BY DEF s
  <2>2. Head(s) = s[1]
    BY <1>1, <2>1, HeadTailProperties
  <2> QED
    BY <1>1, <1>4, <2>1, <2>2, LenProperties DEF Drops
<1>6. 1 \in 1 .. Len(t) /\ 1 < p
  BY <1>3, <1>5
<1>7. t[1] = s[1]
  BY <1>4, <1>6 DEF Drops
<1>8. t # <<>> /\ Head(t) = t[1]
  <2>1. t # <<>>
    BY <1>6
  <2> QED
    BY <1>3, <2>1, HeadTailProperties
<1>9. Head(s) = s[1]
  <2>1. s # <<>>
    BY DEF s
  <2> QED
    BY <1>1, <2>1, HeadTailProperties
<1> QED
  BY <1>7, <1>8, <1>9 DEF s, t

LEMMA BlockRooted ==
  ASSUME NEW F, Good(F), NEW b \in DOMAIN F.code, NEW H, BlockErasing(F, H, b), NEW e, Rooted(F, e), b # e
  PROVE  Rooted(H, e)
<1>1. e \in DOMAIN H.code /\ H.order = RemoveFirst(F.order, b)
  BY DEF Rooted, BlockErasing
<1>2. H.order # <<>> /\ Head(H.order) = e
  BY <1>1, HeadStays DEF Rooted
<1>3. \A c : ~Comes(H, c, e)
  <2> DEFINE R == DOMAIN F.code \ {b}
  <2>1. R \subseteq DOMAIN F.code /\ b \notin R
    OBVIOUS
  <2> HIDE DEF R
  <2>2. \A c : \A z \in DOMAIN H.code : Comes(H, c, z) => Comes(F, c, z)
    BY <2>1, BlockThin
  <2> QED
    BY <1>1, <2>2 DEF Rooted
<1> QED
  BY <1>1, <1>2, <1>3 DEF Rooted

(* deadBasicBlockElem.                                                     *)
LEMMA DeadBlockRuled ==
  ASSUME NEW F, Steady(F), Loose(F), NEW b \in DOMAIN F.code, HasDeadBasicBlock(F, b),
         NEW e, Dominated(F, e)
  PROVE  Dominated(deadBasicBlockElem(F, b), e)
<1> DEFINE L == leavePhis(F, b)
           H == deadBasicBlockElem(F, b)
<1>1. Good(F) /\ Rooted(F, e)
  BY DEF Steady, Dominated
<1>2. Good(L) /\ BlockErasing(L, H, b) /\ b \in DOMAIN L.code
  BY DeadBlockLeft DEF Steady
<1>3. Weeded(F, L, b, PhisAfter(F, b))
  BY <1>1, PhisPaired, PhisWeeded
<1> HIDE DEF L, H
<1>4. b # e /\ \A c : ~Comes(F, c, b)
  <2>1. b # e
    BY <1>1 DEF Rooted, HasDeadBasicBlock, isEntryBlock
  <2>2. getInwardFlow(F, b) = {}
    BY DEF HasDeadBasicBlock, hasNoInwardFlow, getInwardFlow
  <2>3. \A c \in DOMAIN F.code : ~Comes(F, c, b)
    BY <1>1, <2>2, InwardIs
  <2> QED
    BY <2>1, <2>3 DEF Comes
<1>5. PICK R, D : Ruled(F, R, D, e)
  BY DEF Dominated
<1> DEFINE S == {x \in R : b \notin D[x]}
           E == [x \in S |-> D[x]]
<1>6. Ruled(F, S, E, e) /\ b \notin S
  BY <1>4, <1>5, ChartShrunk
<1> HIDE DEF S, E
<1>7. S \subseteq DOMAIN F.code
  BY <1>6 DEF Ruled, Charted
<1>8. Thins(F, L, S) /\ L.order = F.order /\ \A c, z : Comes(L, c, z) <=> Comes(F, c, z)
  BY <1>1, <1>3, <1>7, WeededThin
<1>9. Ruled(L, S, E, e)
  BY <1>1, <1>6, <1>8, ThinRuled
<1>10. S \subseteq DOMAIN L.code
  BY <1>9 DEF Ruled, Charted
<1>11. Thins(L, H, S)
  BY <1>2, <1>6, <1>10, BlockThin
<1>12. Ruled(H, S, E, e)
  BY <1>2, <1>9, <1>11, ThinRuled
<1>13. Rooted(L, e)
  <2>1. e \in DOMAIN L.code
    BY <1>9 DEF Ruled, Charted
  <2> QED
    BY <1>1, <1>8, <2>1 DEF Rooted
<1>14. Rooted(H, e)
  BY <1>2, <1>4, <1>13, BlockRooted
<1> QED
  BY <1>12, <1>14 DEF Dominated, H

LEMMA ConcatBefore ==
  ASSUME NEW X, NEW s \in Seq(X), NEW t \in Seq(X), NEW v, NEW u
  PROVE  /\ Before(s, v, u) => Before(s \o t, v, u)
         /\ Before(t, v, u) => Before(s \o t, v, u)
         /\ Names(s, v) /\ Names(t, u) => Before(s \o t, v, u)
<1> DEFINE n == Len(s)
           m == Len(t)
           x == s \o t
<1>1. /\ n \in Nat /\ m \in Nat /\ Len(x) = n + m
      /\ \A k \in 1 .. n + m : x[k] = IF k <= n THEN s[k] ELSE t[k - n]
  BY ConcatProperties, LenProperties
<1> HIDE DEF x
<1>2. \A k \in 1 .. n : k \in 1 .. Len(x) /\ x[k] = s[k]
  <2> SUFFICES ASSUME NEW k \in 1 .. n  PROVE k \in 1 .. Len(x) /\ x[k] = s[k]
    OBVIOUS
  <2>1. k \in 1 .. n + m /\ k <= n
    BY <1>1
  <2> QED
    BY <1>1, <2>1
<1>3. \A k \in 1 .. m : n + k \in 1 .. Len(x) /\ x[n + k] = t[k]
  <2> SUFFICES ASSUME NEW k \in 1 .. m  PROVE n + k \in 1 .. Len(x) /\ x[n + k] = t[k]
    OBVIOUS
  <2>1. n + k \in 1 .. n + m /\ ~(n + k <= n) /\ (n + k) - n = k
    BY <1>1
  <2> QED
    BY <1>1, <2>1
<1> HIDE DEF n, m
<1>4. ASSUME Before(s, v, u)  PROVE Before(x, v, u)
  <2>1. PICK j \in 1 .. n, k \in 1 .. n : j < k /\ s[j] = v /\ s[k] = u
    BY <1>4 DEF Before, n
  <2> QED
    BY <1>2, <2>1 DEF Before
<1>5. ASSUME Before(t, v, u)  PROVE Before(x, v, u)
  <2>1. PICK j \in 1 .. m, k \in 1 .. m : j < k /\ t[j] = v /\ t[k] = u
    BY <1>5 DEF Before, m
  <2>2. n + j < n + k
    BY <1>1, <2>1
  <2> QED
    BY <1>3, <2>1, <2>2 DEF Before
<1>6. ASSUME Names(s, v), Names(t, u)  PROVE Before(x, v, u)
  <2>1. PICK j \in 1 .. n, k \in 1 .. m : s[j] = v /\ t[k] = u
    BY <1>6 DEF Names, n, m
  <2>2. j < n + k
    BY <1>1, <2>1
  <2> QED
    BY <1>2, <1>3, <2>1, <2>2 DEF Before
<1> QED
  BY <1>4, <1>5, <1>6 DEF x

(* What comes before what once b has been folded into p.                   *)
FoldedOrder(F, G, i, p, b) ==
  \A v, u \in DOMAIN F.inst \ {i} :
    /\ \A d \in DOMAIN F.code \ {p, b} : Before(F.code[d], v, u) => Before(G.code[d], v, u)
    /\ p # b => /\ Before(F.code[p], v, u) => Before(G.code[p], v, u)
                /\ Before(F.code[b], v, u) => Before(G.code[p], v, u)
                /\ Sits(F, p, v) /\ Sits(F, b, u) => Before(G.code[p], v, u)

LEMMA FoldedBefore ==
  ASSUME NEW F, Good(F), NEW b \in DOMAIN F.code, NEW p \in DOMAIN F.code,
         NEW P, NEW S, NEW G, Folding(F, P, S, G, p, b)
  PROVE  FoldedOrder(F, G, Last(F.code[p]), p, b) /\ G.order = F.order /\ Good(G) /\ G.fault = FALSE
<1> DEFINE i == Last(F.code[p])
           I == DOMAIN F.inst
           B == DOMAIN F.code
<1>1. /\ i \in I /\ Parent(F, i) = p /\ Erasing(F, P, i) /\ Fused(P, S, p, b) /\ Replacing(S, G, b, p)
  BY DEF Folding
<1> HIDE DEF i
<1>2. /\ DOMAIN P.code = B /\ DOMAIN P.inst = I \ {i}
      /\ \A d \in B : P.code[d] \in Seq(I) /\ F.code[d] \in Seq(I) /\ (d # p => P.code[d] = F.code[d])
      /\ \E k : F.code[p][k] = i /\ Drops(F.code[p], P.code[p], k)
  BY <1>1, ErasedAt
<1>3. /\ G.code = S.code
      /\ \A d \in B \ {b} : G.code[d] = IF d = p THEN P.code[p] \o P.code[b] ELSE P.code[d]
      /\ G.order = F.order /\ Good(G) /\ G.fault = FALSE
  BY <1>1, <1>2 DEF Fused, Replacing, Erasing
<1>4. ASSUME NEW v \in I \ {i}, NEW u \in I \ {i}
      PROVE  /\ Before(F.code[p], v, u) => Before(P.code[p], v, u)
             /\ Sits(F, p, v) => Names(P.code[p], v)
  <2>1. PICK k : F.code[p][k] = i /\ Drops(F.code[p], P.code[p], k)
    BY <1>2
  <2> DEFINE s == F.code[p]
             t == P.code[p]
  <2>2. Len(s) \in Nat /\ Drops(s, t, k) /\ u # s[k] /\ v # s[k]
    BY <1>2, <2>1, LenProperties
  <2> HIDE DEF s, t
  <2>3. Names(t, v) <=> Names(s, v)
    BY <2>2, DroppedSame
  <2>4. Before(s, v, u) => Before(t, v, u)
    BY <2>2, DroppedBefore
  <2> QED
    BY <2>3, <2>4 DEF Sits, s, t
<1>5. ASSUME NEW v \in I \ {i}, NEW u \in I \ {i}, NEW d \in B \ {p, b}, Before(F.code[d], v, u)
      PROVE  Before(G.code[d], v, u)
  BY <1>2, <1>3, <1>5
<1>6. ASSUME NEW v \in I \ {i}, NEW u \in I \ {i}, p # b
      PROVE  /\ Before(F.code[p], v, u) => Before(G.code[p], v, u)
             /\ Before(F.code[b], v, u) => Before(G.code[p], v, u)
             /\ Sits(F, p, v) /\ Sits(F, b, u) => Before(G.code[p], v, u)
  <2> DEFINE s == P.code[p]
             t == P.code[b]
  <2>1. s \in Seq(I) /\ t \in Seq(I) /\ G.code[p] = s \o t /\ t = F.code[b]
    BY <1>2, <1>3, <1>6
  <2>2. (Before(F.code[p], v, u) => Before(s, v, u)) /\ (Sits(F, p, v) => Names(s, v))
    BY <1>4
  <2>3. Sits(F, b, u) => Names(t, u)
    BY <2>1 DEF Sits
  <2> HIDE DEF s, t
  <2>4. /\ Before(s, v, u) => Before(s \o t, v, u)
        /\ Before(t, v, u) => Before(s \o t, v, u)
        /\ Names(s, v) /\ Names(t, u) => Before(s \o t, v, u)
    BY <2>1, ConcatBefore
  <2> QED
    BY <2>1, <2>2, <2>3, <2>4
<1> QED
  BY <1>3, <1>5, <1>6 DEF FoldedOrder, i

(* Nothing branches to the folded block.                                   *)
LEMMA FoldedAlone ==
  ASSUME NEW F, Good(F), NEW b \in DOMAIN F.code, NEW p, Chained(F, p, b),
         NEW P, NEW S, NEW G, Folding(F, P, S, G, p, b), NEW c
  PROVE  ~Comes(G, c, b)
<1> DEFINE i == Last(F.code[p])
           I == DOMAIN F.inst
<1>1. p \in DOMAIN F.code /\ \A u \in BranchUsers(F, b) : u = i
  BY DEF Chained, OnlyBranch
<1>2. DOMAIN G.inst = I \ {i}
  BY <1>1, FoldedSits
<1> SUFFICES ASSUME NEW u \in I \ {i}, G.inst[u].kind \in Branches, Names(G.inst[u].refs, b)  PROVE FALSE
  BY <1>2 DEF Comes
<1>3. Refolded(F, G, u, i, p, b)
  BY FoldedRefs
<1> HIDE DEF i
<1>4. F.inst[u].kind \in Branches
  BY <1>3 DEF Refolded
<1>5. ~Names(F.inst[u].refs, b)
  <2>1. Linked(F, {}) /\ b \in DOMAIN F.uses
    BY DEF Good
  <2>2. u \in ToSet(F.uses[b]) <=> \E k \in 1 .. Len(F.inst[u].refs) : F.inst[u].refs[k] = b
    BY <2>1, UsersAre
  <2> QED
    BY <1>1, <1>4, <2>2 DEF BranchUsers, Names
<1>6. b # Nil
  BY GoodRefs
<1> QED
  BY <1>3, <1>5, <1>6 DEF Refolded, Names

(* Blocks apart from p and b do not notice.                                *)
LEMMA FoldedThin ==
  ASSUME NEW F, Steady(F), Valued(F), NEW b \in DOMAIN F.code, NEW p, Chained(F, p, b),
         NEW P, NEW S, NEW G, Folding(F, P, S, G, p, b),
         NEW R, R \subseteq DOMAIN F.code, p \notin R, b \notin R
  PROVE  Thins(F, G, R)
<1> DEFINE i == Last(F.code[p])
           I == DOMAIN F.inst
           B == DOMAIN F.code
<1>1. Good(F) /\ p \in B /\ i \in I /\ Parent(F, i) = p
  BY LastOf DEF Steady, Chained
<1>2. /\ DOMAIN G.inst = I \ {i} /\ DOMAIN G.code = B
      /\ \A x \in R : \A u \in I \ {i} : Sits(G, x, u) <=> Sits(F, x, u)
  BY <1>1, FoldedSits
<1>3. \A u \in I \ {i} : Refolded(F, G, u, i, p, b)
  BY <1>1, FoldedRefs
<1>4. FoldedOrder(F, G, i, p, b)
  BY <1>1, FoldedBefore
<1>5. \A x \in R : \A z \in B : Comes(G, x, z) => Comes(F, x, z)
  <2> SUFFICES ASSUME NEW x \in R, NEW z \in B, Comes(G, x, z)  PROVE Comes(F, x, z)
    OBVIOUS
  <2>1. z # b
    BY <1>1, FoldedAlone
  <2>2. Comes(F, IF x = p THEN b ELSE x, z)
    BY <2>1, FoldedComes
  <2> QED
    BY <2>2
<1> HIDE DEF i
<1>6. ASSUME NEW v, Live(F, R, v)  PROVE v \in I \ {i} /\ v # b /\ Kept(F, G, R, v)
  <2>1. PICK a \in R : v \in I /\ Sits(F, a, v)
    BY <1>6 DEF Live
  <2>2. v # i
    <3>1. a = Parent(F, v)
      BY <1>1, <2>1, SitsIs
    <3> QED
      BY <1>1, <3>1
  <2>3. v # b
    BY <1>1, <2>1 DEF Good
  <2>4. G.inst[v].kind = F.inst[v].kind
    BY <1>3, <2>1, <2>2 DEF Refolded
  <2> QED
    BY <1>2, <2>1, <2>2, <2>3, <2>4 DEF Kept
<1>7. ASSUME NEW u \in I \ {i}  PROVE KeepsValues(F, G, R, u)
  <2>1. Refolded(F, G, u, i, p, b)
    BY <1>3
  <2>2. \A k \in 1 .. Len(F.inst[u].refs) : Live(F, R, F.inst[u].refs[k]) => G.inst[u].refs[k] = F.inst[u].refs[k]
    BY <1>6, <2>1 DEF Refolded
  <2>3. Values(G.inst[u]) = Values(F.inst[u]) /\ Len(G.inst[u].refs) = Len(F.inst[u].refs)
    BY <2>1 DEF Refolded
  <2> QED
    BY <1>6, <2>2, <2>3 DEF KeepsValues
<1>8. ASSUME NEW u \in I \ {i}  PROVE KeepsPaths(F, G, R, u)
  <2> DEFINE r == F.inst[u].refs
             t == G.inst[u].refs
  <2> SUFFICES ASSUME NEW w, NEW c \in R, Brings(t, w, c)
               PROVE  \E v : Brings(r, v, c) /\ (Live(F, R, v) => w = v /\ Kept(F, G, R, v))
    BY DEF KeepsPaths
  <2>1. PICK k \in 1 .. Len(t) : k % 2 = 1 /\ k + 1 \in 1 .. Len(t) /\ t[k] = w /\ t[k + 1] = c
    BY DEF Brings
  <2>2. Len(t) = Len(r) /\ \A m \in 1 .. Len(r) : t[m] = IF r[m] = i THEN Nil ELSE IF r[m] = b THEN p ELSE r[m]
    BY <1>3 DEF Refolded
  <2>3. c # Nil /\ c # p
    BY <1>1, GoodRefs
  <2>4. r[k + 1] = c
    BY <2>1, <2>2, <2>3
  <2>5. Brings(r, r[k], c)
    BY <2>1, <2>2, <2>4 DEF Brings
  <2>6. Live(F, R, r[k]) => w = r[k] /\ Kept(F, G, R, r[k])
    BY <1>6, <2>1, <2>2
  <2> QED
    BY <2>5, <2>6
<1>9. \A x \in R : \A v, u \in I \ {i} : Before(F.code[x], v, u) => Before(G.code[x], v, u)
  BY <1>4 DEF FoldedOrder
<1>10. ASSUME NEW x \in R, NEW u \in I \ {i}, Sits(G, x, u)
       PROVE  u \in I /\ Sits(F, x, u) /\ G.inst[u].kind = F.inst[u].kind
  BY <1>2, <1>3, <1>10 DEF Refolded
<1> QED
  BY <1>2, <1>5, <1>7, <1>8, <1>9, <1>10 DEF Thins

(* What was at the end of b is now at the end of p.                        *)
Absorbed(R, D, b, p) == [x \in R \ {b} |-> Drawn(R, D, b, p)[x] \ {b}]

LEMMA FoldedCharted ==
  ASSUME NEW F, Steady(F), Valued(F), NEW b \in DOMAIN F.code, NEW p, Chained(F, p, b),
         NEW P, NEW S, NEW G, Folding(F, P, S, G, p, b),
         NEW R, NEW D, NEW e, Charted(F, R, D, e), b \in R, p \in R, b # e, b \notin D[p]
  PROVE  Charted(G, R \ {b}, Absorbed(R, D, b, p), e)
<1> DEFINE E == Drawn(R, D, b, p)
           X == Absorbed(R, D, b, p)
           Q == R \ {b}
<1>1. Good(F) /\ p \in DOMAIN F.code /\ \A c : Comes(F, c, b) <=> c = p
  BY DEF Steady, Chained
<1>2. DOMAIN G.code = DOMAIN F.code
  BY <1>1, FoldedSits
<1>3. Charted(F, R, E, e)
  BY <1>1, DrawnCharted
<1>4. \A x \in R : E[x] = IF b \in D[x] THEN D[x] \cup D[p] ELSE D[x]
  BY DEF Drawn
<1> HIDE DEF E
<1>5. X = [x \in Q |-> E[x] \ {b}]
  BY DEF Absorbed, E
<1>6. \A x \in Q : X[x] = E[x] \ {b}
  BY <1>5
<1>7. X \in [Q -> SUBSET Q]
  <2>1. \A x \in Q : E[x] \ {b} \subseteq Q
    BY <1>3 DEF Charted
  <2> QED
    BY <1>5, <2>1
<1> HIDE DEF X
<1>8. e \in Q /\ Q \subseteq DOMAIN G.code /\ X[e] = {e} /\ \A x \in Q : x \in X[x]
  <2>1. e \in R /\ E[e] = {e} /\ R \subseteq DOMAIN F.code /\ \A x \in R : x \in E[x]
    BY <1>3 DEF Charted
  <2> QED
    BY <1>2, <1>6, <2>1
<1>9. ASSUME NEW x \in Q, NEW a \in X[x]  PROVE X[a] \subseteq X[x]
  <2>1. a \in E[x] /\ a \in Q
    BY <1>6, <1>7
  <2>2. E[a] \subseteq E[x]
    BY <1>3, <2>1 DEF Charted
  <2> QED
    BY <1>6, <2>1, <2>2
<1>10. E[p] = D[p] /\ E[b] \ {b} \subseteq D[p]
  <2>1. D[b] \subseteq D[p] \cup {b} /\ b \in D[b]
    BY <1>1 DEF Charted
  <2> QED
    BY <1>4, <2>1
<1>11. ASSUME NEW x \in Q, NEW z \in DOMAIN G.code, Comes(G, x, z)
       PROVE  z \in Q /\ X[z] \subseteq X[x] \cup {z}
  <2>1. z # b
    BY <1>1, <1>11, FoldedAlone
  <2>2. Comes(F, IF x = p THEN b ELSE x, z)
    BY <1>2, <1>11, <2>1, FoldedComes
  <2>3. CASE x = p
    <3>1. z \in R /\ E[z] \subseteq E[b] \cup {z}
      BY <1>2, <1>3, <2>2, <2>3 DEF Charted
    <3> QED
      BY <1>6, <1>10, <2>1, <2>3, <3>1
  <2>4. CASE x # p
    <3>1. z \in R /\ E[z] \subseteq E[x] \cup {z}
      BY <1>2, <1>3, <2>2, <2>4 DEF Charted
    <3> QED
      BY <1>6, <2>1, <3>1
  <2> QED
    BY <2>3, <2>4
<1>12. Charted(G, Q, X, e)
  BY <1>7, <1>8, <1>9, <1>11 DEF Charted
<1> QED
  BY <1>12 DEF X

LEMMA FoldedBacked ==
  ASSUME NEW F, Steady(F), Valued(F), NEW b \in DOMAIN F.code, NEW p, Chained(F, p, b),
         NEW P, NEW S, NEW G, Folding(F, P, S, G, p, b),
         NEW R, NEW D, NEW e, Ruled(F, R, D, e), b \in R, p \in R, b \notin D[p]
  PROVE  Backed(G, R \ {b}, Absorbed(R, D, b, p))
<1> DEFINE i == Last(F.code[p])
           I == DOMAIN F.inst
           B == DOMAIN F.code
           X == Absorbed(R, D, b, p)
           Q == R \ {b}
           to(x) == IF x = b THEN p ELSE x
<1>1. /\ Good(F) /\ Sealed(F, {}) /\ p \in B /\ i \in I /\ Parent(F, i) = p /\ F.inst[i].kind \in Terminators
  BY LastOf DEF Steady, Chained
<1>2. /\ R \subseteq B /\ \A x \in R : D[x] \subseteq R /\ x \in D[x] /\ \A a \in D[x] : D[a] \subseteq D[x]
      /\ D[b] \subseteq D[p] \cup {b} /\ Backed(F, R, D)
  BY DEF Ruled, Charted, Chained
<1>3. p # b /\ p \in Q
  BY <1>2
<1>4. /\ DOMAIN G.inst = I \ {i} /\ DOMAIN G.code = B
      /\ \A d \in B : \A u \in I \ {i} :
           Sits(G, d, u) <=> IF d = b THEN p = b /\ Sits(F, b, u)
                             ELSE Sits(F, d, u) \/ (d = p /\ Sits(F, b, u))
  BY <1>1, FoldedSits
<1>5. \A u \in I \ {i} : Refolded(F, G, u, i, p, b)
  BY <1>1, FoldedRefs
<1>6. FoldedOrder(F, G, i, p, b)
  BY <1>1, FoldedBefore
<1>7. \A x \in Q : X[x] = (IF b \in D[x] THEN D[x] \cup D[p] ELSE D[x]) \ {b}
  BY DEF Absorbed, Drawn
<1> HIDE DEF X, i
<1>8. ASSUME NEW a \in R, NEW v, Yields(F, a, v)
      PROVE  v \in I \ {i} /\ v # b /\ Yields(G, to(a), v)
  <2>1. v \in I /\ Sits(F, a, v) /\ F.inst[v].kind \notin Terminators
    BY <1>8 DEF Yields
  <2>2. v \in I \ {i} /\ v # b
    BY <1>1, <2>1 DEF Good
  <2>3. G.inst[v].kind = F.inst[v].kind
    BY <1>5, <2>2 DEF Refolded
  <2>4. Sits(G, to(a), v)
    BY <1>2, <1>3, <1>4, <2>1, <2>2
  <2> QED
    BY <1>4, <2>1, <2>2, <2>3, <2>4 DEF Yields
<1>9. ASSUME NEW q \in R, NEW a \in D[q]  PROVE to(a) \in X[to(q)]
  <2>1. p \in D[p]
    BY <1>2
  <2>2. CASE q = b
    <3>1. X[p] = D[p]
      BY <1>3, <1>7
    <3> QED
      BY <1>2, <1>9, <2>1, <2>2, <3>1
  <2>3. CASE q # b
    BY <1>3, <1>7, <1>9, <2>1, <2>3
  <2> QED
    BY <2>2, <2>3
<1>10. ASSUME NEW v, NEW q \in R, There(F, D, v, q)  PROVE v # i /\ v # b /\ There(G, X, v, to(q))
  <2>1. PICK a \in D[q] : Yields(F, a, v)
    BY <1>10 DEF There
  <2>2. a \in R
    BY <1>2
  <2>3. v # i /\ v # b /\ Yields(G, to(a), v)
    BY <1>8, <2>1, <2>2
  <2>4. to(a) \in X[to(q)]
    BY <1>9
  <2> QED
    BY <2>3, <2>4 DEF There
<1>11. ASSUME NEW y \in R, NEW v, NEW u \in I \ {i}, Sits(F, y, u), Above(F, D, v, y, u)
       PROVE  v # i /\ v # b /\ Above(G, X, v, to(y), u)
  <2>1. CASE \E a \in D[y] \ {y} : Yields(F, a, v)
    <3>1. PICK a \in D[y] \ {y} : Yields(F, a, v)
      BY <2>1
    <3>2. a \in R
      BY <1>2
    <3>3. v \in I \ {i} /\ v # b /\ Yields(G, to(a), v) /\ to(a) \in X[to(y)]
      BY <1>8, <1>9, <3>1, <3>2
    <3>4. CASE to(a) # to(y)
      BY <3>3, <3>4 DEF Above
    <3>5. CASE to(a) = to(y)
      <4>1. a = p /\ y = b
        <5>1. (a = b /\ y = p) \/ (a = p /\ y = b)
          BY <3>1, <3>5
        <5> QED
          BY <3>1, <5>1
      <4>2. Sits(F, p, v)
        BY <3>1, <4>1 DEF Yields
      <4>3. Before(G.code[p], v, u)
        BY <1>3, <1>6, <1>11, <3>3, <4>1, <4>2 DEF FoldedOrder
      <4> QED
        BY <3>3, <4>1, <4>3 DEF Above
    <3> QED
      BY <3>4, <3>5
  <2>2. CASE Before(F.code[y], v, u)
    <3>1. Sits(F, y, v) /\ v \in I
      BY <1>1, <1>2, <2>2, BeforeSits
    <3>2. v # i
      <4>1. F.code[y] \in Seq(I) /\ Closed(F.inst, F.code[y])
        BY <1>1, <1>2, CodeIs DEF Sealed
      <4> DEFINE s == F.code[y]
      <4>2. PICK j \in 1 .. Len(s), k \in 1 .. Len(s) : j < k /\ s[j] = v /\ s[k] = u
        BY <2>2 DEF Before
      <4>3. j # Len(s)
        BY <4>1, <4>2, LenProperties
      <4>4. F.inst[v].kind \notin Terminators
        BY <4>1, <4>2, <4>3 DEF Closed
      <4> QED
        BY <1>1, <4>4
    <3>3. v # b
      BY <1>1, <3>1 DEF Good
    <3>4. Before(G.code[to(y)], v, u)
      BY <1>2, <1>3, <1>6, <2>2, <3>1, <3>2 DEF FoldedOrder
    <3> QED
      BY <3>2, <3>3, <3>4 DEF Above
  <2> QED
    BY <1>11, <2>1, <2>2 DEF Above
<1>12. ASSUME NEW x \in Q, NEW u \in I \ {i}, Sits(G, x, u)
       PROVE  \E y \in R : Sits(F, y, u) /\ to(y) = x
  BY <1>2, <1>4, <1>12
<1>13. ASSUME NEW x \in Q, NEW u \in I \ {i}, Sits(G, x, u), G.inst[u].kind = "phi"  PROVE Brought(G, Q, X, u)
  <2> DEFINE r == F.inst[u].refs
             t == G.inst[u].refs
  <2>1. PICK y \in R : Sits(F, y, u)
    BY <1>12, <1>13
  <2>2. F.inst[u].kind = "phi"
    BY <1>5, <1>13 DEF Refolded
  <2>3. Brought(F, R, D, u)
    BY <1>2, <2>1, <2>2 DEF Backed
  <2>4. Len(t) = Len(r) /\ \A m \in 1 .. Len(r) : t[m] = IF r[m] = i THEN Nil ELSE IF r[m] = b THEN p ELSE r[m]
    BY <1>5 DEF Refolded
  <2> SUFFICES ASSUME NEW w, NEW c \in Q, Brings(t, w, c)  PROVE There(G, X, w, c)
    BY DEF Brought
  <2>5. PICK k \in 1 .. Len(t) : k % 2 = 1 /\ k + 1 \in 1 .. Len(t) /\ t[k] = w /\ t[k + 1] = c
    BY DEF Brings
  <2> DEFINE q == r[k + 1]
             v == r[k]
  <2>6. c # Nil
    <3>1. c \in B
      BY <1>2
    <3> QED
      BY <1>1, <3>1, GoodRefs
  <2>7. q \in R /\ to(q) = c
    <3>1. c = IF q = i THEN Nil ELSE IF q = b THEN p ELSE q
      BY <2>4, <2>5
    <3> QED
      BY <1>2, <1>3, <2>6, <3>1
  <2>8. Brings(r, v, q)
    BY <2>4, <2>5 DEF Brings
  <2>9. There(F, D, v, q)
    BY <2>3, <2>7, <2>8 DEF Brought
  <2>10. w = IF v = i THEN Nil ELSE IF v = b THEN p ELSE v
    BY <2>4, <2>5
  <2> HIDE DEF r, t, q, v
  <2>11. v # i /\ v # b /\ There(G, X, v, to(q))
    BY <1>10, <2>7, <2>9
  <2> QED
    BY <2>7, <2>10, <2>11
<1>14. ASSUME NEW x \in Q, NEW u \in I \ {i}, Sits(G, x, u), G.inst[u].kind # "phi"  PROVE Given(G, X, x, u)
  <2> DEFINE r == F.inst[u].refs
             t == G.inst[u].refs
  <2>1. PICK y \in R : Sits(F, y, u) /\ to(y) = x
    BY <1>12, <1>14
  <2>2. F.inst[u].kind # "phi"
    BY <1>5, <1>14 DEF Refolded
  <2>3. Given(F, D, y, u)
    BY <1>2, <2>1, <2>2 DEF Backed
  <2>4. /\ Len(t) = Len(r) /\ Values(G.inst[u]) = Values(F.inst[u])
        /\ \A m \in 1 .. Len(r) : t[m] = IF r[m] = i THEN Nil ELSE IF r[m] = b THEN p ELSE r[m]
    BY <1>5 DEF Refolded
  <2> SUFFICES ASSUME NEW k \in Values(F.inst[u])  PROVE k \in 1 .. Len(t) /\ Above(G, X, t[k], x, u)
    BY <2>4 DEF Given
  <2>5. k \in 1 .. Len(r) /\ Above(F, D, r[k], y, u)
    BY <2>3 DEF Given
  <2>6. k \in 1 .. Len(t) /\ (t[k] = IF r[k] = i THEN Nil ELSE IF r[k] = b THEN p ELSE r[k])
    BY <2>4, <2>5
  <2> HIDE DEF r, t
  <2>7. r[k] # i /\ r[k] # b /\ Above(G, X, r[k], to(y), u)
    BY <1>11, <2>1, <2>5
  <2> QED
    BY <2>1, <2>6, <2>7
<1>15. Backed(G, Q, X)
  BY <1>4, <1>13, <1>14 DEF Backed
<1> QED
  BY <1>15 DEF X

(* simplifyTrivialBranch.                                                  *)
LEMMA TrivialBranchRuled ==
  ASSUME NEW F, Steady(F), Valued(F), NEW b \in DOMAIN F.code, HasTrivialBranch(F, b),
         NEW e, Dominated(F, e)
  PROVE  Dominated(simplifyTrivialBranch(F, b), e)
<1> DEFINE p == Previous(F, b)
           P == pop_back(F, p)
           S == splice(P, p, b)
           G == replaceAllUseWith(S, b, p)
           H == eraseBlock(G, b)
<1>1. Chained(F, p, b)
  BY TrivialBranchChained
<1>2. Folding(F, P, S, G, p, b)
  BY <1>1, BranchFolds DEF Chained
<1>3. simplifyTrivialBranch(F, b) = H
  BY DEF simplifyTrivialBranch
<1> HIDE DEF p, P, S, G
<1>4. Good(F) /\ Rooted(F, e) /\ p \in DOMAIN F.code /\ \A c : Comes(F, c, b) <=> c = p
  BY <1>1 DEF Chained, Steady, Dominated
<1>5. b # e
  BY <1>4 DEF Rooted
<1>6. Good(G) /\ G.fault = FALSE /\ NoFalse(G, b) /\ b \in DOMAIN G.code /\ G.order = F.order
      /\ DOMAIN G.code = DOMAIN F.code
  <2>1. Good(G) /\ G.fault = FALSE /\ G.order = F.order
    <3>1. FoldedOrder(F, G, Last(F.code[p]), p, b) /\ G.order = F.order /\ Good(G) /\ G.fault = FALSE
      BY <1>2, <1>4, FoldedBefore
    <3> QED
      BY <3>1
  <2>2. DOMAIN G.code = DOMAIN F.code
    BY <1>1, <1>2, <1>4, FoldedSits
  <2>3. NoFalse(G, b)
    BY <1>2 DEF Folding
  <2> QED
    BY <2>1, <2>2, <2>3
<1>7. BlockErasing(G, H, b)
  <2>1. BlockErasing(G, H, b) \/ (H.fault = TRUE /\ \E u \in DOMAIN G.inst : FalseTo(G.inst, u, b))
    BY <1>6, ErasedBlock
  <2> QED
    BY <1>6, <2>1 DEF NoFalse
<1> HIDE DEF H
<1>8. Rooted(H, e)
  <2>1. \A c : ~Comes(G, c, e)
    <3> TAKE c
    <3>1. e \in DOMAIN F.code \ {b}
      BY <1>4, <1>5 DEF Rooted
    <3>2. Comes(G, c, e) => Comes(F, IF c = p THEN b ELSE c, e)
      BY <1>1, <1>2, <3>1, FoldedComes
    <3> QED
      BY <1>4, <3>2 DEF Rooted
  <2>2. Rooted(G, e)
    BY <1>4, <1>6, <2>1 DEF Rooted
  <2> QED
    BY <1>5, <1>6, <1>7, <2>2, BlockRooted
<1>9. PICK R, D : Ruled(F, R, D, e)
  BY DEF Dominated
<1>10. ASSUME NEW Q, NEW X, Ruled(G, Q, X, e), b \notin Q  PROVE Dominated(H, e)
  <2>1. Q \subseteq DOMAIN G.code
    BY <1>10 DEF Ruled, Charted
  <2>2. Thins(G, H, Q)
    BY <1>6, <1>7, <1>10, <2>1, BlockThin
  <2>3. Ruled(H, Q, X, e)
    BY <1>6, <1>10, <2>2, ThinRuled
  <2> QED
    BY <1>8, <2>3 DEF Dominated
<1>11. CASE b \in R /\ p \in R /\ b \notin D[p]
  <2>1. Charted(G, R \ {b}, Absorbed(R, D, b, p), e)
    BY <1>1, <1>2, <1>5, <1>9, <1>11, FoldedCharted DEF Ruled
  <2>2. Backed(G, R \ {b}, Absorbed(R, D, b, p))
    BY <1>1, <1>2, <1>9, <1>11, FoldedBacked
  <2>3. Ruled(G, R \ {b}, Absorbed(R, D, b, p), e) /\ b \notin R \ {b}
    BY <2>1, <2>2 DEF Ruled
  <2> DEFINE Q == R \ {b}
             X == Absorbed(R, D, b, p)
  <2> HIDE DEF Q, X
  <2>4. Ruled(G, Q, X, e) /\ b \notin Q
    BY <2>3 DEF Q, X
  <2>5. Dominated(H, e)
    BY <1>10, <2>4
  <2> QED
    BY <1>3, <2>5
<1>12. CASE ~(b \in R /\ p \in R /\ b \notin D[p])
  <2>1. p \in R => b \in R /\ b \in D[p]
    BY <1>4, <1>9, <1>12 DEF Ruled, Charted
  <2> DEFINE Q == {x \in R : b \notin D[x]}
             X == [x \in Q |-> D[x]]
  <2>2. Ruled(F, Q, X, e) /\ b \notin Q
    BY <1>4, <1>5, <1>9, <2>1, ChartShrunk
  <2>3. p \notin Q
    BY <2>1
  <2> HIDE DEF Q, X
  <2>4. Q \subseteq DOMAIN F.code
    BY <2>2 DEF Ruled, Charted
  <2>5. Thins(F, G, Q)
    BY <1>1, <1>2, <2>2, <2>3, <2>4, FoldedThin
  <2>6. Ruled(G, Q, X, e)
    BY <1>4, <2>2, <2>5, ThinRuled
  <2>7. Dominated(H, e)
    BY <1>10, <2>2, <2>6
  <2> QED
    BY <1>3, <2>7
<1> QED
  BY <1>11, <1>12

(* One run of the pass.                                                    *)
LEMMA SimplifiedRuled ==
  ASSUME NEW F, Steady(F), Valued(F), Loose(F), ~Converged(F), NEW e, Dominated(F, e)
  PROVE  Dominated(Simplified(F), e)
<1> DEFINE b == FirstRewritable(F)
<1>1. b \in DOMAIN F.code /\ Rewritable(F, b)
  BY StopsAtBlock
<1> HIDE DEF b
<1>2. CASE HasTrivialPhi(F, b)
  <2>1. Simplified(F) = simplifyTrivialPhi(F, b)
    BY <1>2 DEF Simplified, b
  <2> QED
    BY <1>1, <1>2, <2>1, TrivialPhiRuled
<1>3. CASE ~HasTrivialPhi(F, b) /\ HasTrivialBranch(F, b)
  <2>1. Simplified(F) = simplifyTrivialBranch(F, b)
    BY <1>3 DEF Simplified, b
  <2> QED
    BY <1>1, <1>3, <2>1, TrivialBranchRuled
<1>4. CASE ~HasTrivialPhi(F, b) /\ ~HasTrivialBranch(F, b) /\ HasDeadBasicBlock(F, b)
  <2>1. Simplified(F) = deadBasicBlockElem(F, b)
    BY <1>4 DEF Simplified, b
  <2> QED
    BY <1>1, <1>4, <2>1, DeadBlockRuled
<1>5. CASE ~HasTrivialPhi(F, b) /\ ~HasTrivialBranch(F, b) /\ ~HasDeadBasicBlock(F, b)
  <2>1. Simplified(F) = deadInstructionElem(F, b)
    BY <1>5 DEF Simplified, b
  <2>2. HasDeadInstruction(F, b)
    BY <1>1, <1>5 DEF Rewritable
  <2> QED
    BY <1>1, <2>1, <2>2, DeadInstructionRuled
<1> QED
  BY <1>2, <1>3, <1>4, <1>5

-----------------------------------------------------------------------------
(* While a function is built, the chart has all its blocks.                *)
Paired(F) == \A u \in PhisOf(F) : Len(F.inst[u].refs) % 2 = 0
Led(F, D, e) == Rooted(F, e) /\ Ruled(F, DOMAIN F.code, D, e) /\ Paired(F)

(* F has become G, and the chart D of F is in the chart E of G.            *)
Furthered(F, D, G, E, e) ==
  Grown(F, G) /\ Led(G, E, e) /\ \A x \in DOMAIN F.code : E[x] = D[x]

LEMMA LedIs ==
  ASSUME NEW F, NEW D, NEW e, Led(F, D, e)
  PROVE  /\ Charted(F, DOMAIN F.code, D, e) /\ Backed(F, DOMAIN F.code, D) /\ Rooted(F, e) /\ Paired(F)
         /\ e \in DOMAIN F.code
         /\ \A x \in DOMAIN F.code : D[x] \subseteq DOMAIN F.code /\ x \in D[x]
         /\ \A x \in DOMAIN F.code : \A a \in D[x] : D[a] \subseteq D[x]
BY DEF Led, Ruled, Charted

LEMMA FurtheredSelf ==
  ASSUME NEW F, Good(F), NEW D, NEW e, Led(F, D, e)
  PROVE  Furthered(F, D, F, D, e)
BY GrownSelf DEF Furthered

LEMMA FurtheredTwice ==
  ASSUME NEW F, Good(F), NEW D, NEW e, NEW G, NEW E, Furthered(F, D, G, E, e),
         NEW H, NEW X, Furthered(G, E, H, X, e)
  PROVE  Furthered(F, D, H, X, e)
<1>1. Grown(F, H)
  BY GrownTwice DEF Furthered
<1>2. DOMAIN F.code \subseteq DOMAIN G.code
  BY DEF Furthered, Grown
<1> QED
  BY <1>1, <1>2 DEF Furthered

LEMMA YieldsGrown ==
  ASSUME NEW F, Good(F), NEW G, Grown(F, G), NEW a \in DOMAIN F.code, NEW v, Yields(F, a, v)
  PROVE  Yields(G, a, v)
<1>1. PICK k \in 1 .. Len(F.code[a]) : F.code[a][k] = v
  BY DEF Yields, Sits, Names
<1>2. Prefixed(F.code[a], G.code[a]) /\ G.code[a] \in Seq(DOMAIN G.inst)
  BY CodeIs DEF Grown
<1>3. Len(F.code[a]) \in Nat /\ Len(G.code[a]) \in Nat
  BY <1>2, CodeIs, LenProperties
<1>4. Sits(G, a, v)
  <2>1. k \in 1 .. Len(G.code[a]) /\ G.code[a][k] = v
    BY <1>1, <1>2, <1>3 DEF Prefixed
  <2> QED
    BY <2>1 DEF Sits, Names
<1> QED
  BY <1>4 DEF Yields, Grown

LEMMA ThereGrown ==
  ASSUME NEW F, Good(F), NEW G, Grown(F, G), NEW D, NEW c, D[c] \subseteq DOMAIN F.code,
         NEW v, There(F, D, v, c), NEW E, NEW z, D[c] \subseteq E[z]
  PROVE  There(G, E, v, z)
<1>1. PICK a \in D[c] : Yields(F, a, v)
  BY DEF There
<1>2. Yields(G, a, v)
  BY <1>1, YieldsGrown
<1> QED
  BY <1>1, <1>2 DEF There

LEMMA BeforeGrown ==
  ASSUME NEW F, Good(F), NEW G, Grown(F, G), NEW x \in DOMAIN F.code, NEW v, NEW u, Before(F.code[x], v, u)
  PROVE  Before(G.code[x], v, u)
<1>1. PICK j, k \in 1 .. Len(F.code[x]) : j < k /\ F.code[x][j] = v /\ F.code[x][k] = u
  BY DEF Before
<1>2. Prefixed(F.code[x], G.code[x]) /\ G.code[x] \in Seq(DOMAIN G.inst)
  BY CodeIs DEF Grown
<1>3. Len(F.code[x]) \in Nat /\ Len(G.code[x]) \in Nat
  BY <1>2, CodeIs, LenProperties
<1>4. j \in 1 .. Len(G.code[x]) /\ k \in 1 .. Len(G.code[x]) /\ G.code[x][j] = v /\ G.code[x][k] = u
  BY <1>1, <1>2, <1>3 DEF Prefixed
<1> QED
  BY <1>1, <1>4 DEF Before

LEMMA AboveGrown ==
  ASSUME NEW F, Good(F), NEW G, Grown(F, G), NEW D, NEW x \in DOMAIN F.code, D[x] \subseteq DOMAIN F.code,
         NEW v, NEW u, Above(F, D, v, x, u), NEW E, E[x] = D[x]
  PROVE  Above(G, E, v, x, u)
<1>1. CASE \E a \in D[x] \ {x} : Yields(F, a, v)
  BY <1>1, YieldsGrown DEF Above
<1>2. CASE Before(F.code[x], v, u)
  BY <1>2, BeforeGrown DEF Above
<1> QED
  BY <1>1, <1>2 DEF Above

(* What an instruction asks of the block it comes to.                      *)
Suits(F, D, b, e, kind, r) ==
  /\ kind = "phi" => Len(r) = 0
  /\ kind # "phi" => \A k \in Values(Made(kind, Void, r)) : k \in 1 .. Len(r) /\ There(F, D, r[k], b)
  /\ kind \in Branches => \A d \in DOMAIN F.code : Names(r, d) => d # e /\ D[d] \subseteq D[b] \cup {d}

LEMMA AddsLed ==
  ASSUME NEW F, Good(F), NEW D, NEW e, Led(F, D, e), NEW b \in DOMAIN F.code,
         NEW H, NEW n, NEW kind, NEW r, TakesOn(F, H, b, n, kind, r), DOMAIN r = 1 .. Len(r),
         Grown(F, H), H.order = F.order, Suits(F, D, b, e, kind, r)
  PROVE  /\ Furthered(F, D, H, D, e)
         /\ kind \notin Terminators => There(H, D, n, b)
<1> DEFINE B == DOMAIN F.code
<1>1. /\ DOMAIN H.code = B /\ DOMAIN H.inst = DOMAIN F.inst \cup {n} /\ n \notin DOMAIN F.inst
      /\ \A u \in DOMAIN F.inst : H.inst[u] = F.inst[u]
      /\ H.inst[n].kind = kind /\ H.inst[n].refs = r
      /\ H.code[b] = Append(F.code[b], n)
  BY DEF TakesOn
<1>2. /\ Charted(F, B, D, e) /\ Backed(F, B, D) /\ Rooted(F, e) /\ Paired(F) /\ e \in B
      /\ \A x \in B : D[x] \subseteq B /\ x \in D[x]
  BY LedIs
<1>3. \A d \in B : \A x : Comes(H, x, d) <=> Comes(F, x, d) \/ (x = b /\ kind \in Branches /\ Names(r, d))
  BY AddsComes
<1>4. \A d \in B : \A u : (u # n => (Sits(H, d, u) <=> Sits(F, d, u))) /\ (Sits(H, d, n) <=> d = b)
  BY AddsSits
<1>5. Rooted(H, e)
  <2>1. \A c : ~Comes(H, c, e)
    BY <1>2, <1>3 DEF Rooted, Suits
  <2> QED
    BY <1>1, <1>2, <2>1 DEF Rooted
<1>6. Charted(H, B, D, e)
  <2>1. \A x \in B : \A z \in B : Comes(H, x, z) => z \in B /\ D[z] \subseteq D[x] \cup {z}
    BY <1>2, <1>3 DEF Charted, Suits
  <2> QED
    BY <1>1, <1>2, <2>1 DEF Charted
<1>7. ASSUME NEW v, NEW c \in B, There(F, D, v, c)  PROVE There(H, D, v, c)
  BY <1>2, <1>7, ThereGrown
<1>8. ASSUME NEW k \in Values(H.inst[n]), kind # "phi"
      PROVE  k \in 1 .. Len(H.inst[n].refs) /\ Above(H, D, H.inst[n].refs[k], b, n)
  <2>1. k \in Values(Made(kind, Void, r))
    <3>1. Made(kind, Void, r).kind = kind /\ Made(kind, Void, r).refs = r
      BY DEF Made
    <3> QED
      BY <1>1, <1>8, <3>1, ValuesSame
  <2>2. k \in 1 .. Len(r) /\ There(F, D, r[k], b)
    BY <1>8, <2>1 DEF Suits
  <2>3. PICK a \in D[b] : Yields(F, a, r[k])
    BY <2>2 DEF There
  <2>4. CASE a # b
    <3>1. Yields(H, a, r[k])
      BY <1>2, <2>3, YieldsGrown
    <3> QED
      BY <1>1, <2>2, <2>3, <2>4, <3>1 DEF Above
  <2>5. CASE a = b
    <3>1. PICK j \in 1 .. Len(F.code[b]) : F.code[b][j] = r[k]
      BY <2>3, <2>5 DEF Yields, Sits, Names
    <3> DEFINE s == F.code[b]
               t == Append(s, n)
    <3>2. s \in Seq(DOMAIN F.inst) /\ s \in Seq(DOMAIN H.inst) /\ n \in DOMAIN H.inst
      <4>1. s \in Seq(DOMAIN F.inst) /\ DOMAIN F.inst \subseteq DOMAIN H.inst
        BY <1>1, CodeIs
      <4> HIDE DEF s
      <4> QED
        BY <1>1, <4>1, SeqMonotonic
    <3>3. Len(t) = Len(s) + 1 /\ Len(s) \in Nat /\ t[Len(s) + 1] = n /\ \A m \in 1 .. Len(s) : t[m] = s[m]
      BY <3>2, AppendProperties, LenProperties
    <3>4. H.code[b] = t /\ j \in 1 .. Len(s) /\ s[j] = r[k]
      BY <1>1, <3>1
    <3> HIDE DEF s, t
    <3>5. Before(t, r[k], n)
      <4>1. j \in 1 .. Len(t) /\ Len(s) + 1 \in 1 .. Len(t) /\ j < Len(s) + 1 /\ t[j] = r[k]
        BY <3>3, <3>4
      <4> QED
        BY <3>3, <4>1 DEF Before
    <3> QED
      BY <1>1, <2>2, <3>4, <3>5 DEF Above
  <2> QED
    BY <2>4, <2>5
<1>9. Backed(H, B, D)
  <2> SUFFICES ASSUME NEW x \in B, NEW u \in DOMAIN H.inst, Sits(H, x, u)
               PROVE  IF H.inst[u].kind = "phi" THEN Brought(H, B, D, u) ELSE Given(H, D, x, u)
    BY DEF Backed
  <2>1. CASE u = n
    <3>1. x = b
      BY <1>4, <2>1
    <3>2. kind = "phi" => Brought(H, B, D, n)
      <4>1. kind = "phi" => 1 .. Len(r) = {}
        BY DEF Suits
      <4> QED
        BY <1>1, <4>1 DEF Brought, Brings
    <3>3. kind # "phi" => Given(H, D, b, n)
      BY <1>8 DEF Given
    <3> QED
      BY <1>1, <2>1, <3>1, <3>2, <3>3
  <2>2. CASE u # n
    <3>1. u \in DOMAIN F.inst /\ H.inst[u] = F.inst[u] /\ Sits(F, x, u)
      BY <1>1, <1>4, <2>2
    <3>2. IF F.inst[u].kind = "phi" THEN Brought(F, B, D, u) ELSE Given(F, D, x, u)
      BY <1>2, <3>1 DEF Backed
    <3>3. Brought(F, B, D, u) => Brought(H, B, D, u)
      BY <1>7, <3>1 DEF Brought
    <3>4. Given(F, D, x, u) => Given(H, D, x, u)
      <4> SUFFICES ASSUME Given(F, D, x, u), NEW k \in Values(F.inst[u])
                   PROVE  k \in 1 .. Len(F.inst[u].refs) /\ Above(H, D, F.inst[u].refs[k], x, u)
        BY <3>1 DEF Given
      <4>1. k \in 1 .. Len(F.inst[u].refs) /\ Above(F, D, F.inst[u].refs[k], x, u)
        BY DEF Given
      <4> QED
        BY <1>2, <4>1, AboveGrown
    <3> QED
      BY <3>1, <3>2, <3>3, <3>4
  <2> QED
    BY <2>1, <2>2
<1>10. Paired(H)
  <2> SUFFICES ASSUME NEW u \in DOMAIN H.inst, H.inst[u].kind = "phi"  PROVE Len(H.inst[u].refs) % 2 = 0
    BY DEF Paired, PhisOf
  <2>1. CASE u = n
    <3>1. Len(r) = 0
      BY <1>1, <2>1 DEF Suits
    <3>2. 0 % 2 = 0
      OBVIOUS
    <3> QED
      BY <1>1, <2>1, <3>1, <3>2
  <2>2. CASE u # n
    BY <1>1, <1>2, <2>2 DEF Paired, PhisOf
  <2> QED
    BY <2>1, <2>2
<1>11. Furthered(F, D, H, D, e)
  BY <1>1, <1>5, <1>6, <1>9, <1>10 DEF Furthered, Led, Ruled
<1>12. kind \notin Terminators => There(H, D, n, b)
  BY <1>1, <1>2, <1>4 DEF There, Yields
<1> QED
  BY <1>11, <1>12

(* BuildInst.                                                              *)
LEMMA InstLed ==
  ASSUME NEW F, Good(F), NEW D, NEW e, Led(F, D, e), NEW b \in DOMAIN F.code,
         NEW kind, NEW type, NEW r, Buildable(F, b, Made(kind, type, r)), Suits(F, D, b, e, kind, r)
  PROVE  LET H == BuildInst(F, b, kind, type, r) IN
         /\ Furthered(F, D, H, D, e) /\ DOMAIN H.code = DOMAIN F.code
         /\ F.next \in DOMAIN H.inst /\ H.inst[F.next].kind = kind
         /\ kind \notin Terminators => There(H, D, F.next, b)
<1> DEFINE H == BuildInst(F, b, kind, type, r)
           I == Made(kind, type, r)
<1>1. InstBuilt(F, H, b, I)
  BY BuiltInst
<1>2. I.kind = kind /\ I.refs = r
  BY DEF Made
<1> HIDE DEF I, H
<1>3. TakesOn(F, H, b, F.next, kind, r) /\ Grown(F, H)
  BY <1>1, <1>2, BuiltAdds
<1>4. H.order = F.order
  BY <1>1 DEF InstBuilt
<1>5. DOMAIN r = 1 .. Len(r)
  <2>1. r \in Seq(DOMAIN F.uses \cup {Nil})
    BY <1>2 DEF Buildable, I
  <2> QED
    BY <2>1, LenProperties
<1>6. DOMAIN H.code = DOMAIN F.code /\ F.next \in DOMAIN H.inst /\ H.inst[F.next].kind = kind
  BY <1>3 DEF TakesOn
<1> QED
  BY <1>3, <1>4, <1>5, <1>6, AddsLed DEF H

(* A phi that is told of a value on one more path.                         *)
LEMMA PairLed ==
  ASSUME NEW F, Good(F), NEW D, NEW e, Led(F, D, e), NEW phi \in PhisOf(F),
         NEW c \in DOMAIN F.code, NEW v, There(F, D, v, c),
         NEW H, RefsSet(F, H, phi, F.inst[phi].refs \o <<v, c>>)
  PROVE  Furthered(F, D, H, D, e)
<1> DEFINE B == DOMAIN F.code
           r == F.inst[phi].refs \o <<v, c>>
<1>1. phi \in DOMAIN F.inst /\ F.inst[phi].kind = "phi" /\ Tagged(F.inst)
      /\ F.inst[phi].refs \in Seq(DOMAIN F.uses \cup {Nil})
  BY GoodRefs DEF PhisOf
<1>2. /\ Good(H) /\ H.order = F.order /\ H.code = F.code /\ H.inst = Rewired(F.inst, phi, r)
  BY DEF RefsSet
<1>3. /\ Charted(F, B, D, e) /\ Backed(F, B, D) /\ Rooted(F, e) /\ Paired(F) /\ e \in B
      /\ \A x \in B : D[x] \subseteq B /\ x \in D[x]
  BY LedIs
<1>4. PairMore(F.inst[phi].refs, r, v, c)
  BY <1>1, <1>3, PairAdded DEF Paired
<1> HIDE DEF r
<1>5. /\ DOMAIN H.inst = DOMAIN F.inst
      /\ \A u \in DOMAIN F.inst : /\ H.inst[u].kind = F.inst[u].kind
                                  /\ H.inst[u].refs = IF u = phi THEN r ELSE F.inst[u].refs
  BY <1>1, <1>2, RewiredIs
<1>6. Grown(F, H)
  <2>1. Retuned(F, H)
    <3>1. Retuned(F, F)
      BY DEF Retuned
    <3>2. RefsSet(F, H, phi, r)
      BY DEF r
    <3> QED
      BY <1>1, <3>1, <3>2, RetunedSet
  <2> QED
    BY <2>1, RetunedGrown DEF Resting
<1>7. \A x, u : Sits(H, x, u) <=> Sits(F, x, u)
  BY <1>2 DEF Sits
<1>8. \A x, z : Comes(H, x, z) <=> Comes(F, x, z)
  <2>1. \A u \in DOMAIN F.inst : F.inst[u].kind \in Branches => H.inst[u].refs = F.inst[u].refs
    BY <1>1, <1>5 DEF Branches
  <2> QED
    BY <1>2, <1>5, <1>7, <2>1 DEF Comes
<1>9. Rooted(H, e)
  BY <1>2, <1>3, <1>8 DEF Rooted
<1>10. Charted(H, B, D, e)
  BY <1>2, <1>3, <1>8 DEF Charted
<1>11. ASSUME NEW w, NEW z \in B, There(F, D, w, z)  PROVE There(H, D, w, z)
  BY <1>3, <1>6, <1>11, ThereGrown
<1>12. Backed(H, B, D)
  <2> SUFFICES ASSUME NEW x \in B, NEW u \in DOMAIN F.inst, Sits(F, x, u)
               PROVE  IF F.inst[u].kind = "phi" THEN Brought(H, B, D, u) ELSE Given(H, D, x, u)
    BY <1>5, <1>7 DEF Backed
  <2>1. IF F.inst[u].kind = "phi" THEN Brought(F, B, D, u) ELSE Given(F, D, x, u)
    BY <1>3 DEF Backed
  <2>2. CASE F.inst[u].kind = "phi"
    <3> SUFFICES ASSUME NEW w, NEW z \in B, Brings(H.inst[u].refs, w, z)  PROVE There(H, D, w, z)
      BY <2>2 DEF Brought
    <3>1. Brings(F.inst[u].refs, w, z) \/ (w = v /\ z = c)
      BY <1>4, <1>5 DEF PairMore
    <3>2. There(F, D, w, z)
      BY <2>1, <2>2, <3>1 DEF Brought
    <3> QED
      BY <1>11, <3>2
  <2>3. CASE F.inst[u].kind # "phi"
    <3>1. H.inst[u].refs = F.inst[u].refs
      BY <1>1, <1>5, <2>3
    <3>2. Values(H.inst[u]) = Values(F.inst[u])
      BY <1>5, <3>1, ValuesSame
    <3> SUFFICES ASSUME NEW k \in Values(F.inst[u])
                 PROVE  k \in 1 .. Len(F.inst[u].refs) /\ Above(H, D, F.inst[u].refs[k], x, u)
      BY <2>3, <3>1, <3>2 DEF Given
    <3>3. k \in 1 .. Len(F.inst[u].refs) /\ Above(F, D, F.inst[u].refs[k], x, u)
      BY <2>1, <2>3 DEF Given
    <3> QED
      BY <1>3, <1>6, <3>3, AboveGrown
  <2> QED
    BY <2>2, <2>3
<1>13. Paired(H)
  <2> SUFFICES ASSUME NEW u \in DOMAIN F.inst, F.inst[u].kind = "phi"  PROVE Len(H.inst[u].refs) % 2 = 0
    BY <1>5 DEF Paired, PhisOf
  <2>1. u # phi => Len(H.inst[u].refs) % 2 = 0
    BY <1>3, <1>5 DEF Paired, PhisOf
  <2>2. u = phi => Len(H.inst[u].refs) % 2 = 0
    BY <1>4, <1>5 DEF PairMore
  <2> QED
    BY <2>1, <2>2
<1> QED
  BY <1>2, <1>6, <1>9, <1>10, <1>12, <1>13 DEF Furthered, Led, Ruled

LEMMA CandidateLed ==
  ASSUME NEW F, Good(F), NEW D, NEW e, Led(F, D, e), NEW phi \in PhisOf(F),
         NEW c \in DOMAIN F.code, NEW v, There(F, D, v, c)
  PROVE  LET H == addCandidate(F, phi, v, c) IN
         Furthered(F, D, H, D, e) /\ DOMAIN H.code = DOMAIN F.code
<1>1. v \in DOMAIN F.uses \cup {Nil} /\ c \in DOMAIN F.uses \cup {Nil}
  <2>1. v \in DOMAIN F.inst
    BY DEF There, Yields
  <2> QED
    BY <2>1, GoodRefs DEF Good
<1>2. RefsSet(F, addCandidate(F, phi, v, c), phi, F.inst[phi].refs \o <<v, c>>)
  BY <1>1, CandidateAdded DEF PhisOf
<1>3. DOMAIN addCandidate(F, phi, v, c).code = DOMAIN F.code
  BY <1>2 DEF RefsSet
<1> QED
  BY <1>2, <1>3, PairLed

-----------------------------------------------------------------------------
(* A new block, below c.                                                   *)
Spread(D, B, c, n) == [x \in B \cup {n} |-> IF x = n THEN D[c] \cup {n} ELSE D[x]]

LEMMA InsertedHead ==
  ASSUME NEW X, NEW s \in Seq(X), s # <<>>, NEW n \in X, NEW at \in 2 .. Len(s) + 1
  PROVE  InsertAt(s, at, n) # <<>> /\ Head(InsertAt(s, at, n)) = Head(s)
<1> DEFINE f == SubSeq(s, 1, at - 1)
           g == SubSeq(s, at, Len(s))
           h == Append(f, n)
<1>1. Len(s) \in Nat /\ Len(s) # 0 /\ \A k \in 1 .. Len(s) : s[k] \in X
  BY EmptySeq, LenProperties, ElementOfSeq
<1>2. at \in Nat /\ at - 1 \in 1 .. Len(s)
  BY <1>1
<1>3. f \in Seq(X) /\ Len(f) = at - 1 /\ f[1] = s[1]
  <2>1. \A k \in 1 .. at - 1 : s[k] \in X
    BY <1>1, <1>2
  <2>2. f \in Seq(X)
    BY <1>2, <2>1, SubSeqProperties
  <2>3. Len(f) = at - 1 /\ f[1] = s[1]
    BY <1>1, <1>2, SubSeqProperties
  <2> QED
    BY <2>2, <2>3
<1>4. g \in Seq(X)
  BY <1>1, <1>2, SubSeqProperties
<1> HIDE DEF f, g
<1>5. h \in Seq(X) /\ Len(h) = at /\ h[1] = s[1]
  BY <1>2, <1>3, AppendProperties
<1> HIDE DEF h
<1>6. Len(h \o g) = at + Len(g) /\ Len(g) \in Nat /\ (h \o g)[1] = s[1] /\ h \o g \in Seq(X)
  <2>1. h \o g \in Seq(X) /\ Len(h \o g) = Len(h) + Len(g)
        /\ \A k \in 1 .. Len(h) + Len(g) : (h \o g)[k] = IF k <= Len(h) THEN h[k] ELSE g[k - Len(h)]
    BY <1>4, <1>5, ConcatProperties
  <2>2. Len(g) \in Nat
    BY <1>4, LenProperties
  <2>3. 1 \in 1 .. Len(h) + Len(g) /\ 1 <= Len(h)
    BY <1>2, <1>5, <2>2
  <2>4. (h \o g)[1] = h[1]
    BY <2>1, <2>3
  <2> QED
    BY <1>5, <2>1, <2>2, <2>4
<1>7. h \o g # <<>>
  BY <1>2, <1>6, EmptySeq
<1>8. InsertAt(s, at, n) = h \o g
  BY DEF InsertAt, h, f, g
<1> QED
  BY <1>6, <1>7, <1>8, HeadTailProperties

LEMMA BlockLed ==
  ASSUME NEW F, Good(F), NEW D, NEW e, Led(F, D, e), NEW pos \in DOMAIN F.code, pos # e,
         NEW c \in DOMAIN F.code
  PROVE  LET H == BuildBasicBlock(F, pos)
             E == Spread(D, DOMAIN F.code, c, F.next)
         IN  Furthered(F, D, H, E, e) /\ E[F.next] = D[c] \cup {F.next} /\ Opened(F, H, F.next)
<1> DEFINE n == F.next
           B == DOMAIN F.code
           H == BuildBasicBlock(F, pos)
           C == DOMAIN H.code
           E == Spread(D, B, c, n)
<1>1. BlockBuilt(F, H)
  BY BuiltBlock
<1>2. H.order = InsertAt(F.order, FirstAt(F.order, pos), n)
  <2>1. pos # Nil
    BY GoodRefs
  <2>2. Formed(F)
    BY GoodRefs
  <2> DEFINE at == IF pos = Nil THEN Len(F.order) + 1 ELSE SelectInSeq(F.order, LAMBDA b : b = pos)
  <2>3. H = [F EXCEPT !.order = InsertAt(@, at, n), !.code = Entered(@, n, <<>>),
                      !.uses = Entered(@, n, <<>>), !.next = @ + 1]
    BY DEF BuildBasicBlock
  <2>4. at = FirstAt(F.order, pos)
    BY <2>1 DEF FirstAt
  <2> HIDE DEF at, H
  <2>5. H.order = InsertAt(F.order, at, n)
    BY <2>2, <2>3 DEF Formed, Relinked
  <2> QED
    BY <2>4, <2>5
<1> HIDE DEF H
<1>3. Opened(F, H, n)
  BY <1>1, BlockGrown
<1>4. /\ Grown(F, H) /\ Good(H) /\ n \notin B /\ H.code[n] = <<>> /\ C = B \cup {n} /\ H.inst = F.inst
      /\ \A d \in B : H.code[d] = F.code[d]
  BY <1>3 DEF Opened, Grown
<1>5. /\ Charted(F, B, D, e) /\ Backed(F, B, D) /\ Rooted(F, e) /\ Paired(F) /\ e \in B
      /\ \A x \in B : D[x] \subseteq B /\ x \in D[x]
      /\ \A x \in B : \A a \in D[x] : D[a] \subseteq D[x]
  BY LedIs
<1>6. H.order # <<>> /\ Head(H.order) = e
  <2> DEFINE at == FirstAt(F.order, pos)
             X == B \cup {n}
  <2>1. F.order \in Seq(B) /\ F.order # <<>> /\ Head(F.order) = e /\ Times(F.order, pos) = 1
    BY <1>5 DEF Good, Rowed, Rooted
  <2>2. Len(F.order) \in Nat
    BY <2>1, LenProperties
  <2>3. Contains(F.order, pos)
    BY <2>1, TimesCounted
  <2>4. at \in 1 .. Len(F.order) /\ F.order[at] = pos
    BY <2>1, <2>3, FirstPlace
  <2>5. F.order[1] = e
    BY <2>1, HeadTailProperties
  <2>6. at # 1
    BY <2>4, <2>5
  <2>7. at \in 2 .. Len(F.order) + 1
    <3> HIDE DEF at
    <3> QED
      BY <2>2, <2>4, <2>6
  <2>8. F.order \in Seq(X) /\ n \in X
    BY <2>1, SeqMonotonic
  <2> HIDE DEF X, at
  <2>9. InsertAt(F.order, at, n) # <<>> /\ Head(InsertAt(F.order, at, n)) = Head(F.order)
    BY <2>1, <2>7, <2>8, InsertedHead
  <2> QED
    BY <1>2, <2>1, <2>9 DEF at
<1>7. \A u \in DOMAIN F.inst : ~Names(F.inst[u].refs, n)
  <2>1. n \notin DOMAIN F.uses \cup {Nil}
    <3>1. n \in Nat \ {0} /\ DOMAIN F.uses \subseteq 1 .. (n - 1)
      BY DEF Good
    <3> QED
      BY <3>1 DEF Nil
  <2>2. \A u \in DOMAIN F.inst : F.inst[u].refs \in Seq(DOMAIN F.uses \cup {Nil})
    BY GoodRefs
  <2> TAKE u \in DOMAIN F.inst
  <2>3. \A k \in 1 .. Len(F.inst[u].refs) : F.inst[u].refs[k] \in DOMAIN F.uses \cup {Nil}
    BY <2>2, ElementOfSeq
  <2> QED
    BY <2>1, <2>3 DEF Names
<1>8. \A u : ~Sits(H, n, u)
  BY <1>4 DEF Sits, Names
<1>9. \A d \in B : \A u : Sits(H, d, u) <=> Sits(F, d, u)
  BY <1>4 DEF Sits
<1>10. \A x, z : Comes(H, x, z) => x \in B /\ z # n /\ Comes(F, x, z)
  BY <1>4, <1>7, <1>8, <1>9 DEF Comes
<1>11. E = [x \in C |-> IF x = n THEN D[c] \cup {n} ELSE D[x]]
  BY <1>4 DEF Spread
<1> HIDE DEF E
<1>12. E[n] = D[c] \cup {n} /\ \A x \in B : E[x] = D[x]
  BY <1>4, <1>11
<1>13. Charted(H, C, E, e)
  <2>1. E \in [C -> SUBSET C]
    BY <1>4, <1>5, <1>11
  <2>2. E[e] = {e} /\ e \in C /\ \A x \in C : x \in E[x]
    BY <1>4, <1>5, <1>12 DEF Charted
  <2>3. ASSUME NEW x \in C, NEW a \in E[x]  PROVE E[a] \subseteq E[x]
    <3>1. CASE x = n
      BY <1>4, <1>5, <1>12, <2>3, <3>1
    <3>2. CASE x # n
      BY <1>4, <1>5, <1>12, <2>3, <3>2
    <3> QED
      BY <3>1, <3>2
  <2>4. \A x \in C : \A z \in C : Comes(H, x, z) => z \in C /\ E[z] \subseteq E[x] \cup {z}
    BY <1>4, <1>5, <1>10, <1>12 DEF Charted
  <2> QED
    BY <2>1, <2>2, <2>3, <2>4 DEF Charted
<1>14. \A w, z : Brings(w, z, n) => Names(w, n)
  BY DEF Brings, Names
<1>15. Backed(H, C, E)
  <2> SUFFICES ASSUME NEW x \in C, NEW u \in DOMAIN F.inst, Sits(H, x, u)
               PROVE  IF F.inst[u].kind = "phi" THEN Brought(H, C, E, u) ELSE Given(H, E, x, u)
    BY <1>4 DEF Backed
  <2>1. x \in B /\ Sits(F, x, u)
    BY <1>4, <1>8, <1>9
  <2>2. IF F.inst[u].kind = "phi" THEN Brought(F, B, D, u) ELSE Given(F, D, x, u)
    BY <1>5, <2>1 DEF Backed
  <2>3. CASE F.inst[u].kind = "phi"
    <3> SUFFICES ASSUME NEW w, NEW z \in C, Brings(F.inst[u].refs, w, z)  PROVE There(H, E, w, z)
      BY <1>4, <2>3 DEF Brought
    <3>1. z \in B
      BY <1>4, <1>7, <1>14
    <3>2. There(F, D, w, z)
      BY <2>2, <2>3, <3>1 DEF Brought
    <3> QED
      BY <1>4, <1>5, <1>12, <3>1, <3>2, ThereGrown
  <2>4. CASE F.inst[u].kind # "phi"
    <3> SUFFICES ASSUME NEW k \in Values(F.inst[u])
                 PROVE  k \in 1 .. Len(F.inst[u].refs) /\ Above(H, E, F.inst[u].refs[k], x, u)
      BY <1>4, <2>4 DEF Given
    <3>1. k \in 1 .. Len(F.inst[u].refs) /\ Above(F, D, F.inst[u].refs[k], x, u)
      BY <2>2, <2>4 DEF Given
    <3> QED
      BY <1>4, <1>5, <1>12, <2>1, <3>1, AboveGrown
  <2> QED
    BY <2>3, <2>4
<1>16. Rooted(H, e)
  BY <1>4, <1>5, <1>6, <1>10 DEF Rooted
<1>17. Paired(H)
  BY <1>4, <1>5 DEF Paired, PhisOf
<1>18. Furthered(F, D, H, E, e)
  BY <1>4, <1>12, <1>13, <1>15, <1>16, <1>17 DEF Furthered, Led, Ruled
<1> QED
  BY <1>3, <1>12, <1>18 DEF H, E

(* The control may go from b to x.                                         *)
Passes(D, b, x, e) == x # e /\ D[x] \subseteq D[b] \cup {x}

LEMMA PlainLed ==
  ASSUME NEW F, Good(F), NEW D, NEW e, Led(F, D, e), NEW b \in DOMAIN F.code,
         NEW kind, kind \notin Branches, kind # "phi", NEW type, NEW refs \in Seq(DOMAIN F.inst),
         \A k \in 1 .. Len(refs) : There(F, D, refs[k], b)
  PROVE  LET H == BuildInst(F, b, kind, type, refs) IN
         /\ Furthered(F, D, H, D, e) /\ DOMAIN H.code = DOMAIN F.code
         /\ kind \notin Terminators => There(H, D, F.next, b)
<1>1. Buildable(F, b, Made(kind, type, refs))
  BY PlainBuildable
<1>2. Values(Made(kind, Void, refs)) = 1 .. Len(refs)
  <2>1. Made(kind, Void, refs).kind = kind /\ Made(kind, Void, refs).refs = refs
    BY DEF Made
  <2>2. DOMAIN refs = 1 .. Len(refs)
    BY LenProperties
  <2> QED
    BY <2>1, <2>2 DEF Values, Branches
<1>3. Suits(F, D, b, e, kind, refs)
  BY <1>2 DEF Suits
<1> QED
  BY <1>1, <1>3, InstLed

LEMMA BranchLed ==
  ASSUME NEW F, Good(F), NEW D, NEW e, Led(F, D, e), NEW b \in DOMAIN F.code,
         NEW x \in DOMAIN F.code, Passes(D, b, x, e)
  PROVE  LET H == BuildInst(F, b, "br", Void, <<x>>) IN
         Furthered(F, D, H, D, e) /\ DOMAIN H.code = DOMAIN F.code
<1> DEFINE r == <<x>>
<1>1. Len(r) = 1 /\ 1 .. 1 = {1} /\ r[1] = x
  OBVIOUS
<1>2. Buildable(F, b, Made("br", Void, r))
  BY BranchBuildable
<1> HIDE DEF r
<1>3. Values(Made("br", Void, r)) = {}
  BY DEF Made, Values
<1>4. \A d : Names(r, d) => d = x
  BY <1>1 DEF Names
<1>5. Suits(F, D, b, e, "br", r)
  BY <1>3, <1>4 DEF Suits, Passes
<1>6. LET H == BuildInst(F, b, "br", Void, r) IN
      Furthered(F, D, H, D, e) /\ DOMAIN H.code = DOMAIN F.code
  BY <1>2, <1>5, InstLed
<1> QED
  BY <1>6 DEF r

LEMMA ChoiceLed ==
  ASSUME NEW F, Good(F), NEW D, NEW e, Led(F, D, e), NEW b \in DOMAIN F.code,
         NEW kind \in {"cond", "switch"}, NEW v, There(F, D, v, b),
         NEW x \in DOMAIN F.code, Passes(D, b, x, e), NEW y \in DOMAIN F.code, Passes(D, b, y, e)
  PROVE  LET H == BuildInst(F, b, kind, Void, <<v, x, y>>) IN
         Furthered(F, D, H, D, e) /\ DOMAIN H.code = DOMAIN F.code
<1> DEFINE r == <<v, x, y>>
<1>1. Len(r) = 3 /\ 1 .. 3 = {1, 2, 3} /\ r[1] = v /\ r[2] = x /\ r[3] = y
  OBVIOUS
<1>2. v \in DOMAIN F.inst /\ v \notin DOMAIN F.code
  BY DEF There, Yields, Good
<1>3. Buildable(F, b, Made(kind, Void, r))
  BY <1>2, ChoiceBuildable
<1> HIDE DEF r
<1>4. Values(Made(kind, Void, r)) = {1} /\ kind # "phi"
  BY DEF Made, Values
<1>5. \A d \in DOMAIN F.code : Names(r, d) => d = x \/ d = y
  BY <1>1, <1>2 DEF Names
<1>6. Suits(F, D, b, e, kind, r)
  BY <1>1, <1>4, <1>5 DEF Suits, Passes
<1>7. LET H == BuildInst(F, b, kind, Void, r) IN
      Furthered(F, D, H, D, e) /\ DOMAIN H.code = DOMAIN F.code
  BY <1>3, <1>6, InstLed
<1> QED
  BY <1>7 DEF r

(* A phi without candidates.                                               *)
LEMMA PhiLed ==
  ASSUME NEW F, Good(F), NEW D, NEW e, Led(F, D, e), NEW b \in DOMAIN F.code, NEW type
  PROVE  LET H == BuildInst(F, b, "phi", type, <<>>) IN
         /\ Furthered(F, D, H, D, e) /\ DOMAIN H.code = DOMAIN F.code
         /\ F.next \in PhisOf(H)
<1> DEFINE r == <<>>
<1>1. Len(r) = 0 /\ (\A X : r \in Seq(X)) /\ "phi" \notin Branches
  BY DEF Branches
<1> HIDE DEF r
<1>2. Buildable(F, b, Made("phi", type, r))
  BY <1>1 DEF Buildable, Made, Aims
<1>3. Suits(F, D, b, e, "phi", r)
  BY <1>1 DEF Suits
<1>4. LET H == BuildInst(F, b, "phi", type, r) IN
      /\ Furthered(F, D, H, D, e) /\ DOMAIN H.code = DOMAIN F.code
      /\ F.next \in DOMAIN H.inst /\ H.inst[F.next].kind = "phi"
  BY <1>2, <1>3, InstLed
<1> QED
  BY <1>4 DEF r, PhisOf

(* The phis of a block are there at its end.                               *)
LEMMA PhisThere ==
  ASSUME NEW F, Good(F), NEW D, NEW b \in DOMAIN F.code, b \in D[b],
         NEW v \in PhisOf(F), Sits(F, b, v)
  PROVE  There(F, D, v, b)
BY DEF There, Yields, PhisOf, Terminators, Branches

LEMMA PhisLed ==
  ASSUME NEW F, Good(F), NEW D, NEW e, Led(F, D, e), NEW b \in DOMAIN F.code,
         F.code[b] = <<>>, NEW types, Len(types) \in Nat
  PROVE  LET H == BuildPhis(F, b, types) IN
         /\ Furthered(F, D, H, D, e) /\ DOMAIN H.code = DOMAIN F.code
         /\ \A k \in 1 .. Len(Phis(H, b)) : There(H, D, Phis(H, b)[k], b)
<1> DEFINE n == Len(types)
           H == BuildPhis(F, b, types)
<1>1. PICK f : /\ f[0] = F /\ H = f[n]
               /\ \A j \in 1 .. n : f[j] = LaysStep(F, b, types, f[j - 1], j)
  BY LaysUnfold
<1> DEFINE S == {j \in 0 .. n : Furthered(F, D, f[j], D, e) /\ DOMAIN f[j].code = DOMAIN F.code}
<1> HIDE DEF n
<1>2. n \in Nat
  BY DEF n
<1>3. 0 \in S
  BY <1>1, <1>2, FurtheredSelf
<1>4. ASSUME NEW j \in 0 .. n, j \in S, j < n  PROVE j + 1 \in S
  <2>1. j + 1 \in 1 .. n /\ j + 1 \in 0 .. n /\ (j + 1) - 1 = j
    BY <1>2, <1>4
  <2>2. f[j + 1] = BuildInst(f[j], b, "phi", types[j + 1], <<>>)
    BY <1>1, <2>1 DEF LaysStep
  <2> DEFINE K == f[j]
  <2>3. Furthered(F, D, K, D, e) /\ DOMAIN K.code = DOMAIN F.code
    BY <1>4
  <2> HIDE DEF K
  <2>4. Good(K) /\ Led(K, D, e) /\ b \in DOMAIN K.code
    BY <2>3 DEF Furthered, Grown
  <2> DEFINE L == BuildInst(K, b, "phi", types[j + 1], <<>>)
  <2>5. Furthered(K, D, L, D, e) /\ DOMAIN L.code = DOMAIN K.code
    BY <2>4, PhiLed
  <2> HIDE DEF L
  <2>6. Furthered(F, D, L, D, e) /\ DOMAIN L.code = DOMAIN F.code
    BY <2>3, <2>5, FurtheredTwice
  <2> QED
    BY <2>1, <2>2, <2>6 DEF K, L
<1>5. n \in S
  <2>1. \A j \in 0 .. n : j \in S /\ j < n => j + 1 \in S
    BY <1>4
  <2> HIDE DEF S
  <2>2. \A j \in 0 .. n : j \in S
    BY <1>2, <1>3, <2>1, Climbs
  <2> QED
    BY <1>2, <2>2
<1>6. Furthered(F, D, H, D, e) /\ DOMAIN H.code = DOMAIN F.code
  BY <1>1, <1>5
<1>7. PhisPut(F, H, b, types, n)
  <2>1. PhisBuilt(F, H, b, types, n)
    BY BuiltPhis DEF n
  <2> HIDE DEF H
  <2> QED
    BY <1>2, <2>1, PhisGrown
<1> HIDE DEF H
<1>8. ASSUME NEW k \in 1 .. Len(Phis(H, b))  PROVE There(H, D, Phis(H, b)[k], b)
  <2>1. /\ Phis(H, b) = H.code[b] /\ Good(H) /\ b \in DOMAIN H.code /\ Len(H.code[b]) = n
        /\ H.inst[H.code[b][k]].kind = "phi"
    BY <1>6, <1>7, <1>8 DEF PhisPut, Grown
  <2>2. H.code[b][k] \in DOMAIN H.inst
    BY <1>8, <2>1, CodeIs
  <2>3. Sits(H, b, H.code[b][k])
    BY <1>8, <2>1 DEF Sits, Names
  <2>4. b \in D[b]
    BY LedIs
  <2> QED
    BY <2>1, <2>2, <2>3, <2>4, PhisThere DEF PhisOf
<1> QED
  BY <1>6, <1>8 DEF H

=============================================================================
