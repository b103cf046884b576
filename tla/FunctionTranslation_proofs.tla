----------------------- MODULE FunctionTranslation_proofs -----------------------
(***************************************************************************)
(* Proofs about FunctionTranslation, for every set of types and scopes:    *)
(* from the translation of the first bytecode to the last block that the   *)
(* destructor takes down, the use lists stay exact; the visitors' values   *)
(* are what validation has; every phi follows the branches to its block;   *)
(* definitions dominate the uses that control can reach; no assertion      *)
(* fails; every run of SimplifyCFG takes something away.                   *)
(***************************************************************************)
EXTENDS FunctionTranslation, MIR_proofs

-----------------------------------------------------------------------------
(* The two loops of the merges, each as the function of its rounds.        *)

HandsStep(F, target, from, values, g, j) == (IF F.inst[F.code[target][j]].kind = "phi" THEN addCandidate(g, F.code[target][j], values[j], from) ELSE Failed(g, TRUE))
Hands(F, target, from, values, f, m) == f = [j \in 0 .. m |-> IF j = 0 THEN F ELSE (IF F.inst[F.code[target][j]].kind = "phi" THEN addCandidate(f[j - 1], F.code[target][j], values[j], from) ELSE Failed(f[j - 1], TRUE))]

LEMMA HandsUnfold ==
  ASSUME NEW F, NEW target, NEW from, NEW values, Smaller(Len(F.code[target]), Len(values)) \in Nat
  PROVE  \E f : /\ f[0] = F /\ addMergeCandidates(F, target, from, values) = f[Smaller(Len(F.code[target]), Len(values))]
                /\ \A j \in 1 .. Smaller(Len(F.code[target]), Len(values)) : f[j] = HandsStep(F, target, from, values, f[j - 1], j)
<1> DEFINE c == Smaller(Len(F.code[target]), Len(values))
           S == {m \in 0 .. c : \E f : Hands(F, target, from, values, f, m)}
<1>1. 0 \in S
  <2>1. Hands(F, target, from, values, [j \in 0 .. 0 |-> F], 0)
    BY DEF Hands
  <2> QED
    BY <2>1
<1>2. ASSUME NEW m \in 0 .. c, m \in S, m < c  PROVE m + 1 \in S
  <2>1. PICK f : Hands(F, target, from, values, f, m)
    BY <1>2
  <2> DEFINE g == [j \in 0 .. m + 1 |-> IF j = m + 1 THEN HandsStep(F, target, from, values, f[m], m + 1) ELSE f[j]]
  <2>2. ASSUME NEW j \in 0 .. m + 1
        PROVE  g[j] = IF j = 0 THEN F ELSE HandsStep(F, target, from, values, g[j - 1], j)
    <3>1. CASE j = m + 1
      <4>1. g[j] = HandsStep(F, target, from, values, f[m], j) /\ g[j - 1] = f[m]
        BY <1>2, <3>1
      <4> QED
        BY <1>2, <3>1, <4>1
    <3>2. CASE j # m + 1
      <4>1. j \in 0 .. m /\ g[j] = f[j]
        BY <1>2, <3>2
      <4>2. f[j] = IF j = 0 THEN F ELSE HandsStep(F, target, from, values, f[j - 1], j)
        BY <2>1, <4>1 DEF Hands, HandsStep
      <4>3. j # 0 => g[j - 1] = f[j - 1]
        BY <1>2, <4>1
      <4> QED
        BY <4>1, <4>2, <4>3
    <3> QED
      BY <3>1, <3>2
  <2>3. Hands(F, target, from, values, g, m + 1)
    BY <2>2 DEF Hands, HandsStep
  <2> QED
    BY <1>2, <2>3
<1>3. c \in S
  <2>1. \A m \in 0 .. c : m \in S /\ m < c => m + 1 \in S
    BY <1>2
  <2> HIDE DEF S
  <2>2. \A m \in 0 .. c : m \in S
    BY <1>1, <2>1, Climbs
  <2> QED
    BY <2>2
<1> DEFINE f == CHOOSE f : Hands(F, target, from, values, f, c)
<1>4. Hands(F, target, from, values, f, c)
  BY <1>3
<1>5. addMergeCandidates(F, target, from, values) = f[c]
  BY DEF addMergeCandidates, Failed, Hands
<1> HIDE DEF f, c
<1>6. f = [j \in 0 .. c |-> IF j = 0 THEN F ELSE HandsStep(F, target, from, values, f[j - 1], j)]
  BY <1>4 DEF Hands, HandsStep
<1>7. c \in Nat
  BY DEF c
<1>8. f[0] = F /\ \A j \in 1 .. c : f[j] = HandsStep(F, target, from, values, f[j - 1], j)
  BY <1>6, <1>7
<1> QED
  BY <1>5, <1>8 DEF c

BindsStep(F, loop, from, results, values, g, j) == addCandidate(BuildInst(g, loop, "phi", results[j], <<>>), g.next, values[j], from)
Binds(F, loop, from, results, values, f, m) == f = [j \in 0 .. m |-> IF j = 0 THEN F ELSE addCandidate(BuildInst(f[j - 1], loop, "phi", results[j], <<>>), f[j - 1].next, values[j], from)]

LEMMA BindsUnfold ==
  ASSUME NEW F, NEW loop, NEW from, NEW results, NEW values, Smaller(Len(results), Len(values)) \in Nat
  PROVE  \E f : /\ f[0] = F /\ MergePhis(F, loop, from, results, values) = f[Smaller(Len(results), Len(values))]
                /\ \A j \in 1 .. Smaller(Len(results), Len(values)) : f[j] = BindsStep(F, loop, from, results, values, f[j - 1], j)
<1> DEFINE c == Smaller(Len(results), Len(values))
           S == {m \in 0 .. c : \E f : Binds(F, loop, from, results, values, f, m)}
<1>1. 0 \in S
  <2>1. Binds(F, loop, from, results, values, [j \in 0 .. 0 |-> F], 0)
    BY DEF Binds
  <2> QED
    BY <2>1
<1>2. ASSUME NEW m \in 0 .. c, m \in S, m < c  PROVE m + 1 \in S
  <2>1. PICK f : Binds(F, loop, from, results, values, f, m)
    BY <1>2
  <2> DEFINE g == [j \in 0 .. m + 1 |-> IF j = m + 1 THEN BindsStep(F, loop, from, results, values, f[m], m + 1) ELSE f[j]]
  <2>2. ASSUME NEW j \in 0 .. m + 1
        PROVE  g[j] = IF j = 0 THEN F ELSE BindsStep(F, loop, from, results, values, g[j - 1], j)
    <3>1. CASE j = m + 1
      <4>1. g[j] = BindsStep(F, loop, from, results, values, f[m], j) /\ g[j - 1] = f[m]
        BY <1>2, <3>1
      <4> QED
        BY <1>2, <3>1, <4>1
    <3>2. CASE j # m + 1
      <4>1. j \in 0 .. m /\ g[j] = f[j]
        BY <1>2, <3>2
      <4>2. f[j] = IF j = 0 THEN F ELSE BindsStep(F, loop, from, results, values, f[j - 1], j)
        BY <2>1, <4>1 DEF Binds, BindsStep
      <4>3. j # 0 => g[j - 1] = f[j - 1]
        BY <1>2, <4>1
      <4> QED
        BY <4>1, <4>2, <4>3
    <3> QED
      BY <3>1, <3>2
  <2>3. Binds(F, loop, from, results, values, g, m + 1)
    BY <2>2 DEF Binds, BindsStep
  <2> QED
    BY <1>2, <2>3
<1>3. c \in S
  <2>1. \A m \in 0 .. c : m \in S /\ m < c => m + 1 \in S
    BY <1>2
  <2> HIDE DEF S
  <2>2. \A m \in 0 .. c : m \in S
    BY <1>1, <2>1, Climbs
  <2> QED
    BY <2>2
<1> DEFINE f == CHOOSE f : Binds(F, loop, from, results, values, f, c)
<1>4. Binds(F, loop, from, results, values, f, c)
  BY <1>3
<1>5. MergePhis(F, loop, from, results, values) = f[c]
  BY DEF MergePhis, Binds
<1> HIDE DEF f, c
<1>6. f = [j \in 0 .. c |-> IF j = 0 THEN F ELSE BindsStep(F, loop, from, results, values, f[j - 1], j)]
  BY <1>4 DEF Binds, BindsStep
<1>7. c \in Nat
  BY DEF c
<1>8. f[0] = F /\ \A j \in 1 .. c : f[j] = BindsStep(F, loop, from, results, values, f[j - 1], j)
  BY <1>6, <1>7
<1> QED
  BY <1>5, <1>8 DEF c

(***************************************************************************)
(* What MIRCodegen promises of every loop type of a scope: a loop has no   *)
(* more parameters than results, and they agree.  addMergeCandidates and   *)
(* the zip of visitor(Loop) rely on it; without it an assertion of the     *)
(* translation may fail.                                                   *)
(***************************************************************************)
LoopsMerge ==
  \A S \in Scopes : \A bt \in S.loopTypes :
    /\ Len(bt[1]) <= Len(bt[2])
    /\ \A k \in 1 .. Len(bt[1]) : bt[1][k] = bt[2][k]

(***************************************************************************)
(* The visitors.  A body has a visitor in which alt is empty; what waits   *)
(* for an else branch is a body.                                           *)
(***************************************************************************)
VisitorWith(A) ==
  [cur : Nat, before : Nat, values : Seq(Nat), types : Seq(Types),
   label : Nat, labelTypes : Seq(Types), to : Nat, results : Seq(Types), alt : A]
Bodies   == VisitorWith({<<>>})
Visitors == VisitorWith(Seq(Bodies))

(* The blocks that a visitor has still to close.                           *)
Curs(v)  == {v.cur} \cup {v.alt[k].cur : k \in DOMAIN v.alt}
Open(fs) == UNION {Curs(fs[k]) : k \in DOMAIN fs}

(* No two visitors write to the same block.                                *)
Alone(v) == Len(v.alt) <= 1 /\ \A k \in DOMAIN v.alt : v.alt[k].cur # v.cur
Apart(fs) ==
  /\ \A k \in DOMAIN fs : Alone(fs[k])
  /\ \A j, k \in DOMAIN fs : j # k => Curs(fs[j]) \cap Curs(fs[k]) = {}

(* What a visitor names is there; its values have the types of validation, *)
(* and the blocks it may merge into begin with the phis of the merge.      *)
Merging(F, v) ==
  /\ Typed(F, v.values, v.types)
  /\ Heads(F, v.label, v.labelTypes) /\ Heads(F, v.to, v.results)
Fit(F, v) ==
  /\ {v.cur, v.before, v.label, v.to} \subseteq DOMAIN F.code
  /\ v.values \in Seq(DOMAIN F.inst)
  /\ LoopsMerge => Merging(F, v)
Ready(F, v) == Fit(F, v) /\ \A k \in DOMAIN v.alt : Fit(F, v.alt[k])
Stacked(F, fs) ==
  fs \in Seq(Visitors) /\ Apart(fs) /\ \A k \in DOMAIN fs : Ready(F, fs[k])

Sound(F, results) ==
  /\ Good(F) /\ Exit \in DOMAIN F.code
  /\ LoopsMerge => F.fault = FALSE /\ Heads(F, Exit, results)

(* The blocks that the visitors may merge into have no phi but those of    *)
(* the merge.                                                              *)
Bounded(F, v)    == Bare(F, v.label, Len(v.labelTypes)) /\ Bare(F, v.to, Len(v.results))
BoundedAll(F, v) == Bounded(F, v) /\ \A k \in DOMAIN v.alt : Bounded(F, v.alt[k])
Bares(F, fs)     == \A k \in DOMAIN fs : BoundedAll(F, fs[k])

(* The flow of a function under translation: every phi has a candidate for *)
(* the blocks that branch to its own, and for no other.                    *)
Flows(F, fs, results) ==
  Valued(F) /\ Matched(F) /\ Bare(F, Exit, Len(results)) /\ Bares(F, fs)

(* The values are there at the end of c.                                   *)
AllThere(F, D, vs, c) == \A k \in 1 .. Len(vs) : There(F, D, vs[k], c)

(* The visitors: their values are there, and control may pass from where   *)
(* they write to wherever a visitor further down may go.                   *)
Places(v) ==
  {Exit, v.label, v.to} \cup {v.alt[k].label : k \in DOMAIN v.alt} \cup {v.alt[k].to : k \in DOMAIN v.alt}
Stocked(F, D, v) == AllThere(F, D, v.values, v.cur) /\ v.before # Entry
StockedAll(F, D, v) == Stocked(F, D, v) /\ \A k \in DOMAIN v.alt : Stocked(F, D, v.alt[k])
Reach(D, v, w) == \A c \in Curs(w) : \A x \in Places(v) : Passes(D, c, x, Entry)
Guides(F, D, fs) ==
  /\ \A k \in DOMAIN fs : StockedAll(F, D, fs[k])
  /\ \A j, k \in DOMAIN fs : j <= k => Reach(D, fs[j], fs[k])

(* Some chart guides the visitors.                                         *)
Guided(F, fs) == \E D : Led(F, D, Entry) /\ Guides(F, D, fs)

(***************************************************************************)
(* The inductive invariant.  FlowInv is what the pass keeps of the flow: a *)
(* phi that names one path twice is moved, by a merge of two blocks, into  *)
(* the block it names, and its candidates follow the branches no longer.   *)
(***************************************************************************)
CodegenInv ==
  phase = "codegen" =>
    Sound(fn, Results) /\ Stacked(fn, frames) /\ Sealed(fn, Open(frames))

PassInv ==
  phase \in {"simplify", "done"} =>
    /\ frames = <<>> /\ fn.fault \in BOOLEAN
    /\ fn.fault = FALSE => Steady(fn)
    /\ LoopsMerge => fn.fault = FALSE
    /\ phase = "done" => Converged(fn)

TeardownInv ==
  phase = "teardown" =>
    frames = <<>> /\ fn.fault \in BOOLEAN /\ (fn.fault = FALSE => Good(fn))

FlowInv ==
  LoopsMerge =>
    /\ phase = "codegen" => Flows(fn, frames, Results) /\ Guided(fn, frames)
    /\ phase \in {"simplify", "done"} => Valued(fn) /\ Loose(fn) /\ Dominated(fn, Entry)

Inv ==
  /\ scope \in Scopes /\ fuel \in Nat
  /\ phase \in {"codegen", "simplify", "done", "teardown"}
  /\ CodegenInv /\ PassInv /\ TeardownInv /\ FlowInv

-----------------------------------------------------------------------------
(* The merges.                                                             *)

LEMMA RetunedSelf ==
  ASSUME NEW F, Good(F)
  PROVE  Retuned(F, F)
BY DEF Retuned

Handed(F, G, target, values) ==
  /\ Retuned(F, G)
  /\ \A types : Heads(F, target, types) /\ Len(values) = Len(types) => G.fault = F.fault

LEMMA MergeHanded ==
  ASSUME NEW F, Good(F), NEW target \in DOMAIN F.code, NEW from \in DOMAIN F.code,
         NEW values \in Seq(DOMAIN F.inst)
  PROVE  Handed(F, addMergeCandidates(F, target, from, values), target, values)
<1> DEFINE code == F.code[target]
           c == Smaller(Len(code), Len(values))
           I == DOMAIN F.inst
           allPhis == \A k \in 1 .. c : F.inst[code[k]].kind = "phi"
<1>1. /\ code \in Seq(I) /\ Len(code) \in Nat /\ Len(values) \in Nat
      /\ \A k \in 1 .. Len(code) : code[k] \in I
  BY CodeIs, LenProperties
<1>2. c \in Nat /\ c <= Len(code) /\ c <= Len(values)
  BY <1>1 DEF Smaller
<1>3. \A k \in 1 .. c : code[k] \in I /\ values[k] \in I
  <2> TAKE k \in 1 .. c
  <2>1. k \in 1 .. Len(code) /\ k \in 1 .. Len(values)
    BY <1>1, <1>2
  <2> QED
    BY <1>1, <2>1, ElementOfSeq
<1>4. PICK f : /\ f[0] = F /\ addMergeCandidates(F, target, from, values) = f[c]
               /\ \A j \in 1 .. c : f[j] = HandsStep(F, target, from, values, f[j - 1], j)
  BY <1>2, HandsUnfold
<1>5. from \in DOMAIN F.uses /\ I \subseteq DOMAIN F.uses
  BY GoodRefs DEF Good
<1> DEFINE S == {j \in 0 .. c : Retuned(F, f[j]) /\ (allPhis => f[j].fault = F.fault)}
<1> HIDE DEF code, c, allPhis, I
<1>6. 0 \in S
  <2>1. Retuned(F, F)
    BY RetunedSelf
  <2> QED
    BY <1>2, <1>4, <2>1
<1>7. ASSUME NEW j \in 0 .. c, j \in S, j < c  PROVE j + 1 \in S
  <2> DEFINE G == f[j]
             H == f[j + 1]
             k == j + 1
             p == code[k]
             v == values[k]
  <2>1. Retuned(F, G) /\ (allPhis => G.fault = F.fault)
    BY <1>7
  <2>2. k \in 1 .. c /\ k - 1 = j /\ k \in 0 .. c
    BY <1>2, <1>7
  <2>3. H = IF F.inst[p].kind = "phi" THEN addCandidate(G, p, v, from) ELSE Failed(G, TRUE)
    BY <1>4, <2>2 DEF HandsStep, code
  <2>4. p \in I /\ v \in I
    BY <1>3, <2>2
  <2>5. /\ Good(G) /\ DOMAIN G.uses = DOMAIN F.uses /\ DOMAIN G.inst = I
        /\ G.inst[p].kind = F.inst[p].kind
    BY <2>1, <2>4 DEF Retuned, I
  <2> HIDE DEF G, H, p, v, k
  <2>6. CASE F.inst[p].kind = "phi"
    <3>1. H = addCandidate(G, p, v, from)
      BY <2>3, <2>6
    <3>2. /\ p \in DOMAIN G.inst /\ G.inst[p].kind = "phi" /\ v \in DOMAIN G.uses \cup {Nil}
          /\ from \in DOMAIN G.uses \cup {Nil}
      BY <1>5, <2>4, <2>5, <2>6
    <3>3. RefsSet(G, addCandidate(G, p, v, from), p, G.inst[p].refs \o <<v, from>>)
      BY <2>5, <3>2, CandidateAdded
    <3>4. RefsSet(G, H, p, G.inst[p].refs \o <<v, from>>)
      BY <3>1, <3>3
    <3>5. p \in DOMAIN F.inst
      BY <2>4 DEF I
    <3>6. Retuned(F, H) /\ H.fault = G.fault
      BY <2>1, <2>6, <3>4, <3>5, RetunedSet
    <3> QED
      BY <2>1, <2>2, <3>6 DEF H, k
  <2>7. CASE F.inst[p].kind # "phi"
    <3>1. H = Failed(G, TRUE)
      BY <2>3, <2>7
    <3>2. Retuned(G, H)
      BY <2>5, <3>1, FailedRetuned
    <3>3. Retuned(F, H)
      BY <2>1, <3>2, RetunedTwice
    <3>4. ~allPhis
      BY <2>2, <2>7 DEF allPhis, p
    <3> QED
      BY <2>2, <3>3, <3>4 DEF H, k
  <2> QED
    BY <2>6, <2>7
<1>8. c \in S
  <2>1. \A j \in 0 .. c : j \in S /\ j < c => j + 1 \in S
    BY <1>7
  <2> HIDE DEF S
  <2>2. \A j \in 0 .. c : j \in S
    BY <1>2, <1>6, <2>1, Climbs
  <2> QED
    BY <1>2, <2>2
<1>9. ASSUME NEW types, Heads(F, target, types), Len(values) = Len(types)  PROVE allPhis
  <2>1. ASSUME NEW k \in 1 .. c  PROVE F.inst[code[k]].kind = "phi"
    <3>1. k \in 1 .. Len(types)
      BY <1>1, <1>2, <1>9
    <3> QED
      BY <1>9, <3>1 DEF Heads, code
  <2> QED
    BY <2>1 DEF allPhis
<1>10. Retuned(F, f[c]) /\ (allPhis => f[c].fault = F.fault)
  BY <1>8
<1> QED
  BY <1>4, <1>9, <1>10 DEF Handed

LEMMA PhisMerged ==
  ASSUME NEW F, Good(F), NEW loop \in DOMAIN F.code, F.code[loop] = <<>>, NEW from \in DOMAIN F.code,
         NEW results, Len(results) \in Nat, NEW values \in Seq(DOMAIN F.inst)
  PROVE  PhisPut(F, MergePhis(F, loop, from, results, values), loop, results,
                 Smaller(Len(results), Len(values)))
<1> DEFINE c == Smaller(Len(results), Len(values))
           nothing == <<>>
<1>1. c \in Nat /\ c <= Len(values) /\ Len(values) \in Nat
  BY LenProperties DEF Smaller
<1>2. PICK f : /\ f[0] = F /\ MergePhis(F, loop, from, results, values) = f[c]
               /\ \A j \in 1 .. c : f[j] = BindsStep(F, loop, from, results, values, f[j - 1], j)
  BY <1>1, BindsUnfold
<1>3. /\ F.next \in Nat /\ DOMAIN F.inst \subseteq 1 .. (F.next - 1)
      /\ from \in DOMAIN F.uses /\ DOMAIN F.inst \subseteq DOMAIN F.uses
  <2>1. DOMAIN F.inst \subseteq DOMAIN F.uses
    BY GoodRefs
  <2> QED
    BY <2>1 DEF Good
<1>4. nothing = F.code[loop] /\ Len(nothing) = 0 /\ (\A X : nothing \in Seq(X)) /\ DOMAIN nothing = {}
  OBVIOUS
<1> DEFINE S == {j \in 0 .. c : PhisBuilt(F, f[j], loop, results, j)}
<1> HIDE DEF c
<1>5. 0 \in S
  <2>1. Fresh(F, 0) = {} /\ 1 .. 0 = {} /\ F.next + 0 = F.next /\ 0 \in 0 .. c
    BY <1>1, <1>3 DEF Fresh
  <2>2. \A d \in DOMAIN F.code : F.code[d] = IF d = loop THEN Run(F.next, 0) ELSE F.code[d]
    BY <1>3, RunIs
  <2>3. PhisBuilt(F, F, loop, results, 0)
    BY <2>1, <2>2 DEF PhisBuilt
  <2> QED
    BY <1>2, <2>1, <2>3
<1>6. ASSUME NEW j \in 0 .. c, j \in S, j < c  PROVE j + 1 \in S
  <2> DEFINE G == f[j]
             H == f[j + 1]
             k == j + 1
             v == values[k]
             new == Made("phi", results[k], nothing)
             B == BuildInst(G, loop, "phi", results[k], nothing)
             r == B.inst[G.next].refs \o <<v, from>>
  <2>1. PhisBuilt(F, G, loop, results, j)
    BY <1>6
  <2>2. k \in 1 .. c /\ k - 1 = j /\ k \in 0 .. c /\ k \in Nat
    BY <1>1, <1>6
  <2>3. H = addCandidate(B, G.next, v, from)
    BY <1>2, <2>2 DEF BindsStep
  <2>4. v \in DOMAIN F.inst
    <3>1. k \in 1 .. Len(values)
      BY <1>1, <2>2
    <3> QED
      BY <3>1, ElementOfSeq
  <2>5. /\ Good(G) /\ G.next = F.next + j /\ DOMAIN G.uses = DOMAIN F.uses \cup Fresh(F, j)
        /\ DOMAIN G.code = DOMAIN F.code
    BY <2>1 DEF PhisBuilt
  <2> HIDE DEF S, G, H, v
  <2>6. InstBuilt(G, B, loop, new)
    <3>1. new.refs = nothing /\ new.kind = "phi" /\ "phi" # "cond" /\ "phi" \notin Branches
      BY DEF Made, Branches
    <3> HIDE DEF nothing, new
    <3>2. Buildable(G, loop, new)
      BY <1>4, <2>5, <3>1 DEF Buildable, Aims
    <3>3. Buildable(G, loop, Made("phi", results[k], nothing))
      BY <3>2 DEF new
    <3>4. InstBuilt(G, BuildInst(G, loop, "phi", results[k], nothing), loop, Made("phi", results[k], nothing))
      BY <2>5, <3>3, BuiltInst
    <3> QED
      BY <3>4 DEF new
  <2> HIDE DEF B, k
  <2>7. PhisBuilt(F, B, loop, results, k)
    <3>1. InstBuilt(G, B, loop, Made("phi", results[j + 1], <<>>))
      BY <2>6 DEF k
    <3>2. PhisBuilt(F, B, loop, results, j + 1)
      BY <1>3, <2>1, <3>1, PhiBuilt, SMTT(30)
    <3> QED
      BY <3>2 DEF k
  <2>8. G.next \in Fresh(F, k)
    BY <1>3, <2>5, <2>2 DEF Fresh, k
  <2>9. RefsSet(B, H, G.next, r)
    <3>1. G.next \in DOMAIN B.inst /\ B.inst[G.next].kind = "phi"
      <4>1. F.next + k - 1 = G.next /\ k \in 1 .. k
        BY <1>3, <2>5, <2>2 DEF k
      <4> QED
        BY <2>7, <2>8, <4>1 DEF PhisBuilt
    <3>2. v \in DOMAIN B.uses \cup {Nil} /\ from \in DOMAIN B.uses \cup {Nil} /\ Good(B)
      BY <1>3, <2>4, <2>7 DEF PhisBuilt
    <3>3. RefsSet(B, addCandidate(B, G.next, v, from), G.next, B.inst[G.next].refs \o <<v, from>>)
      BY <3>1, <3>2, CandidateAdded
    <3> QED
      BY <2>3, <3>3
  <2>10. PhisBuilt(F, H, loop, results, k)
    <3> HIDE DEF r
    <3> QED
      BY <1>3, <2>2, <2>7, <2>8, <2>9, PhisBuiltSet
  <2> QED
    BY <2>2, <2>10 DEF S, H, k
<1>7. PhisBuilt(F, f[c], loop, results, c)
  <2>1. \A j \in 0 .. c : j \in S /\ j < c => j + 1 \in S
    BY <1>6
  <2> HIDE DEF S
  <2>2. \A j \in 0 .. c : j \in S
    BY <1>1, <1>5, <2>1, Climbs
  <2>3. c \in S
    BY <1>1, <2>2
  <2> QED
    BY <2>3 DEF S
<1> QED
  BY <1>1, <1>2, <1>7, PhisGrown DEF c

-----------------------------------------------------------------------------
(* The visitors and the stack they are on.                                 *)

LEMMA Peeked ==
  ASSUME NEW X, NEW s \in Seq(X), NEW n \in Nat, n <= Len(s)
  PROVE  /\ peek(s, n) \in Seq(X) /\ Len(peek(s, n)) = n
         /\ pop(s, n) \in Seq(X) /\ Len(pop(s, n)) = Len(s) - n
         /\ \A k \in 1 .. n : peek(s, n)[k] = s[Len(s) - n + k]
         /\ \A k \in 1 .. Len(s) - n : pop(s, n)[k] = s[k]
<1> DEFINE c == Len(s)
<1>1. c \in Nat /\ \A k \in 1 .. c : s[k] \in X
  BY LenProperties, ElementOfSeq
<1>2. /\ SubSeq(s, c - n + 1, c) \in Seq(X) /\ Len(SubSeq(s, c - n + 1, c)) = n
      /\ \A k \in 1 .. n : SubSeq(s, c - n + 1, c)[k] = s[c - n + k]
  <2>1. c - n + 1 \in 1 .. c + 1 /\ c \in c - n + 1 - 1 .. c /\ c - (c - n + 1) + 1 = n
    BY <1>1
  <2> QED
    BY <1>1, <2>1, SubSeqProperties
<1>3. /\ SubSeq(s, 1, c - n) \in Seq(X) /\ Len(SubSeq(s, 1, c - n)) = c - n
      /\ \A k \in 1 .. c - n : SubSeq(s, 1, c - n)[k] = s[k]
  <2>1. 1 \in 1 .. c + 1 /\ c - n \in 0 .. c /\ (c - n) - 1 + 1 = c - n
    BY <1>1
  <2> QED
    BY <1>1, <2>1, SubSeqProperties
<1> QED
  BY <1>2, <1>3 DEF peek, pop

LEMMA Topped ==
  ASSUME NEW X, NEW s \in Seq(X), s # <<>>
  PROVE  /\ Front(s) \in Seq(X) /\ Last(s) \in X /\ s = Append(Front(s), Last(s))
         /\ Len(s) \in Nat /\ Len(s) # 0 /\ \A k \in 1 .. Len(s) : s[k] \in X
<1> DEFINE c == Len(s)
           f == Front(s)
<1>1. c \in Nat /\ c # 0 /\ \A k \in 1 .. c : s[k] \in X
  BY LenProperties, ElementOfSeq, EmptySeq
<1>2. f \in Seq(X) /\ Len(f) = c - 1 /\ \A k \in 1 .. c - 1 : f[k] = s[k]
  <2>1. 1 \in 1 .. c + 1 /\ c - 1 \in 0 .. c /\ (c - 1) - 1 + 1 = c - 1
    BY <1>1
  <2> QED
    BY <1>1, <2>1, SubSeqProperties DEF Front
<1>3. Last(s) = s[c] /\ s[c] \in X
  BY <1>1 DEF Last
<1> HIDE DEF f, c
<1> DEFINE a == Append(f, s[c])
<1>4. a \in Seq(X) /\ Len(a) = c /\ \A k \in 1 .. c : a[k] = IF k <= c - 1 THEN f[k] ELSE s[c]
  BY <1>1, <1>2, <1>3
<1>5. \A k \in 1 .. c : a[k] = s[k]
  BY <1>1, <1>2, <1>4
<1>6. a = s
  <2> HIDE DEF a
  <2> QED
    BY <1>4, <1>5, SeqEqual DEF c
<1> QED
  BY <1>1, <1>2, <1>3, <1>6 DEF f, c

Nine(c, b, v, t, l, m, o, r, a) ==
  [cur |-> c, before |-> b, values |-> v, types |-> t, label |-> l, labelTypes |-> m,
   to |-> o, results |-> r, alt |-> a]

LEMMA VisitorIs ==
  ASSUME NEW v \in Visitors
  PROVE  /\ v = Nine(v.cur, v.before, v.values, v.types, v.label, v.labelTypes, v.to, v.results, v.alt)
         /\ v.cur \in Nat /\ v.before \in Nat /\ v.label \in Nat /\ v.to \in Nat
         /\ v.values \in Seq(Nat) /\ v.types \in Seq(Types) /\ v.labelTypes \in Seq(Types)
         /\ v.results \in Seq(Types) /\ v.alt \in Seq(Bodies)
BY DEF Visitors, VisitorWith, Nine

LEMMA NineVisitor ==
  ASSUME NEW c \in Nat, NEW b \in Nat, NEW v \in Seq(Nat), NEW t \in Seq(Types), NEW l \in Nat,
         NEW m \in Seq(Types), NEW o \in Nat, NEW r \in Seq(Types), NEW a \in Seq(Bodies)
  PROVE  /\ Nine(c, b, v, t, l, m, o, r, a) \in Visitors
         /\ a = <<>> => Nine(c, b, v, t, l, m, o, r, a) \in Bodies
BY DEF Visitors, VisitorWith, Nine, Bodies

LEMMA BodiesVisit ==
  ASSUME NEW v \in Bodies
  PROVE  v \in Visitors /\ v.alt = <<>> /\ Curs(v) = {v.cur} /\ Alone(v)
<1>1. v.alt = <<>>
  BY DEF Bodies, VisitorWith
<1>a. v \in Visitors
  <2>1. v.alt \in Seq(Bodies)
    BY <1>1
  <2>2. /\ v = Nine(v.cur, v.before, v.values, v.types, v.label, v.labelTypes, v.to, v.results, v.alt)
        /\ v.cur \in Nat /\ v.before \in Nat /\ v.label \in Nat /\ v.to \in Nat
        /\ v.values \in Seq(Nat) /\ v.types \in Seq(Types) /\ v.labelTypes \in Seq(Types)
        /\ v.results \in Seq(Types)
    BY DEF Bodies, VisitorWith, Nine
  <2>3. Nine(v.cur, v.before, v.values, v.types, v.label, v.labelTypes, v.to, v.results, v.alt) \in Visitors
    BY <2>1, <2>2, NineVisitor
  <2> QED
    BY <2>2, <2>3
<1>2. DOMAIN v.alt = {} /\ Len(v.alt) = 0
  BY <1>1
<1> QED
  BY <1>1, <1>a, <1>2 DEF Curs, Alone

(* The visitor w is v but for its block, its values and their types.       *)
Recast(v, w, c, vs, ts) ==
  /\ w \in Visitors /\ w.cur = c /\ w.values = vs /\ w.types = ts /\ w.before = v.before
  /\ w.label = v.label /\ w.labelTypes = v.labelTypes /\ w.to = v.to /\ w.results = v.results
  /\ w.alt = v.alt

LEMMA NineRecast ==
  ASSUME NEW v \in Visitors, NEW c \in Nat, NEW vs \in Seq(Nat), NEW ts \in Seq(Types)
  PROVE  Recast(v, Nine(c, v.before, vs, ts, v.label, v.labelTypes, v.to, v.results, v.alt), c, vs, ts)
<1> DEFINE w == Nine(c, v.before, vs, ts, v.label, v.labelTypes, v.to, v.results, v.alt)
<1>1. w \in Visitors
  <2> HIDE DEF w
  <2> QED
    BY VisitorIs, NineVisitor DEF w
<1>2. /\ w.cur = c /\ w.values = vs /\ w.types = ts /\ w.before = v.before
      /\ w.label = v.label /\ w.labelTypes = v.labelTypes /\ w.to = v.to /\ w.results = v.results
      /\ w.alt = v.alt
  BY DEF Nine
<1> QED
  BY <1>1, <1>2 DEF Recast

Revalued(v, vs, ts) == [v EXCEPT !.values = vs, !.types = ts]
Recurred(v, c, vs, ts) == [v EXCEPT !.cur = c, !.values = vs, !.types = ts]

LEMMA RevaluedIs ==
  ASSUME NEW v \in Visitors, NEW vs \in Seq(Nat), NEW ts \in Seq(Types)
  PROVE  Recast(v, Revalued(v, vs, ts), v.cur, vs, ts)
<1> DEFINE c == v.cur
           b == v.before
           x == v.values
           t == v.types
           l == v.label
           m == v.labelTypes
           o == v.to
           r == v.results
           a == v.alt
<1>1. v = Nine(c, b, x, t, l, m, o, r, a) /\ c \in Nat
  BY VisitorIs
<1>2. Recast(v, Nine(c, b, vs, ts, l, m, o, r, a), c, vs, ts)
  BY <1>1, NineRecast
<1> HIDE DEF c, b, x, t, l, m, o, r, a
<1>3. [v EXCEPT !.values = vs] = Nine(c, b, vs, t, l, m, o, r, a)
  BY <1>1, SMTT(30) DEF Nine
<1>4. [Nine(c, b, vs, t, l, m, o, r, a) EXCEPT !.types = ts] = Nine(c, b, vs, ts, l, m, o, r, a)
  BY DEF Nine
<1>5. Revalued(v, vs, ts) = Nine(c, b, vs, ts, l, m, o, r, a)
  BY <1>3, <1>4 DEF Revalued
<1> QED
  BY <1>2, <1>5 DEF c

LEMMA RecurredIs ==
  ASSUME NEW v \in Visitors, NEW n \in Nat, NEW vs \in Seq(Nat), NEW ts \in Seq(Types)
  PROVE  Recast(v, Recurred(v, n, vs, ts), n, vs, ts)
<1> DEFINE c == v.cur
           b == v.before
           x == v.values
           t == v.types
           l == v.label
           m == v.labelTypes
           o == v.to
           r == v.results
           a == v.alt
<1>1. v = Nine(c, b, x, t, l, m, o, r, a) /\ c \in Nat
  BY VisitorIs
<1>2. Recast(v, Nine(n, b, vs, ts, l, m, o, r, a), n, vs, ts)
  BY <1>1, NineRecast
<1> HIDE DEF c, b, x, t, l, m, o, r, a
<1>3. [v EXCEPT !.cur = n] = Nine(n, b, x, t, l, m, o, r, a)
  BY <1>1 DEF Nine
<1>4. [Nine(n, b, x, t, l, m, o, r, a) EXCEPT !.values = vs] = Nine(n, b, vs, t, l, m, o, r, a)
  BY DEF Nine
<1>5. [Nine(n, b, vs, t, l, m, o, r, a) EXCEPT !.types = ts] = Nine(n, b, vs, ts, l, m, o, r, a)
  BY DEF Nine
<1>6. Recurred(v, n, vs, ts) = Nine(n, b, vs, ts, l, m, o, r, a)
  BY <1>3, <1>4, <1>5 DEF Recurred
<1> QED
  BY <1>2, <1>6

(* What Body makes.                                                        *)
Fresher(w, c, b, vs, ts, l, m, o, r) ==
  /\ w \in Bodies /\ w.cur = c /\ w.before = b /\ w.values = vs /\ w.types = ts
  /\ w.label = l /\ w.labelTypes = m /\ w.to = o /\ w.results = r

LEMMA BodyIs ==
  ASSUME NEW c \in Nat, NEW b \in Nat, NEW vs \in Seq(Nat), NEW ts \in Seq(Types), NEW l \in Nat,
         NEW m \in Seq(Types), NEW o \in Nat, NEW r \in Seq(Types)
  PROVE  Fresher(Body(c, b, vs, ts, l, m, o, r), c, b, vs, ts, l, m, o, r)
<1> DEFINE w == Nine(c, b, vs, ts, l, m, o, r, <<>>)
<1>1. Body(c, b, vs, ts, l, m, o, r) = w
  BY DEF Body, Nine
<1>2. w \in Bodies
  <2>1. <<>> \in Seq(Bodies)
    OBVIOUS
  <2> QED
    BY <2>1, NineVisitor
<1>3. w.cur = c /\ w.before = b /\ w.values = vs /\ w.types = ts
      /\ w.label = l /\ w.labelTypes = m /\ w.to = o /\ w.results = r
  BY DEF Nine
<1> QED
  BY <1>1, <1>2, <1>3 DEF Fresher

LEMMA PushedIs ==
  ASSUME NEW X, NEW s \in Seq(X), NEW t \in X
  PROVE  LET a == Append(s, t) IN
         /\ a \in Seq(X) /\ Len(s) \in Nat /\ DOMAIN s = 1 .. Len(s) /\ DOMAIN a = 1 .. Len(s) + 1
         /\ a[Len(s) + 1] = t /\ \A k \in 1 .. Len(s) : a[k] = s[k] /\ s[k] \in X
<1>1. Len(s) \in Nat /\ DOMAIN s = 1 .. Len(s) /\ \A k \in 1 .. Len(s) : s[k] \in X
  BY LenProperties, ElementOfSeq
<1> QED
  BY <1>1, AppendProperties

LEMMA OpenPushed ==
  ASSUME NEW s \in Seq(Visitors), NEW t \in Visitors
  PROVE  Open(Append(s, t)) = Open(s) \cup Curs(t)
<1> DEFINE a == Append(s, t)
           n == Len(s)
<1>1. /\ n \in Nat /\ DOMAIN s = 1 .. n /\ DOMAIN a = 1 .. n + 1
      /\ a[n + 1] = t /\ \A k \in 1 .. n : a[k] = s[k]
  <2>1. s \in Seq(Visitors) /\ t \in Visitors
    OBVIOUS
  <2> HIDE DEF a
  <2> QED
    BY <2>1, PushedIs DEF a
<1> HIDE DEF a, n
<1>2. 1 .. n + 1 = (1 .. n) \cup {n + 1}
  BY <1>1
<1>3. ASSUME NEW x  PROVE x \in Open(a) <=> x \in Open(s) \cup Curs(t)
  <2>1. x \in Open(a) <=> \E k \in (1 .. n) \cup {n + 1} : x \in Curs(a[k])
    BY <1>1, <1>2 DEF Open
  <2>2. x \in Open(s) <=> \E k \in 1 .. n : x \in Curs(s[k])
    BY <1>1 DEF Open
  <2>3. \A k \in 1 .. n : Curs(a[k]) = Curs(s[k])
    BY <1>1
  <2>4. Curs(a[n + 1]) = Curs(t)
    BY <1>1
  <2> QED
    BY <2>1, <2>2, <2>3, <2>4
<1> QED
  BY <1>3 DEF a

LEMMA ApartPushed ==
  ASSUME NEW s \in Seq(Visitors), NEW t \in Visitors
  PROVE  Apart(Append(s, t)) <=> Apart(s) /\ Alone(t) /\ Curs(t) \cap Open(s) = {}
<1> DEFINE a == Append(s, t)
           n == Len(s)
<1>1. /\ n \in Nat /\ DOMAIN s = 1 .. n /\ DOMAIN a = 1 .. n + 1
      /\ a[n + 1] = t /\ \A k \in 1 .. n : a[k] = s[k]
  <2>1. s \in Seq(Visitors) /\ t \in Visitors
    OBVIOUS
  <2> HIDE DEF a
  <2> QED
    BY <2>1, PushedIs DEF a
<1> HIDE DEF a, n
<1>2. DOMAIN a = (1 .. n) \cup {n + 1} /\ n + 1 \notin 1 .. n
  BY <1>1
<1>3. Curs(t) \cap Open(s) = {} <=> \A k \in 1 .. n : Curs(s[k]) \cap Curs(t) = {}
  BY <1>1 DEF Open
<1>4. ASSUME Apart(a)  PROVE Apart(s) /\ Alone(t) /\ Curs(t) \cap Open(s) = {}
  <2>1. Alone(a[n + 1]) /\ \A k \in 1 .. n : Alone(a[k])
    BY <1>2, <1>4 DEF Apart
  <2>2. \A j, k \in 1 .. n : j # k => Curs(a[j]) \cap Curs(a[k]) = {}
    BY <1>2, <1>4 DEF Apart
  <2>3. \A k \in 1 .. n : Curs(a[k]) \cap Curs(a[n + 1]) = {}
    BY <1>2, <1>4 DEF Apart
  <2>4. Apart(s)
    BY <1>1, <2>1, <2>2 DEF Apart
  <2>5. Curs(t) \cap Open(s) = {}
    BY <1>1, <1>3, <2>3
  <2> QED
    BY <1>1, <2>1, <2>4, <2>5
<1>5. ASSUME Apart(s), Alone(t), Curs(t) \cap Open(s) = {}  PROVE Apart(a)
  <2>1. \A k \in DOMAIN a : Alone(a[k])
    <3> TAKE k \in DOMAIN a
    <3>1. CASE k = n + 1
      BY <1>1, <1>5, <3>1
    <3>2. CASE k # n + 1
      <4>1. k \in 1 .. n
        BY <1>2, <3>2
      <4> QED
        BY <1>1, <1>5, <4>1 DEF Apart
    <3> QED
      BY <3>1, <3>2
  <2>2. ASSUME NEW j \in DOMAIN a, NEW k \in DOMAIN a, j # k  PROVE Curs(a[j]) \cap Curs(a[k]) = {}
    <3>1. \A i \in 1 .. n : Curs(a[i]) \cap Curs(t) = {}
      BY <1>1, <1>3, <1>5
    <3>2. CASE j = n + 1
      <4>1. k \in 1 .. n
        BY <1>2, <2>2, <3>2
      <4> QED
        BY <1>1, <3>1, <3>2, <4>1
    <3>3. CASE k = n + 1
      <4>1. j \in 1 .. n
        BY <1>2, <2>2, <3>3
      <4> QED
        BY <1>1, <3>1, <3>3, <4>1
    <3>4. CASE j # n + 1 /\ k # n + 1
      <4>1. j \in 1 .. n /\ k \in 1 .. n
        BY <1>2, <3>4
      <4>2. Curs(s[j]) \cap Curs(s[k]) = {}
        BY <1>1, <1>5, <2>2, <4>1 DEF Apart
      <4> QED
        BY <1>1, <4>1, <4>2
    <3> QED
      BY <3>2, <3>3, <3>4
  <2> QED
    BY <2>1, <2>2 DEF Apart
<1> QED
  BY <1>4, <1>5 DEF a

LEMMA StackedPushed ==
  ASSUME NEW F, NEW s \in Seq(Visitors), NEW t \in Visitors
  PROVE  Stacked(F, Append(s, t))
           <=> Stacked(F, s) /\ Ready(F, t) /\ Alone(t) /\ Curs(t) \cap Open(s) = {}
<1> DEFINE a == Append(s, t)
           n == Len(s)
<1>1. /\ n \in Nat /\ DOMAIN s = 1 .. n /\ DOMAIN a = 1 .. n + 1 /\ a \in Seq(Visitors)
      /\ a[n + 1] = t /\ \A k \in 1 .. n : a[k] = s[k]
  <2>1. s \in Seq(Visitors) /\ t \in Visitors
    OBVIOUS
  <2> HIDE DEF a
  <2> QED
    BY <2>1, PushedIs DEF a
<1>2. Apart(a) <=> Apart(s) /\ Alone(t) /\ Curs(t) \cap Open(s) = {}
  BY ApartPushed
<1> HIDE DEF a, n
<1>3. DOMAIN a = (1 .. n) \cup {n + 1}
  BY <1>1
<1>4. (\A k \in DOMAIN a : Ready(F, a[k])) <=> (\A k \in DOMAIN s : Ready(F, s[k])) /\ Ready(F, t)
  <2>1. \A k \in DOMAIN s : Ready(F, a[k]) <=> Ready(F, s[k])
    BY <1>1
  <2>2. Ready(F, a[n + 1]) <=> Ready(F, t)
    BY <1>1
  <2> QED
    BY <1>1, <1>3, <2>1, <2>2
<1> QED
  BY <1>1, <1>2, <1>4 DEF Stacked, a

LEMMA CursThere ==
  ASSUME NEW F, NEW v, Ready(F, v)
  PROVE  Curs(v) \subseteq DOMAIN F.code
BY DEF Ready, Fit, Curs

LEMMA OpenThere ==
  ASSUME NEW F, NEW s, Stacked(F, s)
  PROVE  Open(s) \subseteq DOMAIN F.code
<1>1. \A k \in DOMAIN s : Curs(s[k]) \subseteq DOMAIN F.code
  BY CursThere DEF Stacked
<1> QED
  BY <1>1 DEF Open

LEMMA FitGrown ==
  ASSUME NEW F, Good(F), NEW G, Grown(F, G), NEW v \in Visitors, Fit(F, v)
  PROVE  Fit(G, v)
<1>1. v.values \in Seq(DOMAIN G.inst)
  <2>1. DOMAIN F.inst \subseteq DOMAIN G.inst /\ v.values \in Seq(DOMAIN F.inst)
    BY DEF Grown, Fit
  <2> QED
    BY <2>1, SeqMonotonic
<1>2. {v.cur, v.before, v.label, v.to} \subseteq DOMAIN G.code
  BY DEF Grown, Fit
<1>3. ASSUME Merging(F, v)  PROVE Merging(G, v)
  <2>1. v.labelTypes \in Seq(Types) /\ v.results \in Seq(Types) /\ v.values \in Seq(DOMAIN F.inst)
    BY VisitorIs DEF Fit
  <2>2. Len(v.labelTypes) \in Nat /\ Len(v.results) \in Nat
    BY <2>1, LenProperties
  <2>3. Typed(F, v.values, v.types) /\ Heads(F, v.label, v.labelTypes) /\ Heads(F, v.to, v.results)
    BY <1>3 DEF Merging
  <2>4. Typed(G, v.values, v.types)
    BY <2>1, <2>3, TypedGrown
  <2>5. Heads(G, v.label, v.labelTypes) /\ Heads(G, v.to, v.results)
    BY <2>2, <2>3, HeadsGrown
  <2> QED
    BY <2>4, <2>5 DEF Merging
<1> QED
  BY <1>1, <1>2, <1>3 DEF Fit

LEMMA ReadyGrown ==
  ASSUME NEW F, Good(F), NEW G, Grown(F, G), NEW v \in Visitors, Ready(F, v)
  PROVE  Ready(G, v)
<1>1. Fit(G, v)
  BY FitGrown DEF Ready
<1>2. ASSUME NEW k \in DOMAIN v.alt  PROVE Fit(G, v.alt[k])
  <2>1. v.alt \in Seq(Bodies)
    BY VisitorIs
  <2>2. v.alt[k] \in Bodies
    BY <2>1, LenProperties, ElementOfSeq
  <2>3. v.alt[k] \in Visitors /\ Fit(F, v.alt[k])
    BY <2>2, BodiesVisit DEF Ready
  <2> QED
    BY <2>3, FitGrown
<1> QED
  BY <1>1, <1>2 DEF Ready

LEMMA StackedGrown ==
  ASSUME NEW F, Good(F), NEW G, Grown(F, G), NEW s, Stacked(F, s)
  PROVE  Stacked(G, s)
<1>1. s \in Seq(Visitors) /\ Apart(s)
  BY DEF Stacked
<1>2. ASSUME NEW k \in DOMAIN s  PROVE Ready(G, s[k])
  <2>1. s[k] \in Visitors
    BY <1>1, LenProperties, ElementOfSeq
  <2> QED
    BY <2>1, ReadyGrown DEF Stacked
<1> QED
  BY <1>1, <1>2 DEF Stacked

(* The frames once the innermost body is over.                             *)
Left(s, t) == IF t.alt # <<>> THEN Append(s, Head(t.alt)) ELSE s

LEMMA LeftStacked ==
  ASSUME NEW F, NEW s \in Seq(Visitors), NEW t \in Visitors, Stacked(F, Append(s, t))
  PROVE  /\ Stacked(F, Left(s, t)) /\ Open(Left(s, t)) = Open(Append(s, t)) \ {t.cur}
         /\ t.cur \in Open(Append(s, t))
<1>1. /\ Stacked(F, s) /\ Ready(F, t) /\ Alone(t) /\ Curs(t) \cap Open(s) = {}
      /\ Open(Append(s, t)) = Open(s) \cup Curs(t) /\ t.alt \in Seq(Bodies)
  BY StackedPushed, OpenPushed, VisitorIs
<1>2. t.cur \in Curs(t)
  BY DEF Curs
<1>3. CASE t.alt = <<>>
  <2>1. Curs(t) = {t.cur}
    BY <1>3 DEF Curs
  <2>2. Left(s, t) = s
    BY <1>3 DEF Left
  <2> QED
    BY <1>1, <1>2, <2>1, <2>2
<1>4. CASE t.alt # <<>>
  <2> DEFINE x == t.alt
             a == Head(x)
  <2>1. Len(x) = 1 /\ DOMAIN x = {1} /\ a = x[1] /\ x[1] \in Bodies
    <3>1. Len(x) \in Nat /\ Len(x) # 0 /\ Len(x) <= 1
      BY <1>1, <1>4, LenProperties, EmptySeq DEF Alone
    <3>2. Len(x) = 1
      <4> DEFINE n == Len(x)
      <4>1. n \in Nat /\ n # 0 /\ n <= 1
        BY <3>1
      <4> HIDE DEF n
      <4>2. n = 1
        BY <4>1
      <4> QED
        BY <4>2 DEF n
    <3>3. DOMAIN x = 1 .. 1
      BY <1>1, <3>2, LenProperties
    <3>4. 1 .. 1 = {1}
      OBVIOUS
    <3> QED
      BY <1>1, <3>2, <3>3, <3>4, ElementOfSeq
  <2>2. a \in Visitors /\ a.alt = <<>> /\ Curs(a) = {a.cur} /\ Alone(a)
    BY <2>1, BodiesVisit
  <2>3. Curs(t) = {t.cur, a.cur} /\ a.cur # t.cur
    BY <1>1, <2>1 DEF Curs, Alone
  <2>4. Ready(F, a)
    BY <1>1, <2>1, <2>2 DEF Ready
  <2>5. Left(s, t) = Append(s, a)
    BY <1>4 DEF Left
  <2> HIDE DEF a, x
  <2>6. Stacked(F, Append(s, a)) /\ Open(Append(s, a)) = Open(s) \cup {a.cur}
    <3>1. Curs(a) \cap Open(s) = {}
      BY <1>1, <2>2, <2>3
    <3> QED
      BY <1>1, <2>2, <2>4, <3>1, StackedPushed, OpenPushed
  <2> QED
    BY <1>1, <1>2, <2>3, <2>5, <2>6
<1> QED
  BY <1>3, <1>4

-----------------------------------------------------------------------------
(* Values and types together.                                              *)

LEMMA TypedCut ==
  ASSUME NEW F, NEW X, NEW vs \in Seq(X), NEW ts \in Seq(Types), Typed(F, vs, ts),
         NEW n \in Nat, n <= Len(vs), n <= Len(ts)
  PROVE  Typed(F, peek(vs, n), peek(ts, n)) /\ Typed(F, pop(vs, n), pop(ts, n))
<1> DEFINE c == Len(ts)
           vt == peek(vs, n)
           tt == peek(ts, n)
           vp == pop(vs, n)
           tp == pop(ts, n)
<1>1. /\ Len(vt) = n /\ Len(vp) = Len(vs) - n
      /\ (\A k \in 1 .. n : vt[k] = vs[Len(vs) - n + k]) /\ (\A k \in 1 .. Len(vs) - n : vp[k] = vs[k])
  BY Peeked
<1>2. /\ Len(tt) = n /\ Len(tp) = c - n
      /\ (\A k \in 1 .. n : tt[k] = ts[c - n + k]) /\ (\A k \in 1 .. c - n : tp[k] = ts[k])
  BY Peeked
<1>3. Len(vs) = c /\ c \in Nat /\ n <= c /\ \A k \in 1 .. c : F.inst[vs[k]].type = ts[k]
  BY LenProperties DEF Typed
<1> HIDE DEF c, vt, tt, vp, tp
<1>4. ASSUME NEW k \in 1 .. n  PROVE F.inst[vt[k]].type = tt[k]
  <2>1. c - n + k \in 1 .. c
    BY <1>3
  <2> QED
    BY <1>1, <1>2, <1>3, <2>1
<1>5. ASSUME NEW k \in 1 .. c - n  PROVE F.inst[vp[k]].type = tp[k]
  <2>1. k \in 1 .. c
    BY <1>3
  <2> QED
    BY <1>1, <1>2, <1>3, <2>1
<1>6. Typed(F, vt, tt)
  BY <1>1, <1>2, <1>4 DEF Typed
<1>7. Typed(F, vp, tp)
  BY <1>1, <1>2, <1>3, <1>5 DEF Typed
<1> QED
  BY <1>6, <1>7 DEF vt, tt, vp, tp

LEMMA TypedPushed ==
  ASSUME NEW F, NEW X, NEW vs \in Seq(X), NEW ts \in Seq(Types), Typed(F, vs, ts),
         NEW v \in X, NEW t \in Types, F.inst[v].type = t
  PROVE  Typed(F, Append(vs, v), Append(ts, t))
<1> DEFINE c == Len(ts)
           va == Append(vs, v)
           ta == Append(ts, t)
<1>1. Len(va) = Len(vs) + 1 /\ va[Len(vs) + 1] = v /\ \A k \in 1 .. Len(vs) : va[k] = vs[k]
  BY AppendProperties, LenProperties
<1>2. Len(ta) = c + 1 /\ ta[c + 1] = t /\ \A k \in 1 .. c : ta[k] = ts[k]
  BY AppendProperties, LenProperties
<1>3. Len(vs) = c /\ c \in Nat /\ \A k \in 1 .. c : F.inst[vs[k]].type = ts[k]
  BY LenProperties DEF Typed
<1> HIDE DEF c, va, ta
<1>4. ASSUME NEW k \in 1 .. c + 1  PROVE F.inst[va[k]].type = ta[k]
  <2>1. CASE k = c + 1
    BY <1>1, <1>2, <1>3, <2>1
  <2>2. CASE k # c + 1
    <3>1. k \in 1 .. c
      BY <1>3, <2>2
    <3> QED
      BY <1>1, <1>2, <1>3, <3>1
  <2> QED
    BY <2>1, <2>2
<1> QED
  BY <1>1, <1>2, <1>3, <1>4 DEF Typed, va, ta

LEMMA TypedJoined ==
  ASSUME NEW F, NEW X, NEW vs \in Seq(X), NEW ts \in Seq(Types), Typed(F, vs, ts),
         NEW ws \in Seq(X), NEW us \in Seq(Types), Typed(F, ws, us)
  PROVE  Typed(F, vs \o ws, ts \o us)
<1> DEFINE c == Len(ts)
           d == Len(us)
           va == vs \o ws
           ta == ts \o us
<1>1. /\ Len(vs) = c /\ c \in Nat /\ \A k \in 1 .. c : F.inst[vs[k]].type = ts[k]
      /\ Len(ws) = d /\ d \in Nat /\ \A k \in 1 .. d : F.inst[ws[k]].type = us[k]
  BY LenProperties DEF Typed
<1>2. Len(va) = Len(vs) + Len(ws)
      /\ \A k \in 1 .. Len(vs) + Len(ws) : va[k] = IF k <= Len(vs) THEN vs[k] ELSE ws[k - Len(vs)]
  BY ConcatProperties
<1>3. Len(ta) = c + d /\ \A k \in 1 .. c + d : ta[k] = IF k <= c THEN ts[k] ELSE us[k - c]
  BY ConcatProperties
<1> HIDE DEF c, d, va, ta
<1>4. ASSUME NEW k \in 1 .. c + d  PROVE F.inst[va[k]].type = ta[k]
  <2>1. CASE k <= c
    <3>1. k \in 1 .. c
      BY <1>1, <2>1
    <3> QED
      BY <1>1, <1>2, <1>3, <2>1, <3>1
  <2>2. CASE ~(k <= c)
    <3>1. k - c \in 1 .. d
      BY <1>1, <2>2
    <3> QED
      BY <1>1, <1>2, <1>3, <2>2, <3>1
  <2> QED
    BY <2>1, <2>2
<1> QED
  BY <1>1, <1>2, <1>3, <1>4 DEF Typed, va, ta

(* What lies under the condition.                                          *)
LEMMA UnderCondition ==
  ASSUME NEW ts \in Seq(Types), NEW p \in Seq(Types), NEW c \in Types,
         Len(p) + 1 <= Len(ts), peek(ts, Len(p) + 1) = Append(p, c)
  PROVE  peek(pop(ts, 1), Len(p)) = p
<1> DEFINE n == Len(p)
           m == Len(ts)
           a == Append(p, c)
           q == pop(ts, 1)
           r == peek(q, n)
<1>1. n \in Nat /\ m \in Nat /\ n + 1 <= m /\ n + 1 \in Nat /\ 1 <= m
  BY LenProperties
<1>2. \A k \in 1 .. n : a[k] = p[k]
  BY AppendProperties, LenProperties
<1>3. \A k \in 1 .. n + 1 : a[k] = ts[m - (n + 1) + k]
  <2> DEFINE e == n + 1
  <2>1. e \in Nat /\ e <= Len(ts) /\ peek(ts, e) = a
    BY <1>1
  <2> HIDE DEF e, a, n, m
  <2>2. \A k \in 1 .. e : peek(ts, e)[k] = ts[Len(ts) - e + k]
    BY <2>1, Peeked
  <2> QED
    BY <2>1, <2>2 DEF e, m
<1>4. q \in Seq(Types) /\ Len(q) = m - 1 /\ \A k \in 1 .. m - 1 : q[k] = ts[k]
  <2> DEFINE e == 1
  <2>1. e \in Nat /\ e <= Len(ts)
    BY <1>1
  <2> HIDE DEF e
  <2>2. /\ pop(ts, e) \in Seq(Types) /\ Len(pop(ts, e)) = Len(ts) - e
        /\ \A k \in 1 .. Len(ts) - e : pop(ts, e)[k] = ts[k]
    BY <2>1, Peeked
  <2> QED
    BY <2>2 DEF e
<1>5. r \in Seq(Types) /\ Len(r) = n /\ \A k \in 1 .. n : r[k] = q[(m - 1) - n + k]
  <2>1. n <= Len(q) /\ n \in Nat /\ q \in Seq(Types)
    BY <1>1, <1>4
  <2> HIDE DEF q, n
  <2>2. /\ peek(q, n) \in Seq(Types) /\ Len(peek(q, n)) = n
        /\ \A k \in 1 .. n : peek(q, n)[k] = q[Len(q) - n + k]
    BY <2>1, Peeked
  <2> QED
    BY <1>4, <2>2
<1> HIDE DEF a, q, r
<1>6. ASSUME NEW k \in 1 .. n  PROVE r[k] = p[k]
  <2>1. (m - 1) - n + k \in 1 .. m - 1 /\ (m - 1) - n + k = m - (n + 1) + k /\ k \in 1 .. n + 1
    BY <1>1
  <2>2. r[k] = ts[m - (n + 1) + k]
    BY <1>4, <1>5, <2>1
  <2>3. p[k] = ts[m - (n + 1) + k]
    BY <1>2, <1>3, <2>1
  <2> QED
    BY <2>2, <2>3
<1>7. r = p
  BY <1>5, <1>6, SeqEqual
<1> QED
  BY <1>7 DEF r, q

-----------------------------------------------------------------------------
(* The steps of the visitors, by what they do to the stack.                *)

Working(F, fs, results) == Sound(F, results) /\ Stacked(F, fs) /\ Sealed(F, Open(fs))

Faultless(F, G) == LoopsMerge => G.fault = F.fault

LEMMA SoundGrown ==
  ASSUME NEW F, NEW results \in Seq(Types), Sound(F, results), NEW G, Grown(F, G), Faultless(F, G)
  PROVE  Sound(G, results)
<1>1. Good(F) /\ Good(G) /\ Exit \in DOMAIN G.code
  BY DEF Sound, Grown
<1>2. ASSUME LoopsMerge  PROVE G.fault = FALSE /\ Heads(G, Exit, results)
  <2>1. F.fault = FALSE /\ Heads(F, Exit, results) /\ G.fault = F.fault
    BY <1>2 DEF Sound, Faultless
  <2>2. Len(results) \in Nat
    BY LenProperties
  <2> QED
    BY <1>1, <2>1, <2>2, HeadsGrown
<1> QED
  BY <1>1, <1>2 DEF Sound

(* The visitor goes on in the block c, its own or a new one.               *)
LEMMA MovedOn ==
  ASSUME NEW F, Good(F), NEW s \in Seq(Visitors), NEW t \in Visitors, Stacked(F, Append(s, t)),
         NEW G, Grown(F, G), NEW c, c \in DOMAIN G.code, c \notin DOMAIN F.code \ {t.cur},
         NEW vs \in Seq(DOMAIN G.inst), NEW ts, NEW w, Recast(t, w, c, vs, ts),
         LoopsMerge => Typed(G, vs, ts)
  PROVE  /\ Stacked(G, Append(s, w)) /\ w \in Visitors
         /\ Open(Append(s, w)) = (Open(Append(s, t)) \ {t.cur}) \cup {c}
<1>1. /\ Stacked(F, s) /\ Ready(F, t) /\ Alone(t) /\ Curs(t) \cap Open(s) = {}
      /\ Open(Append(s, t)) = Open(s) \cup Curs(t)
  BY StackedPushed, OpenPushed
<1>2. Stacked(G, s) /\ Ready(G, t) /\ Open(s) \subseteq DOMAIN F.code /\ Curs(t) \subseteq DOMAIN F.code
  BY <1>1, StackedGrown, ReadyGrown, OpenThere, CursThere
<1>3. /\ w \in Visitors /\ w.cur = c /\ w.values = vs /\ w.types = ts /\ w.before = t.before
      /\ w.label = t.label /\ w.labelTypes = t.labelTypes /\ w.to = t.to /\ w.results = t.results
      /\ w.alt = t.alt
  BY DEF Recast
<1>4. Ready(G, w)
  <2>1. Fit(G, w)
    <3>1. Fit(G, t)
      BY <1>2 DEF Ready
    <3>2. {w.cur, w.before, w.label, w.to} \subseteq DOMAIN G.code /\ w.values \in Seq(DOMAIN G.inst)
      BY <1>3, <3>1 DEF Fit
    <3>3. LoopsMerge => Merging(G, w)
      BY <1>3, <3>1 DEF Fit, Merging
    <3> QED
      BY <3>2, <3>3 DEF Fit
  <2> QED
    BY <1>2, <1>3, <2>1 DEF Ready
<1> DEFINE others == {t.alt[k].cur : k \in DOMAIN t.alt}
<1>5. /\ Curs(t) = {t.cur} \cup others /\ Curs(w) = {c} \cup others /\ t.cur \notin others
      /\ others \subseteq DOMAIN F.code
  BY <1>1, <1>2, <1>3 DEF Curs, Alone
<1>6. c \notin others
  BY <1>5
<1>7. Alone(w)
  BY <1>1, <1>3, <1>6 DEF Alone
<1> HIDE DEF others
<1>8. Curs(w) \cap Open(s) = {}
  <2>1. t.cur \notin Open(s) /\ others \cap Open(s) = {}
    BY <1>1, <1>5
  <2> QED
    BY <1>2, <1>5, <2>1
<1>9. Stacked(G, Append(s, w)) /\ Open(Append(s, w)) = Open(s) \cup Curs(w)
  BY <1>2, <1>3, <1>4, <1>7, <1>8, StackedPushed, OpenPushed
<1>10. t.cur \notin Open(s)
  BY <1>1, <1>5
<1> QED
  BY <1>1, <1>3, <1>5, <1>9, <1>10

(* A visitor for a body comes on top.                                      *)
LEMMA Nested ==
  ASSUME NEW G, NEW s, NEW w \in Visitors, Stacked(G, Append(s, w)), s \in Seq(Visitors),
         NEW b \in Visitors, Ready(G, b), Alone(b), Curs(b) \cap Open(Append(s, w)) = {}
  PROVE  /\ Stacked(G, s \o <<w, b>>)
         /\ Open(s \o <<w, b>>) = Open(Append(s, w)) \cup Curs(b)
<1> DEFINE a == Append(s, w)
<1>1. a \in Seq(Visitors)
  BY AppendProperties
<1>2. s \o <<w, b>> = Append(a, b)
  OBVIOUS
<1> HIDE DEF a
<1>3. Stacked(G, Append(a, b)) /\ Open(Append(a, b)) = Open(a) \cup Curs(b)
  <2>1. Stacked(G, a) /\ Curs(b) \cap Open(a) = {}
    BY DEF a
  <2> QED
    BY <1>1, <2>1, StackedPushed, OpenPushed
<1> QED
  BY <1>2, <1>3 DEF a

(* The function F and the stack s with the visitor t on top.               *)
Face(F, s, t, results) ==
  /\ s \in Seq(Visitors) /\ t \in Visitors /\ results \in Seq(Types)
  /\ Working(F, Append(s, t), results)

LEMMA FaceIs ==
  ASSUME NEW F, NEW s, NEW t, NEW results, Face(F, s, t, results)
  PROVE  /\ s \in Seq(Visitors) /\ t \in Visitors /\ results \in Seq(Types)
         /\ Sound(F, results) /\ Good(F) /\ Exit \in DOMAIN F.code
         /\ Stacked(F, Append(s, t)) /\ Sealed(F, Open(Append(s, t)))
         /\ Ready(F, t) /\ Fit(F, t) /\ t.cur \in DOMAIN F.code /\ t.cur \in Open(Append(s, t))
         /\ t.cur \in Nat /\ t.before \in DOMAIN F.code /\ t.to \in DOMAIN F.code
         /\ t.values \in Seq(DOMAIN F.inst) /\ t.types \in Seq(Types) /\ t.results \in Seq(Types)
         /\ LoopsMerge => Typed(F, t.values, t.types)
<1>1. /\ s \in Seq(Visitors) /\ t \in Visitors /\ results \in Seq(Types)
      /\ Sound(F, results) /\ Stacked(F, Append(s, t)) /\ Sealed(F, Open(Append(s, t)))
  BY DEF Face, Working
<1>2. Good(F) /\ Exit \in DOMAIN F.code
  BY <1>1 DEF Sound
<1>3. Ready(F, t)
  BY <1>1, StackedPushed
<1>4. Fit(F, t)
  BY <1>3 DEF Ready
<1>5. t.cur \in Open(Append(s, t))
  BY <1>1, LeftStacked
<1>6. t.cur \in Nat /\ t.types \in Seq(Types) /\ t.results \in Seq(Types)
  BY <1>1, VisitorIs
<1>7. /\ t.cur \in DOMAIN F.code /\ t.before \in DOMAIN F.code /\ t.to \in DOMAIN F.code
      /\ t.values \in Seq(DOMAIN F.inst)
      /\ LoopsMerge => Typed(F, t.values, t.types)
  BY <1>4 DEF Fit, Merging
<1> QED
  BY <1>1, <1>2, <1>3, <1>4, <1>5, <1>6, <1>7

LEMMA NodesAreNumbers ==
  ASSUME NEW F, Good(F)
  PROVE  /\ DOMAIN F.inst \subseteq Nat /\ DOMAIN F.code \subseteq Nat /\ F.next \in Nat
         /\ \A vs \in Seq(DOMAIN F.inst) : vs \in Seq(Nat)
<1>1. /\ DOMAIN F.inst \subseteq DOMAIN F.uses /\ DOMAIN F.code \subseteq DOMAIN F.uses
      /\ DOMAIN F.uses \subseteq 1 .. (F.next - 1) /\ F.next \in Nat
  BY GoodRefs DEF Good
<1>2. DOMAIN F.inst \subseteq Nat
  BY <1>1
<1> QED
  BY <1>1, <1>2, SeqMonotonic

LEMMA Settled ==
  ASSUME NEW F, NEW s, NEW t, NEW results, Face(F, s, t, results),
         NEW G, Grown(F, G), Faultless(F, G), Sealed(G, Open(Append(s, t))),
         NEW vs \in Seq(DOMAIN G.inst), NEW ts \in Seq(Types), LoopsMerge => Typed(G, vs, ts)
  PROVE  Working(G, Append(s, Revalued(t, vs, ts)), results)
<1> DEFINE c == t.cur
           w == Revalued(t, vs, ts)
<1>1. /\ s \in Seq(Visitors) /\ t \in Visitors /\ results \in Seq(Types)
      /\ Sound(F, results) /\ Good(F) /\ Stacked(F, Append(s, t)) /\ c \in DOMAIN F.code
      /\ c \in Open(Append(s, t))
  BY FaceIs
<1>2. c \in DOMAIN G.code /\ c \notin DOMAIN F.code \ {t.cur} /\ Good(G)
  BY <1>1 DEF Grown
<1>3. Recast(t, w, c, vs, ts)
  <2>1. vs \in Seq(Nat)
    BY <1>2, NodesAreNumbers
  <2> QED
    BY <1>1, <2>1, RevaluedIs
<1> HIDE DEF c, w
<1>4. Stacked(G, Append(s, w)) /\ Open(Append(s, w)) = (Open(Append(s, t)) \ {t.cur}) \cup {c}
  BY <1>1, <1>2, <1>3, MovedOn
<1>5. Open(Append(s, w)) = Open(Append(s, t))
  BY <1>1, <1>4 DEF c
<1>6. Sound(G, results)
  BY <1>1, SoundGrown
<1> QED
  BY <1>4, <1>5, <1>6 DEF Working, w

LEMMA Over ==
  ASSUME NEW F, NEW s, NEW t, NEW results, Face(F, s, t, results),
         NEW G, Grown(F, G), Faultless(F, G), Sealed(G, Open(Append(s, t)) \ {t.cur})
  PROVE  Working(G, Left(s, t), results)
<1>1. /\ s \in Seq(Visitors) /\ t \in Visitors /\ results \in Seq(Types)
      /\ Sound(F, results) /\ Good(F) /\ Stacked(F, Append(s, t))
  BY FaceIs
<1>2. Stacked(G, Append(s, t))
  BY <1>1, StackedGrown
<1>3. Stacked(G, Left(s, t)) /\ Open(Left(s, t)) = Open(Append(s, t)) \ {t.cur}
  BY <1>1, <1>2, LeftStacked
<1>4. Sound(G, results)
  BY <1>1, SoundGrown
<1> QED
  BY <1>3, <1>4 DEF Working

(* The visitor goes on in a new block.                                     *)
LEMMA WentOn ==
  ASSUME NEW F, NEW s, NEW t, NEW results, Face(F, s, t, results),
         NEW G, Grown(F, G), Faultless(F, G),
         NEW c, c \in DOMAIN G.code, c \notin DOMAIN F.code,
         NEW vs \in Seq(DOMAIN G.inst), NEW ts \in Seq(Types), LoopsMerge => Typed(G, vs, ts)
  PROVE  LET w == Recurred(t, c, vs, ts) IN
         /\ Sound(G, results) /\ w \in Visitors /\ Stacked(G, Append(s, w))
         /\ Open(Append(s, w)) = (Open(Append(s, t)) \ {t.cur}) \cup {c}
<1> DEFINE w == Recurred(t, c, vs, ts)
<1>1. /\ s \in Seq(Visitors) /\ t \in Visitors /\ results \in Seq(Types)
      /\ Sound(F, results) /\ Good(F) /\ Stacked(F, Append(s, t)) /\ Good(G)
  BY FaceIs DEF Grown
<1>2. Recast(t, w, c, vs, ts)
  <2>1. vs \in Seq(Nat) /\ c \in Nat
    BY <1>1, NodesAreNumbers
  <2> QED
    BY <1>1, <2>1, RecurredIs
<1>3. c \notin DOMAIN F.code \ {t.cur}
  OBVIOUS
<1> HIDE DEF w
<1>4. /\ Stacked(G, Append(s, w)) /\ w \in Visitors
      /\ Open(Append(s, w)) = (Open(Append(s, t)) \ {t.cur}) \cup {c}
  BY <1>1, <1>2, <1>3, MovedOn
<1>5. Sound(G, results)
  BY <1>1, SoundGrown
<1> QED
  BY <1>4, <1>5 DEF w

-----------------------------------------------------------------------------
(* The instructions that the translation builds.                           *)

LEMMA Built ==
  ASSUME NEW F, Good(F), NEW b \in DOMAIN F.code, NEW kind, NEW type, NEW refs,
         Buildable(F, b, Made(kind, type, refs))
  PROVE  Put1(F, BuildInst(F, b, kind, type, refs), b, kind, type)
<1> DEFINE I == Made(kind, type, refs)
           G == BuildInst(F, b, kind, type, refs)
<1>1. InstBuilt(F, G, b, I)
  BY BuiltInst
<1>2. I.kind = kind /\ I.type = type
  BY DEF Made
<1> HIDE DEF I, G
<1>3. Put1(F, G, b, I.kind, I.type)
  BY <1>1, InstGrown
<1> QED
  BY <1>2, <1>3 DEF G

LEMMA PlainBuilt ==
  ASSUME NEW F, Good(F), NEW b \in DOMAIN F.code, NEW kind, kind \notin Branches, NEW type,
         NEW refs \in Seq(DOMAIN F.inst)
  PROVE  Put1(F, BuildInst(F, b, kind, type, refs), b, kind, type)
BY PlainBuildable, Built

LEMMA BranchBuilt ==
  ASSUME NEW F, Good(F), NEW b \in DOMAIN F.code, NEW x \in DOMAIN F.code
  PROVE  Put1(F, BuildInst(F, b, "br", Void, <<x>>), b, "br", Void)
BY BranchBuildable, Built

LEMMA ChoiceBuilt ==
  ASSUME NEW F, Good(F), NEW b \in DOMAIN F.code, NEW kind \in {"cond", "switch"},
         NEW v \in DOMAIN F.inst, NEW x \in DOMAIN F.code, NEW y \in DOMAIN F.code
  PROVE  Put1(F, BuildInst(F, b, kind, Void, <<v, x, y>>), b, kind, Void)
BY ChoiceBuildable, Built

-----------------------------------------------------------------------------
(* The steps that end a body.                                              *)

Ended(F, G, b) ==
  /\ Grown(F, G) /\ Faultless(F, G)
  /\ \A open : Sealed(F, open) /\ b \in open => Sealed(G, open \ {b})

LEMMA EndedOver ==
  ASSUME NEW F, NEW s, NEW t, NEW results, Face(F, s, t, results), NEW G, Ended(F, G, t.cur)
  PROVE  Working(G, Left(s, t), results)
<1>1. Grown(F, G) /\ Faultless(F, G)
  BY DEF Ended
<1>2. Sealed(F, Open(Append(s, t))) /\ t.cur \in Open(Append(s, t))
  BY FaceIs
<1>3. Sealed(G, Open(Append(s, t)) \ {t.cur})
  BY <1>2 DEF Ended
<1> QED
  BY <1>1, <1>3, Over

LEMMA PutEnds ==
  ASSUME NEW F, NEW G, NEW b, NEW kind \in Terminators, NEW type, Put1(F, G, b, kind, type)
  PROVE  Ended(F, G, b)
BY DEF Put1, Ended, Faultless

LEMMA RestedEnds ==
  ASSUME NEW F, Good(F), NEW G, Resting(F, G), Faultless(F, G), NEW H, NEW b, Ended(G, H, b)
  PROVE  Ended(F, H, b)
<1>1. Grown(F, G) /\ Grown(G, H) /\ Faultless(G, H) /\ \A open : Sealed(F, open) => Sealed(G, open)
  BY DEF Resting, Ended
<1>2. Grown(F, H)
  BY <1>1, GrownTwice
<1>3. Faultless(F, H)
  BY <1>1 DEF Faultless
<1> QED
  BY <1>1, <1>2, <1>3 DEF Ended

LEMMA EndsRested ==
  ASSUME NEW F, Good(F), NEW G, NEW b, Ended(F, G, b), NEW H, Resting(G, H), Faultless(G, H)
  PROVE  Ended(F, H, b)
<1>1. Grown(F, G) /\ Grown(G, H) /\ Faultless(F, G) /\ \A open : Sealed(G, open) => Sealed(H, open)
  BY DEF Resting, Ended
<1>2. Grown(F, H)
  BY <1>1, GrownTwice
<1>3. Faultless(F, H)
  BY <1>1 DEF Faultless
<1> QED
  BY <1>1, <1>2, <1>3 DEF Ended

(* The values are handed over to a block that expects them.                *)
Expects(F, b, types) == b \in DOMAIN F.code /\ types \in Seq(Types) /\ (LoopsMerge => Heads(F, b, types))

LEMMA MergeRests ==
  ASSUME NEW F, Good(F), NEW target, NEW types, Expects(F, target, types), NEW from \in DOMAIN F.code,
         NEW values \in Seq(DOMAIN F.inst), Len(values) = Len(types)
  PROVE  LET G == addMergeCandidates(F, target, from, values) IN
         Resting(F, G) /\ Faultless(F, G) /\ Good(G)
<1> DEFINE G == addMergeCandidates(F, target, from, values)
<1>1. Handed(F, G, target, values)
  BY MergeHanded DEF Expects
<1> HIDE DEF G
<1>2. Retuned(F, G)
  BY <1>1 DEF Handed
<1>3. Resting(F, G)
  BY <1>2, RetunedGrown
<1>4. Faultless(F, G)
  BY <1>1 DEF Handed, Expects, Faultless
<1> QED
  BY <1>2, <1>3, <1>4 DEF Retuned, G

LEMMA ExpectsGrown ==
  ASSUME NEW F, Good(F), NEW G, Grown(F, G), NEW b, NEW types, Expects(F, b, types)
  PROVE  Expects(G, b, types)
<1>1. b \in DOMAIN G.code /\ types \in Seq(Types) /\ Len(types) \in Nat
  BY LenProperties DEF Expects, Grown
<1>2. LoopsMerge => Heads(G, b, types)
  BY <1>1, HeadsGrown DEF Expects
<1> QED
  BY <1>1, <1>2 DEF Expects

LEMMA LabelExpects ==
  ASSUME NEW F, NEW s, NEW t, NEW results, Face(F, s, t, results)
  PROVE  /\ \A k \in DOMAIN Append(s, t) :
              Expects(F, Append(s, t)[k].label, Append(s, t)[k].labelTypes)
         /\ Expects(F, t.to, t.results) /\ Expects(F, Exit, results)
<1> DEFINE a == Append(s, t)
<1>1. Stacked(F, a) /\ a \in Seq(Visitors)
  BY FaceIs DEF Stacked
<1>2. ASSUME NEW v \in Visitors, Fit(F, v)
      PROVE  Expects(F, v.label, v.labelTypes) /\ Expects(F, v.to, v.results)
  <2>1. v.labelTypes \in Seq(Types) /\ v.results \in Seq(Types)
    BY VisitorIs
  <2> QED
    BY <1>2, <2>1 DEF Fit, Merging, Expects
<1> HIDE DEF a
<1>3. ASSUME NEW k \in DOMAIN a  PROVE Expects(F, a[k].label, a[k].labelTypes)
  <2>1. a[k] \in Visitors
    BY <1>1, LenProperties, ElementOfSeq
  <2>2. Fit(F, a[k])
    BY <1>1 DEF Stacked, Ready
  <2> QED
    BY <1>2, <2>1, <2>2
<1>4. Expects(F, t.to, t.results)
  BY <1>2, FaceIs
<1>5. Expects(F, Exit, results)
  <2>1. Sound(F, results) /\ results \in Seq(Types)
    BY FaceIs
  <2> QED
    BY <2>1 DEF Sound, Expects
<1> QED
  BY <1>3, <1>4, <1>5 DEF a

(* What the visitor has enough of.                                         *)
Enough(t, n) == n \in Nat /\ n <= Len(t.types) /\ n <= Len(t.values)

LEMMA BrStep ==
  ASSUME NEW F, NEW s, NEW t, NEW results, Face(F, s, t, results),
         NEW x, NEW types, Expects(F, x, types), Enough(t, Len(types))
  PROVE  Working(BuildInst(addMergeCandidates(F, x, t.cur, peek(t.values, Len(types))),
                           t.cur, "br", Void, <<x>>), Left(s, t), results)
<1> DEFINE vs == peek(t.values, Len(types))
           M == addMergeCandidates(F, x, t.cur, vs)
           G == BuildInst(M, t.cur, "br", Void, <<x>>)
<1>1. Good(F) /\ t.cur \in DOMAIN F.code /\ t.values \in Seq(DOMAIN F.inst)
  BY FaceIs
<1>2. vs \in Seq(DOMAIN F.inst) /\ Len(vs) = Len(types)
  BY <1>1, Peeked DEF Enough
<1> HIDE DEF vs
<1>3. Resting(F, M) /\ Faultless(F, M) /\ Good(M)
  BY <1>1, <1>2, MergeRests
<1> HIDE DEF M
<1>4. x \in DOMAIN M.code /\ t.cur \in DOMAIN M.code
  BY <1>1, <1>3 DEF Resting, Expects
<1>5. Put1(M, G, t.cur, "br", Void)
  BY <1>3, <1>4, BranchBuilt
<1> HIDE DEF G
<1>6. Ended(M, G, t.cur)
  <2>1. "br" \in Terminators
    BY DEF Terminators, Branches
  <2> QED
    BY <1>5, <2>1, PutEnds
<1>7. Ended(F, G, t.cur)
  BY <1>1, <1>3, <1>6, RestedEnds
<1> QED
  BY <1>7, EndedOver DEF G, M, vs

LEMMA TableStep ==
  ASSUME NEW F, NEW s, NEW t, NEW results, Face(F, s, t, results),
         NEW x, NEW y, NEW types, Expects(F, x, types), Expects(F, y, types), Enough(t, Len(types) + 1)
  PROVE  LET vs == peek(pop(t.values, 1), Len(types)) IN
         Working(BuildInst(addMergeCandidates(addMergeCandidates(F, x, t.cur, vs), y, t.cur, vs),
                           t.cur, "switch", Void, <<Last(t.values), x, y>>), Left(s, t), results)
<1> DEFINE vs == peek(pop(t.values, 1), Len(types))
           M == addMergeCandidates(F, x, t.cur, vs)
           N == addMergeCandidates(M, y, t.cur, vs)
           v == Last(t.values)
           G == BuildInst(N, t.cur, "switch", Void, <<v, x, y>>)
<1>1. Good(F) /\ t.cur \in DOMAIN F.code /\ t.values \in Seq(DOMAIN F.inst)
  BY FaceIs
<1>2. vs \in Seq(DOMAIN F.inst) /\ Len(vs) = Len(types) /\ v \in DOMAIN F.inst
  <2> DEFINE n == Len(types)
             u == t.values
             p == pop(u, 1)
  <2>1. n \in Nat /\ n + 1 <= Len(u) /\ Len(u) \in Nat /\ u # <<>>
    <3>1. types \in Seq(Types)
      BY DEF Expects
    <3>2. n \in Nat /\ n + 1 <= Len(u) /\ Len(u) \in Nat
      BY <1>1, <3>1, LenProperties DEF Enough
    <3>3. Len(u) # 0
      BY <3>2
    <3> QED
      BY <1>1, <3>2, <3>3, EmptySeq
  <2>2. u \in Seq(DOMAIN F.inst)
    BY <1>1
  <2> HIDE DEF n, u
  <2>3. 1 \in Nat /\ 1 <= Len(u)
    BY <2>1
  <2>4. p \in Seq(DOMAIN F.inst) /\ Len(p) = Len(u) - 1
    BY <2>2, <2>3, Peeked
  <2> HIDE DEF p
  <2>5. n <= Len(p)
    BY <2>1, <2>4
  <2>6. peek(p, n) \in Seq(DOMAIN F.inst) /\ Len(peek(p, n)) = n
    BY <2>1, <2>4, <2>5, Peeked
  <2>7. Last(u) \in DOMAIN F.inst
    BY <2>1, <2>2, Topped
  <2> QED
    BY <2>6, <2>7 DEF n, u, p
<1> HIDE DEF vs, v
<1>3. Resting(F, M) /\ Faultless(F, M) /\ Good(M)
  BY <1>1, <1>2, MergeRests
<1> HIDE DEF M
<1>4. /\ Expects(M, y, types) /\ t.cur \in DOMAIN M.code /\ vs \in Seq(DOMAIN M.inst)
      /\ x \in DOMAIN M.code /\ v \in DOMAIN M.inst
  <2>1. Grown(F, M) /\ M.code = F.code /\ DOMAIN M.inst = DOMAIN F.inst
    BY <1>3 DEF Resting
  <2>2. Expects(M, y, types)
    BY <1>1, <2>1, ExpectsGrown
  <2> QED
    BY <1>1, <1>2, <2>1, <2>2 DEF Expects
<1>5. Resting(M, N) /\ Faultless(M, N) /\ Good(N)
  BY <1>2, <1>3, <1>4, MergeRests
<1> HIDE DEF N
<1>6. /\ y \in DOMAIN N.code /\ t.cur \in DOMAIN N.code /\ x \in DOMAIN N.code /\ v \in DOMAIN N.inst
  BY <1>4, <1>5 DEF Resting, Expects
<1>7. Put1(N, G, t.cur, "switch", Void)
  BY <1>5, <1>6, ChoiceBuilt
<1> HIDE DEF G
<1>8. Ended(N, G, t.cur)
  <2>1. "switch" \in Terminators
    BY DEF Terminators, Branches
  <2> QED
    BY <1>7, <2>1, PutEnds
<1>9. Ended(M, G, t.cur)
  BY <1>3, <1>5, <1>8, RestedEnds
<1>10. Ended(F, G, t.cur)
  BY <1>1, <1>3, <1>9, RestedEnds
<1> QED
  BY <1>10, EndedOver DEF G, N, M, vs, v

(* The branch comes before the merge: visitor(Return) and the end of       *)
(* translate.                                                              *)
LEMMA HandOverStep ==
  ASSUME NEW F, NEW s, NEW t, NEW results, Face(F, s, t, results),
         NEW x, NEW types, Expects(F, x, types), Len(types) \in Nat, Len(types) <= Len(t.values)
  PROVE  Working(addMergeCandidates(BuildInst(F, t.cur, "br", Void, <<x>>), x, t.cur,
                                    peek(t.values, Len(types))), Left(s, t), results)
<1> DEFINE vs == peek(t.values, Len(types))
           M == BuildInst(F, t.cur, "br", Void, <<x>>)
           G == addMergeCandidates(M, x, t.cur, vs)
<1>1. Good(F) /\ t.cur \in DOMAIN F.code /\ t.values \in Seq(DOMAIN F.inst)
  BY FaceIs
<1>2. vs \in Seq(DOMAIN F.inst) /\ Len(vs) = Len(types)
  BY <1>1, Peeked
<1> HIDE DEF vs
<1>3. Put1(F, M, t.cur, "br", Void)
  BY <1>1, BranchBuilt DEF Expects
<1> HIDE DEF M
<1>4. Ended(F, M, t.cur) /\ Grown(F, M) /\ Good(M)
  <2>1. "br" \in Terminators
    BY DEF Terminators, Branches
  <2> QED
    BY <1>3, <2>1, PutEnds DEF Put1, Grown
<1>5. Expects(M, x, types) /\ t.cur \in DOMAIN M.code /\ vs \in Seq(DOMAIN M.inst)
  <2>1. DOMAIN F.inst \subseteq DOMAIN M.inst /\ t.cur \in DOMAIN M.code
    BY <1>1, <1>4 DEF Grown
  <2> QED
    BY <1>1, <1>2, <1>4, <2>1, ExpectsGrown, SeqMonotonic
<1>6. Resting(M, G) /\ Faultless(M, G)
  BY <1>2, <1>4, <1>5, MergeRests
<1> HIDE DEF G
<1>7. Ended(F, G, t.cur)
  BY <1>1, <1>4, <1>6, EndsRested
<1> QED
  BY <1>7, EndedOver DEF G, M, vs

LEMMA UnreachableStep ==
  ASSUME NEW F, NEW s, NEW t, NEW results, Face(F, s, t, results)
  PROVE  Working(BuildInst(F, t.cur, "unreachable", Void, <<>>), Left(s, t), results)
<1> DEFINE G == BuildInst(F, t.cur, "unreachable", Void, <<>>)
<1>1. Good(F) /\ t.cur \in DOMAIN F.code
  BY FaceIs
<1>2. "unreachable" \notin Branches /\ "unreachable" \in Terminators
  BY DEF Branches, Terminators
<1>3. Put1(F, G, t.cur, "unreachable", Void)
  <2> DEFINE refs == <<>>
  <2>1. refs \in Seq(DOMAIN F.inst)
    OBVIOUS
  <2> HIDE DEF refs
  <2>2. Put1(F, BuildInst(F, t.cur, "unreachable", Void, refs), t.cur, "unreachable", Void)
    BY <1>1, <1>2, <2>1, PlainBuilt
  <2> QED
    BY <2>2 DEF refs
<1> HIDE DEF G
<1>4. Ended(F, G, t.cur)
  BY <1>2, <1>3, PutEnds
<1> QED
  BY <1>4, EndedOver DEF G

-----------------------------------------------------------------------------
(* The steps that stay in a block, and br_if.                              *)

Stays(F, G, O, type) ==
  /\ Grown(F, G) /\ Faultless(F, G) /\ Sealed(G, O) /\ Good(G)
  /\ F.next \in DOMAIN G.inst /\ G.inst[F.next].type = type
  /\ DOMAIN F.inst \subseteq DOMAIN G.inst

LEMMA StayStep ==
  ASSUME NEW F, NEW s, NEW t, NEW results, Face(F, s, t, results),
         NEW kind, kind \notin Terminators, NEW type, NEW refs \in Seq(DOMAIN F.inst)
  PROVE  Stays(F, BuildInst(F, t.cur, kind, type, refs), Open(Append(s, t)), type)
<1> DEFINE G == BuildInst(F, t.cur, kind, type, refs)
<1>1. Good(F) /\ t.cur \in DOMAIN F.code /\ Sealed(F, Open(Append(s, t))) /\ t.cur \in Open(Append(s, t))
  BY FaceIs
<1>2. kind \notin Branches
  BY DEF Terminators
<1>3. Put1(F, G, t.cur, kind, type)
  BY <1>1, <1>2, PlainBuilt
<1> HIDE DEF G
<1>4. /\ Grown(F, G) /\ G.fault = F.fault /\ F.next \in DOMAIN G.inst /\ G.inst[F.next].type = type
      /\ Sealed(G, Open(Append(s, t)))
  BY <1>1, <1>3 DEF Put1
<1>5. Good(G) /\ DOMAIN F.inst \subseteq DOMAIN G.inst
  BY <1>4 DEF Grown
<1> QED
  BY <1>4, <1>5 DEF G, Faultless, Stays

LEMMA ConstStep ==
  ASSUME NEW F, NEW s, NEW t, NEW results, Face(F, s, t, results), NEW type \in Types
  PROVE  Working(BuildInst(F, t.cur, "const", type, <<>>),
                 Append(s, Revalued(t, Append(t.values, F.next), Append(t.types, type))), results)
<1> DEFINE refs == <<>>
           G == BuildInst(F, t.cur, "const", type, refs)
           vs == Append(t.values, F.next)
           ts == Append(t.types, type)
<1>1. /\ t.values \in Seq(DOMAIN F.inst) /\ t.types \in Seq(Types) /\ Good(F)
      /\ LoopsMerge => Typed(F, t.values, t.types)
  BY FaceIs
<1>2. "const" \notin Terminators /\ refs \in Seq(DOMAIN F.inst)
  BY DEF Terminators, Branches
<1> HIDE DEF refs
<1>a. Stays(F, G, Open(Append(s, t)), type)
  BY <1>2, StayStep
<1> HIDE DEF G
<1>3. /\ Grown(F, G) /\ Faultless(F, G) /\ Sealed(G, Open(Append(s, t))) /\ Good(G)
      /\ F.next \in DOMAIN G.inst /\ G.inst[F.next].type = type
      /\ t.values \in Seq(DOMAIN G.inst)
  BY <1>1, <1>a, SeqMonotonic DEF Stays
<1>4. vs \in Seq(DOMAIN G.inst) /\ ts \in Seq(Types)
  BY <1>1, <1>3, AppendProperties
<1>5. LoopsMerge => Typed(G, vs, ts)
  <2>1. LoopsMerge => Typed(G, t.values, t.types)
    BY <1>1, <1>3, TypedGrown
  <2>2. t.values \in Seq(DOMAIN G.inst)
    BY <1>1, <1>3
  <2> QED
    BY <1>1, <1>3, <2>1, <2>2, TypedPushed
<1> HIDE DEF vs, ts
<1>6. Working(G, Append(s, Revalued(t, vs, ts)), results)
  BY <1>3, <1>4, <1>5, Settled
<1> QED
  BY <1>6 DEF G, vs, ts, refs

LEMMA UnaryStep ==
  ASSUME NEW F, NEW s, NEW t, NEW results, Face(F, s, t, results), NEW type \in Types,
         Enough(t, 1), peek(t.types, 1) = <<type>>
  PROVE  Working(BuildInst(F, t.cur, "unary", type, peek(t.values, 1)),
                 Append(s, Revalued(t, Append(pop(t.values, 1), F.next), t.types)), results)
<1> DEFINE refs == peek(t.values, 1)
           G == BuildInst(F, t.cur, "unary", type, refs)
           u == t.values
           ts == t.types
           p == pop(u, 1)
           q == pop(ts, 1)
           vs == Append(p, F.next)
<1>1. /\ u \in Seq(DOMAIN F.inst) /\ ts \in Seq(Types) /\ Good(F)
      /\ LoopsMerge => Typed(F, u, ts)
  BY FaceIs
<1>2. 1 \in Nat /\ 1 <= Len(u) /\ 1 <= Len(ts) /\ Len(ts) \in Nat
  BY <1>1, LenProperties DEF Enough
<1>3. refs \in Seq(DOMAIN F.inst) /\ p \in Seq(DOMAIN F.inst)
  <2> HIDE DEF u, ts
  <2> QED
    BY <1>1, <1>2, Peeked DEF u
<1>4. q \in Seq(Types) /\ ts = Append(q, type)
  <2> DEFINE n == Len(ts)
             a == Append(q, type)
             e == peek(ts, 1)
  <2>1. /\ q \in Seq(Types) /\ Len(q) = n - 1 /\ (\A k \in 1 .. n - 1 : q[k] = ts[k])
        /\ \A k \in 1 .. 1 : e[k] = ts[n - 1 + k]
    <3> HIDE DEF ts
    <3> QED
      BY <1>1, <1>2, Peeked
  <2>2. e = <<type>> /\ 1 \in 1 .. 1
    OBVIOUS
  <2>3. e[1] = ts[n - 1 + 1] /\ e[1] = type
    BY <2>1, <2>2
  <2>4. a \in Seq(Types) /\ Len(a) = Len(q) + 1 /\ a[Len(q) + 1] = type /\ \A k \in 1 .. Len(q) : a[k] = q[k]
    BY <2>1, AppendProperties
  <2> HIDE DEF q, a, e
  <2>5. Len(a) = n /\ ts \in Seq(Types) /\ n \in Nat
    BY <1>1, <1>2, <2>1, <2>4
  <2>6. ASSUME NEW k \in 1 .. n  PROVE a[k] = ts[k]
    <3>1. CASE k = n
      BY <1>2, <2>1, <2>3, <2>4, <3>1
    <3>2. CASE k # n
      <4>1. k \in 1 .. n - 1
        BY <1>2, <3>2
      <4> QED
        BY <2>1, <2>4, <4>1
    <3> QED
      BY <3>1, <3>2
  <2>7. a = ts
    BY <2>4, <2>5, <2>6, SeqEqual
  <2> QED
    BY <2>1, <2>7 DEF a
<1>5. "unary" \notin Terminators
  BY DEF Terminators, Branches
<1> HIDE DEF refs
<1>a. Stays(F, G, Open(Append(s, t)), type)
  BY <1>3, <1>5, StayStep
<1> HIDE DEF G
<1>6. /\ Grown(F, G) /\ Faultless(F, G) /\ Sealed(G, Open(Append(s, t))) /\ Good(G)
      /\ F.next \in DOMAIN G.inst /\ G.inst[F.next].type = type
      /\ DOMAIN F.inst \subseteq DOMAIN G.inst
  BY <1>a DEF Stays
<1>7. p \in Seq(DOMAIN G.inst) /\ vs \in Seq(DOMAIN G.inst)
  <2> HIDE DEF p
  <2>1. p \in Seq(DOMAIN G.inst)
    BY <1>3, <1>6, SeqMonotonic
  <2> QED
    BY <1>6, <2>1, AppendProperties
<1>8. LoopsMerge => Typed(G, vs, ts)
  <2>1. ASSUME LoopsMerge  PROVE Typed(G, p, q)
    <3>1. Typed(F, p, q)
      <4> HIDE DEF u, ts
      <4> QED
        BY <1>1, <1>2, <2>1, TypedCut
    <3> HIDE DEF p, q
    <3> QED
      BY <1>3, <1>6, <3>1, TypedGrown
  <2> HIDE DEF p, q
  <2>2. LoopsMerge => Typed(G, Append(p, F.next), Append(q, type))
    BY <1>4, <1>6, <1>7, <2>1, TypedPushed
  <2> QED
    BY <1>4, <2>2
<1>9. Working(G, Append(s, Revalued(t, vs, ts)), results)
  <2> HIDE DEF vs, ts
  <2> QED
    BY <1>1, <1>6, <1>7, <1>8, Settled
<1> QED
  BY <1>9 DEF G, refs

LEMMA PopStep ==
  ASSUME NEW F, NEW s, NEW t, NEW results, Face(F, s, t, results), Enough(t, 1),
         NEW G, Grown(F, G), Faultless(F, G), Sealed(G, Open(Append(s, t)))
  PROVE  Working(G, Append(s, Revalued(t, pop(t.values, 1), pop(t.types, 1))), results)
<1> DEFINE u == t.values
           ts == t.types
           p == pop(u, 1)
           q == pop(ts, 1)
<1>1. /\ u \in Seq(DOMAIN F.inst) /\ ts \in Seq(Types) /\ Good(F)
      /\ LoopsMerge => Typed(F, u, ts)
  BY FaceIs
<1>2. 1 \in Nat /\ 1 <= Len(u) /\ 1 <= Len(ts)
  BY DEF Enough
<1> HIDE DEF u, ts
<1>3. p \in Seq(DOMAIN F.inst) /\ q \in Seq(Types) /\ (LoopsMerge => Typed(F, p, q))
  BY <1>1, <1>2, Peeked, TypedCut
<1> HIDE DEF p, q
<1>4. p \in Seq(DOMAIN G.inst)
  <2>1. DOMAIN F.inst \subseteq DOMAIN G.inst
    BY DEF Grown
  <2> QED
    BY <1>3, <2>1, SeqMonotonic
<1>5. LoopsMerge => Typed(G, p, q)
  BY <1>3, TypedGrown
<1>6. Working(G, Append(s, Revalued(t, p, q)), results)
  BY <1>3, <1>4, <1>5, Settled
<1> QED
  BY <1>6 DEF p, q, u, ts

LEMMA CallStep ==
  ASSUME NEW F, NEW s, NEW t, NEW results, Face(F, s, t, results), Enough(t, 1)
  PROVE  Working(BuildInst(F, t.cur, "call", Void, peek(t.values, 1)),
                 Append(s, Revalued(t, pop(t.values, 1), pop(t.types, 1))), results)
<1> DEFINE u == t.values
           refs == peek(u, 1)
           G == BuildInst(F, t.cur, "call", Void, refs)
<1>1. u \in Seq(DOMAIN F.inst)
  BY FaceIs
<1>2. 1 \in Nat /\ 1 <= Len(u) /\ "call" \notin Terminators
  BY DEF Enough, Terminators, Branches
<1>3. refs \in Seq(DOMAIN F.inst)
  <2> HIDE DEF u
  <2> QED
    BY <1>1, <1>2, Peeked
<1> HIDE DEF refs
<1>4. Grown(F, G) /\ Faultless(F, G) /\ Sealed(G, Open(Append(s, t)))
  BY <1>2, <1>3, StayStep DEF Stays
<1> HIDE DEF G
<1>5. Working(G, Append(s, Revalued(t, pop(t.values, 1), pop(t.types, 1))), results)
  BY <1>4, PopStep
<1> QED
  BY <1>5 DEF G, refs

LEMMA DropStep ==
  ASSUME NEW F, NEW s, NEW t, NEW results, Face(F, s, t, results), Enough(t, 1)
  PROVE  Working(F, Append(s, Revalued(t, pop(t.values, 1), pop(t.types, 1))), results)
<1>1. Grown(F, F) /\ Faultless(F, F) /\ Sealed(F, Open(Append(s, t)))
  BY FaceIs, GrownSelf DEF Faultless
<1> QED
  BY <1>1, PopStep

LEMMA BrIfStep ==
  ASSUME NEW F, NEW s, NEW t, NEW results, Face(F, s, t, results),
         NEW x, NEW types, Expects(F, x, types), Enough(t, Len(types) + 1)
  PROVE  LET vs == pop(t.values, 1)
             M  == addMergeCandidates(BuildBasicBlock(F, t.before), x, t.cur, peek(vs, Len(types)))
         IN  Working(BuildInst(M, t.cur, "cond", Void, <<Last(t.values), x, F.next>>),
                     Append(s, Recurred(t, F.next, vs, pop(t.types, 1))), results)
<1> DEFINE vs == pop(t.values, 1)
           ts == pop(t.types, 1)
           us == peek(vs, Len(types))
           v == Last(t.values)
           n == F.next
           O == Open(Append(s, t))
           E == BuildBasicBlock(F, t.before)
           M == addMergeCandidates(E, x, t.cur, us)
           G == BuildInst(M, t.cur, "cond", Void, <<v, x, n>>)
           w == Recurred(t, n, vs, ts)
<1>1. /\ Good(F) /\ t.cur \in DOMAIN F.code /\ t.values \in Seq(DOMAIN F.inst) /\ t.types \in Seq(Types)
      /\ t.before \in DOMAIN F.code /\ Sealed(F, O) /\ t.cur \in O
      /\ LoopsMerge => Typed(F, t.values, t.types)
  BY FaceIs
<1>2. /\ vs \in Seq(DOMAIN F.inst) /\ ts \in Seq(Types) /\ (LoopsMerge => Typed(F, vs, ts))
      /\ us \in Seq(DOMAIN F.inst) /\ Len(us) = Len(types) /\ v \in DOMAIN F.inst
  <2> DEFINE m == Len(types)
             u == t.values
             b == t.types
  <2>1. m \in Nat /\ m + 1 <= Len(u) /\ m + 1 <= Len(b) /\ Len(u) \in Nat /\ Len(b) \in Nat /\ u # <<>>
    <3>1. types \in Seq(Types)
      BY DEF Expects
    <3>2. m \in Nat /\ m + 1 <= Len(u) /\ m + 1 <= Len(b) /\ Len(u) \in Nat /\ Len(b) \in Nat
      BY <1>1, <3>1, LenProperties DEF Enough
    <3>3. Len(u) # 0
      BY <3>2
    <3> QED
      BY <1>1, <3>2, <3>3, EmptySeq
  <2>2. u \in Seq(DOMAIN F.inst) /\ b \in Seq(Types) /\ (LoopsMerge => Typed(F, u, b))
    BY <1>1
  <2> HIDE DEF m, u, b
  <2>3. 1 \in Nat /\ 1 <= Len(u) /\ 1 <= Len(b)
    BY <2>1
  <2>4. /\ pop(u, 1) \in Seq(DOMAIN F.inst) /\ Len(pop(u, 1)) = Len(u) - 1 /\ pop(b, 1) \in Seq(Types)
        /\ LoopsMerge => Typed(F, pop(u, 1), pop(b, 1))
    BY <2>2, <2>3, Peeked, TypedCut
  <2>5. m <= Len(pop(u, 1))
    BY <2>1, <2>4
  <2>6. peek(pop(u, 1), m) \in Seq(DOMAIN F.inst) /\ Len(peek(pop(u, 1), m)) = m
    BY <2>1, <2>4, <2>5, Peeked
  <2>7. Last(u) \in DOMAIN F.inst
    BY <2>1, <2>2, Topped
  <2> QED
    BY <2>4, <2>6, <2>7 DEF m, u, b
<1>3. Opened(F, E, n)
  BY <1>1, BuiltBlock, BlockGrown
<1> HIDE DEF vs, ts, us, v, n, E, O
<1>4. /\ Grown(F, E) /\ Good(E) /\ E.fault = F.fault /\ n \in DOMAIN E.code /\ n \notin DOMAIN F.code
      /\ E.inst = F.inst /\ t.cur \in DOMAIN E.code /\ Sealed(E, O \cup {n})
  BY <1>1, <1>3 DEF Opened, Grown
<1>5. Resting(E, M) /\ Faultless(E, M) /\ Good(M)
  <2>1. Expects(E, x, types)
    BY <1>1, <1>4, ExpectsGrown
  <2>2. us \in Seq(DOMAIN E.inst)
    BY <1>2, <1>4
  <2> QED
    BY <1>2, <1>4, <2>1, <2>2, MergeRests
<1> HIDE DEF M
<1>6. /\ Grown(E, M) /\ t.cur \in DOMAIN M.code /\ n \in DOMAIN M.code /\ x \in DOMAIN M.code
      /\ v \in DOMAIN M.inst /\ Sealed(M, O \cup {n})
  <2>1. M.code = E.code /\ DOMAIN M.inst = DOMAIN E.inst /\ Grown(E, M) /\ Sealed(M, O \cup {n})
    BY <1>4, <1>5 DEF Resting
  <2>2. x \in DOMAIN E.code
    BY <1>4 DEF Expects, Grown
  <2> QED
    BY <1>2, <1>4, <2>1, <2>2
<1>7. Put1(M, G, t.cur, "cond", Void)
  BY <1>5, <1>6, ChoiceBuilt
<1> HIDE DEF G
<1>8. /\ Grown(M, G) /\ G.fault = M.fault /\ n \in DOMAIN G.code /\ Sealed(G, (O \cup {n}) \ {t.cur})
  <2>1. "cond" \in Terminators /\ t.cur \in O \cup {n}
    BY <1>1 DEF Terminators, Branches
  <2>2. Ended(M, G, t.cur)
    BY <1>7, <2>1, PutEnds
  <2>3. Sealed(G, (O \cup {n}) \ {t.cur})
    BY <1>6, <2>1, <2>2 DEF Ended
  <2> QED
    BY <1>6, <1>7, <2>3 DEF Put1
<1>9. Grown(F, G) /\ Faultless(F, G)
  <2>1. Grown(F, M)
    BY <1>1, <1>4, <1>6, GrownTwice
  <2> QED
    BY <1>1, <1>4, <1>5, <1>8, <2>1, GrownTwice DEF Faultless
<1>10. vs \in Seq(DOMAIN G.inst) /\ (LoopsMerge => Typed(G, vs, ts))
  <2>1. DOMAIN F.inst \subseteq DOMAIN G.inst
    BY <1>9 DEF Grown
  <2> QED
    BY <1>2, <1>9, <2>1, SeqMonotonic, TypedGrown
<1>11. Sound(G, results) /\ Stacked(G, Append(s, w)) /\ Open(Append(s, w)) = (O \ {t.cur}) \cup {n}
  BY <1>2, <1>4, <1>8, <1>9, <1>10, WentOn DEF O
<1>12. (O \ {t.cur}) \cup {n} = (O \cup {n}) \ {t.cur}
  BY <1>1, <1>4
<1>13. Working(G, Append(s, w), results)
  BY <1>8, <1>11, <1>12 DEF Working
<1> QED
  BY <1>13 DEF G, M, E, w, vs, ts, us, v, n

-----------------------------------------------------------------------------
(* The steps that put a visitor for a body on the stack.                   *)

(* The block n came with the values that its phis stand for.               *)
Lands(F, G, n, values, types) ==
  /\ Grown(F, G) /\ Faultless(F, G) /\ n \in DOMAIN G.code /\ n \notin DOMAIN F.code
  /\ values \in Seq(DOMAIN G.inst) /\ types \in Seq(Types) /\ (LoopsMerge => Typed(G, values, types))

Relanded(t, n, k, values, types) == Recurred(t, n, pop(t.values, k) \o values, pop(t.types, k) \o types)

LEMMA LandingStep ==
  ASSUME NEW F, NEW s, NEW t, NEW results, Face(F, s, t, results),
         NEW G, NEW n, NEW values, NEW types, Lands(F, G, n, values, types),
         NEW k, Enough(t, k)
  PROVE  LET w == Relanded(t, n, k, values, types) IN
         /\ Sound(G, results) /\ w \in Visitors /\ Stacked(G, Append(s, w))
         /\ Open(Append(s, w)) = (Open(Append(s, t)) \ {t.cur}) \cup {n}
<1> DEFINE u == t.values
           b == t.types
           p == pop(u, k)
           q == pop(b, k)
           vs == p \o values
           ts == q \o types
<1>1. /\ u \in Seq(DOMAIN F.inst) /\ b \in Seq(Types) /\ Good(F) /\ (LoopsMerge => Typed(F, u, b))
      /\ k \in Nat /\ k <= Len(u) /\ k <= Len(b)
  BY FaceIs DEF Enough
<1>2. /\ Grown(F, G) /\ Faultless(F, G) /\ n \in DOMAIN G.code /\ n \notin DOMAIN F.code
      /\ values \in Seq(DOMAIN G.inst) /\ types \in Seq(Types) /\ (LoopsMerge => Typed(G, values, types))
  BY DEF Lands
<1> HIDE DEF u, b
<1>3. p \in Seq(DOMAIN F.inst) /\ q \in Seq(Types) /\ (LoopsMerge => Typed(F, p, q))
  BY <1>1, Peeked, TypedCut
<1> HIDE DEF p, q
<1>4. p \in Seq(DOMAIN G.inst) /\ (LoopsMerge => Typed(G, p, q))
  <2>1. DOMAIN F.inst \subseteq DOMAIN G.inst
    BY <1>2 DEF Grown
  <2> QED
    BY <1>2, <1>3, <2>1, SeqMonotonic, TypedGrown
<1>5. vs \in Seq(DOMAIN G.inst) /\ ts \in Seq(Types)
  BY <1>2, <1>3, <1>4, ConcatProperties
<1>6. LoopsMerge => Typed(G, vs, ts)
  BY <1>2, <1>3, <1>4, TypedJoined
<1> HIDE DEF vs, ts
<1> DEFINE w == Recurred(t, n, vs, ts)
<1>7. /\ Sound(G, results) /\ w \in Visitors /\ Stacked(G, Append(s, w))
      /\ Open(Append(s, w)) = (Open(Append(s, t)) \ {t.cur}) \cup {n}
  BY <1>2, <1>5, <1>6, WentOn
<1>8. w = Relanded(t, n, k, values, types)
  BY DEF Relanded, vs, ts, p, q, u, b
<1> HIDE DEF w
<1> QED
  BY <1>7, <1>8

(* The visitor of a body, on its own.                                      *)
Starts(F, w, c) ==
  /\ w \in Bodies /\ w \in Visitors /\ w.cur = c /\ Fit(F, w) /\ Ready(F, w) /\ Alone(w)
  /\ Curs(w) = {c} /\ w.alt = <<>>

LEMMA BodyStarts ==
  ASSUME NEW F, Good(F), NEW c \in DOMAIN F.code, NEW b \in DOMAIN F.code,
         NEW vs \in Seq(DOMAIN F.inst), NEW ts \in Seq(Types), LoopsMerge => Typed(F, vs, ts),
         NEW l, NEW m, Expects(F, l, m), NEW o, NEW r, Expects(F, o, r)
  PROVE  Starts(F, Body(c, b, vs, ts, l, m, o, r), c)
<1> DEFINE w == Body(c, b, vs, ts, l, m, o, r)
<1>1. /\ l \in DOMAIN F.code /\ o \in DOMAIN F.code /\ m \in Seq(Types) /\ r \in Seq(Types)
      /\ LoopsMerge => Heads(F, l, m) /\ Heads(F, o, r)
  BY DEF Expects
<1>2. c \in Nat /\ b \in Nat /\ l \in Nat /\ o \in Nat /\ vs \in Seq(Nat)
  BY <1>1, NodesAreNumbers
<1>3. Fresher(w, c, b, vs, ts, l, m, o, r)
  BY <1>1, <1>2, BodyIs
<1> HIDE DEF w
<1>4. /\ w \in Bodies /\ w.cur = c /\ w.before = b /\ w.values = vs /\ w.types = ts
      /\ w.label = l /\ w.labelTypes = m /\ w.to = o /\ w.results = r
  BY <1>3 DEF Fresher
<1>5. w \in Visitors /\ w.alt = <<>> /\ Curs(w) = {c} /\ Alone(w)
  BY <1>4, BodiesVisit
<1>6. Fit(F, w)
  <2>1. {w.cur, w.before, w.label, w.to} \subseteq DOMAIN F.code /\ w.values \in Seq(DOMAIN F.inst)
    BY <1>1, <1>4
  <2>2. LoopsMerge => Merging(F, w)
    BY <1>1, <1>4 DEF Merging
  <2> QED
    BY <2>1, <2>2 DEF Fit
<1>7. Ready(F, w)
  BY <1>5, <1>6 DEF Ready
<1> QED
  BY <1>4, <1>5, <1>6, <1>7 DEF Starts, w

(* A body with another that waits for it.                                  *)
WithAlt(x, y) == [x EXCEPT !.alt = <<y>>]

LEMMA BothStart ==
  ASSUME NEW F, NEW x, NEW y, NEW c, NEW d, Starts(F, x, c), Starts(F, y, d), c # d
  PROVE  LET w == WithAlt(x, y) IN
         w \in Visitors /\ Ready(F, w) /\ Alone(w) /\ Curs(w) = {c, d}
<1> DEFINE a == <<y>>
           w == WithAlt(x, y)
           e == Nine(x.cur, x.before, x.values, x.types, x.label, x.labelTypes, x.to, x.results, a)
<1>1. /\ x \in Visitors /\ y \in Bodies /\ x.cur = c /\ y.cur = d /\ Fit(F, x) /\ Fit(F, y)
  BY DEF Starts
<1>2. w = e
  <2>1. x = Nine(x.cur, x.before, x.values, x.types, x.label, x.labelTypes, x.to, x.results, x.alt)
    BY <1>1, VisitorIs
  <2> DEFINE f1 == x.cur
             f2 == x.before
             f3 == x.values
             f4 == x.types
             f5 == x.label
             f6 == x.labelTypes
             f7 == x.to
             f8 == x.results
             f9 == x.alt
  <2>2. x = Nine(f1, f2, f3, f4, f5, f6, f7, f8, f9)
    BY <2>1
  <2> HIDE DEF f1, f2, f3, f4, f5, f6, f7, f8, f9, a
  <2>3. [x EXCEPT !.alt = a] = Nine(f1, f2, f3, f4, f5, f6, f7, f8, a)
    BY <2>2 DEF Nine
  <2> QED
    BY <2>3 DEF f1, f2, f3, f4, f5, f6, f7, f8, a, WithAlt
<1>3. a \in Seq(Bodies) /\ Len(a) = 1 /\ DOMAIN a = {1} /\ a[1] = y
  <2>1. DOMAIN a = 1 .. 1 /\ 1 .. 1 = {1}
    OBVIOUS
  <2> QED
    BY <1>1, <2>1
<1> HIDE DEF a, w
<1>4. e \in Visitors
  <2>1. /\ x.cur \in Nat /\ x.before \in Nat /\ x.values \in Seq(Nat) /\ x.types \in Seq(Types)
        /\ x.label \in Nat /\ x.labelTypes \in Seq(Types) /\ x.to \in Nat /\ x.results \in Seq(Types)
    BY <1>1, VisitorIs
  <2> QED
    BY <1>3, <2>1, NineVisitor
<1>5. /\ e.cur = x.cur /\ e.before = x.before /\ e.values = x.values /\ e.types = x.types
      /\ e.label = x.label /\ e.labelTypes = x.labelTypes /\ e.to = x.to /\ e.results = x.results
      /\ e.alt = a
  BY DEF Nine
<1> HIDE DEF e
<1>6. Fit(F, e)
  BY <1>1, <1>5 DEF Fit, Merging
<1>7. Ready(F, e)
  BY <1>1, <1>3, <1>5, <1>6 DEF Ready
<1>8. Alone(e)
  <2>1. Len(e.alt) = 1 /\ DOMAIN e.alt = {1} /\ e.alt[1].cur # e.cur
    BY <1>1, <1>3, <1>5
  <2> QED
    BY <2>1 DEF Alone
<1>9. Curs(e) = {c, d}
  BY <1>1, <1>3, <1>5 DEF Curs
<1> QED
  BY <1>2, <1>4, <1>7, <1>8, <1>9 DEF w

(* Both visitors on the stack.                                             *)
LEMMA NestStep ==
  ASSUME NEW F, NEW s, NEW t, NEW results, Face(F, s, t, results),
         NEW G, NEW n, NEW values, NEW types, Lands(F, G, n, values, types),
         NEW k, Enough(t, k),
         NEW b \in Visitors, Ready(G, b), Alone(b), NEW new, Curs(b) = new,
         n \notin new, new \cap (DOMAIN F.code \ {t.cur}) = {},
         Sealed(G, (Open(Append(s, t)) \ {t.cur}) \cup {n} \cup new)
  PROVE  Working(G, s \o <<Relanded(t, n, k, values, types), b>>, results)
<1> DEFINE w == Relanded(t, n, k, values, types)
           O == Open(Append(s, t))
<1>1. /\ Sound(G, results) /\ w \in Visitors /\ Stacked(G, Append(s, w))
      /\ Open(Append(s, w)) = (O \ {t.cur}) \cup {n}
  BY LandingStep
<1>2. O \subseteq DOMAIN F.code /\ s \in Seq(Visitors)
  BY FaceIs, OpenThere
<1> HIDE DEF w, O
<1>3. Curs(b) \cap Open(Append(s, w)) = {}
  BY <1>1, <1>2
<1>4. Stacked(G, s \o <<w, b>>) /\ Open(s \o <<w, b>>) = Open(Append(s, w)) \cup Curs(b)
  BY <1>1, <1>2, <1>3, Nested
<1>5. Sealed(G, Open(s \o <<w, b>>))
  BY <1>1, <1>4 DEF O
<1> QED
  BY <1>1, <1>4, <1>5 DEF Working, w

(* The phis of a landing block, which was empty.                           *)
LandsOn(F, E, G, n, types) ==
  /\ Lands(F, G, n, Phis(G, n), types) /\ Expects(G, n, types)
  /\ Grown(E, G) /\ DOMAIN G.code = DOMAIN E.code
  /\ \A open : Sealed(E, open) /\ n \in open => Sealed(G, open)

LEMMA LandingLaid ==
  ASSUME NEW F, Good(F), NEW E, Grown(F, E), Faultless(F, E),
         NEW n \in DOMAIN E.code, n \notin DOMAIN F.code, E.code[n] = <<>>, NEW types \in Seq(Types)
  PROVE  LandsOn(F, E, BuildPhis(E, n, types), n, types)
<1> DEFINE G == BuildPhis(E, n, types)
           c == Len(types)
<1>1. Good(E) /\ c \in Nat
  BY LenProperties DEF Grown
<1>2. PhisBuilt(E, G, n, types, c)
  BY <1>1, BuiltPhis
<1> HIDE DEF G
<1>3. PhisPut(E, G, n, types, c)
  <2> HIDE DEF c
  <2> QED
    BY <1>1, <1>2, PhisGrown
<1>4. /\ Grown(E, G) /\ G.fault = E.fault /\ DOMAIN G.code = DOMAIN E.code
      /\ Phis(G, n) = G.code[n] /\ G.code[n] \in Seq(DOMAIN G.inst) /\ Len(G.code[n]) = c
      /\ \A k \in 1 .. c : /\ G.inst[G.code[n][k]].kind = "phi"
                           /\ G.inst[G.code[n][k]].type = types[k]
      /\ \A open : Sealed(E, open) /\ n \in open => Sealed(G, open)
  BY <1>3 DEF PhisPut
<1>5. Grown(F, G) /\ Faultless(F, G)
  BY <1>4, GrownTwice DEF Faultless
<1>6. Heads(G, n, types)
  BY <1>1, <1>4 DEF Heads
<1>7. Typed(G, Phis(G, n), types)
  BY <1>4 DEF Typed
<1>8. Lands(F, G, n, Phis(G, n), types)
  BY <1>4, <1>5, <1>7 DEF Lands
<1>9. Expects(G, n, types)
  BY <1>4, <1>6 DEF Expects
<1> QED
  BY <1>4, <1>8, <1>9 DEF LandsOn, G

(* What lies at the top of the values and the types.                       *)
LEMMA Arguments ==
  ASSUME NEW F, NEW vs \in Seq(DOMAIN F.inst), NEW ts \in Seq(Types), LoopsMerge => Typed(F, vs, ts),
         NEW p \in Seq(Types), Len(p) <= Len(vs), Len(p) <= Len(ts), peek(ts, Len(p)) = p
  PROVE  LET args == peek(vs, Len(p)) IN
         /\ args \in Seq(DOMAIN F.inst) /\ Len(args) = Len(p)
         /\ LoopsMerge => Typed(F, args, p)
<1> DEFINE n == Len(p)
<1>1. n \in Nat /\ n <= Len(vs) /\ n <= Len(ts) /\ peek(ts, n) = p
  BY LenProperties
<1> HIDE DEF n
<1>2. peek(vs, n) \in Seq(DOMAIN F.inst) /\ Len(peek(vs, n)) = n
  BY <1>1, Peeked
<1>3. LoopsMerge => Typed(F, peek(vs, n), peek(ts, n))
  BY <1>1, TypedCut
<1> QED
  BY <1>1, <1>2, <1>3 DEF n

(* What Takes says of the visitor t.                                       *)
Offers(t, ts) ==
  /\ Len(t.types) >= Len(ts) /\ peek(t.types, Len(ts)) = ts
  /\ Len(t.values) >= Len(ts)

LEMMA OffersEnough ==
  ASSUME NEW F, NEW s, NEW t, NEW results, Face(F, s, t, results), NEW ts \in Seq(Types), Offers(t, ts)
  PROVE  Enough(t, Len(ts)) /\ Len(ts) <= Len(t.values) /\ Len(ts) <= Len(t.types)
<1>1. t.types \in Seq(Types) /\ t.values \in Seq(DOMAIN F.inst)
  BY FaceIs
<1>2. Len(ts) \in Nat /\ Len(t.types) \in Nat /\ Len(t.values) \in Nat
  BY <1>1, LenProperties
<1>3. Len(t.types) >= Len(ts) /\ Len(t.values) >= Len(ts)
  BY DEF Offers
<1> DEFINE x == Len(ts)
           y == Len(t.types)
           z == Len(t.values)
<1> HIDE DEF x, y, z
<1>4. x <= y /\ x <= z
  BY <1>2, <1>3 DEF x, y, z
<1> QED
  BY <1>2, <1>4 DEF x, y, z, Enough

LEMMA BlockStep ==
  ASSUME NEW F, NEW s, NEW t, NEW results, Face(F, s, t, results),
         NEW p \in Seq(Types), NEW r \in Seq(Types), Offers(t, p)
  PROVE  LET n == F.next
             G == BuildPhis(BuildBasicBlock(F, t.before), n, r)
         IN  Working(G, s \o <<Relanded(t, n, Len(p), Phis(G, n), r),
                               Body(t.cur, n, peek(t.values, Len(p)), p, n, r, n, r)>>, results)
<1> DEFINE n == F.next
           E == BuildBasicBlock(F, t.before)
           G == BuildPhis(E, n, r)
           O == Open(Append(s, t))
           args == peek(t.values, Len(p))
           b == Body(t.cur, n, args, p, n, r, n, r)
           k == Len(p)
<1>1. /\ Good(F) /\ t.cur \in DOMAIN F.code /\ t.values \in Seq(DOMAIN F.inst) /\ t.types \in Seq(Types)
      /\ t.before \in DOMAIN F.code /\ Sealed(F, O) /\ t.cur \in O
      /\ LoopsMerge => Typed(F, t.values, t.types)
  BY FaceIs
<1>2. Enough(t, k) /\ Len(p) <= Len(t.values) /\ Len(p) <= Len(t.types) /\ peek(t.types, Len(p)) = p
  BY OffersEnough DEF Offers
<1>3. args \in Seq(DOMAIN F.inst) /\ (LoopsMerge => Typed(F, args, p))
  BY <1>1, <1>2, Arguments
<1>4. Opened(F, E, n)
  BY <1>1, BuiltBlock, BlockGrown
<1> HIDE DEF n, E, O, args, k
<1>5. /\ Grown(F, E) /\ Good(E) /\ Faultless(F, E) /\ n \in DOMAIN E.code /\ n \notin DOMAIN F.code
      /\ E.code[n] = <<>> /\ Sealed(E, O \cup {n})
  BY <1>1, <1>4 DEF Opened, Grown, Faultless
<1>6. LandsOn(F, E, G, n, r)
  BY <1>1, <1>5, LandingLaid
<1> HIDE DEF G
<1>7. /\ Lands(F, G, n, Phis(G, n), r) /\ Expects(G, n, r) /\ Grown(E, G) /\ DOMAIN G.code = DOMAIN E.code
      /\ Sealed(G, O \cup {n})
  BY <1>5, <1>6 DEF LandsOn
<1>8. Grown(F, G) /\ Good(G) /\ n \in DOMAIN G.code /\ t.cur \in DOMAIN G.code
  BY <1>1, <1>7 DEF Lands, Grown
<1>9. args \in Seq(DOMAIN G.inst) /\ (LoopsMerge => Typed(G, args, p))
  <2>1. DOMAIN F.inst \subseteq DOMAIN G.inst
    BY <1>8 DEF Grown
  <2> QED
    BY <1>3, <1>8, <2>1, SeqMonotonic, TypedGrown
<1>10. Starts(G, b, t.cur)
  BY <1>7, <1>8, <1>9, BodyStarts
<1> HIDE DEF b
<1> DEFINE new == {t.cur}
<1>11. /\ b \in Visitors /\ Ready(G, b) /\ Alone(b) /\ Curs(b) = new
       /\ n \notin new /\ new \cap (DOMAIN F.code \ {t.cur}) = {}
       /\ (O \ {t.cur}) \cup {n} \cup new = O \cup {n}
  BY <1>1, <1>5, <1>10 DEF Starts
<1> HIDE DEF new
<1>12. Sealed(G, (Open(Append(s, t)) \ {t.cur}) \cup {n} \cup new)
  BY <1>7, <1>11 DEF O
<1>13. Working(G, s \o <<Relanded(t, n, k, Phis(G, n), r), b>>, results)
  BY <1>2, <1>7, <1>11, <1>12, NestStep
<1> QED
  BY <1>13 DEF G, E, n, b, args, k

(* A block type that a loop may have.                                      *)
Zips(p, r) == LoopsMerge => Len(p) <= Len(r) /\ \A k \in 1 .. Len(p) : p[k] = r[k]

LEMMA LoopStep ==
  ASSUME NEW F, NEW s, NEW t, NEW results, Face(F, s, t, results),
         NEW p \in Seq(Types), NEW r \in Seq(Types), Offers(t, p), Zips(p, r)
  PROVE  LET l == F.next
             n == F.next + 1
             B == BuildBasicBlock(BuildBasicBlock(F, t.before), t.before)
             J == BuildInst(B, t.cur, "br", Void, <<l>>)
             L == MergePhis(J, l, t.cur, r, peek(t.values, Len(p)))
             G == BuildPhis(L, n, r)
         IN  Working(G, s \o <<Relanded(t, n, Len(p), Phis(G, n), r),
                               Body(l, n, L.code[l], p, l, p, n, r)>>, results)
<1> DEFINE l == F.next
           n == F.next + 1
           E == BuildBasicBlock(F, t.before)
           B == BuildBasicBlock(E, t.before)
           J == BuildInst(B, t.cur, "br", Void, <<l>>)
           args == peek(t.values, Len(p))
           L == MergePhis(J, l, t.cur, r, args)
           G == BuildPhis(L, n, r)
           O == Open(Append(s, t))
           code == L.code[l]
           b == Body(l, n, code, p, l, p, n, r)
           k == Len(p)
           c == Smaller(Len(r), Len(args))
           nothing == <<>>
<1>1. /\ Good(F) /\ t.cur \in DOMAIN F.code /\ t.values \in Seq(DOMAIN F.inst) /\ t.types \in Seq(Types)
      /\ t.before \in DOMAIN F.code /\ Sealed(F, O) /\ t.cur \in O
      /\ LoopsMerge => Typed(F, t.values, t.types)
  BY FaceIs
<1>2. Enough(t, k) /\ Len(p) <= Len(t.values) /\ Len(p) <= Len(t.types) /\ peek(t.types, Len(p)) = p
  BY OffersEnough DEF Offers
<1>3. args \in Seq(DOMAIN F.inst) /\ Len(args) = k /\ k \in Nat /\ Len(r) \in Nat
  BY <1>1, <1>2, Arguments, LenProperties
<1>4. Opened(F, E, l)
  BY <1>1, BuiltBlock, BlockGrown
<1> HIDE DEF E, O, args, nothing
<1>5. /\ Grown(F, E) /\ Good(E) /\ E.fault = F.fault /\ l \in DOMAIN E.code /\ l \notin DOMAIN F.code
      /\ E.code[l] = nothing /\ Sealed(E, O \cup {l}) /\ E.next = n /\ t.before \in DOMAIN E.code
  BY <1>1, <1>4 DEF Opened, Grown, nothing
<1>6. Opened(E, B, n)
  BY <1>5, BuiltBlock, BlockGrown
<1> HIDE DEF B, l, n
<1>7. /\ Grown(E, B) /\ Good(B) /\ B.fault = E.fault /\ n \in DOMAIN B.code /\ n \notin DOMAIN E.code
      /\ B.code[n] = nothing /\ B.code[l] = nothing /\ Sealed(B, O \cup {l} \cup {n}) /\ l # n
      /\ l \in DOMAIN B.code
  BY <1>5, <1>6 DEF Opened, Grown, nothing
<1>8. Grown(F, B) /\ t.cur \in DOMAIN B.code /\ t.cur # l /\ t.cur # n /\ n \notin DOMAIN F.code
  BY <1>1, <1>5, <1>7, GrownTwice DEF Grown
<1>9. Put1(B, J, t.cur, "br", Void)
  BY <1>7, <1>8, BranchBuilt
<1> HIDE DEF J
<1>10. /\ Grown(B, J) /\ Good(J) /\ J.fault = B.fault /\ DOMAIN J.code = DOMAIN B.code
       /\ J.code[n] = nothing /\ J.code[l] = nothing
       /\ Sealed(J, (O \cup {l} \cup {n}) \ {t.cur})
  <2>1. "br" \in Terminators
    BY DEF Terminators, Branches
  <2>2. Ended(B, J, t.cur)
    BY <1>9, <2>1, PutEnds
  <2>3. t.cur \in O \cup {l} \cup {n}
    BY <1>1
  <2> QED
    BY <1>7, <1>8, <1>9, <2>2, <2>3 DEF Put1, Ended, Grown
<1>11. Grown(F, J) /\ args \in Seq(DOMAIN J.inst) /\ t.cur \in DOMAIN J.code /\ J.fault = F.fault
  <2>1. Grown(F, J)
    BY <1>1, <1>8, <1>10, GrownTwice
  <2>2. DOMAIN F.inst \subseteq DOMAIN J.inst
    BY <2>1 DEF Grown
  <2> QED
    BY <1>3, <1>5, <1>7, <1>8, <1>10, <2>1, <2>2, SeqMonotonic
<1>12. PhisPut(J, L, l, r, c)
  <2>1. l \in DOMAIN J.code /\ J.code[l] = <<>> /\ Len(r) \in Nat
    BY <1>3, <1>7, <1>10 DEF nothing
  <2> QED
    BY <1>10, <1>11, <2>1, PhisMerged
<1>13. c \in Nat
  BY <1>3 DEF Smaller
<1> HIDE DEF L, c
<1>14. /\ Grown(J, L) /\ Good(L) /\ L.fault = J.fault /\ DOMAIN L.code = DOMAIN J.code
       /\ L.code[n] = nothing /\ code \in Seq(DOMAIN L.inst) /\ Len(code) = c
       /\ Sealed(L, (O \cup {l} \cup {n}) \ {t.cur})
       /\ \A j \in 1 .. c : L.inst[code[j]].kind = "phi" /\ L.inst[code[j]].type = r[j]
  <2>1. l \in (O \cup {l} \cup {n}) \ {t.cur} /\ n \in DOMAIN J.code
    BY <1>7, <1>8, <1>10
  <2> QED
    BY <1>7, <1>10, <1>12, <2>1 DEF PhisPut, Grown
<1>15. LoopsMerge => Typed(L, code, p) /\ Heads(L, l, p)
  <2> SUFFICES ASSUME LoopsMerge  PROVE Typed(L, code, p) /\ Heads(L, l, p)
    OBVIOUS
  <2>1. k <= Len(r) /\ \A j \in 1 .. k : p[j] = r[j]
    BY DEF Zips
  <2>2. c = k
    <3> HIDE DEF k
    <3> QED
      BY <1>3, <2>1 DEF c, Smaller
  <2>3. l \in DOMAIN L.code
    BY <1>7, <1>10, <1>14
  <2>4. Len(p) <= Len(L.code[l])
    BY <1>3, <1>14, <2>2
  <2>5. \A j \in 1 .. Len(p) : L.inst[code[j]].kind = "phi" /\ L.inst[code[j]].type = p[j]
    BY <1>14, <2>1, <2>2
  <2>6. Typed(L, code, p)
    BY <1>14, <2>2, <2>5 DEF Typed
  <2>7. Heads(L, l, p)
    BY <2>3, <2>4, <2>5 DEF Heads
  <2> QED
    BY <2>6, <2>7
<1>16. Grown(F, L) /\ Faultless(F, L) /\ n \in DOMAIN L.code /\ l \in DOMAIN L.code
  BY <1>1, <1>7, <1>10, <1>11, <1>14, GrownTwice DEF Faultless
<1>17. LandsOn(F, L, G, n, r)
  <2>1. L.code[n] = <<>>
    BY <1>14 DEF nothing
  <2> QED
    BY <1>1, <1>8, <1>16, <2>1, LandingLaid
<1> HIDE DEF G, code
<1>18. /\ Lands(F, G, n, Phis(G, n), r) /\ Expects(G, n, r) /\ Grown(L, G) /\ DOMAIN G.code = DOMAIN L.code
       /\ Sealed(G, (O \cup {l} \cup {n}) \ {t.cur}) /\ Good(G)
  <2>1. n \in (O \cup {l} \cup {n}) \ {t.cur}
    BY <1>8
  <2> QED
    BY <1>14, <1>17, <2>1 DEF LandsOn, Grown
<1>19. code \in Seq(DOMAIN G.inst) /\ (LoopsMerge => Typed(G, code, p)) /\ Expects(G, l, p)
  <2>1. DOMAIN L.inst \subseteq DOMAIN G.inst
    BY <1>18 DEF Grown
  <2>2. code \in Seq(DOMAIN G.inst) /\ (LoopsMerge => Typed(G, code, p))
    BY <1>14, <1>15, <1>18, <2>1, SeqMonotonic, TypedGrown
  <2>3. Expects(L, l, p)
    BY <1>15, <1>16 DEF Expects
  <2> QED
    BY <1>14, <1>18, <2>2, <2>3, ExpectsGrown
<1>20. Starts(G, b, l)
  BY <1>16, <1>18, <1>19, BodyStarts
<1> HIDE DEF b
<1> DEFINE new == {l}
<1>21. /\ b \in Visitors /\ Ready(G, b) /\ Alone(b) /\ Curs(b) = new
       /\ n \notin new /\ new \cap (DOMAIN F.code \ {t.cur}) = {}
       /\ (O \ {t.cur}) \cup {n} \cup new = (O \cup {l} \cup {n}) \ {t.cur}
  BY <1>5, <1>7, <1>8, <1>20 DEF Starts
<1> HIDE DEF new, k
<1>22. Sealed(G, (Open(Append(s, t)) \ {t.cur}) \cup {n} \cup new)
  BY <1>18, <1>21 DEF O
<1>23. Working(G, s \o <<Relanded(t, n, k, Phis(G, n), r), b>>, results)
  BY <1>2, <1>18, <1>21, <1>22, NestStep
<1> QED
  BY <1>23 DEF G, L, J, B, E, n, l, b, args, k, code

-----------------------------------------------------------------------------
(* The conditionals.                                                       *)

(* What lies under the condition, and the condition.                       *)
LEMMA Chosen ==
  ASSUME NEW F, NEW s, NEW t, NEW results, Face(F, s, t, results),
         NEW p \in Seq(Types), NEW c \in Types, Offers(t, Append(p, c))
  PROVE  LET args == peek(pop(t.values, 1), Len(p)) IN
         /\ Enough(t, Len(p) + 1) /\ Last(t.values) \in DOMAIN F.inst
         /\ args \in Seq(DOMAIN F.inst) /\ (LoopsMerge => Typed(F, args, p))
<1> DEFINE n == Len(p)
           e == n + 1
           u == t.values
           b == t.types
           q == pop(u, 1)
           r == pop(b, 1)
           o == Append(p, c)
<1>1. u \in Seq(DOMAIN F.inst) /\ b \in Seq(Types) /\ (LoopsMerge => Typed(F, u, b))
  BY FaceIs
<1>2. o \in Seq(Types) /\ Len(o) = e /\ n \in Nat /\ Offers(t, o)
  BY AppendProperties, LenProperties
<1>3. Enough(t, Len(o)) /\ Len(o) <= Len(u) /\ Len(o) <= Len(b) /\ peek(b, Len(o)) = o
  <2> HIDE DEF o
  <2> QED
    BY <1>2, OffersEnough DEF Offers
<1> HIDE DEF o
<1>4. Enough(t, e) /\ e <= Len(u) /\ e <= Len(b) /\ peek(b, e) = o
  BY <1>2, <1>3
<1>5. Len(u) \in Nat /\ Len(b) \in Nat
  BY <1>1, LenProperties
<1> HIDE DEF u, b
<1>6. 1 \in Nat /\ 1 <= Len(u) /\ 1 <= Len(b) /\ Len(u) # 0
  BY <1>2, <1>4, <1>5
<1>7. Last(u) \in DOMAIN F.inst
  BY <1>1, <1>6, EmptySeq, Topped
<1>8. /\ q \in Seq(DOMAIN F.inst) /\ Len(q) = Len(u) - 1 /\ r \in Seq(Types) /\ Len(r) = Len(b) - 1
      /\ LoopsMerge => Typed(F, q, r)
  <2>1. q \in Seq(DOMAIN F.inst) /\ Len(q) = Len(u) - 1
    BY <1>1, <1>6, Peeked
  <2>2. r \in Seq(Types) /\ Len(r) = Len(b) - 1
    BY <1>1, <1>6, Peeked
  <2>3. LoopsMerge => Typed(F, q, r)
    <3> HIDE DEF q, r
    <3>1. Typed(F, u, b) => Typed(F, pop(u, 1), pop(b, 1))
      BY <1>1, <1>6, TypedCut
    <3> QED
      BY <1>1, <3>1 DEF q, r
  <2> QED
    BY <2>1, <2>2, <2>3
<1>9. peek(r, n) = p
  BY <1>1, <1>4, UnderCondition DEF o
<1> HIDE DEF q, r
<1>10. n <= Len(q) /\ n <= Len(r)
  <2> HIDE DEF n
  <2> QED
    BY <1>2, <1>4, <1>5, <1>8 DEF e
<1>11. peek(q, n) \in Seq(DOMAIN F.inst) /\ (LoopsMerge => Typed(F, peek(q, n), p))
  BY <1>8, <1>9, <1>10, Arguments
<1> QED
  BY <1>4, <1>7, <1>11 DEF e, q, u

(* New blocks that are empty.                                              *)
Laid(F, B, O, new) ==
  /\ Grown(F, B) /\ Good(B) /\ Faultless(F, B)
  /\ new \subseteq DOMAIN B.code /\ new \cap DOMAIN F.code = {}
  /\ \A n \in new : B.code[n] = <<>>
  /\ Sealed(B, O \cup new)

LEMMA NothingLaid ==
  ASSUME NEW F, Good(F), NEW O, Sealed(F, O)
  PROVE  Laid(F, F, O, {})
<1>1. Grown(F, F) /\ O \cup {} = O
  BY GrownSelf
<1> QED
  BY <1>1 DEF Laid, Faultless

LEMMA OneMoreLaid ==
  ASSUME NEW F, Good(F), NEW B, NEW O, NEW new, Laid(F, B, O, new), NEW b \in DOMAIN F.code
  PROVE  LET G == BuildBasicBlock(B, b) IN
         /\ Laid(F, G, O, new \cup {B.next}) /\ G.next = B.next + 1 /\ B.next \notin new
<1> DEFINE G == BuildBasicBlock(B, b)
           n == B.next
           nothing == <<>>
<1>1. /\ Grown(F, B) /\ Good(B) /\ Faultless(F, B) /\ new \subseteq DOMAIN B.code
      /\ new \cap DOMAIN F.code = {} /\ (\A d \in new : B.code[d] = nothing) /\ Sealed(B, O \cup new)
  BY DEF Laid
<1>2. b \in DOMAIN B.code /\ DOMAIN F.code \subseteq DOMAIN B.code
  BY <1>1 DEF Grown
<1>3. Opened(B, G, n)
  BY <1>1, <1>2, BuiltBlock, BlockGrown
<1> HIDE DEF G, n, nothing
<1>4. /\ Grown(B, G) /\ G.fault = B.fault /\ G.next = n + 1 /\ n = B.next
      /\ n \in DOMAIN G.code /\ n \notin DOMAIN B.code /\ G.code[n] = nothing
      /\ DOMAIN G.code = DOMAIN B.code \cup {n} /\ \A d \in DOMAIN B.code : G.code[d] = B.code[d]
  BY <1>3 DEF Opened, nothing
<1>5. Sealed(G, (O \cup new) \cup {n})
  BY <1>1, <1>3 DEF Opened
<1>6. (O \cup new) \cup {n} = O \cup (new \cup {n})
  OBVIOUS
<1>7. Grown(F, G) /\ Good(G) /\ Faultless(F, G)
  <2>1. Good(G)
    BY <1>4 DEF Grown
  <2> QED
    BY <1>1, <1>4, <2>1, GrownTwice DEF Faultless
<1>8. /\ new \cup {n} \subseteq DOMAIN G.code /\ (new \cup {n}) \cap DOMAIN F.code = {} /\ n \notin new
      /\ \A d \in new \cup {n} : G.code[d] = nothing
  BY <1>1, <1>2, <1>4
<1> QED
  BY <1>4, <1>5, <1>6, <1>7, <1>8 DEF Laid, G, n, nothing

(* The conditional closes the block of the visitor.                        *)
Forking(F, B, C, O, new, c) ==
  /\ Grown(F, C) /\ Grown(B, C) /\ Good(C) /\ Faultless(F, C) /\ new \subseteq DOMAIN C.code
  /\ (\A n \in new : C.code[n] = <<>>) /\ Sealed(C, (O \cup new) \ {c})

LEMMA Forked ==
  ASSUME NEW F, Good(F), NEW B, NEW O, NEW new, Laid(F, B, O, new),
         NEW c \in DOMAIN F.code, c \in O, NEW v \in DOMAIN F.inst, NEW x \in new, NEW y \in new
  PROVE  Forking(F, B, BuildInst(B, c, "cond", Void, <<v, x, y>>), O, new, c)
<1> DEFINE C == BuildInst(B, c, "cond", Void, <<v, x, y>>)
           nothing == <<>>
<1>1. /\ Grown(F, B) /\ Good(B) /\ Faultless(F, B) /\ new \subseteq DOMAIN B.code
      /\ new \cap DOMAIN F.code = {} /\ (\A d \in new : B.code[d] = nothing) /\ Sealed(B, O \cup new)
  BY DEF Laid
<1>2. c \in DOMAIN B.code /\ v \in DOMAIN B.inst /\ x \in DOMAIN B.code /\ y \in DOMAIN B.code /\ c \notin new
  BY <1>1 DEF Grown
<1>3. Put1(B, C, c, "cond", Void)
  BY <1>1, <1>2, ChoiceBuilt
<1> HIDE DEF C, nothing
<1>4. /\ Grown(B, C) /\ C.fault = B.fault /\ DOMAIN C.code = DOMAIN B.code
      /\ \A d \in DOMAIN B.code : d # c => C.code[d] = B.code[d]
  BY <1>3 DEF Put1
<1>5. Sealed(C, (O \cup new) \ {c})
  <2>1. "cond" \in Terminators /\ c \in O \cup new
    BY DEF Terminators, Branches
  <2>2. Ended(B, C, c)
    BY <1>3, <2>1, PutEnds
  <2> QED
    BY <1>1, <2>1, <2>2 DEF Ended
<1>6. \A n \in new : C.code[n] = nothing
  BY <1>1, <1>2, <1>4
<1>7. Grown(F, C) /\ Faultless(F, C) /\ Good(C)
  <2>1. Good(C)
    BY <1>4 DEF Grown
  <2> QED
    BY <1>1, <1>4, <2>1, GrownTwice DEF Faultless
<1> QED
  BY <1>1, <1>4, <1>5, <1>6, <1>7 DEF Forking, C, nothing

LEMMA IfElseStep ==
  ASSUME NEW F, NEW s, NEW t, NEW results, Face(F, s, t, results),
         NEW p \in Seq(Types), NEW r \in Seq(Types), CondType \in Types, Offers(t, Append(p, CondType))
  PROVE  LET x == F.next
             y == F.next + 1
             n == F.next + 2
             args == peek(pop(t.values, 1), Len(p))
             B == BuildBasicBlock(BuildBasicBlock(BuildBasicBlock(F, t.before), t.before), t.before)
             C == BuildInst(B, t.cur, "cond", Void, <<Last(t.values), x, y>>)
             G == BuildPhis(C, n, r)
         IN  Working(G, s \o <<Relanded(t, n, Len(p) + 1, Phis(G, n), r),
                               WithAlt(Body(x, y, args, p, n, r, n, r), Body(y, n, args, p, n, r, n, r))>>,
                     results)
<1> DEFINE x == F.next
           y == F.next + 1
           n == F.next + 2
           args == peek(pop(t.values, 1), Len(p))
           v == Last(t.values)
           b == t.before
           D == BuildBasicBlock(F, b)
           E == BuildBasicBlock(D, b)
           B == BuildBasicBlock(E, b)
           C == BuildInst(B, t.cur, "cond", Void, <<v, x, y>>)
           G == BuildPhis(C, n, r)
           O == Open(Append(s, t))
           k == Len(p) + 1
           one == Body(x, y, args, p, n, r, n, r)
           two == Body(y, n, args, p, n, r, n, r)
           w == WithAlt(one, two)
<1>1. /\ Good(F) /\ t.cur \in DOMAIN F.code /\ b \in DOMAIN F.code /\ Sealed(F, O) /\ t.cur \in O
      /\ F.next \in Nat
  BY FaceIs, NodesAreNumbers
<1>2. /\ Enough(t, k) /\ v \in DOMAIN F.inst
      /\ args \in Seq(DOMAIN F.inst) /\ (LoopsMerge => Typed(F, args, p))
  BY Chosen
<1> HIDE DEF args, v, b, O, k
<1>3. Laid(F, F, O, {})
  BY <1>1, NothingLaid
<1>4. Laid(F, D, O, {} \cup {x}) /\ D.next = y
  BY <1>1, <1>3, OneMoreLaid
<1> HIDE DEF D
<1>5. Laid(F, D, O, {x})
  <2>1. {} \cup {x} = {x}
    OBVIOUS
  <2> QED
    BY <1>4, <2>1
<1> HIDE DEF x, y, n
<1>6. Laid(F, E, O, {x} \cup {y}) /\ E.next = n /\ y \notin {x}
  <2>1. Laid(F, E, O, {x} \cup {D.next}) /\ E.next = D.next + 1 /\ D.next \notin {x}
    BY <1>1, <1>5, OneMoreLaid
  <2>2. y + 1 = n
    BY <1>1 DEF y, n
  <2> QED
    BY <1>4, <2>1, <2>2
<1> HIDE DEF E
<1> DEFINE new == ({x} \cup {y}) \cup {n}
<1>7. Laid(F, B, O, new) /\ n \notin {x} \cup {y}
  <2>1. Laid(F, B, O, ({x} \cup {y}) \cup {E.next}) /\ E.next \notin {x} \cup {y}
    BY <1>1, <1>6, OneMoreLaid
  <2> QED
    BY <1>6, <2>1
<1> HIDE DEF B
<1>8. x \in new /\ y \in new /\ n \in new /\ x # y /\ x # n /\ y # n
  BY <1>6, <1>7
<1>9. new \cap DOMAIN F.code = {}
  BY <1>7 DEF Laid
<1>10. /\ Grown(F, C) /\ Good(C) /\ Faultless(F, C) /\ new \subseteq DOMAIN C.code
       /\ (\A d \in new : C.code[d] = <<>>) /\ Sealed(C, (O \cup new) \ {t.cur})
  <2> HIDE DEF new
  <2>1. Forking(F, B, C, O, new, t.cur)
    BY <1>1, <1>2, <1>7, <1>8, Forked
  <2> HIDE DEF C
  <2> QED
    BY <2>1 DEF Forking
<1> HIDE DEF C, new
<1>11. LandsOn(F, C, G, n, r)
  <2>1. n \in DOMAIN C.code /\ n \notin DOMAIN F.code /\ C.code[n] = <<>>
    BY <1>8, <1>9, <1>10
  <2> QED
    BY <1>1, <1>10, <2>1, LandingLaid
<1> HIDE DEF G
<1>12. /\ Lands(F, G, n, Phis(G, n), r) /\ Expects(G, n, r) /\ Grown(C, G) /\ DOMAIN G.code = DOMAIN C.code
       /\ Sealed(G, (O \cup new) \ {t.cur}) /\ Good(G) /\ Grown(F, G)
  <2>1. n \in (O \cup new) \ {t.cur}
    BY <1>1, <1>8, <1>9
  <2> QED
    BY <1>10, <1>11, <2>1 DEF LandsOn, Lands, Grown
<1>13. x \in DOMAIN G.code /\ y \in DOMAIN G.code /\ n \in DOMAIN G.code
  BY <1>8, <1>10, <1>12
<1>14. args \in Seq(DOMAIN G.inst) /\ (LoopsMerge => Typed(G, args, p))
  <2>1. DOMAIN F.inst \subseteq DOMAIN G.inst
    BY <1>12 DEF Grown
  <2> QED
    BY <1>2, <1>12, <2>1, SeqMonotonic, TypedGrown
<1>15. Starts(G, one, x)
  BY <1>12, <1>13, <1>14, BodyStarts
<1>16. Starts(G, two, y)
  BY <1>12, <1>13, <1>14, BodyStarts
<1> HIDE DEF one, two
<1>17. w \in Visitors /\ Ready(G, w) /\ Alone(w) /\ Curs(w) = {x, y}
  BY <1>8, <1>15, <1>16, BothStart
<1> HIDE DEF w
<1> DEFINE both == {x, y}
<1>18. /\ Curs(w) = both /\ n \notin both /\ both \cap (DOMAIN F.code \ {t.cur}) = {}
       /\ (O \ {t.cur}) \cup {n} \cup both = (O \cup new) \ {t.cur}
  <2>1. new = {x, y, n} /\ t.cur \notin new
    BY <1>1, <1>9 DEF new
  <2> QED
    BY <1>8, <1>9, <1>17, <2>1
<1> HIDE DEF both
<1>19. Sealed(G, (Open(Append(s, t)) \ {t.cur}) \cup {n} \cup both)
  BY <1>12, <1>18 DEF O
<1>20. Working(G, s \o <<Relanded(t, n, k, Phis(G, n), r), w>>, results)
  BY <1>2, <1>12, <1>17, <1>18, <1>19, NestStep
<1> QED
  BY <1>20 DEF G, C, B, E, D, x, y, n, w, one, two, args, k, v, b

(* The landing block of an if has no phis.                                 *)
LEMMA NoPhis ==
  ASSUME NEW F, NEW b, F.code[b] = <<>>
  PROVE  Phis(F, b) = <<>>
<1> DEFINE P == {k \in DOMAIN F.code[b] : F.inst[F.code[b][k]].kind = "phi"}
           nothing == <<>>
<1>1. Phis(F, b) = Picked(nothing, P) /\ Len(nothing) = 0 /\ Len(nothing) \in Nat
  BY DEF Phis
<1> HIDE DEF P, nothing
<1>2. PICK f : f[0] = <<>> /\ Picked(nothing, P) = f[Len(nothing)]
  BY <1>1, PicksUnfold
<1> QED
  BY <1>1, <1>2

LEMMA IfStep ==
  ASSUME NEW F, NEW s, NEW t, NEW results, Face(F, s, t, results),
         CondType \in Types, Offers(t, <<CondType>>)
  PROVE  LET x == F.next
             n == F.next + 1
             B == BuildBasicBlock(BuildBasicBlock(F, t.before), t.before)
             G == BuildInst(B, t.cur, "cond", Void, <<Last(t.values), x, n>>)
         IN  Working(G, s \o <<Relanded(t, n, 1, Phis(B, n), <<>>),
                               Body(x, n, <<>>, <<>>, n, <<>>, n, <<>>)>>, results)
<1> DEFINE x == F.next
           n == F.next + 1
           v == Last(t.values)
           b == t.before
           D == BuildBasicBlock(F, b)
           B == BuildBasicBlock(D, b)
           G == BuildInst(B, t.cur, "cond", Void, <<v, x, n>>)
           O == Open(Append(s, t))
           p == <<>>
           k == 1
           w == Body(x, n, p, p, n, p, n, p)
<1>1. /\ Good(F) /\ t.cur \in DOMAIN F.code /\ b \in DOMAIN F.code /\ Sealed(F, O) /\ t.cur \in O
      /\ F.next \in Nat
  BY FaceIs, NodesAreNumbers
<1>2. p \in Seq(Types) /\ Len(p) = 0 /\ Append(p, CondType) = <<CondType>> /\ \A X : p \in Seq(X)
  OBVIOUS
<1> HIDE DEF p
<1>3. Enough(t, k) /\ v \in DOMAIN F.inst
  <2>1. Offers(t, Append(p, CondType))
    BY <1>2
  <2>2. Enough(t, Len(p) + 1) /\ v \in DOMAIN F.inst
    BY <1>2, <2>1, Chosen
  <2>3. Len(p) + 1 = k
    BY <1>2
  <2> QED
    BY <2>2, <2>3
<1> HIDE DEF v, b, O, k
<1>4. Laid(F, F, O, {})
  BY <1>1, NothingLaid
<1>5. Laid(F, D, O, {} \cup {x}) /\ D.next = n
  BY <1>1, <1>4, OneMoreLaid
<1> HIDE DEF D
<1>6. Laid(F, D, O, {x})
  <2>1. {} \cup {x} = {x}
    OBVIOUS
  <2> QED
    BY <1>5, <2>1
<1> HIDE DEF x, n
<1> DEFINE new == {x} \cup {n}
<1>7. Laid(F, B, O, new) /\ n \notin {x}
  <2>1. Laid(F, B, O, {x} \cup {D.next}) /\ D.next \notin {x}
    BY <1>1, <1>6, OneMoreLaid
  <2> QED
    BY <1>5, <2>1
<1> HIDE DEF B
<1>8. x \in new /\ n \in new /\ x # n
  BY <1>7
<1>9. new \cap DOMAIN F.code = {} /\ B.code[n] = <<>>
  BY <1>7, <1>8 DEF Laid
<1>10. /\ Grown(F, G) /\ Good(G) /\ Faultless(F, G) /\ new \subseteq DOMAIN G.code
       /\ Sealed(G, (O \cup new) \ {t.cur})
  <2> HIDE DEF new
  <2>1. Forking(F, B, G, O, new, t.cur)
    BY <1>1, <1>3, <1>7, <1>8, Forked
  <2> HIDE DEF G
  <2> QED
    BY <2>1 DEF Forking
<1> HIDE DEF G, new
<1>11. Phis(B, n) = p
  BY <1>9, NoPhis DEF p
<1>12. \A H : Typed(H, p, p)
  <2>1. 1 .. 0 = {}
    OBVIOUS
  <2> QED
    BY <1>2, <2>1 DEF Typed
<1>13. x \in DOMAIN G.code /\ n \in DOMAIN G.code /\ n \notin DOMAIN F.code
  BY <1>8, <1>9, <1>10
<1>14. Lands(F, G, n, p, p)
  BY <1>2, <1>10, <1>12, <1>13 DEF Lands
<1>15. Expects(G, n, p)
  <2>1. G.code[n] \in Seq(DOMAIN G.inst)
    BY <1>10, <1>13, CodeIs
  <2>2. Len(G.code[n]) \in Nat
    BY <2>1, LenProperties
  <2>3. 0 <= Len(G.code[n]) /\ 1 .. 0 = {}
    BY <2>2
  <2>4. Heads(G, n, p)
    BY <1>2, <1>13, <2>3 DEF Heads
  <2> QED
    BY <1>2, <1>13, <2>4 DEF Expects
<1>16. Starts(G, w, x)
  <2>1. p \in Seq(DOMAIN G.inst) /\ Typed(G, p, p)
    BY <1>2, <1>12
  <2> QED
    BY <1>2, <1>10, <1>13, <1>15, <2>1, BodyStarts
<1> HIDE DEF w
<1> DEFINE one == {x}
<1>17. /\ w \in Visitors /\ Ready(G, w) /\ Alone(w) /\ Curs(w) = one /\ n \notin one
       /\ one \cap (DOMAIN F.code \ {t.cur}) = {}
       /\ (O \ {t.cur}) \cup {n} \cup one = (O \cup new) \ {t.cur}
  <2>1. new = {x, n} /\ t.cur \notin new
    BY <1>1, <1>9 DEF new
  <2> QED
    BY <1>8, <1>9, <1>16, <2>1 DEF Starts
<1> HIDE DEF one
<1>18. Sealed(G, (Open(Append(s, t)) \ {t.cur}) \cup {n} \cup one)
  BY <1>10, <1>17 DEF O
<1>19. Working(G, s \o <<Relanded(t, n, k, p, p), w>>, results)
  BY <1>3, <1>14, <1>17, <1>18, NestStep
<1>20. Working(G, s \o <<Relanded(t, n, k, Phis(B, n), p), w>>, results)
  BY <1>11, <1>19
<1> QED
  BY <1>20 DEF G, B, D, x, n, w, p, k, v, b

-----------------------------------------------------------------------------
(* The context, before the first bytecode.                                 *)

(* The exit block waits for its return.                                    *)
Waiting(P, results, open) ==
  /\ Good(P) /\ P.fault = FALSE /\ Heads(P, Exit, results) /\ Exit \in DOMAIN P.code
  /\ Entry \in DOMAIN P.code /\ Sealed(P, open)

LEMMA ReturnWaits ==
  ASSUME NEW P, NEW results \in Seq(Types), NEW open, Waiting(P, results, open), Exit \in open,
         NEW refs \in Seq(DOMAIN P.inst)
  PROVE  Waiting(BuildInst(P, Exit, "return", Void, refs), results, open \ {Exit})
<1> DEFINE G == BuildInst(P, Exit, "return", Void, refs)
<1>1. /\ Good(P) /\ P.fault = FALSE /\ Heads(P, Exit, results) /\ Exit \in DOMAIN P.code
      /\ Entry \in DOMAIN P.code /\ Sealed(P, open)
  BY DEF Waiting
<1>2. "return" \notin Branches /\ "return" \in Terminators
  BY DEF Branches, Terminators
<1>3. Put1(P, G, Exit, "return", Void)
  BY <1>1, <1>2, PlainBuilt
<1> HIDE DEF G
<1>4. Grown(P, G) /\ G.fault = FALSE /\ DOMAIN G.code = DOMAIN P.code /\ Sealed(G, open \ {Exit})
  BY <1>1, <1>2, <1>3 DEF Put1
<1>5. Good(G) /\ Heads(G, Exit, results)
  <2>1. Len(results) \in Nat
    BY LenProperties
  <2> QED
    BY <1>1, <1>4, <2>1, HeadsGrown DEF Grown
<1> QED
  BY <1>1, <1>4, <1>5 DEF Waiting, G

LEMMA PackWaits ==
  ASSUME NEW P, NEW results \in Seq(Types), NEW open, Waiting(P, results, open), Exit \in open,
         NEW refs \in Seq(DOMAIN P.inst)
  PROVE  LET G == BuildInst(P, Exit, "pack", Void, refs) IN
         Waiting(G, results, open) /\ P.next \in DOMAIN G.inst
<1> DEFINE G == BuildInst(P, Exit, "pack", Void, refs)
<1>1. /\ Good(P) /\ P.fault = FALSE /\ Heads(P, Exit, results) /\ Exit \in DOMAIN P.code
      /\ Entry \in DOMAIN P.code /\ Sealed(P, open)
  BY DEF Waiting
<1>2. "pack" \notin Branches /\ "pack" \notin Terminators
  BY DEF Branches, Terminators
<1>3. Put1(P, G, Exit, "pack", Void)
  BY <1>1, <1>2, PlainBuilt
<1> HIDE DEF G
<1>4. /\ Grown(P, G) /\ G.fault = FALSE /\ DOMAIN G.code = DOMAIN P.code /\ Sealed(G, open)
      /\ P.next \in DOMAIN G.inst
  BY <1>1, <1>2, <1>3 DEF Put1
<1>5. Good(G) /\ Heads(G, Exit, results)
  <2>1. Len(results) \in Nat
    BY LenProperties
  <2> QED
    BY <1>1, <1>4, <2>1, HeadsGrown DEF Grown
<1> QED
  BY <1>1, <1>4, <1>5 DEF Waiting, G

LEMMA BlocksWait ==
  ASSUME NEW results \in Seq(Types)
  PROVE  LET E == BuildBasicBlock(BuildBasicBlock(EmptyFunction, Nil), Nil)
             P == BuildPhis(E, Exit, results)
         IN  Waiting(P, results, {Entry, Exit}) /\ P.code[Exit] \in Seq(DOMAIN P.inst)
<1> DEFINE F == EmptyFunction
           D == BuildBasicBlock(F, Nil)
           E == BuildBasicBlock(D, Nil)
           P == BuildPhis(E, Exit, results)
           c == Len(results)
           nothing == <<>>
<1>1. /\ Good(F) /\ F.fault = FALSE /\ F.next = 1 /\ Sealed(F, {}) /\ c \in Nat
  BY EmptyGood, LenProperties
<1> HIDE DEF F
<1>2. Opened(F, D, F.next)
  BY <1>1, BuiltBlock, BlockGrown
<1> HIDE DEF D, nothing
<1>3. /\ Good(D) /\ D.fault = FALSE /\ D.next = 2 /\ 1 \in DOMAIN D.code /\ Sealed(D, {} \cup {1})
  BY <1>1, <1>2 DEF Opened, Grown
<1>4. Opened(D, E, D.next)
  BY <1>3, BuiltBlock, BlockGrown
<1> HIDE DEF E
<1>5. /\ Good(E) /\ E.fault = FALSE /\ 1 \in DOMAIN E.code /\ 2 \in DOMAIN E.code /\ E.code[2] = nothing
      /\ Sealed(E, ({} \cup {1}) \cup {2})
  BY <1>3, <1>4 DEF Opened, Grown, nothing
<1>6. Entry = 1 /\ Exit = 2 /\ ({} \cup {1}) \cup {2} = {Entry, Exit}
  BY DEF Entry, Exit
<1>7. /\ Entry \in DOMAIN E.code /\ Exit \in DOMAIN E.code /\ E.code[Exit] = <<>> /\ Sealed(E, {Entry, Exit})
  BY <1>5, <1>6 DEF nothing
<1>8. PhisBuilt(E, P, Exit, results, c)
  BY <1>1, <1>5, <1>7, BuiltPhis
<1> HIDE DEF P
<1>9. PhisPut(E, P, Exit, results, c)
  <2> HIDE DEF c
  <2> QED
    BY <1>1, <1>5, <1>7, <1>8, PhisGrown
<1>10. /\ Grown(E, P) /\ P.fault = FALSE /\ DOMAIN P.code = DOMAIN E.code
       /\ P.code[Exit] \in Seq(DOMAIN P.inst) /\ Len(P.code[Exit]) = c
       /\ \A k \in 1 .. c : /\ P.inst[P.code[Exit][k]].kind = "phi"
                            /\ P.inst[P.code[Exit][k]].type = results[k]
  BY <1>5, <1>9 DEF PhisPut
<1>11. Sealed(P, {Entry, Exit})
  <2>1. Exit \in {Entry, Exit}
    OBVIOUS
  <2> QED
    BY <1>7, <1>9, <2>1 DEF PhisPut
<1>12. Heads(P, Exit, results)
  BY <1>1, <1>7, <1>10 DEF Heads
<1>13. Good(P)
  BY <1>10 DEF Grown
<1> QED
  BY <1>7, <1>10, <1>11, <1>12, <1>13 DEF Waiting, P, E, D, F

LEMMA ContextWaits ==
  ASSUME Results \in Seq(Types)
  PROVE  Waiting(TranslationContext, Results, {Entry})
<1> DEFINE r == Results
           E == BuildBasicBlock(BuildBasicBlock(EmptyFunction, Nil), Nil)
           P == BuildPhis(E, Exit, r)
           phis == P.code[Exit]
           K == BuildInst(P, Exit, "pack", Void, phis)
           open == {Entry, Exit}
           none == <<>>
           both == <<P.next>>
<1>1. Waiting(P, r, open) /\ phis \in Seq(DOMAIN P.inst)
  BY BlocksWait
<1>2. Exit \in open /\ open \ {Exit} = {Entry} /\ none \in Seq(DOMAIN P.inst)
  BY DEF Entry, Exit
<1>3. \/ TranslationContext = BuildInst(P, Exit, "return", Void, none)
      \/ TranslationContext = BuildInst(P, Exit, "return", Void, phis)
      \/ TranslationContext = BuildInst(K, Exit, "return", Void, both)
  <2>1. Len(r) \in Nat
    BY LenProperties
  <2> DEFINE n == Len(r)
             x == BuildInst(P, Exit, "return", Void, none)
             y == BuildInst(P, Exit, "return", Void, phis)
             z == BuildInst(K, Exit, "return", Void, both)
  <2>2. TranslationContext = CASE n = 0 -> x [] n = 1 -> y [] OTHER -> z
    BY DEF TranslationContext
  <2> HIDE DEF n, x, y, z
  <2>3. TranslationContext = x \/ TranslationContext = y \/ TranslationContext = z
    BY <2>2
  <2> QED
    BY <2>3 DEF x, y, z
<1> HIDE DEF P, phis, r, open, none
<1>4. r \in Seq(Types)
  BY DEF r
<1>5. Waiting(BuildInst(P, Exit, "return", Void, none), r, open \ {Exit})
  BY <1>1, <1>2, <1>4, ReturnWaits
<1>6. Waiting(BuildInst(P, Exit, "return", Void, phis), r, open \ {Exit})
  BY <1>1, <1>2, <1>4, ReturnWaits
<1>7. Waiting(K, r, open) /\ P.next \in DOMAIN K.inst
  BY <1>1, <1>2, <1>4, PackWaits
<1> HIDE DEF K
<1>8. both \in Seq(DOMAIN K.inst)
  <2> DEFINE v == P.next
             X == DOMAIN K.inst
  <2>1. v \in X
    BY <1>7
  <2> HIDE DEF v, X
  <2>2. <<v>> \in Seq(X)
    BY <2>1
  <2> QED
    BY <2>2 DEF v, X
<1> HIDE DEF both
<1>9. Waiting(BuildInst(K, Exit, "return", Void, both), r, open \ {Exit})
  BY <1>2, <1>4, <1>7, <1>8, ReturnWaits
<1> QED
  BY <1>2, <1>3, <1>5, <1>6, <1>9 DEF r

LEMMA StackEmpty ==
  ASSUME NEW F
  PROVE  Stacked(F, <<>>) /\ Open(<<>>) = {} /\ <<>> \in Seq(Visitors)
<1> DEFINE e == <<>>
<1>1. e \in Seq(Visitors) /\ DOMAIN e = {}
  OBVIOUS
<1> HIDE DEF e
<1>2. Stacked(F, e) /\ Open(e) = {}
  BY <1>1 DEF Stacked, Apart, Open
<1> QED
  BY <1>1, <1>2 DEF e

LEMMA Begins ==
  ASSUME Results \in Seq(Types)
  PROVE  Working(TranslationContext,
                 <<Body(Entry, Exit, <<>>, <<>>, Exit, Results, Exit, Results)>>, Results)
<1> DEFINE F == TranslationContext
           r == Results
           e == <<>>
           w == Body(Entry, Exit, e, e, Exit, r, Exit, r)
           new == {Entry}
<1>1. /\ Good(F) /\ F.fault = FALSE /\ Heads(F, Exit, r) /\ Exit \in DOMAIN F.code
      /\ Entry \in DOMAIN F.code /\ Sealed(F, new) /\ r \in Seq(Types)
  BY ContextWaits DEF Waiting
<1> HIDE DEF F, r
<1>2. e \in Seq(DOMAIN F.inst) /\ e \in Seq(Types) /\ Len(e) = 0 /\ 1 .. 0 = {} /\ <<w>> = Append(e, w)
  OBVIOUS
<1>3. Stacked(F, e) /\ Open(e) = {} /\ e \in Seq(Visitors)
  BY StackEmpty
<1> HIDE DEF e
<1>4. Typed(F, e, e)
  BY <1>2 DEF Typed
<1>5. Expects(F, Exit, r) /\ Sound(F, r)
  BY <1>1 DEF Expects, Sound
<1>6. Starts(F, w, Entry)
  BY <1>1, <1>2, <1>4, <1>5, BodyStarts
<1> HIDE DEF w
<1>7. w \in Visitors /\ Ready(F, w) /\ Alone(w) /\ Curs(w) = new
  BY <1>6 DEF Starts
<1> HIDE DEF new
<1>8. Stacked(F, Append(e, w)) /\ Open(Append(e, w)) = new
  <2>1. Curs(w) \cap Open(e) = {}
    BY <1>3
  <2>2. Stacked(F, Append(e, w))
    BY <1>3, <1>7, <2>1, StackedPushed
  <2>3. Open(Append(e, w)) = Open(e) \cup Curs(w)
    BY <1>3, <1>7, OpenPushed
  <2> QED
    BY <1>3, <1>7, <2>2, <2>3
<1>9. Working(F, <<w>>, r)
  BY <1>1, <1>2, <1>5, <1>8 DEF Working
<1> QED
  BY <1>9 DEF F, r, w, e

-----------------------------------------------------------------------------
(* A phi with the references r has got one more candidate, for the path c, *)
(* if P; its value is in I.                                                *)
Lengthened(r, t, c, P, I) ==
  Len(r) % 2 = 0 =>
    /\ Len(t) % 2 = 0
    /\ \A y : Through(t, y) <=> Through(r, y) \/ (y = c /\ P)
    /\ \A y : Gives(t, y) => Gives(r, y) \/ y \in I
Early(code, j, u) == \E k \in 1 .. j : code[k] = u
Mended(F, G, code, c, j) ==
  /\ Retuned(F, G)
  /\ \A u \in PhisOf(F) :
       Lengthened(F.inst[u].refs, G.inst[u].refs, c, Early(code, j, u), DOMAIN F.inst)

LEMMA LengthenedMore ==
  ASSUME NEW M, NEW r, NEW t \in Seq(M), NEW c, NEW P, NEW I, Lengthened(r, t, c, P, I), NEW v \in I
  PROVE  Lengthened(r, t \o <<v, c>>, c, TRUE, I)
<1> DEFINE s == t \o <<v, c>>
<1> SUFFICES ASSUME Len(r) % 2 = 0
             PROVE  /\ Len(s) % 2 = 0
                    /\ \A y : Through(s, y) <=> Through(r, y) \/ y = c
                    /\ \A y : Gives(s, y) => Gives(r, y) \/ y \in I
  BY DEF Lengthened
<1>1. /\ Len(t) % 2 = 0
      /\ \A y : Through(t, y) <=> Through(r, y) \/ (y = c /\ P)
      /\ \A y : Gives(t, y) => Gives(r, y) \/ y \in I
  BY DEF Lengthened
<1>2. PairMore(t, s, v, c)
  BY <1>1, PairAdded
<1> HIDE DEF s
<1> QED
  BY <1>1, <1>2 DEF PairMore

LEMMA LengthenedSame ==
  ASSUME NEW r, NEW c, NEW I
  PROVE  Lengthened(r, r, c, FALSE, I)
BY DEF Lengthened

LEMMA MendedMore ==
  ASSUME NEW F, NEW G, NEW code, NEW c, NEW j \in Nat, Mended(F, G, code, c, j),
         NEW v \in DOMAIN F.inst, NEW H, code[j + 1] \in PhisOf(F),
         RefsSet(G, H, code[j + 1], G.inst[code[j + 1]].refs \o <<v, c>>)
  PROVE  Mended(F, H, code, c, j + 1)
<1> DEFINE p == code[j + 1]
           s == G.inst[p].refs \o <<v, c>>
<1>1. p \in DOMAIN F.inst /\ F.inst[p].kind = "phi" /\ Retuned(F, G)
  BY DEF PhisOf, Mended
<1>2. Retuned(F, H)
  BY <1>1, RetunedSet
<1>3. /\ p \in DOMAIN G.inst /\ Tagged(G.inst) /\ G.inst[p].refs \in Seq(DOMAIN G.uses \cup {Nil})
      /\ DOMAIN G.inst = DOMAIN F.inst /\ H.inst = Rewired(G.inst, p, s)
  BY <1>1, GoodRefs DEF Retuned, RefsSet
<1> HIDE DEF s
<1>4. \A u \in DOMAIN F.inst : H.inst[u].refs = IF u = p THEN s ELSE G.inst[u].refs
  BY <1>3, RewiredIs
<1>5. ASSUME NEW u \in PhisOf(F)
      PROVE  Lengthened(F.inst[u].refs, H.inst[u].refs, c, Early(code, j + 1, u), DOMAIN F.inst)
  <2>0. u \in DOMAIN F.inst
    BY DEF PhisOf
  <2>1. Lengthened(F.inst[u].refs, G.inst[u].refs, c, Early(code, j, u), DOMAIN F.inst)
    BY DEF Mended
  <2>2. CASE u = p
    <3>1. Early(code, j + 1, u) = TRUE
      <4>1. j + 1 \in 1 .. j + 1
        OBVIOUS
      <4> QED
        BY <2>2, <4>1 DEF Early
    <3> DEFINE r == F.inst[u].refs
               t == G.inst[u].refs
               P == Early(code, j, u)
               I == DOMAIN F.inst
               M == DOMAIN G.uses \cup {Nil}
    <3>2. t \in Seq(M) /\ Lengthened(r, t, c, P, I) /\ v \in I
      BY <1>3, <2>1, <2>2
    <3>3. H.inst[u].refs = t \o <<v, c>>
      BY <1>4, <2>0, <2>2 DEF s
    <3> HIDE DEF r, t, P, I, M
    <3>4. Lengthened(r, t \o <<v, c>>, c, TRUE, I)
      BY <3>2, LengthenedMore
    <3> QED
      BY <3>1, <3>3, <3>4 DEF r, I
  <2>3. CASE u # p
    <3>1. Early(code, j + 1, u) <=> Early(code, j, u)
      <4>1. \A k : k \in 1 .. j + 1 <=> k \in 1 .. j \/ k = j + 1
        OBVIOUS
      <4> QED
        BY <2>3, <4>1 DEF Early
    <3>2. H.inst[u].refs = G.inst[u].refs
      BY <1>4, <2>0, <2>3
    <3>3. Early(code, j + 1, u) = Early(code, j, u)
      BY <3>1 DEF Early
    <3> QED
      BY <2>1, <3>2, <3>3
  <2> QED
    BY <2>2, <2>3
<1> QED
  BY <1>2, <1>5 DEF Mended

LEMMA MergeMended ==
  ASSUME NEW F, Good(F), NEW x \in DOMAIN F.code, NEW c \in DOMAIN F.code,
         NEW values \in Seq(DOMAIN F.inst), NEW types, Heads(F, x, types), Len(values) = Len(types)
  PROVE  Mended(F, addMergeCandidates(F, x, c, values), F.code[x], c, Len(values))
<1> DEFINE code == F.code[x]
           n == Smaller(Len(code), Len(values))
           H == addMergeCandidates(F, x, c, values)
<1>1. Len(code) \in Nat /\ Len(values) \in Nat /\ \A k \in 1 .. Len(code) : code[k] \in DOMAIN F.inst
  BY CodeIs, LenProperties
<1>2. n = Len(values)
  BY <1>1 DEF Heads, Smaller
<1>3. PICK f : /\ f[0] = F /\ H = f[n]
               /\ \A j \in 1 .. n : f[j] = HandsStep(F, x, c, values, f[j - 1], j)
  BY <1>1, <1>2, HandsUnfold
<1>4. \A k \in 1 .. n : code[k] \in PhisOf(F) /\ values[k] \in DOMAIN F.inst
  <2> TAKE k \in 1 .. n
  <2>1. k \in 1 .. Len(types) /\ k \in 1 .. Len(code) /\ k \in 1 .. Len(values)
    BY <1>1, <1>2 DEF Heads
  <2>2. values[k] \in DOMAIN F.inst
    BY <2>1, ElementOfSeq
  <2> QED
    BY <1>1, <2>1, <2>2 DEF Heads, PhisOf
<1>5. c \in DOMAIN F.uses /\ DOMAIN F.inst \subseteq DOMAIN F.uses
  BY GoodRefs DEF Good
<1>6. n \in Nat
  BY <1>1, <1>2
<1> DEFINE S == {j \in 0 .. n : Mended(F, f[j], code, c, j)}
<1> HIDE DEF code, n, H
<1>7. 0 \in S
  <2>1. \A u : Early(code, 0, u) = FALSE
    BY DEF Early
  <2>2. Retuned(F, F)
    BY RetunedSelf
  <2>3. Mended(F, F, code, c, 0)
    BY <2>1, <2>2, LengthenedSame DEF Mended
  <2> QED
    BY <1>3, <1>6, <2>3
<1>8. ASSUME NEW j \in 0 .. n, j \in S, j < n  PROVE j + 1 \in S
  <2> DEFINE G == f[j]
             p == code[j + 1]
             v == values[j + 1]
  <2>1. j \in Nat /\ j + 1 \in 1 .. n /\ j + 1 \in 0 .. n /\ (j + 1) - 1 = j
    BY <1>6, <1>8
  <2>2. Mended(F, G, code, c, j)
    BY <1>8
  <2>3. p \in PhisOf(F) /\ v \in DOMAIN F.inst
    BY <1>4, <2>1
  <2>4. f[j + 1] = addCandidate(G, p, v, c)
    <3>1. F.inst[p].kind = "phi"
      BY <2>3 DEF PhisOf
    <3>2. f[j + 1] = HandsStep(F, x, c, values, G, j + 1)
      BY <1>3, <2>1
    <3> QED
      BY <3>1, <3>2 DEF HandsStep, code
  <2> HIDE DEF G, S
  <2>5. /\ Good(G) /\ p \in DOMAIN G.inst /\ G.inst[p].kind = "phi"
        /\ v \in DOMAIN G.uses \cup {Nil} /\ c \in DOMAIN G.uses \cup {Nil}
    BY <1>5, <2>2, <2>3 DEF Mended, Retuned, PhisOf
  <2>6. RefsSet(G, f[j + 1], p, G.inst[p].refs \o <<v, c>>)
    <3> HIDE DEF p, v
    <3>1. RefsSet(G, addCandidate(G, p, v, c), p, G.inst[p].refs \o <<v, c>>)
      BY <2>5, CandidateAdded
    <3> QED
      BY <2>4, <3>1
  <2>7. Mended(F, f[j + 1], code, c, j + 1)
    BY <2>1, <2>2, <2>3, <2>6, MendedMore
  <2> QED
    BY <2>1, <2>7 DEF S
<1>9. n \in S
  <2>1. \A j \in 0 .. n : j \in S /\ j < n => j + 1 \in S
    BY <1>8
  <2> HIDE DEF S
  <2>2. \A j \in 0 .. n : j \in S
    BY <1>6, <1>7, <2>1, Climbs
  <2> QED
    BY <1>6, <2>2
<1>10. Mended(F, H, code, c, n)
  BY <1>3, <1>9
<1> QED
  BY <1>2, <1>10 DEF code, H

LEMMA MendedFollows ==
  ASSUME NEW F, Good(F), NEW x \in DOMAIN F.code, NEW n \in Nat, Bare(F, x, n), n <= Len(F.code[x]),
         NEW c, NEW W, Follows(F, W), NEW H, Mended(F, H, F.code[x], c, n)
  PROVE  Follows(H, W \cup {<<c, x>>})
<1>1. /\ Good(H) /\ H.code = F.code /\ DOMAIN H.inst = DOMAIN F.inst
      /\ \A u \in DOMAIN F.inst : /\ H.inst[u].kind = F.inst[u].kind
                                  /\ F.inst[u].kind # "phi" => H.inst[u].refs = F.inst[u].refs
  BY DEF Mended, Retuned
<1>2. ASSUME NEW b \in DOMAIN F.code, NEW u \in PhisOf(F), Sits(F, b, u)
      PROVE  /\ Leads(H.inst[u].refs, b, W \cup {<<c, x>>})
             /\ \A y : Gives(H.inst[u].refs, y) => Gives(F.inst[u].refs, y) \/ y \in DOMAIN F.inst
  <2> DEFINE r == F.inst[u].refs
             t == H.inst[u].refs
             P == Early(F.code[x], n, u)
             X == W \cup {<<c, x>>}
  <2>1. Lengthened(r, t, c, P, DOMAIN F.inst)
    BY DEF Mended
  <2>2. Leads(r, b, W)
    BY <1>2 DEF Follows, PhisOf
  <2>3. P <=> b = x
    <3>1. u \in DOMAIN F.inst /\ F.inst[u].kind = "phi"
      BY DEF PhisOf
    <3>2. Len(F.code[x]) \in Nat
      BY CodeIs
    <3>3. ASSUME P  PROVE b = x
      <4>1. Sits(F, x, u)
        BY <3>2, <3>3 DEF Early, Sits, Names
      <4> QED
        BY <1>2, <3>1, <4>1, SitsIs
    <3>4. ASSUME b = x  PROVE P
      <4>1. PICK k \in 1 .. Len(F.code[x]) : F.code[x][k] = u
        BY <1>2, <3>4 DEF Sits, Names
      <4>2. ~(k > n)
        BY <3>1, <4>1 DEF Bare
      <4>3. k \in 1 .. n
        BY <4>2
      <4> QED
        BY <4>1, <4>3 DEF Early
    <3> QED
      BY <3>3, <3>4
  <2> HIDE DEF r, t, P
  <2>4. \A y : <<y, b>> \in X <=> <<y, b>> \in W \/ (y = c /\ b = x)
    OBVIOUS
  <2> HIDE DEF X
  <2>5. Leads(t, b, X) /\ \A y : Gives(t, y) => Gives(r, y) \/ y \in DOMAIN F.inst
    BY <2>1, <2>2, <2>3, <2>4 DEF Leads, Lengthened
  <2> QED
    BY <2>5 DEF r, t, X
<1>3. Valued(H)
  <2> SUFFICES ASSUME NEW u \in DOMAIN F.inst
               PROVE  \A k \in 1 .. Len(H.inst[u].refs) :
                        k \in Values(H.inst[u]) => H.inst[u].refs[k] \notin DOMAIN H.code
    BY <1>1 DEF Valued
  <2>1. CASE F.inst[u].kind = "phi"
    <3>1. PICK b \in DOMAIN F.code : Sits(F, b, u)
      <4>1. Parent(F, u) \in DOMAIN F.code
        BY ParentIs DEF Good
      <4> QED
        BY <4>1, SitsIs
    <3>2. \A y : Gives(H.inst[u].refs, y) => Gives(F.inst[u].refs, y) \/ y \in DOMAIN F.inst
      BY <1>2, <2>1, <3>1 DEF PhisOf
    <3>3. \A y : Gives(F.inst[u].refs, y) => y \notin DOMAIN F.code
      <4>1. \A k \in 1 .. Len(F.inst[u].refs) : k \in Values(F.inst[u]) => F.inst[u].refs[k] \notin DOMAIN F.code
        BY DEF Follows, Valued
      <4> QED
        BY <2>1, <4>1, ValuedPhi
    <3>4. DOMAIN F.inst \cap DOMAIN F.code = {}
      BY DEF Good
    <3>5. \A y : Gives(H.inst[u].refs, y) => y \notin DOMAIN H.code
      BY <1>1, <3>2, <3>3, <3>4
    <3>6. u \in DOMAIN H.inst /\ H.inst[u].kind = "phi"
      BY <1>1, <2>1
    <3> QED
      BY <1>1, <3>5, <3>6, ValuedPhi
  <2>2. CASE F.inst[u].kind # "phi"
    <3>1. H.inst[u].refs = F.inst[u].refs /\ H.inst[u].kind = F.inst[u].kind
      BY <1>1, <2>2
    <3>2. Values(H.inst[u]) = Values(F.inst[u])
      BY <3>1, ValuesSame
    <3>3. \A k \in 1 .. Len(F.inst[u].refs) : k \in Values(F.inst[u]) => F.inst[u].refs[k] \notin DOMAIN F.code
      BY DEF Follows, Valued
    <3> QED
      BY <1>1, <3>1, <3>2, <3>3
  <2> QED
    BY <2>1, <2>2
<1>4. ASSUME NEW b \in DOMAIN H.code, NEW u \in DOMAIN H.inst, H.inst[u].kind = "phi", Sits(H, b, u)
      PROVE  Leads(H.inst[u].refs, b, W \cup {<<c, x>>})
  <2>1. b \in DOMAIN F.code /\ u \in PhisOf(F) /\ Sits(F, b, u)
    BY <1>1, <1>4 DEF PhisOf, Sits
  <2> QED
    BY <1>2, <2>1
<1> QED
  BY <1>3, <1>4 DEF Follows

LEMMA RetunedFlow ==
  ASSUME NEW F, NEW H, Retuned(F, H), NEW V, Flowing(F, V)
  PROVE  Flowing(H, V)
<1>1. /\ H.code = F.code /\ DOMAIN H.inst = DOMAIN F.inst
      /\ \A u \in DOMAIN F.inst : /\ H.inst[u].kind = F.inst[u].kind
                                  /\ F.inst[u].kind # "phi" => H.inst[u].refs = F.inst[u].refs
  BY DEF Retuned
<1>2. "phi" \notin Branches
  BY DEF Branches
<1>3. \A u \in DOMAIN F.inst : F.inst[u].kind \in Branches => H.inst[u].refs = F.inst[u].refs
  BY <1>1, <1>2
<1>4. ASSUME NEW b \in DOMAIN F.code, NEW y  PROVE Comes(H, y, b) <=> Comes(F, y, b)
  <2>1. \A u : Sits(H, y, u) <=> Sits(F, y, u)
    BY <1>1 DEF Sits
  <2> QED
    BY <1>1, <1>3, <2>1 DEF Comes
<1> QED
  BY <1>1, <1>4 DEF Flowing

(* A merge: its block has the phis it asks for, and no others.             *)
LEMMA OnMerge ==
  ASSUME NEW F, Good(F), NEW G, NEW W, NEW V, On(F, G, W, V), NEW x \in DOMAIN G.code, NEW c \in DOMAIN G.code,
         NEW values \in Seq(DOMAIN G.inst), NEW types, Heads(G, x, types), Len(values) = Len(types),
         Bare(G, x, Len(types))
  PROVE  On(F, addMergeCandidates(G, x, c, values), W \cup {<<c, x>>}, V)
<1> DEFINE H == addMergeCandidates(G, x, c, values)
<1>1. Good(G) /\ Grown(F, G) /\ Follows(G, W) /\ Flowing(G, V) /\ DOMAIN F.code \subseteq DOMAIN G.code
  BY OnIs
<1>2. Mended(G, H, G.code[x], c, Len(values))
  BY <1>1, MergeMended
<1> HIDE DEF H
<1>3. Retuned(G, H)
  BY <1>2 DEF Mended
<1>4. Len(values) \in Nat /\ Len(values) <= Len(G.code[x]) /\ Bare(G, x, Len(values))
  BY LenProperties DEF Heads
<1>5. Follows(H, W \cup {<<c, x>>})
  BY <1>1, <1>2, <1>4, MendedFollows
<1>6. Flowing(H, V)
  BY <1>1, <1>3, RetunedFlow
<1>7. Grown(F, H)
  <2>1. Grown(G, H)
    BY <1>1, <1>3, RetunedGrown DEF Resting
  <2> QED
    BY <1>1, <2>1, GrownTwice
<1>8. BareKept(F, H)
  <2>1. \A d \in DOMAIN G.code : \A m \in Nat : Bare(G, d, m) => Bare(H, d, m)
    <3>1. /\ H.code = G.code
          /\ \A u \in DOMAIN G.inst : H.inst[u].kind = G.inst[u].kind
      BY <1>3 DEF Retuned
    <3>2. \A d \in DOMAIN G.code : \A k \in 1 .. Len(G.code[d]) : G.code[d][k] \in DOMAIN G.inst
      BY <1>1, CodeIs
    <3> QED
      BY <3>1, <3>2 DEF Bare
  <2>2. \A d \in DOMAIN F.code : \A m \in Nat : Bare(F, d, m) => Bare(G, d, m)
    BY OnIs
  <2> QED
    BY <1>1, <2>1, <2>2 DEF BareKept
<1> QED
  BY <1>5, <1>6, <1>7, <1>8 DEF On, H

(* A phi of a loop, with the candidate that it starts with.                *)
LEMMA OnLoopPhi ==
  ASSUME NEW F, Good(F), NEW G, NEW W, NEW V, On(F, G, W, V), NEW b \in DOMAIN G.code, b \notin DOMAIN F.code,
         NEW c \in DOMAIN G.code, \A x : <<x, b>> \in W <=> x = c, NEW type, NEW v \in DOMAIN G.inst
  PROVE  LET H == addCandidate(BuildInst(G, b, "phi", type, <<>>), G.next, v, c) IN
         On(F, H, W, V) /\ Grown(G, H)
<1> DEFINE e == <<>>
           r == <<v, c>>
           n == G.next
           I == Made("phi", type, e)
           B == BuildInst(G, b, "phi", type, e)
           H == addCandidate(B, n, v, c)
<1>1. Good(G) /\ Grown(F, G)
  BY OnIs
<1>2. Len(e) = 0 /\ (\A X : e \in Seq(X)) /\ e \o r = r
  OBVIOUS
<1>3. I.kind = "phi" /\ I.refs = e /\ "phi" \notin Branches /\ "phi" # "cond"
  BY DEF Made, Branches
<1>4. Len(r) = 2 /\ 1 .. 2 = {1, 2} /\ r[1] = v /\ r[2] = c /\ DOMAIN r = 1 .. Len(r)
  OBVIOUS
<1> HIDE DEF e, r, I
<1>5. InstBuilt(G, B, b, I)
  <2>1. Buildable(G, b, I)
    BY <1>2, <1>3 DEF Buildable, Aims
  <2> QED
    BY <1>1, <2>1, BuiltInst DEF I
<1>6. TakesOn(G, B, b, n, I.kind, I.refs) /\ Grown(G, B)
  BY <1>1, <1>5, BuiltAdds
<1>7. /\ Good(B) /\ n \in DOMAIN B.inst /\ B.inst[n].kind = "phi" /\ B.inst[n].refs = e
      /\ DOMAIN B.inst = DOMAIN G.inst \cup {n} /\ DOMAIN B.code = DOMAIN G.code
  BY <1>3, <1>6 DEF TakesOn
<1> HIDE DEF B
<1>8. RefsSet(B, H, n, r)
  <2>1. v \in DOMAIN B.uses \cup {Nil} /\ c \in DOMAIN B.uses \cup {Nil}
    <3>1. DOMAIN B.inst \subseteq DOMAIN B.uses /\ DOMAIN B.code \subseteq DOMAIN B.uses
      BY <1>7, GoodRefs DEF Good
    <3> QED
      BY <1>7, <3>1
  <2>2. RefsSet(B, addCandidate(B, n, v, c), n, B.inst[n].refs \o <<v, c>>)
    BY <1>7, <2>1, CandidateAdded
  <2> QED
    BY <1>2, <1>7, <2>2 DEF r
<1> HIDE DEF H
<1>9. Grown(G, H)
  <2>1. Retuned(B, H)
    BY <1>7, <1>8, RetunedSelf, RetunedSet
  <2>2. Grown(B, H)
    BY <1>7, <2>1, RetunedGrown DEF Resting
  <2> QED
    BY <1>1, <1>6, <2>2, GrownTwice
<1>10. TakesOn(G, H, b, n, "phi", r)
  <2>1. Good(H) /\ H.code = B.code /\ H.inst = Rewired(B.inst, n, r) /\ Tagged(B.inst) /\ Tagged(H.inst)
    BY <1>7, <1>8, GoodRefs DEF RefsSet
  <2>2. /\ DOMAIN H.inst = DOMAIN B.inst
        /\ \A u \in DOMAIN B.inst : /\ H.inst[u].kind = B.inst[u].kind /\ H.inst[u].type = B.inst[u].type
                                    /\ H.inst[u].refs = IF u = n THEN r ELSE B.inst[u].refs
    <3> DEFINE m == B.inst
               a == Rewired(m, n, r)
    <3>0. Tagged(m) /\ n \in DOMAIN m
      BY <1>7, <2>1
    <3> HIDE DEF m, n
    <3>1. /\ DOMAIN a = DOMAIN m
          /\ \A u \in DOMAIN m : /\ a[u].kind = m[u].kind /\ a[u].type = m[u].type
                                 /\ a[u].refs = IF u = n THEN r ELSE m[u].refs
      BY <3>0, RewiredIs
    <3> QED
      BY <2>1, <3>1 DEF m
  <2>3. n \notin DOMAIN G.inst /\ \A u \in DOMAIN G.inst : B.inst[u] = G.inst[u] /\ u \in DOMAIN B.inst /\ u # n
    BY <1>6 DEF TakesOn
  <2>4. \A u \in DOMAIN G.inst : H.inst[u] = B.inst[u]
    <3> TAKE u \in DOMAIN G.inst
    <3>1. /\ H.inst[u].kind = B.inst[u].kind /\ H.inst[u].type = B.inst[u].type
          /\ H.inst[u].refs = B.inst[u].refs /\ u \in DOMAIN H.inst /\ u \in DOMAIN B.inst
      BY <2>2, <2>3
    <3>2. /\ H.inst[u] = Made(H.inst[u].kind, H.inst[u].type, H.inst[u].refs)
          /\ B.inst[u] = Made(B.inst[u].kind, B.inst[u].type, B.inst[u].refs)
      BY <2>1, <3>1 DEF Tagged, Made
    <3> QED
      BY <3>1, <3>2
  <2>5. H.inst[n].kind = "phi" /\ H.inst[n].refs = r
    BY <1>7, <2>2
  <2> QED
    BY <1>6, <1>7, <2>1, <2>2, <2>3, <2>4, <2>5 DEF TakesOn
<1>11. Fitting(G, b, "phi", r, W)
  <2>1. Values(Made("phi", Void, r)) \cap {1, 2} = {1}
    <3>1. Made("phi", Void, r).kind = "phi" /\ Made("phi", Void, r).refs = r
      BY DEF Made
    <3>2. 1 % 2 = 1 /\ 2 % 2 = 0
      OBVIOUS
    <3> QED
      BY <1>4, <3>1, <3>2 DEF Values
  <2>2. v \notin DOMAIN G.code
    BY <1>1 DEF Good
  <2>3. \A x : Through(r, x) <=> x = c
    <3>1. 1 % 2 = 1 /\ 2 % 2 = 0
      OBVIOUS
    <3> QED
      BY <1>4, <3>1 DEF Through
  <2>4. 2 % 2 = 0
    OBVIOUS
  <2>5. \A k \in 1 .. Len(r) : k \in Values(Made("phi", Void, r)) => r[k] \notin DOMAIN G.code
    BY <1>4, <2>1, <2>2
  <2> QED
    BY <1>4, <2>3, <2>4, <2>5 DEF Fitting, Leads
<1>12. Targeting(G, "phi", r, {})
  BY <1>3 DEF Targeting
<1>13. On(F, H, W, V \cup Arrows(b, {}))
  <2>1. Grown(F, H)
    BY <1>1, <1>9, GrownTwice
  <2> QED
    BY <1>4, <1>10, <1>11, <1>12, <2>1, OnAdds
<1>14. V \cup Arrows(b, {}) = V
  BY DEF Arrows
<1> QED
  BY <1>9, <1>13, <1>14 DEF H, B, e

LEMMA OnLoop ==
  ASSUME NEW F, Good(F), NEW G, NEW W, NEW V, On(F, G, W, V), NEW b \in DOMAIN G.code, b \notin DOMAIN F.code,
         G.code[b] = <<>>, NEW c \in DOMAIN G.code, \A x : <<x, b>> \in W <=> x = c,
         NEW results, Len(results) \in Nat, NEW values \in Seq(DOMAIN G.inst)
  PROVE  LET H == MergePhis(G, b, c, results, values) IN
         On(F, H, W, V) /\ Bare(H, b, Smaller(Len(results), Len(values)))
<1> DEFINE n == Smaller(Len(results), Len(values))
           H == MergePhis(G, b, c, results, values)
<1>1. n \in Nat /\ n <= Len(values) /\ Len(values) \in Nat
  BY LenProperties DEF Smaller
<1>2. PICK f : /\ f[0] = G /\ H = f[n]
               /\ \A j \in 1 .. n : f[j] = BindsStep(G, b, c, results, values, f[j - 1], j)
  BY <1>1, BindsUnfold
<1>3. Good(G)
  BY OnIs
<1> DEFINE S == {j \in 0 .. n : On(F, f[j], W, V) /\ Grown(G, f[j])}
<1> HIDE DEF n, H
<1>4. 0 \in S
  <2>1. Grown(G, G)
    BY <1>3, GrownSelf
  <2> QED
    BY <1>1, <1>2, <2>1
<1>5. ASSUME NEW j \in 0 .. n, j \in S, j < n  PROVE j + 1 \in S
  <2> DEFINE K == f[j]
             v == values[j + 1]
             t == results[j + 1]
  <2>1. j + 1 \in 1 .. n /\ j + 1 \in 0 .. n /\ (j + 1) - 1 = j
    BY <1>1, <1>5
  <2>2. f[j + 1] = addCandidate(BuildInst(K, b, "phi", t, <<>>), K.next, v, c)
    BY <1>2, <2>1 DEF BindsStep
  <2>3. On(F, K, W, V) /\ Grown(G, K)
    BY <1>5
  <2>4. v \in DOMAIN G.inst
    <3>1. j + 1 \in 1 .. Len(values)
      BY <1>1, <2>1
    <3> QED
      BY <3>1, ElementOfSeq
  <2> HIDE DEF K, v, t, S
  <2>5. b \in DOMAIN K.code /\ c \in DOMAIN K.code /\ v \in DOMAIN K.inst
    BY <2>3, <2>4 DEF Grown
  <2>6. LET L == addCandidate(BuildInst(K, b, "phi", t, <<>>), K.next, v, c) IN
        On(F, L, W, V) /\ Grown(K, L)
    BY <2>3, <2>5, OnLoopPhi
  <2>7. Grown(G, f[j + 1]) /\ On(F, f[j + 1], W, V)
    BY <1>3, <2>2, <2>3, <2>6, GrownTwice
  <2> QED
    BY <2>1, <2>7 DEF S
<1>6. n \in S
  <2>1. \A j \in 0 .. n : j \in S /\ j < n => j + 1 \in S
    BY <1>5
  <2> HIDE DEF S
  <2>2. \A j \in 0 .. n : j \in S
    BY <1>1, <1>4, <2>1, Climbs
  <2> QED
    BY <1>1, <2>2
<1>7. Bare(H, b, n)
  <2>1. PhisPut(G, H, b, results, n)
    BY <1>3, PhisMerged DEF n, H
  <2>2. Len(H.code[b]) = n
    BY <2>1 DEF PhisPut
  <2> QED
    BY <1>1, <2>2 DEF Bare
<1> QED
  BY <1>2, <1>6, <1>7 DEF n, H

-----------------------------------------------------------------------------
(* The visitors' merge blocks stay as bare as they were.                   *)
LEMMA BaresPushed ==
  ASSUME NEW F, NEW s \in Seq(Visitors), NEW t \in Visitors
  PROVE  Bares(F, Append(s, t)) <=> Bares(F, s) /\ BoundedAll(F, t)
<1> DEFINE a == Append(s, t)
           n == Len(s)
<1>1. /\ n \in Nat /\ DOMAIN s = 1 .. n /\ DOMAIN a = 1 .. n + 1
      /\ a[n + 1] = t /\ \A k \in 1 .. n : a[k] = s[k]
  BY PushedIs
<1> HIDE DEF a, n
<1>2. \A k : k \in 1 .. n + 1 <=> k \in 1 .. n \/ k = n + 1
  BY <1>1
<1>3. (\A k \in DOMAIN a : BoundedAll(F, a[k])) <=> (\A k \in DOMAIN s : BoundedAll(F, s[k])) /\ BoundedAll(F, t)
  BY <1>1, <1>2
<1> QED
  BY <1>3 DEF Bares, a

LEMMA BoundedOnly ==
  ASSUME NEW F, NEW v, v.alt = <<>>, Bounded(F, v)
  PROVE  BoundedAll(F, v)
<1>1. DOMAIN v.alt = {}
  OBVIOUS
<1> QED
  BY <1>1 DEF BoundedAll

LEMMA BaresLeft ==
  ASSUME NEW F, NEW s \in Seq(Visitors), NEW t \in Visitors, Alone(t), Bares(F, Append(s, t))
  PROVE  Bares(F, Left(s, t))
<1>1. Bares(F, s) /\ BoundedAll(F, t) /\ t.alt \in Seq(Bodies)
  BY BaresPushed, VisitorIs
<1>2. CASE t.alt = <<>>
  BY <1>1, <1>2 DEF Left
<1>3. CASE t.alt # <<>>
  <2> DEFINE x == t.alt
             a == Head(x)
  <2>1. Len(x) \in Nat /\ Len(x) # 0 /\ DOMAIN x = 1 .. Len(x)
    BY <1>1, <1>3, LenProperties, EmptySeq
  <2>2. 1 \in 1 .. Len(x) /\ a = x[1]
    BY <2>1
  <2>3. a \in Bodies
    BY <1>1, <2>2, ElementOfSeq
  <2>4. Bounded(F, a)
    BY <1>1, <2>1, <2>2 DEF BoundedAll
  <2>5. Left(s, t) = Append(s, a)
    BY <1>3 DEF Left
  <2> HIDE DEF a
  <2>6. a \in Visitors /\ BoundedAll(F, a)
    BY <2>3, <2>4, BodiesVisit, BoundedOnly
  <2> QED
    BY <1>1, <2>5, <2>6, BaresPushed
<1> QED
  BY <1>2, <1>3

(* The same labels and places to go to.                                    *)
Still(v, w) ==
  /\ w.label = v.label /\ w.labelTypes = v.labelTypes /\ w.to = v.to /\ w.results = v.results
  /\ w.alt = v.alt

LEMMA StillBounded ==
  ASSUME NEW F, NEW v, NEW w, Still(v, w), BoundedAll(F, v)
  PROVE  BoundedAll(F, w)
BY DEF Still, BoundedAll, Bounded

LEMMA RevaluedStill ==
  ASSUME NEW v \in Visitors, NEW vs, NEW ts
  PROVE  Still(v, Revalued(v, vs, ts))
<1> DEFINE c == v.cur
           b == v.before
           x == v.values
           t == v.types
           l == v.label
           m == v.labelTypes
           o == v.to
           r == v.results
           a == v.alt
           w == Nine(c, b, vs, ts, l, m, o, r, a)
<1>1. v = Nine(c, b, x, t, l, m, o, r, a)
  BY VisitorIs
<1>2. w.label = l /\ w.labelTypes = m /\ w.to = o /\ w.results = r /\ w.alt = a
  BY DEF Nine
<1> HIDE DEF c, b, x, t, l, m, o, r, a
<1>3. [v EXCEPT !.values = vs] = Nine(c, b, vs, t, l, m, o, r, a)
  BY <1>1, SMTT(30) DEF Nine
<1>4. [Nine(c, b, vs, t, l, m, o, r, a) EXCEPT !.types = ts] = w
  BY DEF Nine
<1>5. Revalued(v, vs, ts) = w
  BY <1>3, <1>4 DEF Revalued
<1> QED
  BY <1>2, <1>5 DEF Still, l, m, o, r, a

LEMMA RecurredStill ==
  ASSUME NEW v \in Visitors, NEW n, NEW vs, NEW ts
  PROVE  Still(v, Recurred(v, n, vs, ts))
<1> DEFINE c == v.cur
           b == v.before
           x == v.values
           t == v.types
           l == v.label
           m == v.labelTypes
           o == v.to
           r == v.results
           a == v.alt
           w == Nine(n, b, vs, ts, l, m, o, r, a)
<1>1. v = Nine(c, b, x, t, l, m, o, r, a)
  BY VisitorIs
<1>2. w.label = l /\ w.labelTypes = m /\ w.to = o /\ w.results = r /\ w.alt = a
  BY DEF Nine
<1> HIDE DEF c, b, x, t, l, m, o, r, a
<1>3. [v EXCEPT !.cur = n] = Nine(n, b, x, t, l, m, o, r, a)
  BY <1>1, SMTT(30) DEF Nine
<1>4. [Nine(n, b, x, t, l, m, o, r, a) EXCEPT !.values = vs] = Nine(n, b, vs, t, l, m, o, r, a)
  BY DEF Nine
<1>5. [Nine(n, b, vs, t, l, m, o, r, a) EXCEPT !.types = ts] = w
  BY DEF Nine
<1>6. Recurred(v, n, vs, ts) = w
  BY <1>3, <1>4, <1>5 DEF Recurred
<1> QED
  BY <1>2, <1>6 DEF Still, l, m, o, r, a

LEMMA BodyBounded ==
  ASSUME NEW F, NEW c, NEW b, NEW vs, NEW ts, NEW l, NEW m, NEW o, NEW r,
         Bare(F, l, Len(m)), Bare(F, o, Len(r))
  PROVE  BoundedAll(F, Body(c, b, vs, ts, l, m, o, r))
<1> DEFINE w == Body(c, b, vs, ts, l, m, o, r)
<1>1. w.label = l /\ w.labelTypes = m /\ w.to = o /\ w.results = r /\ w.alt = <<>>
  BY DEF Body
<1> HIDE DEF w
<1>2. Bounded(F, w)
  BY <1>1 DEF Bounded
<1>3. BoundedAll(F, w)
  BY <1>1, <1>2, BoundedOnly
<1> QED
  BY <1>3 DEF w

LEMMA BaresKept ==
  ASSUME NEW F, NEW s, Stacked(F, s), Bares(F, s), NEW G, BareKept(F, G)
  PROVE  Bares(G, s)
<1>1. ASSUME NEW v, Fit(F, v), v.labelTypes \in Seq(Types), v.results \in Seq(Types), Bounded(F, v)
      PROVE  Bounded(G, v)
  <2>1. Len(v.labelTypes) \in Nat /\ Len(v.results) \in Nat /\ v.label \in DOMAIN F.code /\ v.to \in DOMAIN F.code
    BY <1>1, LenProperties DEF Fit
  <2> QED
    BY <1>1, <2>1 DEF Bounded, BareKept
<1>2. ASSUME NEW k \in DOMAIN s  PROVE BoundedAll(G, s[k])
  <2> DEFINE v == s[k]
  <2>1. v \in Visitors /\ Ready(F, v) /\ BoundedAll(F, v)
    <3>1. s \in Seq(Visitors)
      BY DEF Stacked
    <3>2. v \in Visitors
      BY <3>1, LenProperties, ElementOfSeq
    <3> QED
      BY <3>2 DEF Stacked, Bares
  <2> HIDE DEF v
  <2>2. v.labelTypes \in Seq(Types) /\ v.results \in Seq(Types) /\ v.alt \in Seq(Bodies)
    BY <2>1, VisitorIs
  <2>3. Bounded(G, v)
    BY <1>1, <2>1, <2>2 DEF Ready, BoundedAll
  <2>4. ASSUME NEW j \in DOMAIN v.alt  PROVE Bounded(G, v.alt[j])
    <3> DEFINE a == v.alt[j]
    <3>1. a \in Bodies
      BY <2>2, LenProperties, ElementOfSeq
    <3>2. Fit(F, a) /\ Bounded(F, a)
      BY <2>1 DEF Ready, BoundedAll
    <3> HIDE DEF a
    <3>3. a.labelTypes \in Seq(Types) /\ a.results \in Seq(Types)
      BY <3>1, BodiesVisit, VisitorIs
    <3>4. Bounded(G, a)
      BY <1>1, <3>2, <3>3
    <3> QED
      BY <3>4 DEF a
  <2> QED
    BY <2>3, <2>4 DEF BoundedAll, v
<1> QED
  BY <1>2 DEF Bares

(* The flow after a step, whose phis and branches agree again.             *)
LEMMA FlowsOn ==
  ASSUME NEW F, NEW s, NEW t, NEW results, Face(F, s, t, results), Flows(F, Append(s, t), results),
         NEW G, NEW V, On(F, G, V, V)
  PROVE  /\ Valued(G) /\ Matched(G) /\ Bare(G, Exit, Len(results))
         /\ Bares(G, Append(s, t)) /\ Bares(G, s) /\ BoundedAll(G, t)
<1>1. /\ s \in Seq(Visitors) /\ t \in Visitors /\ results \in Seq(Types) /\ Exit \in DOMAIN F.code
      /\ Stacked(F, Append(s, t)) /\ Good(F)
  BY FaceIs
<1>2. Follows(G, V) /\ Flowing(G, V) /\ BareKept(F, G)
  BY OnIs
<1>3. Valued(G) /\ Matched(G)
  BY <1>2, FlowMatches
<1>4. Bare(G, Exit, Len(results))
  <2>1. Len(results) \in Nat /\ Bare(F, Exit, Len(results))
    BY <1>1, LenProperties DEF Flows
  <2> QED
    BY <1>1, <1>2, <2>1 DEF BareKept
<1>5. Bares(G, Append(s, t))
  <2>1. Bares(F, Append(s, t))
    BY DEF Flows
  <2> QED
    BY <1>1, <1>2, <2>1, BaresKept
<1> QED
  BY <1>1, <1>3, <1>4, <1>5, BaresPushed

LEMMA FlowsOver ==
  ASSUME NEW F, NEW s, NEW t, NEW results, Face(F, s, t, results), Flows(F, Append(s, t), results),
         NEW G, NEW V, On(F, G, V, V)
  PROVE  Flows(G, Left(s, t), results)
<1>1. s \in Seq(Visitors) /\ t \in Visitors /\ Stacked(F, Append(s, t))
  BY FaceIs
<1>2. Alone(t)
  BY <1>1, StackedPushed
<1>3. Valued(G) /\ Matched(G) /\ Bare(G, Exit, Len(results)) /\ Bares(G, Append(s, t))
  BY FlowsOn
<1>4. Bares(G, Left(s, t))
  BY <1>1, <1>2, <1>3, BaresLeft
<1> QED
  BY <1>3, <1>4 DEF Flows

LEMMA FlowsSettled ==
  ASSUME NEW F, NEW s, NEW t, NEW results, Face(F, s, t, results), Flows(F, Append(s, t), results),
         NEW G, NEW V, On(F, G, V, V), NEW w \in Visitors, Still(t, w)
  PROVE  Flows(G, Append(s, w), results)
<1>1. s \in Seq(Visitors)
  BY FaceIs
<1>2. Valued(G) /\ Matched(G) /\ Bare(G, Exit, Len(results)) /\ Bares(G, s) /\ BoundedAll(G, t)
  BY FlowsOn
<1>3. Bares(G, Append(s, w))
  BY <1>1, <1>2, StillBounded, BaresPushed
<1> QED
  BY <1>2, <1>3 DEF Flows

LEMMA FlowsNested ==
  ASSUME NEW F, NEW s, NEW t, NEW results, Face(F, s, t, results), Flows(F, Append(s, t), results),
         NEW G, NEW V, On(F, G, V, V), NEW w \in Visitors, Still(t, w), NEW b \in Visitors, BoundedAll(G, b)
  PROVE  Flows(G, s \o <<w, b>>, results)
<1> DEFINE a == Append(s, w)
<1>1. s \in Seq(Visitors)
  BY FaceIs
<1>2. a \in Seq(Visitors) /\ s \o <<w, b>> = Append(a, b)
  BY <1>1, AppendProperties
<1>3. Flows(G, a, results)
  BY FlowsSettled
<1> HIDE DEF a
<1>4. Bares(G, Append(a, b))
  BY <1>2, <1>3, BaresPushed DEF Flows
<1> QED
  BY <1>2, <1>3, <1>4 DEF Flows

-----------------------------------------------------------------------------
(* What the flow lemmas start from.                                        *)
Faced(F, s, t, results) == Face(F, s, t, results) /\ Flows(F, Append(s, t), results) /\ LoopsMerge

(* A merge block that expects these types, and has no further phis.        *)
Receives(F, x, types) == Expects(F, x, types) /\ Bare(F, x, Len(types))

LEMMA FacedIs ==
  ASSUME NEW F, NEW s, NEW t, NEW results, Faced(F, s, t, results)
  PROVE  /\ Face(F, s, t, results) /\ Flows(F, Append(s, t), results) /\ LoopsMerge
         /\ Good(F) /\ t.cur \in DOMAIN F.code /\ t.before \in DOMAIN F.code
         /\ t.values \in Seq(DOMAIN F.inst) /\ t \in Visitors /\ s \in Seq(Visitors)
         /\ On(F, F, Edges(F), Edges(F))
         /\ \A z, d : <<z, d>> \in Edges(F) => d \in DOMAIN F.code
<1>1. Face(F, s, t, results) /\ Flows(F, Append(s, t), results) /\ LoopsMerge
  BY DEF Faced
<1>2. /\ Good(F) /\ t.cur \in DOMAIN F.code /\ t.before \in DOMAIN F.code
      /\ t.values \in Seq(DOMAIN F.inst) /\ t \in Visitors /\ s \in Seq(Visitors)
  BY <1>1, FaceIs
<1>3. Valued(F) /\ Matched(F)
  BY <1>1 DEF Flows
<1>4. Follows(F, Edges(F)) /\ Flowing(F, Edges(F))
  BY <1>3, EdgesAre
<1>5. On(F, F, Edges(F), Edges(F))
  BY <1>2, <1>4, OnSelf
<1>6. \A z, d : <<z, d>> \in Edges(F) => d \in DOMAIN F.code
  <2> DEFINE B == DOMAIN F.code
             E == Edges(F)
  <2>1. E \subseteq B \X B
    BY <1>4 DEF Flowing
  <2> HIDE DEF B, E
  <2>2. \A z, d : <<z, d>> \in E => d \in B
    BY <2>1
  <2> QED
    BY <2>2 DEF B, E
<1> QED
  BY <1>1, <1>2, <1>5, <1>6

(* The merge of a block that was there before the step.                    *)
LEMMA MergedOn ==
  ASSUME NEW F, Good(F), LoopsMerge, NEW G, NEW W, NEW V, On(F, G, W, V), NEW x, NEW types, Receives(F, x, types),
         NEW c \in DOMAIN F.code, NEW values \in Seq(DOMAIN F.inst), Len(values) = Len(types)
  PROVE  LET H == addMergeCandidates(G, x, c, values) IN
         On(F, H, W \cup {<<c, x>>}, V) /\ Resting(G, H)
<1> DEFINE H == addMergeCandidates(G, x, c, values)
<1>1. /\ Good(G) /\ Grown(F, G) /\ DOMAIN F.code \subseteq DOMAIN G.code /\ DOMAIN F.inst \subseteq DOMAIN G.inst
      /\ \A b \in DOMAIN F.code : \A n \in Nat : Bare(F, b, n) => Bare(G, b, n)
  BY OnIs
<1>2. Expects(F, x, types) /\ Bare(F, x, Len(types)) /\ x \in DOMAIN F.code /\ Len(types) \in Nat
  BY LenProperties DEF Receives, Expects
<1>3. Expects(G, x, types) /\ Bare(G, x, Len(types))
  BY <1>1, <1>2, ExpectsGrown
<1>4. values \in Seq(DOMAIN G.inst) /\ c \in DOMAIN G.code /\ x \in DOMAIN G.code /\ Heads(G, x, types)
  BY <1>1, <1>3, SeqMonotonic DEF Expects
<1>5. On(F, H, W \cup {<<c, x>>}, V)
  BY <1>3, <1>4, OnMerge
<1>6. Resting(G, H)
  BY <1>1, <1>3, <1>4, MergeRests
<1> QED
  BY <1>5, <1>6

LEMMA PlacesReceive ==
  ASSUME NEW F, NEW s, NEW t, NEW results, Faced(F, s, t, results)
  PROVE  /\ \A k \in DOMAIN Append(s, t) :
              Receives(F, Append(s, t)[k].label, Append(s, t)[k].labelTypes)
         /\ Receives(F, t.to, t.results) /\ Receives(F, Exit, results)
<1> DEFINE a == Append(s, t)
<1>1. Face(F, s, t, results) /\ Flows(F, a, results) /\ s \in Seq(Visitors) /\ t \in Visitors
  BY FacedIs
<1>2. BoundedAll(F, t) /\ Bares(F, a) /\ Bare(F, Exit, Len(results))
  BY <1>1, BaresPushed DEF Flows
<1>3. /\ \A k \in DOMAIN a : Expects(F, a[k].label, a[k].labelTypes)
      /\ Expects(F, t.to, t.results) /\ Expects(F, Exit, results)
  BY <1>1, LabelExpects
<1> HIDE DEF a
<1>4. \A k \in DOMAIN a : Bare(F, a[k].label, Len(a[k].labelTypes))
  BY <1>2 DEF Bares, BoundedAll, Bounded
<1>5. Bare(F, t.to, Len(t.results))
  BY <1>2 DEF BoundedAll, Bounded
<1> QED
  BY <1>2, <1>3, <1>4, <1>5 DEF Receives, a

(* The visitors that a step leaves.                                        *)
LEMMA StackedAre ==
  ASSUME NEW G, NEW s \in Seq(Visitors), NEW results
  PROVE  /\ \A w : Working(G, Append(s, w), results) => w \in Visitors
         /\ \A w, b : Working(G, s \o <<w, b>>, results) => w \in Visitors /\ b \in Visitors
<1>1. s \in Seq(Visitors) /\ Len(s) \in Nat
  BY LenProperties
<1>2. ASSUME NEW w, Append(s, w) \in Seq(Visitors)  PROVE w \in Visitors
  <2> DEFINE a == Append(s, w)
             n == Len(s) + 1
  <2>1. Len(a) = n /\ a[n] = w /\ n \in 1 .. n
    BY <1>1
  <2> HIDE DEF a, n
  <2>2. a \in Seq(Visitors)
    BY <1>2 DEF a
  <2>3. a[n] \in Visitors
    BY <2>1, <2>2, ElementOfSeq
  <2> QED
    BY <2>1, <2>3
<1>3. ASSUME NEW w, NEW b, s \o <<w, b>> \in Seq(Visitors)  PROVE w \in Visitors /\ b \in Visitors
  <2> DEFINE a == s \o <<w, b>>
             n == Len(s) + 1
             m == Len(s) + 2
  <2>1. Len(a) = m /\ a[n] = w /\ a[m] = b /\ n \in 1 .. m /\ m \in 1 .. m
    BY <1>1
  <2> HIDE DEF a, n, m
  <2>2. a \in Seq(Visitors)
    BY <1>3 DEF a
  <2>3. a[n] \in Visitors /\ a[m] \in Visitors
    BY <2>1, <2>2, ElementOfSeq
  <2> QED
    BY <2>1, <2>3
<1> QED
  BY <1>2, <1>3 DEF Working, Stacked

-----------------------------------------------------------------------------
(* The flow after each step.                                               *)
LEMMA BrFlow ==
  ASSUME NEW F, NEW s, NEW t, NEW results, Faced(F, s, t, results),
         NEW x, NEW types, Receives(F, x, types), Enough(t, Len(types))
  PROVE  Flows(BuildInst(addMergeCandidates(F, x, t.cur, peek(t.values, Len(types))),
                         t.cur, "br", Void, <<x>>), Left(s, t), results)
<1> DEFINE vs == peek(t.values, Len(types))
           c == t.cur
           M == addMergeCandidates(F, x, c, vs)
           G == BuildInst(M, c, "br", Void, <<x>>)
           E == Edges(F)
           A == {<<c, x>>}
<1>1. /\ Good(F) /\ c \in DOMAIN F.code /\ t.values \in Seq(DOMAIN F.inst) /\ LoopsMerge /\ On(F, F, E, E)
      /\ Face(F, s, t, results) /\ Flows(F, Append(s, t), results)
  BY FacedIs
<1>2. vs \in Seq(DOMAIN F.inst) /\ Len(vs) = Len(types)
  BY <1>1, Peeked DEF Enough
<1> HIDE DEF vs, c, E
<1>3. On(F, M, E \cup A, E) /\ Resting(F, M)
  BY <1>1, <1>2, MergedOn
<1> HIDE DEF M
<1>4. x \in DOMAIN M.code /\ c \in DOMAIN M.code
  BY <1>1, <1>3 DEF Resting, Receives, Expects
<1>5. On(F, G, E \cup A, E \cup A)
  BY <1>1, <1>3, <1>4, OnBranch
<1> HIDE DEF G, A
<1>6. Flows(G, Left(s, t), results)
  BY <1>1, <1>5, FlowsOver
<1> QED
  BY <1>6 DEF G, M, vs, c

LEMMA HandOverFlow ==
  ASSUME NEW F, NEW s, NEW t, NEW results, Faced(F, s, t, results),
         NEW x, NEW types, Receives(F, x, types), Len(types) \in Nat, Len(types) <= Len(t.values)
  PROVE  Flows(addMergeCandidates(BuildInst(F, t.cur, "br", Void, <<x>>), x, t.cur,
                                  peek(t.values, Len(types))), Left(s, t), results)
<1> DEFINE vs == peek(t.values, Len(types))
           c == t.cur
           M == BuildInst(F, c, "br", Void, <<x>>)
           G == addMergeCandidates(M, x, c, vs)
           E == Edges(F)
           A == {<<c, x>>}
<1>1. /\ Good(F) /\ c \in DOMAIN F.code /\ t.values \in Seq(DOMAIN F.inst) /\ LoopsMerge /\ On(F, F, E, E)
      /\ Face(F, s, t, results) /\ Flows(F, Append(s, t), results)
  BY FacedIs
<1>2. vs \in Seq(DOMAIN F.inst) /\ Len(vs) = Len(types)
  BY <1>1, Peeked
<1> HIDE DEF vs, c, E
<1>3. x \in DOMAIN F.code
  BY DEF Receives, Expects
<1>4. On(F, M, E, E \cup A)
  BY <1>1, <1>3, OnBranch
<1> HIDE DEF M
<1>5. On(F, G, E \cup A, E \cup A)
  BY <1>1, <1>2, <1>4, MergedOn
<1> HIDE DEF G, A
<1>6. Flows(G, Left(s, t), results)
  BY <1>1, <1>5, FlowsOver
<1> QED
  BY <1>6 DEF G, M, vs, c

(* What a branch with a condition hands over.                              *)
LEMMA Beneath ==
  ASSUME NEW X, NEW u \in Seq(X), NEW t, t.values = u, NEW types \in Seq(Types), Enough(t, Len(types) + 1)
  PROVE  LET vs == peek(pop(u, 1), Len(types)) IN
         vs \in Seq(X) /\ Len(vs) = Len(types) /\ Last(u) \in X
<1> DEFINE n == Len(types)
           p == pop(u, 1)
<1>1. n \in Nat /\ n + 1 <= Len(u) /\ Len(u) \in Nat
  BY LenProperties DEF Enough
<1> HIDE DEF n
<1>2. 1 \in Nat /\ 1 <= Len(u) /\ Len(u) # 0
  BY <1>1
<1>3. u # <<>>
  BY <1>2, EmptySeq
<1>4. p \in Seq(X) /\ Len(p) = Len(u) - 1
  BY <1>2, Peeked
<1> HIDE DEF p
<1>5. n <= Len(p)
  BY <1>1, <1>4
<1>6. peek(p, n) \in Seq(X) /\ Len(peek(p, n)) = n
  <2>1. p \in Seq(X) /\ n \in Nat /\ n <= Len(p)
    BY <1>1, <1>4, <1>5
  <2> QED
    BY <2>1, Peeked
<1>7. Last(u) \in X
  BY <1>3, Topped
<1> QED
  BY <1>6, <1>7 DEF n, p

LEMMA TableFlow ==
  ASSUME NEW F, NEW s, NEW t, NEW results, Faced(F, s, t, results),
         NEW x, NEW y, NEW types, Receives(F, x, types), Receives(F, y, types), Enough(t, Len(types) + 1)
  PROVE  LET vs == peek(pop(t.values, 1), Len(types)) IN
         Flows(BuildInst(addMergeCandidates(addMergeCandidates(F, x, t.cur, vs), y, t.cur, vs),
                         t.cur, "switch", Void, <<Last(t.values), x, y>>), Left(s, t), results)
<1> DEFINE vs == peek(pop(t.values, 1), Len(types))
           c == t.cur
           M == addMergeCandidates(F, x, c, vs)
           N == addMergeCandidates(M, y, c, vs)
           v == Last(t.values)
           G == BuildInst(N, c, "switch", Void, <<v, x, y>>)
           E == Edges(F)
           W == (E \cup {<<c, x>>}) \cup {<<c, y>>}
           V == E \cup {<<c, x>>, <<c, y>>}
<1>1. /\ Good(F) /\ c \in DOMAIN F.code /\ t.values \in Seq(DOMAIN F.inst) /\ LoopsMerge /\ On(F, F, E, E)
      /\ Face(F, s, t, results) /\ Flows(F, Append(s, t), results)
  BY FacedIs
<1>2. x \in DOMAIN F.code /\ y \in DOMAIN F.code /\ types \in Seq(Types)
  BY DEF Receives, Expects
<1>3. vs \in Seq(DOMAIN F.inst) /\ Len(vs) = Len(types) /\ v \in DOMAIN F.inst
  BY <1>1, <1>2, Beneath
<1> HIDE DEF vs, c, v, E
<1>4. On(F, M, E \cup {<<c, x>>}, E) /\ Resting(F, M)
  BY <1>1, <1>3, MergedOn
<1> HIDE DEF M
<1>5. On(F, N, W, E) /\ Resting(M, N)
  BY <1>1, <1>3, <1>4, MergedOn
<1> HIDE DEF N
<1>6. x \in DOMAIN N.code /\ y \in DOMAIN N.code /\ c \in DOMAIN N.code /\ v \in DOMAIN N.inst
  BY <1>1, <1>2, <1>3, <1>4, <1>5 DEF Resting
<1>7. On(F, G, W, V)
  BY <1>1, <1>5, <1>6, OnChoice
<1>8. W = V
  OBVIOUS
<1> HIDE DEF G, W, V
<1>9. Flows(G, Left(s, t), results)
  BY <1>1, <1>7, <1>8, FlowsOver
<1> QED
  BY <1>9 DEF G, N, M, vs, c, v

LEMMA UnreachableFlow ==
  ASSUME NEW F, NEW s, NEW t, NEW results, Faced(F, s, t, results)
  PROVE  Flows(BuildInst(F, t.cur, "unreachable", Void, <<>>), Left(s, t), results)
<1> DEFINE c == t.cur
           r == <<>>
           G == BuildInst(F, c, "unreachable", Void, r)
           E == Edges(F)
<1>1. /\ Good(F) /\ c \in DOMAIN F.code /\ On(F, F, E, E)
      /\ Face(F, s, t, results) /\ Flows(F, Append(s, t), results)
  BY FacedIs
<1>2. "unreachable" \notin Branches /\ "unreachable" # "phi" /\ r \in Seq(DOMAIN F.inst)
  BY DEF Branches
<1> HIDE DEF c, r, E
<1>3. On(F, G, E, E)
  BY <1>1, <1>2, OnPlain
<1> HIDE DEF G
<1>4. Flows(G, Left(s, t), results)
  BY <1>1, <1>3, FlowsOver
<1> QED
  BY <1>4 DEF G, c, r

(* The visitor goes on in its block.                                       *)
LEMMA StayFlow ==
  ASSUME NEW F, NEW s, NEW t, NEW results, Faced(F, s, t, results),
         NEW kind, kind \notin Branches, kind # "phi", NEW type, NEW refs \in Seq(DOMAIN F.inst), NEW vs, NEW ts,
         Working(BuildInst(F, t.cur, kind, type, refs), Append(s, Revalued(t, vs, ts)), results)
  PROVE  Flows(BuildInst(F, t.cur, kind, type, refs), Append(s, Revalued(t, vs, ts)), results)
<1> DEFINE c == t.cur
           G == BuildInst(F, c, kind, type, refs)
           E == Edges(F)
           w == Revalued(t, vs, ts)
<1>1. /\ Good(F) /\ c \in DOMAIN F.code /\ On(F, F, E, E) /\ s \in Seq(Visitors) /\ t \in Visitors
      /\ Face(F, s, t, results) /\ Flows(F, Append(s, t), results)
  BY FacedIs
<1>2. Still(t, w)
  BY <1>1, RevaluedStill
<1> HIDE DEF c, E, w
<1>3. On(F, G, E, E)
  BY <1>1, OnPlain
<1> HIDE DEF G
<1>4. w \in Visitors
  BY <1>1, StackedAre DEF G, c, w
<1>5. Flows(G, Append(s, w), results)
  BY <1>1, <1>2, <1>3, <1>4, FlowsSettled
<1> QED
  BY <1>5 DEF G, c, w

LEMMA DropFlow ==
  ASSUME NEW F, NEW s, NEW t, NEW results, Faced(F, s, t, results), NEW vs, NEW ts,
         Working(F, Append(s, Revalued(t, vs, ts)), results)
  PROVE  Flows(F, Append(s, Revalued(t, vs, ts)), results)
<1> DEFINE E == Edges(F)
           w == Revalued(t, vs, ts)
<1>1. /\ On(F, F, E, E) /\ s \in Seq(Visitors) /\ t \in Visitors
      /\ Face(F, s, t, results) /\ Flows(F, Append(s, t), results)
  BY FacedIs
<1>2. Still(t, w)
  BY <1>1, RevaluedStill
<1> HIDE DEF E, w
<1>3. w \in Visitors
  BY <1>1, StackedAre DEF w
<1>4. Flows(F, Append(s, w), results)
  BY <1>1, <1>2, <1>3, FlowsSettled
<1> QED
  BY <1>4 DEF w

-----------------------------------------------------------------------------
(* A new block, and the pairs X that lead to it.                           *)
LEMMA NextOn ==
  ASSUME NEW F, Good(F), NEW G, NEW W, NEW V, On(F, G, W, V), NEW pos \in DOMAIN F.code,
         NEW X, \A z, d : <<z, d>> \in X => d = G.next
  PROVE  LET H == BuildBasicBlock(G, pos) IN On(F, H, W \cup X, V) /\ Opened(G, H, G.next)
<1> DEFINE H == BuildBasicBlock(G, pos)
           n == G.next
           U == W \cup X
<1>1. Good(G) /\ pos \in DOMAIN G.code
  BY OnIs
<1>2. Opened(G, H, n)
  BY <1>1, BuiltBlock, BlockGrown
<1>3. n \notin DOMAIN G.code
  BY <1>2 DEF Opened
<1> HIDE DEF H, n
<1>4. \A z, d : <<z, d>> \in X => d = n
  BY DEF n
<1>5. Agrees(W, U, DOMAIN G.code)
  BY <1>3, <1>4 DEF Agrees
<1> HIDE DEF U
<1>6. On(F, H, U, V)
  BY <1>1, <1>5, OnBlock DEF H
<1> QED
  BY <1>2, <1>6 DEF H, n, U

LEMMA BrIfFlow ==
  ASSUME NEW F, NEW s, NEW t, NEW results, Faced(F, s, t, results),
         NEW x, NEW types, Receives(F, x, types), Enough(t, Len(types) + 1)
  PROVE  LET vs == pop(t.values, 1)
             M  == addMergeCandidates(BuildBasicBlock(F, t.before), x, t.cur, peek(vs, Len(types)))
         IN  Flows(BuildInst(M, t.cur, "cond", Void, <<Last(t.values), x, F.next>>),
                   Append(s, Recurred(t, F.next, vs, pop(t.types, 1))), results)
<1> DEFINE vs == pop(t.values, 1)
           ts == pop(t.types, 1)
           us == peek(vs, Len(types))
           c == t.cur
           v == Last(t.values)
           n == F.next
           B == BuildBasicBlock(F, t.before)
           M == addMergeCandidates(B, x, c, us)
           G == BuildInst(M, c, "cond", Void, <<v, x, n>>)
           w == Recurred(t, n, vs, ts)
           E == Edges(F)
           X == {<<c, n>>}
           W == (E \cup X) \cup {<<c, x>>}
           V == E \cup {<<c, x>>, <<c, n>>}
<1>1. /\ Good(F) /\ c \in DOMAIN F.code /\ t.values \in Seq(DOMAIN F.inst) /\ LoopsMerge /\ On(F, F, E, E)
      /\ Face(F, s, t, results) /\ Flows(F, Append(s, t), results) /\ t.before \in DOMAIN F.code
      /\ s \in Seq(Visitors) /\ t \in Visitors
  BY FacedIs
<1>2. x \in DOMAIN F.code /\ types \in Seq(Types) /\ Expects(F, x, types)
  BY DEF Receives, Expects
<1>3. us \in Seq(DOMAIN F.inst) /\ Len(us) = Len(types) /\ v \in DOMAIN F.inst
  BY <1>1, <1>2, Beneath
<1>4. Still(t, w)
  BY <1>1, RecurredStill
<1>5. w \in Visitors
  <2>1. Working(G, Append(s, w), results)
    BY <1>1, <1>2, BrIfStep
  <2> HIDE DEF G, w
  <2> QED
    BY <1>1, <2>1, StackedAre
<1> HIDE DEF us, c, v, E, w
<1>6. \A z, d : <<z, d>> \in X => d = n
  OBVIOUS
<1> HIDE DEF X
<1>7. On(F, B, E \cup X, E) /\ Opened(F, B, n)
  BY <1>1, <1>6, NextOn DEF n
<1> HIDE DEF B
<1>8. On(F, M, W, E) /\ Resting(B, M)
  BY <1>1, <1>3, <1>7, MergedOn
<1> HIDE DEF M, n
<1>9. x \in DOMAIN M.code /\ c \in DOMAIN M.code /\ n \in DOMAIN M.code /\ v \in DOMAIN M.inst
  BY <1>1, <1>2, <1>3, <1>7, <1>8 DEF Resting, Opened
<1>10. On(F, G, W, V)
  BY <1>1, <1>8, <1>9, OnChoice
<1>11. W = V
  BY DEF X
<1> HIDE DEF G, W, V
<1>12. Flows(G, Append(s, w), results)
  BY <1>1, <1>4, <1>5, <1>10, <1>11, FlowsSettled
<1> QED
  BY <1>12 DEF G, M, B, us, c, v, n, w

LEMMA BlockFlow ==
  ASSUME NEW F, NEW s, NEW t, NEW results, Faced(F, s, t, results),
         NEW p \in Seq(Types), NEW r \in Seq(Types), Offers(t, p)
  PROVE  LET n == F.next
             G == BuildPhis(BuildBasicBlock(F, t.before), n, r)
         IN  Flows(G, s \o <<Relanded(t, n, Len(p), Phis(G, n), r),
                             Body(t.cur, n, peek(t.values, Len(p)), p, n, r, n, r)>>, results)
<1> DEFINE n == F.next
           B == BuildBasicBlock(F, t.before)
           G == BuildPhis(B, n, r)
           args == peek(t.values, Len(p))
           b == Body(t.cur, n, args, p, n, r, n, r)
           w == Relanded(t, n, Len(p), Phis(G, n), r)
           E == Edges(F)
           X == {}
           U == E \cup X
<1>1. /\ Good(F) /\ On(F, F, E, E) /\ Face(F, s, t, results) /\ Flows(F, Append(s, t), results)
      /\ t.before \in DOMAIN F.code /\ s \in Seq(Visitors) /\ t \in Visitors
      /\ \A z, d : <<z, d>> \in E => d \in DOMAIN F.code
  BY FacedIs
<1>2. Still(t, w)
  BY <1>1, RecurredStill DEF Relanded
<1>3. Working(G, s \o <<w, b>>, results)
  BY <1>1, BlockStep
<1>5. U = E /\ \A z, d : <<z, d>> \in X => d = n
  OBVIOUS
<1> HIDE DEF w, E, n, args, X
<1>4. On(F, B, U, E) /\ Opened(F, B, n)
  BY <1>1, <1>5, NextOn DEF n
<1> HIDE DEF B, U
<1>6. n \in DOMAIN B.code /\ n \notin DOMAIN F.code /\ B.code[n] = <<>>
  BY <1>4 DEF Opened
<1>7. (\A z : <<z, n>> \notin E) /\ Len(r) \in Nat
  BY <1>1, <1>6, LenProperties
<1>8. On(F, G, E, E) /\ Bare(G, n, Len(r))
  BY <1>1, <1>4, <1>5, <1>6, <1>7, OnPhis
<1> HIDE DEF G
<1>9. BoundedAll(G, b)
  BY <1>8, BodyBounded
<1> HIDE DEF b
<1>10. w \in Visitors /\ b \in Visitors
  BY <1>1, <1>3, StackedAre
<1>11. Flows(G, s \o <<w, b>>, results)
  BY <1>1, <1>2, <1>8, <1>9, <1>10, FlowsNested
<1> QED
  BY <1>11 DEF G, B, n, args, b, w

LEMMA BareSame ==
  ASSUME NEW F, Good(F), NEW G, Grown(F, G), NEW b \in DOMAIN F.code, G.code[b] = F.code[b], NEW n, Bare(F, b, n)
  PROVE  Bare(G, b, n)
BY CodeIs DEF Bare, Grown

LEMMA LoopFlow ==
  ASSUME NEW F, NEW s, NEW t, NEW results, Faced(F, s, t, results),
         NEW p \in Seq(Types), NEW r \in Seq(Types), Offers(t, p), Zips(p, r)
  PROVE  LET l == F.next
             n == F.next + 1
             B == BuildBasicBlock(BuildBasicBlock(F, t.before), t.before)
             J == BuildInst(B, t.cur, "br", Void, <<l>>)
             L == MergePhis(J, l, t.cur, r, peek(t.values, Len(p)))
             G == BuildPhis(L, n, r)
         IN  Flows(G, s \o <<Relanded(t, n, Len(p), Phis(G, n), r),
                             Body(l, n, L.code[l], p, l, p, n, r)>>, results)
<1> DEFINE l == F.next
           n == F.next + 1
           c == t.cur
           D == BuildBasicBlock(F, t.before)
           B == BuildBasicBlock(D, t.before)
           J == BuildInst(B, c, "br", Void, <<l>>)
           args == peek(t.values, Len(p))
           L == MergePhis(J, l, c, r, args)
           G == BuildPhis(L, n, r)
           code == L.code[l]
           b == Body(l, n, code, p, l, p, n, r)
           w == Relanded(t, n, Len(p), Phis(G, n), r)
           k == Smaller(Len(r), Len(args))
           E == Edges(F)
           X == {<<c, l>>}
           Y == {}
           U == E \cup X
<1>1. /\ Good(F) /\ On(F, F, E, E) /\ Face(F, s, t, results) /\ Flows(F, Append(s, t), results)
      /\ t.before \in DOMAIN F.code /\ c \in DOMAIN F.code /\ t.values \in Seq(DOMAIN F.inst)
      /\ s \in Seq(Visitors) /\ t \in Visitors /\ t.types \in Seq(Types) /\ LoopsMerge
      /\ \A z, d : <<z, d>> \in E => d \in DOMAIN F.code
  BY FacedIs, FaceIs
<1>2. Still(t, w)
  BY <1>1, RecurredStill DEF Relanded
<1>3. Working(G, s \o <<w, b>>, results)
  BY <1>1, LoopStep
<1>4. args \in Seq(DOMAIN F.inst) /\ Len(args) = Len(p) /\ Len(p) \in Nat /\ Len(r) \in Nat
  <2>1. Enough(t, Len(p)) /\ Len(p) <= Len(t.values) /\ Len(p) \in Nat
    BY <1>1, OffersEnough, LenProperties
  <2> QED
    BY <1>1, <2>1, Peeked, LenProperties
<1>5. k = Len(p)
  <2>1. Len(p) <= Len(r)
    BY <1>1 DEF Zips
  <2> HIDE DEF args
  <2> QED
    BY <1>4, <2>1 DEF Smaller
<1>6. /\ \A z, d : <<z, d>> \in X => d = l
      /\ \A z, d : <<z, d>> \in Y => d = n
      /\ U \cup Y = U
      /\ \A z, d : <<z, d>> \in U => <<z, d>> \in E \/ (z = c /\ d = l)
      /\ <<c, l>> \in U
  OBVIOUS
<1>7. U = E \cup {<<c, l>>}
  OBVIOUS
<1> HIDE DEF w, E, args, c, X, Y, code, k
<1>8. On(F, D, U, E) /\ Opened(F, D, l)
  BY <1>1, <1>6, NextOn
<1> HIDE DEF D, U
<1>9. D.next = n
  BY <1>8 DEF Opened
<1>10. On(F, B, U \cup Y, E) /\ Opened(D, B, n)
  <2>1. \A z, d : <<z, d>> \in Y => d = D.next
    BY <1>6, <1>9
  <2>2. On(F, B, U \cup Y, E) /\ Opened(D, B, D.next)
    BY <1>1, <1>8, <2>1, NextOn
  <2> QED
    BY <1>9, <2>2
<1> HIDE DEF B, l, n
<1> DEFINE nothing == <<>>
<1>11. /\ l \in DOMAIN B.code /\ l \notin DOMAIN F.code /\ n \in DOMAIN B.code /\ n \notin DOMAIN F.code
       /\ n # l /\ B.code[l] = nothing /\ B.code[n] = nothing /\ c \in DOMAIN B.code /\ c # l /\ c # n
  <2> HIDE DEF nothing
  <2>1. /\ l \in DOMAIN D.code /\ l \notin DOMAIN F.code /\ D.code[l] = nothing
        /\ DOMAIN D.code = DOMAIN F.code \cup {l}
    BY <1>8 DEF Opened, nothing
  <2>2. /\ n \in DOMAIN B.code /\ n \notin DOMAIN D.code /\ B.code[n] = nothing
        /\ DOMAIN B.code = DOMAIN D.code \cup {n} /\ \A d \in DOMAIN D.code : B.code[d] = D.code[d]
    BY <1>10 DEF Opened, nothing
  <2> QED
    BY <1>1, <2>1, <2>2
<1> HIDE DEF nothing
<1>12. On(F, B, U, E) /\ Good(B)
  BY <1>6, <1>10, OnIs
<1>13. On(F, J, U, U)
  <2>1. On(F, J, U, E \cup {<<c, l>>})
    BY <1>1, <1>11, <1>12, OnBranch
  <2> QED
    BY <1>7, <2>1
<1>14. Put1(B, J, c, "br", Void)
  BY <1>11, <1>12, BranchBuilt
<1> HIDE DEF J
<1>15. /\ Good(J) /\ Grown(F, J) /\ DOMAIN J.code = DOMAIN B.code /\ J.code[l] = nothing /\ J.code[n] = nothing
       /\ DOMAIN F.inst \subseteq DOMAIN J.inst
  BY <1>11, <1>13, <1>14, OnIs DEF Put1
<1>16. \A z : (<<z, l>> \in U <=> z = c) /\ <<z, n>> \notin U
  BY <1>1, <1>6, <1>11
<1>17. args \in Seq(DOMAIN J.inst)
  BY <1>4, <1>15, SeqMonotonic
<1>18. On(F, L, U, U) /\ Bare(L, l, k)
  <2>1. /\ Good(F) /\ On(F, J, U, U) /\ l \in DOMAIN J.code /\ l \notin DOMAIN F.code /\ J.code[l] = <<>>
        /\ c \in DOMAIN J.code /\ (\A z : <<z, l>> \in U <=> z = c) /\ Len(r) \in Nat
    BY <1>1, <1>4, <1>11, <1>13, <1>15, <1>16 DEF nothing
  <2> QED
    BY <1>17, <2>1, OnLoop DEF k
<1>19. PhisPut(J, L, l, r, k)
  <2>1. /\ Good(J) /\ l \in DOMAIN J.code /\ J.code[l] = <<>> /\ c \in DOMAIN J.code /\ Len(r) \in Nat
    BY <1>4, <1>11, <1>15 DEF nothing
  <2> QED
    BY <1>17, <2>1, PhisMerged DEF k
<1> HIDE DEF L
<1>20. Good(L) /\ DOMAIN L.code = DOMAIN J.code /\ L.code[n] = nothing
  BY <1>11, <1>15, <1>18, <1>19, OnIs DEF PhisPut
<1>21. On(F, G, U, U) /\ Bare(G, n, Len(r))
  <2>1. /\ n \in DOMAIN L.code /\ n \notin DOMAIN F.code /\ L.code[n] = <<>> /\ Len(r) \in Nat
        /\ \A z : <<z, n>> \notin U
    BY <1>4, <1>11, <1>15, <1>16, <1>20 DEF nothing
  <2> QED
    BY <1>1, <1>18, <2>1, OnPhis
<1>22. PhisPut(L, G, n, r, Len(r))
  <2>1. n \in DOMAIN L.code /\ L.code[n] = <<>> /\ Len(r) \in Nat
    BY <1>4, <1>11, <1>15, <1>20 DEF nothing
  <2> DEFINE m == Len(r)
  <2>2. PhisBuilt(L, G, n, r, m)
    BY <1>20, <2>1, BuiltPhis
  <2> HIDE DEF m, G
  <2>3. m \in Nat
    BY <2>1 DEF m
  <2>4. PhisPut(L, G, n, r, m)
    BY <1>20, <2>1, <2>2, <2>3, PhisGrown
  <2> QED
    BY <2>4 DEF m
<1> HIDE DEF G
<1>23. Bare(G, l, Len(p))
  <2>1. Grown(L, G) /\ l \in DOMAIN L.code /\ G.code[l] = L.code[l]
    BY <1>11, <1>15, <1>20, <1>22 DEF PhisPut
  <2>2. Bare(L, l, Len(p))
    BY <1>5, <1>18
  <2> QED
    BY <1>20, <2>1, <2>2, BareSame
<1>24. BoundedAll(G, b)
  BY <1>21, <1>23, BodyBounded
<1> HIDE DEF b
<1>25. w \in Visitors /\ b \in Visitors
  BY <1>1, <1>3, StackedAre
<1>26. Flows(G, s \o <<w, b>>, results)
  BY <1>1, <1>2, <1>21, <1>24, <1>25, FlowsNested
<1> QED
  BY <1>26 DEF G, L, J, B, D, l, n, c, args, code, b, w

LEMMA BothBounded ==
  ASSUME NEW F, NEW x \in Bodies, NEW y \in Bodies, BoundedAll(F, x), BoundedAll(F, y)
  PROVE  BoundedAll(F, WithAlt(x, y))
<1> DEFINE f1 == x.cur
           f2 == x.before
           f3 == x.values
           f4 == x.types
           f5 == x.label
           f6 == x.labelTypes
           f7 == x.to
           f8 == x.results
           f9 == x.alt
           a == <<y>>
           e == Nine(f1, f2, f3, f4, f5, f6, f7, f8, a)
           w == WithAlt(x, y)
<1>1. x = Nine(f1, f2, f3, f4, f5, f6, f7, f8, f9)
  BY BodiesVisit, VisitorIs
<1>2. DOMAIN a = {1} /\ a[1] = y
  <2>1. DOMAIN a = 1 .. 1 /\ 1 .. 1 = {1}
    OBVIOUS
  <2> QED
    BY <2>1
<1>3. e.label = f5 /\ e.labelTypes = f6 /\ e.to = f7 /\ e.results = f8 /\ e.alt = a
  BY DEF Nine
<1> HIDE DEF f1, f2, f3, f4, f9, a
<1>4. Bare(F, f5, Len(f6)) /\ Bare(F, f7, Len(f8)) /\ Bounded(F, y)
  BY DEF BoundedAll, Bounded
<1> HIDE DEF f5, f6, f7, f8
<1>5. [x EXCEPT !.alt = a] = e
  BY <1>1 DEF Nine
<1>6. w = e
  BY <1>5 DEF WithAlt, a
<1> HIDE DEF w, e
<1>7. BoundedAll(F, e)
  BY <1>2, <1>3, <1>4 DEF BoundedAll, Bounded
<1> QED
  BY <1>6, <1>7 DEF w

LEMMA IfElseFlow ==
  ASSUME NEW F, NEW s, NEW t, NEW results, Faced(F, s, t, results),
         NEW p \in Seq(Types), NEW r \in Seq(Types), CondType \in Types, Offers(t, Append(p, CondType))
  PROVE  LET x == F.next
             y == F.next + 1
             n == F.next + 2
             args == peek(pop(t.values, 1), Len(p))
             B == BuildBasicBlock(BuildBasicBlock(BuildBasicBlock(F, t.before), t.before), t.before)
             C == BuildInst(B, t.cur, "cond", Void, <<Last(t.values), x, y>>)
             G == BuildPhis(C, n, r)
         IN  Flows(G, s \o <<Relanded(t, n, Len(p) + 1, Phis(G, n), r),
                             WithAlt(Body(x, y, args, p, n, r, n, r), Body(y, n, args, p, n, r, n, r))>>,
                   results)
<1> DEFINE x == F.next
           y == F.next + 1
           n == F.next + 2
           args == peek(pop(t.values, 1), Len(p))
           v == Last(t.values)
           c == t.cur
           D == BuildBasicBlock(F, t.before)
           H == BuildBasicBlock(D, t.before)
           B == BuildBasicBlock(H, t.before)
           C == BuildInst(B, c, "cond", Void, <<v, x, y>>)
           G == BuildPhis(C, n, r)
           one == Body(x, y, args, p, n, r, n, r)
           two == Body(y, n, args, p, n, r, n, r)
           b == WithAlt(one, two)
           w == Relanded(t, n, Len(p) + 1, Phis(G, n), r)
           E == Edges(F)
           X == {<<c, x>>}
           Y == {<<c, y>>}
           Z == {}
           U == E \cup X
           V == E \cup {<<c, x>>, <<c, y>>}
           nothing == <<>>
<1>1. /\ Good(F) /\ On(F, F, E, E) /\ Face(F, s, t, results) /\ Flows(F, Append(s, t), results)
      /\ t.before \in DOMAIN F.code /\ c \in DOMAIN F.code /\ F.next \in Nat
      /\ s \in Seq(Visitors) /\ t \in Visitors
      /\ \A z, d : <<z, d>> \in E => d \in DOMAIN F.code
  BY FacedIs, NodesAreNumbers
<1>2. Still(t, w)
  BY <1>1, RecurredStill DEF Relanded
<1>3. Working(G, s \o <<w, b>>, results)
  BY <1>1, IfElseStep
<1>4. v \in DOMAIN F.inst /\ args \in Seq(DOMAIN F.inst)
  BY <1>1, Chosen
<1>5. /\ \A z, d : <<z, d>> \in X => d = x
      /\ \A z, d : <<z, d>> \in Y => d = y
      /\ \A z, d : <<z, d>> \in Z => d = n
      /\ (U \cup Y) \cup Z = V
      /\ \A z, d : <<z, d>> \in V => <<z, d>> \in E \/ d = x \/ d = y
      /\ V \cup {} = V
  OBVIOUS
<1>6. V = E \cup {<<c, x>>, <<c, y>>}
  OBVIOUS
<1> HIDE DEF w, E, args, c, v, X, Y, Z, nothing
<1>7. On(F, D, U, E) /\ Opened(F, D, x)
  BY <1>1, <1>5, NextOn
<1> HIDE DEF D, U
<1>8. D.next = y
  BY <1>7 DEF Opened
<1>9. On(F, H, U \cup Y, E) /\ Opened(D, H, y)
  <2>1. \A z, d : <<z, d>> \in Y => d = D.next
    BY <1>5, <1>8
  <2>2. On(F, H, U \cup Y, E) /\ Opened(D, H, D.next)
    BY <1>1, <1>7, <2>1, NextOn
  <2> QED
    BY <1>8, <2>2
<1> HIDE DEF H
<1>10. H.next = n
  BY <1>1, <1>8, <1>9 DEF Opened
<1> HIDE DEF x, y, n, V
<1>11. On(F, B, V, E) /\ Opened(H, B, n)
  <2>1. \A z, d : <<z, d>> \in Z => d = H.next
    BY <1>5, <1>10
  <2>2. On(F, B, (U \cup Y) \cup Z, E) /\ Opened(H, B, H.next)
    BY <1>1, <1>9, <2>1, NextOn
  <2> QED
    BY <1>5, <1>10, <2>2
<1> HIDE DEF B
<1>12. /\ x \in DOMAIN B.code /\ y \in DOMAIN B.code /\ n \in DOMAIN B.code /\ c \in DOMAIN B.code
       /\ n \notin DOMAIN F.code /\ n # x /\ n # y /\ n # c /\ B.code[n] = nothing
       /\ x \notin DOMAIN F.code /\ y \notin DOMAIN F.code
  <2>1. x \in DOMAIN D.code /\ x \notin DOMAIN F.code /\ DOMAIN D.code = DOMAIN F.code \cup {x}
    BY <1>7 DEF Opened
  <2>2. y \in DOMAIN H.code /\ y \notin DOMAIN D.code /\ DOMAIN H.code = DOMAIN D.code \cup {y}
    BY <1>9 DEF Opened
  <2>3. /\ n \in DOMAIN B.code /\ n \notin DOMAIN H.code /\ DOMAIN B.code = DOMAIN H.code \cup {n}
        /\ B.code[n] = nothing
    BY <1>11 DEF Opened, nothing
  <2> QED
    BY <1>1, <2>1, <2>2, <2>3
<1>13. Good(B) /\ v \in DOMAIN B.inst
  BY <1>4, <1>11, OnIs
<1>14. On(F, C, V, V)
  <2>1. On(F, C, V, E \cup {<<c, x>>, <<c, y>>})
    BY <1>1, <1>11, <1>12, <1>13, OnChoice
  <2> QED
    BY <1>6, <2>1
<1>15. Put1(B, C, c, "cond", Void)
  BY <1>12, <1>13, ChoiceBuilt
<1> HIDE DEF C
<1>16. n \in DOMAIN C.code /\ C.code[n] = nothing
  BY <1>12, <1>15 DEF Put1
<1>17. On(F, G, V, V) /\ Bare(G, n, Len(r))
  <2>1. n \in DOMAIN C.code /\ n \notin DOMAIN F.code /\ C.code[n] = <<>> /\ Len(r) \in Nat
    BY <1>12, <1>16, LenProperties DEF nothing
  <2>2. \A z : <<z, n>> \notin V
    BY <1>1, <1>5, <1>12
  <2> QED
    BY <1>1, <1>14, <2>1, <2>2, OnPhis
<1>18. one \in Bodies /\ two \in Bodies
  <2>1. /\ Good(G) /\ x \in DOMAIN G.code /\ y \in DOMAIN G.code /\ n \in DOMAIN G.code
        /\ DOMAIN F.inst \subseteq DOMAIN G.inst
    <3>1. Good(C) /\ DOMAIN C.code = DOMAIN B.code
      BY <1>14, <1>15, OnIs DEF Put1
    <3>2. PhisPut(C, G, n, r, Len(r))
      <4>1. n \in DOMAIN C.code /\ C.code[n] = <<>> /\ Len(r) \in Nat
        BY <1>16, LenProperties DEF nothing
      <4> DEFINE m == Len(r)
      <4>2. PhisBuilt(C, G, n, r, m)
        BY <3>1, <4>1, BuiltPhis
      <4> HIDE DEF m, G
      <4>3. m \in Nat
        BY <4>1 DEF m
      <4>4. PhisPut(C, G, n, r, m)
        BY <3>1, <4>1, <4>2, <4>3, PhisGrown
      <4> QED
        BY <4>4 DEF m
    <3> HIDE DEF G
    <3>3. DOMAIN G.code = DOMAIN C.code
      BY <3>2 DEF PhisPut
    <3> QED
      BY <1>12, <1>17, <3>1, <3>3, OnIs
  <2>2. x \in Nat /\ y \in Nat /\ n \in Nat
    BY <2>1, NodesAreNumbers
  <2>3. args \in Seq(Nat)
    BY <1>1, <1>4, NodesAreNumbers
  <2> HIDE DEF G
  <2>4. Fresher(one, x, y, args, p, n, r, n, r) /\ Fresher(two, y, n, args, p, n, r, n, r)
    BY <2>2, <2>3, BodyIs
  <2> QED
    BY <2>4 DEF Fresher
<1> HIDE DEF G
<1>19. BoundedAll(G, one) /\ BoundedAll(G, two)
  BY <1>17, BodyBounded
<1> HIDE DEF one, two
<1>20. BoundedAll(G, b)
  BY <1>18, <1>19, BothBounded
<1> HIDE DEF b
<1>21. w \in Visitors /\ b \in Visitors
  BY <1>1, <1>3, StackedAre
<1>22. Flows(G, s \o <<w, b>>, results)
  BY <1>1, <1>2, <1>17, <1>20, <1>21, FlowsNested
<1> QED
  BY <1>22 DEF G, C, B, H, D, x, y, n, args, v, c, b, one, two, w

LEMMA IfFlow ==
  ASSUME NEW F, NEW s, NEW t, NEW results, Faced(F, s, t, results),
         CondType \in Types, Offers(t, <<CondType>>)
  PROVE  LET x == F.next
             n == F.next + 1
             B == BuildBasicBlock(BuildBasicBlock(F, t.before), t.before)
             G == BuildInst(B, t.cur, "cond", Void, <<Last(t.values), x, n>>)
         IN  Flows(G, s \o <<Relanded(t, n, 1, Phis(B, n), <<>>),
                             Body(x, n, <<>>, <<>>, n, <<>>, n, <<>>)>>, results)
<1> DEFINE x == F.next
           n == F.next + 1
           v == Last(t.values)
           c == t.cur
           p == <<>>
           D == BuildBasicBlock(F, t.before)
           B == BuildBasicBlock(D, t.before)
           G == BuildInst(B, c, "cond", Void, <<v, x, n>>)
           b == Body(x, n, p, p, n, p, n, p)
           w == Relanded(t, n, 1, Phis(B, n), p)
           E == Edges(F)
           X == {<<c, x>>}
           Y == {<<c, n>>}
           U == E \cup X
           V == E \cup {<<c, x>>, <<c, n>>}
<1>1. /\ Good(F) /\ On(F, F, E, E) /\ Face(F, s, t, results) /\ Flows(F, Append(s, t), results)
      /\ t.before \in DOMAIN F.code /\ c \in DOMAIN F.code /\ s \in Seq(Visitors) /\ t \in Visitors
  BY FacedIs
<1>2. Still(t, w)
  BY <1>1, RecurredStill DEF Relanded
<1>3. Working(G, s \o <<w, b>>, results)
  BY <1>1, IfStep
<1>4. Len(p) = 0 /\ p \in Seq(Types) /\ Append(p, CondType) = <<CondType>>
  OBVIOUS
<1>5. v \in DOMAIN F.inst
  <2> HIDE DEF p
  <2>1. Offers(t, Append(p, CondType))
    BY <1>4
  <2> QED
    BY <1>1, <1>4, <2>1, Chosen
<1>6. /\ \A z, d : <<z, d>> \in X => d = x
      /\ \A z, d : <<z, d>> \in Y => d = n
      /\ U \cup Y = V
  OBVIOUS
<1>7. V = E \cup {<<c, x>>, <<c, n>>}
  OBVIOUS
<1> HIDE DEF w, E, c, v, X, Y, p
<1>8. On(F, D, U, E) /\ Opened(F, D, x)
  BY <1>1, <1>6, NextOn
<1> HIDE DEF D, U
<1>9. D.next = n
  BY <1>8 DEF Opened
<1> HIDE DEF V, x, n
<1>10. On(F, B, V, E) /\ Opened(D, B, n)
  <2>1. \A z, d : <<z, d>> \in Y => d = D.next
    BY <1>6, <1>9
  <2>2. On(F, B, U \cup Y, E) /\ Opened(D, B, D.next)
    BY <1>1, <1>8, <2>1, NextOn
  <2> QED
    BY <1>6, <1>9, <2>2
<1> HIDE DEF B
<1>11. /\ x \in DOMAIN B.code /\ n \in DOMAIN B.code /\ c \in DOMAIN B.code /\ n # c /\ B.code[n] = p
  <2>1. DOMAIN D.code = DOMAIN F.code \cup {x}
    BY <1>8 DEF Opened
  <2>2. n \in DOMAIN B.code /\ n \notin DOMAIN D.code /\ DOMAIN B.code = DOMAIN D.code \cup {n} /\ B.code[n] = p
    BY <1>10 DEF Opened, p
  <2> QED
    BY <1>1, <2>1, <2>2
<1>12. Good(B) /\ v \in DOMAIN B.inst
  BY <1>5, <1>10, OnIs
<1>13. On(F, G, V, V)
  <2>1. On(F, G, V, E \cup {<<c, x>>, <<c, n>>})
    BY <1>1, <1>10, <1>11, <1>12, OnChoice
  <2> QED
    BY <1>7, <2>1
<1>14. Put1(B, G, c, "cond", Void)
  BY <1>11, <1>12, ChoiceBuilt
<1> HIDE DEF G
<1>15. Bare(G, n, Len(p))
  <2>1. G.code[n] = p
    BY <1>11, <1>14 DEF Put1
  <2>2. 1 .. 0 = {}
    OBVIOUS
  <2> QED
    BY <1>4, <2>1, <2>2 DEF Bare
<1>16. BoundedAll(G, b)
  BY <1>15, BodyBounded
<1> HIDE DEF b
<1>17. w \in Visitors /\ b \in Visitors
  BY <1>1, <1>3, StackedAre
<1>18. Flows(G, s \o <<w, b>>, results)
  BY <1>1, <1>2, <1>13, <1>16, <1>17, FlowsNested
<1> QED
  BY <1>18 DEF G, B, D, x, n, v, c, p, b, w

-----------------------------------------------------------------------------
(* The context has no branches, and phis in its exit only.                 *)
Quiet(P, results) ==
  /\ Good(P) /\ Exit \in DOMAIN P.code /\ Follows(P, {}) /\ Flowing(P, {})
  /\ Bare(P, Exit, Len(results))

LEMMA QuietKept ==
  ASSUME NEW P, NEW results \in Seq(Types), Quiet(P, results),
         NEW kind, kind \notin Branches, kind # "phi", NEW refs \in Seq(DOMAIN P.inst)
  PROVE  Quiet(BuildInst(P, Exit, kind, Void, refs), results)
<1> DEFINE G == BuildInst(P, Exit, kind, Void, refs)
           W == {}
<1>1. /\ Good(P) /\ Exit \in DOMAIN P.code /\ Follows(P, W) /\ Flowing(P, W)
      /\ Bare(P, Exit, Len(results)) /\ Len(results) \in Nat
  BY LenProperties DEF Quiet
<1> HIDE DEF W
<1>2. On(P, P, W, W)
  BY <1>1, OnSelf
<1>3. On(P, G, W, W)
  BY <1>1, <1>2, OnPlain
<1> HIDE DEF G
<1>4. Good(G) /\ Exit \in DOMAIN G.code /\ Follows(G, W) /\ Flowing(G, W) /\ Bare(G, Exit, Len(results))
  BY <1>1, <1>3, OnIs
<1> QED
  BY <1>4 DEF Quiet, G, W

LEMMA BlocksQuiet ==
  ASSUME NEW results \in Seq(Types)
  PROVE  LET E == BuildBasicBlock(BuildBasicBlock(EmptyFunction, Nil), Nil)
         IN  Quiet(BuildPhis(E, Exit, results), results)
<1> DEFINE F == EmptyFunction
           D == BuildBasicBlock(F, Nil)
           E == BuildBasicBlock(D, Nil)
           P == BuildPhis(E, Exit, results)
           W == {}
           nothing == <<>>
<1>1. Good(F) /\ F.next = 1 /\ Len(results) \in Nat
  BY EmptyGood, LenProperties
<1>2. DOMAIN F.code = {} /\ DOMAIN F.inst = {}
  BY DEF EmptyFunction
<1>3. Follows(F, W) /\ Flowing(F, W)
  BY <1>2 DEF Follows, Flowing, Valued
<1>4. /\ \A z, d : <<z, d>> \notin W
      /\ \A B : Agrees(W, W, B)
  BY DEF Agrees
<1> HIDE DEF F, W
<1>5. On(F, F, W, W)
  BY <1>1, <1>3, OnSelf
<1>6. On(F, D, W, W) /\ Opened(F, D, F.next)
  BY <1>1, <1>4, <1>5, OnBlock
<1> HIDE DEF D
<1>7. On(F, E, W, W) /\ Opened(D, E, D.next)
  BY <1>1, <1>4, <1>6, OnBlock
<1> HIDE DEF E, nothing
<1>8. Exit \in DOMAIN E.code /\ E.code[Exit] = nothing /\ Exit \notin DOMAIN F.code
  <2>1. D.next = 2
    BY <1>1, <1>6 DEF Opened
  <2> QED
    BY <1>2, <1>7, <2>1 DEF Opened, Exit, nothing
<1>9. On(F, P, W, W) /\ Bare(P, Exit, Len(results))
  BY <1>1, <1>4, <1>7, <1>8, OnPhis DEF nothing
<1>10. Good(P) /\ Follows(P, W) /\ Flowing(P, W)
  BY <1>9, OnIs
<1>11. Exit \in DOMAIN P.code
  <2>1. Waiting(P, results, {Entry, Exit})
    BY BlocksWait DEF E, D, F
  <2> QED
    BY <2>1 DEF Waiting
<1> QED
  BY <1>9, <1>10, <1>11 DEF Quiet, P, E, D, F, W

LEMMA ContextQuiet ==
  ASSUME Results \in Seq(Types)
  PROVE  Quiet(TranslationContext, Results)
<1> DEFINE r == Results
           E == BuildBasicBlock(BuildBasicBlock(EmptyFunction, Nil), Nil)
           P == BuildPhis(E, Exit, r)
           phis == P.code[Exit]
           K == BuildInst(P, Exit, "pack", Void, phis)
           none == <<>>
           both == <<P.next>>
           open == {Entry, Exit}
<1>1. Waiting(P, r, open) /\ phis \in Seq(DOMAIN P.inst) /\ Quiet(P, r)
  BY BlocksWait, BlocksQuiet
<1>2. Exit \in open /\ none \in Seq(DOMAIN P.inst)
  OBVIOUS
<1>3. \/ TranslationContext = BuildInst(P, Exit, "return", Void, none)
      \/ TranslationContext = BuildInst(P, Exit, "return", Void, phis)
      \/ TranslationContext = BuildInst(K, Exit, "return", Void, both)
  <2>1. Len(r) \in Nat
    BY LenProperties
  <2> DEFINE n == Len(r)
             x == BuildInst(P, Exit, "return", Void, none)
             y == BuildInst(P, Exit, "return", Void, phis)
             z == BuildInst(K, Exit, "return", Void, both)
  <2>2. TranslationContext = CASE n = 0 -> x [] n = 1 -> y [] OTHER -> z
    BY DEF TranslationContext
  <2> HIDE DEF n, x, y, z
  <2>3. TranslationContext = x \/ TranslationContext = y \/ TranslationContext = z
    BY <2>2
  <2> QED
    BY <2>3 DEF x, y, z
<1> HIDE DEF P, phis, r, none
<1>4. r \in Seq(Types)
  BY DEF r
<1>5. {"return", "pack"} \cap Branches = {} /\ "phi" \notin {"return", "pack"}
  BY DEF Branches
<1>6. Quiet(BuildInst(P, Exit, "return", Void, none), r) /\ Quiet(BuildInst(P, Exit, "return", Void, phis), r)
  <2>1. Quiet(BuildInst(P, Exit, "return", Void, none), r)
    BY <1>1, <1>2, <1>4, <1>5, QuietKept
  <2>2. Quiet(BuildInst(P, Exit, "return", Void, phis), r)
    BY <1>1, <1>4, <1>5, QuietKept
  <2> QED
    BY <2>1, <2>2
<1>7. Quiet(K, r)
  BY <1>1, <1>4, <1>5, QuietKept
<1>8. P.next \in DOMAIN K.inst
  BY <1>1, <1>2, <1>4, PackWaits
<1> HIDE DEF K
<1>9. both \in Seq(DOMAIN K.inst)
  <2> DEFINE v == P.next
             X == DOMAIN K.inst
  <2>1. v \in X
    BY <1>8
  <2> HIDE DEF v, X
  <2>2. <<v>> \in Seq(X)
    BY <2>1
  <2> QED
    BY <2>2 DEF v, X
<1> HIDE DEF both
<1>10. Quiet(BuildInst(K, Exit, "return", Void, both), r)
  BY <1>4, <1>5, <1>7, <1>9, QuietKept
<1> QED
  BY <1>3, <1>6, <1>10 DEF r

LEMMA FlowsBegin ==
  ASSUME Results \in Seq(Types)
  PROVE  Flows(TranslationContext,
               <<Body(Entry, Exit, <<>>, <<>>, Exit, Results, Exit, Results)>>, Results)
<1> DEFINE F == TranslationContext
           r == Results
           e == <<>>
           w == Body(Entry, Exit, e, e, Exit, r, Exit, r)
           fs == <<w>>
<1>1. Quiet(F, r)
  BY ContextQuiet
<1>2. DOMAIN fs = {1} /\ fs[1] = w
  <2>1. DOMAIN fs = 1 .. 1 /\ 1 .. 1 = {1}
    OBVIOUS
  <2> QED
    BY <2>1
<1> HIDE DEF F, r, e
<1>3. Valued(F) /\ Matched(F) /\ Bare(F, Exit, Len(r))
  BY <1>1, FlowMatches DEF Quiet
<1>4. BoundedAll(F, w)
  BY <1>3, BodyBounded
<1> HIDE DEF w, fs
<1>5. Bares(F, fs)
  BY <1>2, <1>4 DEF Bares
<1>6. Flows(F, fs, r)
  BY <1>3, <1>5 DEF Flows
<1> QED
  BY <1>6 DEF F, r, fs, w, e

-----------------------------------------------------------------------------
LEMMA AllThereGrown ==
  ASSUME NEW F, Good(F), NEW D, Led(F, D, Entry), NEW G, NEW E, Furthered(F, D, G, E, Entry),
         NEW c \in DOMAIN F.code, NEW vs, AllThere(F, D, vs, c), NEW z, E[c] \subseteq E[z]
  PROVE  AllThere(G, E, vs, z)
<1>1. D[c] \subseteq DOMAIN F.code /\ D[c] \subseteq E[z] /\ Grown(F, G)
  BY LedIs DEF Furthered
<1> QED
  BY <1>1, ThereGrown DEF AllThere

LEMMA AllThereCut ==
  ASSUME NEW F, NEW D, NEW c, NEW X, NEW vs \in Seq(X), AllThere(F, D, vs, c), NEW n \in Nat, n <= Len(vs)
  PROVE  AllThere(F, D, peek(vs, n), c) /\ AllThere(F, D, pop(vs, n), c)
<1>1. /\ Len(peek(vs, n)) = n /\ Len(pop(vs, n)) = Len(vs) - n /\ Len(vs) \in Nat
      /\ \A k \in 1 .. n : peek(vs, n)[k] = vs[Len(vs) - n + k]
      /\ \A k \in 1 .. Len(vs) - n : pop(vs, n)[k] = vs[k]
  BY Peeked, LenProperties
<1>2. /\ \A k \in 1 .. n : Len(vs) - n + k \in 1 .. Len(vs)
      /\ \A k \in 1 .. Len(vs) - n : k \in 1 .. Len(vs)
  BY <1>1
<1> QED
  BY <1>1, <1>2 DEF AllThere

LEMMA AllTherePushed ==
  ASSUME NEW F, NEW D, NEW c, NEW X, NEW vs \in Seq(X), AllThere(F, D, vs, c), NEW v, There(F, D, v, c)
  PROVE  AllThere(F, D, Append(vs, v), c)
<1>1. vs \in Seq(X \cup {v}) /\ Len(vs) \in Nat
  <2>1. X \subseteq X \cup {v}
    OBVIOUS
  <2> QED
    BY <2>1, SeqMonotonic, LenProperties
<1>2. Len(Append(vs, v)) = Len(vs) + 1 /\ Append(vs, v)[Len(vs) + 1] = v
      /\ \A k \in 1 .. Len(vs) : Append(vs, v)[k] = vs[k]
  BY <1>1, AppendProperties
<1>3. \A k \in 1 .. Len(vs) + 1 : k \in 1 .. Len(vs) \/ k = Len(vs) + 1
  BY <1>1
<1> QED
  BY <1>2, <1>3 DEF AllThere

LEMMA AllThereJoined ==
  ASSUME NEW F, NEW D, NEW c, NEW X, NEW vs \in Seq(X), AllThere(F, D, vs, c),
         NEW ws \in Seq(X), AllThere(F, D, ws, c)
  PROVE  AllThere(F, D, vs \o ws, c)
<1>1. /\ Len(vs \o ws) = Len(vs) + Len(ws)
      /\ \A k \in 1 .. Len(vs) + Len(ws) : (vs \o ws)[k] = IF k <= Len(vs) THEN vs[k] ELSE ws[k - Len(vs)]
  BY ConcatProperties
<1>2. Len(vs) \in Nat /\ Len(ws) \in Nat
  BY LenProperties
<1>3. \A k \in 1 .. Len(vs) + Len(ws) :
        (k <= Len(vs) /\ k \in 1 .. Len(vs)) \/ (~(k <= Len(vs)) /\ k - Len(vs) \in 1 .. Len(ws))
  BY <1>2
<1> QED
  BY <1>1, <1>3 DEF AllThere

(* The merges.                                                             *)
LEMMA MergeLed ==
  ASSUME NEW F, Good(F), NEW D, Led(F, D, Entry), NEW x \in DOMAIN F.code, NEW c \in DOMAIN F.code,
         NEW X, NEW values \in Seq(X), AllThere(F, D, values, c),
         NEW types, Heads(F, x, types), Len(values) = Len(types)
  PROVE  LET H == addMergeCandidates(F, x, c, values) IN
         Furthered(F, D, H, D, Entry) /\ DOMAIN H.code = DOMAIN F.code
<1> DEFINE code == F.code[x]
           n == Smaller(Len(code), Len(values))
           H == addMergeCandidates(F, x, c, values)
<1>1. Len(code) \in Nat /\ Len(values) \in Nat /\ \A k \in 1 .. Len(code) : code[k] \in DOMAIN F.inst
  BY CodeIs, LenProperties
<1>2. n = Len(values)
  BY <1>1 DEF Heads, Smaller
<1>3. PICK f : /\ f[0] = F /\ H = f[n]
               /\ \A j \in 1 .. n : f[j] = HandsStep(F, x, c, values, f[j - 1], j)
  BY <1>1, <1>2, HandsUnfold
<1>4. \A k \in 1 .. n : code[k] \in PhisOf(F) /\ There(F, D, values[k], c)
  <2> TAKE k \in 1 .. n
  <2>1. k \in 1 .. Len(types) /\ k \in 1 .. Len(code) /\ k \in 1 .. Len(values)
    BY <1>1, <1>2 DEF Heads
  <2> QED
    BY <1>1, <2>1 DEF Heads, PhisOf, AllThere
<1>5. n \in Nat
  BY <1>1, <1>2
<1> DEFINE S == {j \in 0 .. n : Furthered(F, D, f[j], D, Entry) /\ DOMAIN f[j].code = DOMAIN F.code}
<1> HIDE DEF code, n, H
<1>6. 0 \in S
  BY <1>3, <1>5, FurtheredSelf
<1>7. ASSUME NEW j \in 0 .. n, j \in S, j < n  PROVE j + 1 \in S
  <2> DEFINE G == f[j]
             p == code[j + 1]
             v == values[j + 1]
  <2>1. j + 1 \in 1 .. n /\ j + 1 \in 0 .. n /\ (j + 1) - 1 = j
    BY <1>5, <1>7
  <2>2. Furthered(F, D, G, D, Entry) /\ DOMAIN G.code = DOMAIN F.code
    BY <1>7
  <2>3. p \in PhisOf(F) /\ There(F, D, v, c)
    BY <1>4, <2>1
  <2>4. f[j + 1] = addCandidate(G, p, v, c)
    <3>1. F.inst[p].kind = "phi"
      BY <2>3 DEF PhisOf
    <3>2. f[j + 1] = HandsStep(F, x, c, values, G, j + 1)
      BY <1>3, <2>1
    <3> QED
      BY <3>1, <3>2 DEF HandsStep, code
  <2> HIDE DEF G, S, p, v
  <2>5. Good(G) /\ Grown(F, G) /\ Led(G, D, Entry) /\ c \in DOMAIN G.code /\ p \in PhisOf(G)
    BY <2>2, <2>3 DEF Furthered, Grown, PhisOf
  <2>6. There(G, D, v, c)
    <3>1. D[c] \subseteq DOMAIN F.code
      BY LedIs
    <3> QED
      BY <2>3, <2>5, <3>1, ThereGrown
  <2> DEFINE L == addCandidate(G, p, v, c)
  <2>7. Furthered(G, D, L, D, Entry) /\ DOMAIN L.code = DOMAIN G.code
    BY <2>5, <2>6, CandidateLed
  <2> HIDE DEF L
  <2>8. Furthered(F, D, L, D, Entry) /\ DOMAIN L.code = DOMAIN F.code
    BY <2>2, <2>7, FurtheredTwice
  <2> QED
    BY <2>1, <2>4, <2>8 DEF S, L
<1>8. n \in S
  <2>1. \A j \in 0 .. n : j \in S /\ j < n => j + 1 \in S
    BY <1>7
  <2> HIDE DEF S
  <2>2. \A j \in 0 .. n : j \in S
    BY <1>5, <1>6, <2>1, Climbs
  <2> QED
    BY <1>5, <2>2
<1> QED
  BY <1>3, <1>8 DEF H

LEMMA LoopLed ==
  ASSUME NEW F, Good(F), NEW D, Led(F, D, Entry), NEW b \in DOMAIN F.code, F.code[b] = <<>>,
         NEW c \in DOMAIN F.code, NEW results, Len(results) \in Nat,
         NEW values \in Seq(DOMAIN F.inst), AllThere(F, D, values, c)
  PROVE  LET H == MergePhis(F, b, c, results, values) IN
         /\ Furthered(F, D, H, D, Entry) /\ DOMAIN H.code = DOMAIN F.code
         /\ AllThere(H, D, H.code[b], b)
<1> DEFINE n == Smaller(Len(results), Len(values))
           H == MergePhis(F, b, c, results, values)
<1>1. n \in Nat /\ n <= Len(values) /\ Len(values) \in Nat
  BY LenProperties DEF Smaller
<1>2. PICK f : /\ f[0] = F /\ H = f[n]
               /\ \A j \in 1 .. n : f[j] = BindsStep(F, b, c, results, values, f[j - 1], j)
  BY <1>1, BindsUnfold
<1>3. D[c] \subseteq DOMAIN F.code /\ b \in D[b]
  BY LedIs
<1>4. PhisPut(F, H, b, results, n)
  BY PhisMerged
<1> DEFINE S == {j \in 0 .. n : Furthered(F, D, f[j], D, Entry) /\ DOMAIN f[j].code = DOMAIN F.code}
<1> HIDE DEF n, H
<1>5. 0 \in S
  BY <1>1, <1>2, FurtheredSelf
<1>6. ASSUME NEW j \in 0 .. n, j \in S, j < n  PROVE j + 1 \in S
  <2> DEFINE K == f[j]
             v == values[j + 1]
             t == results[j + 1]
  <2>1. j + 1 \in 1 .. n /\ j + 1 \in 0 .. n /\ (j + 1) - 1 = j
    BY <1>1, <1>6
  <2>2. f[j + 1] = addCandidate(BuildInst(K, b, "phi", t, <<>>), K.next, v, c)
    BY <1>2, <2>1 DEF BindsStep
  <2>3. Furthered(F, D, K, D, Entry) /\ DOMAIN K.code = DOMAIN F.code
    BY <1>6
  <2>4. There(F, D, v, c)
    <3>1. j + 1 \in 1 .. Len(values)
      BY <1>1, <2>1
    <3> QED
      BY <3>1 DEF AllThere
  <2> HIDE DEF K, v, t, S
  <2>5. Good(K) /\ Grown(F, K) /\ Led(K, D, Entry) /\ b \in DOMAIN K.code /\ c \in DOMAIN K.code
    BY <2>3 DEF Furthered, Grown
  <2> DEFINE P == BuildInst(K, b, "phi", t, <<>>)
             p == K.next
  <2>6. Furthered(K, D, P, D, Entry) /\ DOMAIN P.code = DOMAIN K.code /\ p \in PhisOf(P)
    BY <2>5, PhiLed
  <2> HIDE DEF P, p
  <2>7. Furthered(F, D, P, D, Entry) /\ DOMAIN P.code = DOMAIN F.code
    BY <2>3, <2>6, FurtheredTwice
  <2>8. Good(P) /\ Grown(F, P) /\ Led(P, D, Entry) /\ c \in DOMAIN P.code
    BY <2>7 DEF Furthered, Grown
  <2>9. There(P, D, v, c)
    BY <1>3, <2>4, <2>8, ThereGrown
  <2> DEFINE L == addCandidate(P, p, v, c)
  <2>10. Furthered(P, D, L, D, Entry) /\ DOMAIN L.code = DOMAIN P.code
    BY <2>6, <2>8, <2>9, CandidateLed
  <2> HIDE DEF L
  <2>11. Furthered(F, D, L, D, Entry) /\ DOMAIN L.code = DOMAIN F.code
    BY <2>7, <2>10, FurtheredTwice
  <2>12. f[j + 1] = L
    BY <2>2 DEF L, P, p
  <2> QED
    BY <2>1, <2>11, <2>12 DEF S
<1>7. n \in S
  <2>1. \A j \in 0 .. n : j \in S /\ j < n => j + 1 \in S
    BY <1>6
  <2> HIDE DEF S
  <2>2. \A j \in 0 .. n : j \in S
    BY <1>1, <1>5, <2>1, Climbs
  <2> QED
    BY <1>1, <2>2
<1>8. Furthered(F, D, H, D, Entry) /\ DOMAIN H.code = DOMAIN F.code
  BY <1>2, <1>7
<1>9. ASSUME NEW k \in 1 .. Len(H.code[b])  PROVE There(H, D, H.code[b][k], b)
  <2>1. Good(H) /\ b \in DOMAIN H.code /\ Len(H.code[b]) = n /\ H.inst[H.code[b][k]].kind = "phi"
    BY <1>4, <1>8, <1>9 DEF PhisPut, Grown
  <2>2. H.code[b][k] \in DOMAIN H.inst
    BY <1>9, <2>1, CodeIs
  <2>3. Sits(H, b, H.code[b][k])
    BY <1>9, <2>1 DEF Sits, Names
  <2> QED
    BY <1>3, <2>1, <2>2, <2>3, PhisThere DEF PhisOf
<1> QED
  BY <1>8, <1>9 DEF AllThere, H

-----------------------------------------------------------------------------
ReachAll(D, s, w) == \A j \in DOMAIN s : Reach(D, s[j], w)

LEMMA GuidesPushed ==
  ASSUME NEW F, NEW D, NEW s \in Seq(Visitors), NEW t \in Visitors
  PROVE  Guides(F, D, Append(s, t))
           <=> Guides(F, D, s) /\ StockedAll(F, D, t) /\ ReachAll(D, s, t) /\ Reach(D, t, t)
<1> DEFINE a == Append(s, t)
           n == Len(s)
<1>1. /\ n \in Nat /\ DOMAIN s = 1 .. n /\ DOMAIN a = 1 .. n + 1
      /\ a[n + 1] = t /\ \A k \in 1 .. n : a[k] = s[k]
  BY PushedIs
<1> HIDE DEF a, n
<1>2. \A k : k \in 1 .. n + 1 <=> k \in 1 .. n \/ k = n + 1
  BY <1>1
<1>3. \A k \in 1 .. n : k <= n + 1 /\ ~(n + 1 <= k)
  BY <1>1
<1>4. n + 1 <= n + 1
  BY <1>1
<1>5. (\A k \in DOMAIN a : StockedAll(F, D, a[k]))
        <=> StockedAll(F, D, t) /\ \A k \in DOMAIN s : StockedAll(F, D, s[k])
  BY <1>1, <1>2
<1>6. (\A j, k \in DOMAIN a : j <= k => Reach(D, a[j], a[k]))
        <=> (/\ \A j, k \in DOMAIN s : j <= k => Reach(D, s[j], s[k])
             /\ ReachAll(D, s, t) /\ Reach(D, t, t))
  <2>1. ASSUME \A j, k \in DOMAIN a : j <= k => Reach(D, a[j], a[k])
        PROVE  /\ \A j, k \in DOMAIN s : j <= k => Reach(D, s[j], s[k])
               /\ ReachAll(D, s, t) /\ Reach(D, t, t)
    BY <1>1, <1>2, <1>3, <1>4, <2>1 DEF ReachAll
  <2>2. ASSUME \A j, k \in DOMAIN s : j <= k => Reach(D, s[j], s[k]), ReachAll(D, s, t), Reach(D, t, t)
        PROVE  \A j, k \in DOMAIN a : j <= k => Reach(D, a[j], a[k])
    <3> SUFFICES ASSUME NEW j \in DOMAIN a, NEW k \in DOMAIN a, j <= k  PROVE Reach(D, a[j], a[k])
      OBVIOUS
    <3>1. CASE k = n + 1
      BY <1>1, <1>2, <2>2, <3>1 DEF ReachAll
    <3>2. CASE k # n + 1
      BY <1>1, <1>2, <1>3, <2>2, <3>2
    <3> QED
      BY <3>1, <3>2
  <2> QED
    BY <2>1, <2>2
<1>7. Guides(F, D, a)
        <=> Guides(F, D, s) /\ StockedAll(F, D, t) /\ ReachAll(D, s, t) /\ Reach(D, t, t)
  BY <1>5, <1>6 DEF Guides
<1> QED
  BY <1>7 DEF a

-----------------------------------------------------------------------------
LEMMA PlacesThere ==
  ASSUME NEW F, Exit \in DOMAIN F.code, NEW v, Ready(F, v)
  PROVE  Places(v) \subseteq DOMAIN F.code /\ v.label \in DOMAIN F.code /\ v.to \in DOMAIN F.code
BY DEF Places, Ready, Fit

(* What could be passed still can, and from any block below as well.       *)
LEMMA ReachBelow ==
  ASSUME NEW F, NEW D, NEW G, NEW E, Furthered(F, D, G, E, Entry),
         NEW v, Places(v) \subseteq DOMAIN F.code, NEW t, t.cur \in DOMAIN F.code, Reach(D, v, t),
         NEW c, E[t.cur] \subseteq E[c]
  PROVE  \A x \in Places(v) : Passes(E, c, x, Entry)
<1> SUFFICES ASSUME NEW x \in Places(v)  PROVE Passes(E, c, x, Entry)
  OBVIOUS
<1>1. Passes(D, t.cur, x, Entry)
  BY DEF Reach, Curs
<1>2. E[t.cur] = D[t.cur] /\ E[x] = D[x]
  BY DEF Furthered
<1> QED
  BY <1>1, <1>2 DEF Passes

LEMMA ReachGrown ==
  ASSUME NEW F, NEW D, NEW G, NEW E, Furthered(F, D, G, E, Entry),
         NEW v, Places(v) \subseteq DOMAIN F.code, NEW w, Curs(w) \subseteq DOMAIN F.code, Reach(D, v, w)
  PROVE  Reach(E, v, w)
<1> SUFFICES ASSUME NEW c \in Curs(w), NEW x \in Places(v)  PROVE Passes(E, c, x, Entry)
  BY DEF Reach
<1>1. Passes(D, c, x, Entry)
  BY DEF Reach
<1>2. E[c] = D[c] /\ E[x] = D[x]
  BY DEF Furthered
<1> QED
  BY <1>1, <1>2 DEF Passes

LEMMA StockedGrown ==
  ASSUME NEW F, Good(F), NEW D, Led(F, D, Entry), NEW G, NEW E, Furthered(F, D, G, E, Entry),
         NEW v, Ready(F, v), StockedAll(F, D, v)
  PROVE  StockedAll(G, E, v)
<1>1. ASSUME NEW w, Fit(F, w), Stocked(F, D, w)  PROVE Stocked(G, E, w)
  <2>1. w.cur \in DOMAIN F.code /\ AllThere(F, D, w.values, w.cur) /\ w.before # Entry
    BY <1>1 DEF Fit, Stocked
  <2>2. AllThere(G, E, w.values, w.cur)
    BY <2>1, AllThereGrown
  <2> QED
    BY <2>1, <2>2 DEF Stocked
<1> QED
  BY <1>1 DEF StockedAll, Ready

LEMMA GuidesGrown ==
  ASSUME NEW F, Good(F), Exit \in DOMAIN F.code, NEW D, Led(F, D, Entry),
         NEW G, NEW E, Furthered(F, D, G, E, Entry), NEW s, Stacked(F, s), Guides(F, D, s)
  PROVE  Guides(G, E, s)
<1>1. ASSUME NEW k \in DOMAIN s
      PROVE  Ready(F, s[k]) /\ Curs(s[k]) \subseteq DOMAIN F.code /\ Places(s[k]) \subseteq DOMAIN F.code
  BY PlacesThere, CursThere DEF Stacked
<1>2. ASSUME NEW k \in DOMAIN s  PROVE StockedAll(G, E, s[k])
  BY <1>1, StockedGrown DEF Guides
<1>3. ASSUME NEW j \in DOMAIN s, NEW k \in DOMAIN s, j <= k  PROVE Reach(E, s[j], s[k])
  BY <1>1, <1>3, ReachGrown DEF Guides
<1> QED
  BY <1>2, <1>3 DEF Guides

LEMMA ReachFewer ==
  ASSUME NEW D, NEW v, NEW w, Reach(D, v, w), NEW x, Places(x) \subseteq Places(v),
         NEW y, Curs(y) \subseteq Curs(w)
  PROVE  Reach(D, x, y)
BY DEF Reach

LEMMA GuidesLeft ==
  ASSUME NEW F, NEW D, NEW s \in Seq(Visitors), NEW t \in Visitors, Guides(F, D, Append(s, t))
  PROVE  Guides(F, D, Left(s, t))
<1>1. /\ Guides(F, D, s) /\ StockedAll(F, D, t) /\ ReachAll(D, s, t) /\ Reach(D, t, t)
      /\ t.alt \in Seq(Bodies)
  BY GuidesPushed, VisitorIs
<1>2. CASE t.alt = <<>>
  BY <1>1, <1>2 DEF Left
<1>3. CASE t.alt # <<>>
  <2> DEFINE x == t.alt
             a == Head(x)
  <2>1. Len(x) \in Nat /\ Len(x) # 0 /\ DOMAIN x = 1 .. Len(x)
    BY <1>1, <1>3, LenProperties, EmptySeq
  <2>2. 1 \in 1 .. Len(x) /\ a = x[1]
    BY <2>1
  <2>3. a \in Bodies
    BY <1>1, <2>2, ElementOfSeq
  <2>4. Left(s, t) = Append(s, a)
    BY <1>3 DEF Left
  <2>5. Stocked(F, D, a)
    BY <1>1, <2>1, <2>2 DEF StockedAll
  <2>6. a = t.alt[1] /\ 1 \in DOMAIN t.alt
    BY <2>1, <2>2
  <2> HIDE DEF a, x
  <2>7. a \in Visitors /\ a.alt = <<>> /\ Curs(a) = {a.cur}
    BY <2>3, BodiesVisit
  <2>8. DOMAIN a.alt = {}
    BY <2>7
  <2>9. StockedAll(F, D, a)
    BY <2>5, <2>8 DEF StockedAll
  <2>10. Curs(a) \subseteq Curs(t)
    BY <2>6, <2>7 DEF Curs
  <2>11. Places(a) \subseteq Places(t)
    BY <2>6, <2>8 DEF Places
  <2>12. ReachAll(D, s, a) /\ Reach(D, a, a)
    BY <1>1, <2>10, <2>11, ReachFewer DEF ReachAll
  <2> QED
    BY <1>1, <2>4, <2>7, <2>9, <2>12, GuidesPushed
<1> QED
  BY <1>2, <1>3

-----------------------------------------------------------------------------
(* What the steps start from.                                              *)
Guiding(F, D, s, t, results) ==
  Faced(F, s, t, results) /\ Led(F, D, Entry) /\ Guides(F, D, Append(s, t))

LEMMA GuidingIs ==
  ASSUME NEW F, NEW D, NEW s, NEW t, NEW results, Guiding(F, D, s, t, results)
  PROVE  /\ Faced(F, s, t, results) /\ Face(F, s, t, results) /\ LoopsMerge /\ Led(F, D, Entry)
         /\ Guides(F, D, Append(s, t)) /\ Guides(F, D, s) /\ StockedAll(F, D, t) /\ ReachAll(D, s, t)
         /\ Reach(D, t, t)
         /\ Good(F) /\ Exit \in DOMAIN F.code /\ t.cur \in DOMAIN F.code /\ t.before \in DOMAIN F.code
         /\ t.before # Entry
         /\ t.values \in Seq(DOMAIN F.inst) /\ AllThere(F, D, t.values, t.cur)
         /\ t \in Visitors /\ s \in Seq(Visitors)
         /\ Stacked(F, Append(s, t)) /\ Ready(F, t) /\ Stacked(F, s)
         /\ Furthered(F, D, F, D, Entry)
<1>1. Face(F, s, t, results) /\ Faced(F, s, t, results) /\ Led(F, D, Entry) /\ Guides(F, D, Append(s, t))
  BY DEF Guiding, Faced
<1>2. /\ LoopsMerge /\ Good(F) /\ t.cur \in DOMAIN F.code /\ t.before \in DOMAIN F.code
      /\ t.values \in Seq(DOMAIN F.inst) /\ t \in Visitors /\ s \in Seq(Visitors)
  BY <1>1, FacedIs
<1>3. Stacked(F, Append(s, t)) /\ Exit \in DOMAIN F.code
  BY <1>1 DEF Face, Working, Sound
<1>4. Stacked(F, s) /\ Ready(F, t)
  BY <1>2, <1>3, StackedPushed
<1>5. Guides(F, D, s) /\ StockedAll(F, D, t) /\ ReachAll(D, s, t) /\ Reach(D, t, t)
  BY <1>1, <1>2, GuidesPushed
<1>6. AllThere(F, D, t.values, t.cur) /\ t.before # Entry
  BY <1>5 DEF StockedAll, Stocked
<1>7. Furthered(F, D, F, D, Entry)
  BY <1>1, <1>2, FurtheredSelf
<1> QED
  BY <1>1, <1>2, <1>3, <1>4, <1>5, <1>6, <1>7

(* A body is over.                                                         *)
LEMMA GuidedOver ==
  ASSUME NEW F, NEW D, NEW s, NEW t, NEW results, Guiding(F, D, s, t, results),
         NEW G, NEW E, Furthered(F, D, G, E, Entry)
  PROVE  Guides(G, E, Left(s, t))
<1>1. /\ Good(F) /\ Exit \in DOMAIN F.code /\ Led(F, D, Entry) /\ Guides(F, D, Append(s, t))
      /\ t \in Visitors /\ s \in Seq(Visitors) /\ Stacked(F, Append(s, t))
  BY GuidingIs
<1>2. Guides(F, D, Left(s, t)) /\ Stacked(F, Left(s, t))
  BY <1>1, GuidesLeft, LeftStacked
<1> QED
  BY <1>1, <1>2, GuidesGrown

(* The visitor goes on, in its block or one below.                         *)
LEMMA GuidedSettled ==
  ASSUME NEW F, NEW D, NEW s, NEW t, NEW results, Guiding(F, D, s, t, results),
         NEW G, NEW E, Furthered(F, D, G, E, Entry),
         NEW w, NEW c, NEW vs, NEW ts, Recast(t, w, c, vs, ts), E[t.cur] \subseteq E[c], AllThere(G, E, vs, c)
  PROVE  Guides(G, E, Append(s, w)) /\ Places(w) = Places(t)
<1>1. /\ Good(F) /\ Exit \in DOMAIN F.code /\ Led(F, D, Entry) /\ Guides(F, D, s)
      /\ StockedAll(F, D, t) /\ ReachAll(D, s, t) /\ Reach(D, t, t)
      /\ t \in Visitors /\ s \in Seq(Visitors) /\ Stacked(F, s) /\ Ready(F, t)
      /\ t.cur \in DOMAIN F.code
  BY GuidingIs
<1>2. /\ w \in Visitors /\ w.cur = c /\ w.values = vs /\ w.before = t.before /\ w.alt = t.alt
      /\ w.label = t.label /\ w.to = t.to
  BY DEF Recast
<1>3. Places(w) = Places(t)
  BY <1>2 DEF Places
<1>4. Guides(G, E, s)
  BY <1>1, GuidesGrown
<1>5. StockedAll(G, E, t)
  BY <1>1, StockedGrown
<1>6. StockedAll(G, E, w)
  BY <1>2, <1>5 DEF StockedAll, Stocked
<1>7. ASSUME NEW v, NEW z, Places(z) = Places(v), Places(v) \subseteq DOMAIN F.code, Reach(D, v, t)
      PROVE  Reach(E, z, w)
  <2>1. \A x \in Places(v) : Passes(E, c, x, Entry)
    BY <1>1, <1>7, ReachBelow
  <2>2. Reach(E, v, t)
    BY <1>1, <1>7, ReachGrown, CursThere
  <2>3. Curs(w) \subseteq Curs(t) \cup {c}
    BY <1>2 DEF Curs
  <2> QED
    BY <1>7, <2>1, <2>2, <2>3 DEF Reach
<1>8. Reach(E, w, w)
  BY <1>1, <1>3, <1>7, PlacesThere
<1>9. ASSUME NEW k \in DOMAIN s  PROVE Reach(E, s[k], w)
  <2>1. Ready(F, s[k]) /\ Reach(D, s[k], t)
    BY <1>1 DEF Stacked, ReachAll
  <2>2. Places(s[k]) \subseteq DOMAIN F.code
    BY <1>1, <2>1, PlacesThere
  <2> QED
    BY <1>7, <2>1, <2>2
<1>10. ReachAll(E, s, w)
  BY <1>9 DEF ReachAll
<1> QED
  BY <1>1, <1>2, <1>3, <1>4, <1>6, <1>8, <1>10, GuidesPushed

(* A visitor for a body comes on top.                                      *)
LEMMA GuidedNested ==
  ASSUME NEW F, NEW D, NEW s, NEW t, NEW results, Guiding(F, D, s, t, results),
         NEW G, NEW E, Furthered(F, D, G, E, Entry),
         NEW w, NEW c, NEW vs, NEW ts, Recast(t, w, c, vs, ts), E[t.cur] \subseteq E[c], AllThere(G, E, vs, c),
         NEW b \in Visitors, StockedAll(G, E, b), Reach(E, b, b), \A x \in Curs(b) : E[t.cur] \subseteq E[x]
  PROVE  Guides(G, E, s \o <<w, b>>)
<1>1. /\ Exit \in DOMAIN F.code /\ t.cur \in DOMAIN F.code
      /\ ReachAll(D, s, t) /\ Reach(D, t, t)
      /\ t \in Visitors /\ s \in Seq(Visitors) /\ Stacked(F, s) /\ Ready(F, t)
  BY GuidingIs
<1>2. Guides(G, E, Append(s, w)) /\ Places(w) = Places(t)
  BY GuidedSettled
<1>3. w \in Visitors
  BY DEF Recast
<1>4. ASSUME NEW v, NEW z, Places(z) = Places(v), Places(v) \subseteq DOMAIN F.code, Reach(D, v, t)
      PROVE  Reach(E, z, b)
  <2>1. \A x \in Curs(b) : \A y \in Places(v) : Passes(E, x, y, Entry)
    BY <1>1, <1>4, ReachBelow
  <2> QED
    BY <1>4, <2>1 DEF Reach
<1>5. Reach(E, w, b)
  BY <1>1, <1>2, <1>4, PlacesThere
<1>6. ASSUME NEW k \in DOMAIN s  PROVE Reach(E, s[k], b)
  <2>1. Ready(F, s[k]) /\ Reach(D, s[k], t)
    BY <1>1 DEF Stacked, ReachAll
  <2>2. Places(s[k]) \subseteq DOMAIN F.code
    BY <1>1, <2>1, PlacesThere
  <2> QED
    BY <1>4, <2>1, <2>2
<1> DEFINE a == Append(s, w)
<1>7. /\ a \in Seq(Visitors) /\ DOMAIN s = 1 .. Len(s) /\ DOMAIN a = 1 .. Len(s) + 1
      /\ a[Len(s) + 1] = w /\ Len(s) \in Nat /\ \A k \in 1 .. Len(s) : a[k] = s[k]
  BY <1>1, <1>3, PushedIs
<1>8. s \o <<w, b>> = Append(a, b)
  BY <1>1
<1> HIDE DEF a
<1>9. \A k \in DOMAIN a : k \in DOMAIN s \/ k = Len(s) + 1
  BY <1>7
<1>10. ReachAll(E, a, b)
  BY <1>5, <1>6, <1>7, <1>9 DEF ReachAll
<1>11. Guides(G, E, a)
  BY <1>2 DEF a
<1> QED
  BY <1>7, <1>8, <1>10, <1>11, GuidesPushed

-----------------------------------------------------------------------------
LEMMA PlacesPass ==
  ASSUME NEW F, NEW D, NEW s, NEW t, NEW results, Guiding(F, D, s, t, results)
  PROVE  /\ \A k \in DOMAIN Append(s, t) : Passes(D, t.cur, Append(s, t)[k].label, Entry)
         /\ Passes(D, t.cur, t.to, Entry) /\ Passes(D, t.cur, Exit, Entry)
<1>1. ReachAll(D, s, t) /\ Reach(D, t, t) /\ t \in Visitors /\ s \in Seq(Visitors)
  BY GuidingIs
<1> DEFINE a == Append(s, t)
<1>2. /\ DOMAIN s = 1 .. Len(s) /\ DOMAIN a = 1 .. Len(s) + 1
      /\ a[Len(s) + 1] = t /\ Len(s) \in Nat /\ \A k \in 1 .. Len(s) : a[k] = s[k]
  BY <1>1, PushedIs
<1> HIDE DEF a
<1>3. \A k \in DOMAIN a : k \in DOMAIN s \/ k = Len(s) + 1
  BY <1>2
<1>4. \A k \in DOMAIN a : Reach(D, a[k], t)
  BY <1>1, <1>2, <1>3 DEF ReachAll
<1>5. t.cur \in Curs(t) /\ \A v : v.label \in Places(v) /\ v.to \in Places(v) /\ Exit \in Places(v)
  BY DEF Curs, Places
<1>6. \A k \in DOMAIN a : Passes(D, t.cur, a[k].label, Entry)
  BY <1>4, <1>5 DEF Reach
<1>7. Passes(D, t.cur, t.to, Entry) /\ Passes(D, t.cur, Exit, Entry)
  BY <1>1, <1>5 DEF Reach
<1> QED
  BY <1>6, <1>7 DEF a

LEMMA OverGuided ==
  ASSUME NEW F, NEW D, NEW s, NEW t, NEW results, Guiding(F, D, s, t, results),
         NEW G, NEW E, Furthered(F, D, G, E, Entry)
  PROVE  Guided(G, Left(s, t))
BY GuidedOver DEF Guided, Furthered

LEMMA FurtheredIs ==
  ASSUME NEW F, NEW D, NEW G, NEW E, Furthered(F, D, G, E, Entry)
  PROVE  /\ Good(G) /\ Grown(F, G) /\ Led(G, E, Entry) /\ DOMAIN F.code \subseteq DOMAIN G.code
         /\ DOMAIN F.inst \subseteq DOMAIN G.inst
         /\ \A x \in DOMAIN F.code : E[x] = D[x]
BY DEF Furthered, Grown

(* A merge after some steps.                                               *)
LEMMA MergedLed ==
  ASSUME NEW F, Good(F), LoopsMerge, NEW D, NEW G, NEW E, Led(F, D, Entry), Furthered(F, D, G, E, Entry),
         NEW x, NEW types, Receives(F, x, types), NEW c \in DOMAIN F.code,
         NEW values \in Seq(DOMAIN F.inst), AllThere(F, D, values, c), Len(values) = Len(types)
  PROVE  LET H == addMergeCandidates(G, x, c, values) IN
         /\ Furthered(F, D, H, E, Entry) /\ Furthered(G, E, H, E, Entry) /\ DOMAIN H.code = DOMAIN G.code
<1> DEFINE H == addMergeCandidates(G, x, c, values)
<1>1. Good(G) /\ Grown(F, G) /\ Led(G, E, Entry) /\ DOMAIN F.code \subseteq DOMAIN G.code
  BY FurtheredIs
<1>2. x \in DOMAIN F.code /\ Heads(F, x, types) /\ Len(types) \in Nat
  BY LenProperties DEF Receives, Expects
<1>3. Heads(G, x, types)
  BY <1>1, <1>2, HeadsGrown
<1>4. AllThere(G, E, values, c)
  BY AllThereGrown
<1>5. x \in DOMAIN G.code /\ c \in DOMAIN G.code
  BY <1>1, <1>2
<1>6. Furthered(G, E, H, E, Entry) /\ DOMAIN H.code = DOMAIN G.code
  BY <1>1, <1>3, <1>4, <1>5, MergeLed
<1> HIDE DEF H
<1>7. Furthered(F, D, H, E, Entry)
  BY <1>6, FurtheredTwice
<1> QED
  BY <1>6, <1>7 DEF H

LEMMA BrGuided ==
  ASSUME NEW F, NEW D, NEW s, NEW t, NEW results, Guiding(F, D, s, t, results),
         NEW x, NEW types, Receives(F, x, types), Passes(D, t.cur, x, Entry), Enough(t, Len(types))
  PROVE  Guided(BuildInst(addMergeCandidates(F, x, t.cur, peek(t.values, Len(types))),
                          t.cur, "br", Void, <<x>>), Left(s, t))
<1> DEFINE vs == peek(t.values, Len(types))
           c == t.cur
           M == addMergeCandidates(F, x, c, vs)
           G == BuildInst(M, c, "br", Void, <<x>>)
<1>1. /\ Good(F) /\ c \in DOMAIN F.code /\ t.values \in Seq(DOMAIN F.inst) /\ LoopsMerge
      /\ Led(F, D, Entry) /\ AllThere(F, D, t.values, c) /\ Furthered(F, D, F, D, Entry)
  BY GuidingIs
<1>2. vs \in Seq(DOMAIN F.inst) /\ Len(vs) = Len(types)
  BY <1>1, Peeked DEF Enough
<1>3. AllThere(F, D, vs, c)
  BY <1>1, AllThereCut DEF Enough
<1> HIDE DEF vs
<1>4. Furthered(F, D, M, D, Entry) /\ DOMAIN M.code = DOMAIN F.code
  BY <1>1, <1>2, <1>3, MergedLed
<1>5. Good(M) /\ Led(M, D, Entry) /\ x \in DOMAIN M.code /\ c \in DOMAIN M.code
  BY <1>1, <1>4, FurtheredIs DEF Receives, Expects
<1> HIDE DEF M
<1>6. Furthered(M, D, G, D, Entry)
  BY <1>5, BranchLed
<1> HIDE DEF G
<1>7. Furthered(F, D, G, D, Entry)
  BY <1>1, <1>4, <1>6, FurtheredTwice
<1>8. Guided(G, Left(s, t))
  BY <1>7, OverGuided
<1> QED
  BY <1>8 DEF G, M, vs

LEMMA HandOverGuided ==
  ASSUME NEW F, NEW D, NEW s, NEW t, NEW results, Guiding(F, D, s, t, results),
         NEW x, NEW types, Receives(F, x, types), Passes(D, t.cur, x, Entry),
         Len(types) \in Nat, Len(types) <= Len(t.values)
  PROVE  Guided(addMergeCandidates(BuildInst(F, t.cur, "br", Void, <<x>>), x, t.cur,
                                   peek(t.values, Len(types))), Left(s, t))
<1> DEFINE vs == peek(t.values, Len(types))
           c == t.cur
           M == BuildInst(F, c, "br", Void, <<x>>)
           G == addMergeCandidates(M, x, c, vs)
<1>1. /\ Good(F) /\ c \in DOMAIN F.code /\ t.values \in Seq(DOMAIN F.inst) /\ LoopsMerge
      /\ Led(F, D, Entry) /\ AllThere(F, D, t.values, c) /\ Furthered(F, D, F, D, Entry)
  BY GuidingIs
<1>2. vs \in Seq(DOMAIN F.inst) /\ Len(vs) = Len(types)
  BY <1>1, Peeked
<1>3. AllThere(F, D, vs, c)
  BY <1>1, AllThereCut
<1> HIDE DEF vs
<1>4. x \in DOMAIN F.code
  BY DEF Receives, Expects
<1>5. Furthered(F, D, M, D, Entry)
  BY <1>1, <1>4, BranchLed
<1> HIDE DEF M
<1>6. Furthered(F, D, G, D, Entry)
  BY <1>1, <1>2, <1>3, <1>5, MergedLed
<1> HIDE DEF G
<1>7. Guided(G, Left(s, t))
  BY <1>6, OverGuided
<1> QED
  BY <1>7 DEF G, M, vs

(* What a branch with a condition hands over is there.                     *)
LEMMA BeneathThere ==
  ASSUME NEW F, NEW D, NEW c, NEW X, NEW u \in Seq(X), AllThere(F, D, u, c), NEW n \in Nat, n + 1 <= Len(u)
  PROVE  AllThere(F, D, peek(pop(u, 1), n), c) /\ AllThere(F, D, pop(u, 1), c) /\ There(F, D, Last(u), c)
<1>1. Len(u) \in Nat /\ 1 <= Len(u) /\ 1 \in Nat
  BY LenProperties
<1>2. pop(u, 1) \in Seq(X) /\ Len(pop(u, 1)) = Len(u) - 1
  BY <1>1, Peeked
<1>3. AllThere(F, D, pop(u, 1), c)
  BY <1>1, AllThereCut
<1> DEFINE w == pop(u, 1)
<1>4. w \in Seq(X) /\ n <= Len(w) /\ AllThere(F, D, w, c)
  BY <1>1, <1>2, <1>3
<1> HIDE DEF w
<1>5. AllThere(F, D, peek(w, n), c)
  BY <1>4, AllThereCut
<1>6. Last(u) = u[Len(u)] /\ Len(u) \in 1 .. Len(u)
  BY <1>1 DEF Last
<1>7. There(F, D, Last(u), c)
  BY <1>6 DEF AllThere
<1> QED
  BY <1>3, <1>5, <1>7 DEF w

LEMMA TableGuided ==
  ASSUME NEW F, NEW D, NEW s, NEW t, NEW results, Guiding(F, D, s, t, results),
         NEW x, NEW y, NEW types, Receives(F, x, types), Receives(F, y, types), Enough(t, Len(types) + 1),
         Passes(D, t.cur, x, Entry), Passes(D, t.cur, y, Entry)
  PROVE  LET vs == peek(pop(t.values, 1), Len(types)) IN
         Guided(BuildInst(addMergeCandidates(addMergeCandidates(F, x, t.cur, vs), y, t.cur, vs),
                          t.cur, "switch", Void, <<Last(t.values), x, y>>), Left(s, t))
<1> DEFINE vs == peek(pop(t.values, 1), Len(types))
           v == Last(t.values)
           c == t.cur
           M == addMergeCandidates(F, x, c, vs)
           K == addMergeCandidates(M, y, c, vs)
           G == BuildInst(K, c, "switch", Void, <<v, x, y>>)
<1>1. /\ Good(F) /\ c \in DOMAIN F.code /\ t.values \in Seq(DOMAIN F.inst) /\ LoopsMerge
      /\ Led(F, D, Entry) /\ AllThere(F, D, t.values, c) /\ Furthered(F, D, F, D, Entry)
  BY GuidingIs
<1>2. Len(types) \in Nat /\ Len(types) + 1 <= Len(t.values)
  BY LenProperties DEF Enough, Receives, Expects
<1>3. /\ vs \in Seq(DOMAIN F.inst) /\ Len(vs) = Len(types) /\ AllThere(F, D, vs, c) /\ There(F, D, v, c)
      /\ v \in DOMAIN F.inst
  <2> DEFINE u == t.values
             n == Len(types)
  <2>1. u \in Seq(DOMAIN F.inst) /\ AllThere(F, D, u, c) /\ n \in Nat /\ n + 1 <= Len(u)
    BY <1>1, <1>2
  <2>2. types \in Seq(Types)
    BY DEF Receives, Expects
  <2>3. vs \in Seq(DOMAIN F.inst) /\ Len(vs) = n /\ Last(u) \in DOMAIN F.inst
    BY <1>1, <2>2, Beneath
  <2> HIDE DEF u, n, c
  <2>4. AllThere(F, D, peek(pop(u, 1), n), c) /\ There(F, D, Last(u), c)
    BY <2>1, BeneathThere
  <2> QED
    BY <2>3, <2>4 DEF u, n, vs, v
<1> HIDE DEF vs, v, c
<1>4. Furthered(F, D, M, D, Entry) /\ DOMAIN M.code = DOMAIN F.code
  BY <1>1, <1>3, MergedLed
<1> HIDE DEF M
<1>5. Furthered(F, D, K, D, Entry) /\ DOMAIN K.code = DOMAIN M.code
  BY <1>1, <1>3, <1>4, MergedLed
<1> HIDE DEF K
<1>6. Good(K) /\ Grown(F, K) /\ Led(K, D, Entry) /\ x \in DOMAIN K.code /\ y \in DOMAIN K.code /\ c \in DOMAIN K.code
  BY <1>1, <1>4, <1>5, FurtheredIs DEF Receives, Expects
<1>7. D[c] \subseteq DOMAIN F.code /\ D[c] \subseteq D[c]
  BY <1>1, LedIs
<1>8. There(K, D, v, c)
  BY <1>1, <1>3, <1>6, <1>7, ThereGrown
<1>9. Passes(D, c, x, Entry) /\ Passes(D, c, y, Entry)
  BY DEF c
<1>10. Furthered(K, D, G, D, Entry)
  BY <1>6, <1>8, <1>9, ChoiceLed
<1> HIDE DEF G
<1>11. Furthered(F, D, G, D, Entry)
  BY <1>1, <1>5, <1>10, FurtheredTwice
<1>12. Guided(G, Left(s, t))
  BY <1>11, OverGuided
<1> QED
  BY <1>12 DEF G, K, M, vs, v, c

LEMMA UnreachableGuided ==
  ASSUME NEW F, NEW D, NEW s, NEW t, NEW results, Guiding(F, D, s, t, results)
  PROVE  Guided(BuildInst(F, t.cur, "unreachable", Void, <<>>), Left(s, t))
<1> DEFINE r == <<>>
           c == t.cur
           G == BuildInst(F, c, "unreachable", Void, r)
<1>1. Good(F) /\ c \in DOMAIN F.code /\ Led(F, D, Entry)
  BY GuidingIs
<1>2. r \in Seq(DOMAIN F.inst) /\ Len(r) = 0
  OBVIOUS
<1> HIDE DEF r, c
<1>3. \A k \in 1 .. Len(r) : There(F, D, r[k], c)
  BY <1>2
<1>4. "unreachable" \notin Branches /\ "unreachable" # "phi"
  BY DEF Branches
<1>5. Furthered(F, D, G, D, Entry)
  BY <1>1, <1>2, <1>3, <1>4, PlainLed
<1> HIDE DEF G
<1>6. Guided(G, Left(s, t))
  BY <1>5, OverGuided
<1> QED
  BY <1>6 DEF G, r, c

-----------------------------------------------------------------------------
LEMMA RevaluedCast ==
  ASSUME NEW v \in Visitors, NEW vs, NEW ts, Revalued(v, vs, ts) \in Visitors
  PROVE  Recast(v, Revalued(v, vs, ts), v.cur, vs, ts)
<1> DEFINE c == v.cur
           b == v.before
           x == v.values
           t == v.types
           l == v.label
           m == v.labelTypes
           o == v.to
           r == v.results
           a == v.alt
           w == Nine(c, b, vs, ts, l, m, o, r, a)
<1>1. v = Nine(c, b, x, t, l, m, o, r, a)
  BY VisitorIs
<1>2. /\ w.label = l /\ w.labelTypes = m /\ w.to = o /\ w.results = r /\ w.alt = a
      /\ w.cur = c /\ w.values = vs /\ w.types = ts /\ w.before = b
  BY DEF Nine
<1> HIDE DEF c, b, x, t, l, m, o, r, a
<1>3. [v EXCEPT !.values = vs] = Nine(c, b, vs, t, l, m, o, r, a)
  BY <1>1, SMTT(30) DEF Nine
<1>4. [Nine(c, b, vs, t, l, m, o, r, a) EXCEPT !.types = ts] = w
  BY DEF Nine
<1>5. Revalued(v, vs, ts) = w
  BY <1>3, <1>4 DEF Revalued
<1> HIDE DEF w
<1> QED
  BY <1>2, <1>5 DEF Recast, c, b, l, m, o, r, a

LEMMA RecurredCast ==
  ASSUME NEW v \in Visitors, NEW n, NEW vs, NEW ts, Recurred(v, n, vs, ts) \in Visitors
  PROVE  Recast(v, Recurred(v, n, vs, ts), n, vs, ts)
<1> DEFINE c == v.cur
           b == v.before
           x == v.values
           t == v.types
           l == v.label
           m == v.labelTypes
           o == v.to
           r == v.results
           a == v.alt
           w == Nine(n, b, vs, ts, l, m, o, r, a)
<1>1. v = Nine(c, b, x, t, l, m, o, r, a)
  BY VisitorIs
<1>2. /\ w.label = l /\ w.labelTypes = m /\ w.to = o /\ w.results = r /\ w.alt = a
      /\ w.cur = n /\ w.values = vs /\ w.types = ts /\ w.before = b
  BY DEF Nine
<1> HIDE DEF c, b, x, t, l, m, o, r, a
<1>3. [v EXCEPT !.cur = n] = Nine(n, b, x, t, l, m, o, r, a)
  BY <1>1, SMTT(30) DEF Nine
<1>4. [Nine(n, b, x, t, l, m, o, r, a) EXCEPT !.values = vs] = Nine(n, b, vs, t, l, m, o, r, a)
  BY DEF Nine
<1>5. [Nine(n, b, vs, t, l, m, o, r, a) EXCEPT !.types = ts] = w
  BY DEF Nine
<1>6. Recurred(v, n, vs, ts) = w
  BY <1>3, <1>4, <1>5 DEF Recurred
<1> HIDE DEF w
<1> QED
  BY <1>2, <1>6 DEF Recast, b, l, m, o, r, a

(* The visitor goes on in its block.                                       *)
LEMMA StayGuided ==
  ASSUME NEW F, NEW D, NEW s, NEW t, NEW results, Guiding(F, D, s, t, results),
         NEW G, Furthered(F, D, G, D, Entry), NEW vs, NEW ts, AllThere(G, D, vs, t.cur),
         Working(G, Append(s, Revalued(t, vs, ts)), results)
  PROVE  Guided(G, Append(s, Revalued(t, vs, ts)))
<1> DEFINE w == Revalued(t, vs, ts)
           c == t.cur
<1>1. t \in Visitors /\ s \in Seq(Visitors)
  BY GuidingIs
<1>2. w \in Visitors
  BY <1>1, StackedAre
<1>3. Recast(t, w, c, vs, ts)
  BY <1>1, <1>2, RevaluedCast
<1> HIDE DEF w, c
<1>4. D[t.cur] \subseteq D[c] /\ AllThere(G, D, vs, c)
  BY DEF c
<1>5. Guides(G, D, Append(s, w)) /\ Led(G, D, Entry)
  BY <1>3, <1>4, GuidedSettled, FurtheredIs
<1> QED
  BY <1>5 DEF Guided, w

LEMMA PlainGuided ==
  ASSUME NEW F, NEW D, NEW s, NEW t, NEW results, Guiding(F, D, s, t, results),
         NEW kind, kind \notin Terminators, kind # "phi", NEW type,
         NEW refs \in Seq(DOMAIN F.inst), AllThere(F, D, refs, t.cur)
  PROVE  LET G == BuildInst(F, t.cur, kind, type, refs) IN
         Furthered(F, D, G, D, Entry) /\ There(G, D, F.next, t.cur)
<1>1. Good(F) /\ t.cur \in DOMAIN F.code /\ Led(F, D, Entry)
  BY GuidingIs
<1>2. kind \notin Branches
  BY DEF Terminators
<1> QED
  BY <1>1, <1>2, PlainLed DEF AllThere

(* The values under those that are popped stay there.                      *)
LEMMA PoppedThere ==
  ASSUME NEW F, NEW D, NEW s, NEW t, NEW results, Guiding(F, D, s, t, results),
         NEW G, NEW E, Furthered(F, D, G, E, Entry), NEW c, E[t.cur] \subseteq E[c],
         NEW n \in Nat, n <= Len(t.values)
  PROVE  AllThere(G, E, pop(t.values, n), c) /\ AllThere(G, E, peek(t.values, n), c)
<1>1. /\ Good(F) /\ Led(F, D, Entry) /\ t.cur \in DOMAIN F.code /\ t.values \in Seq(DOMAIN F.inst)
      /\ AllThere(F, D, t.values, t.cur)
  BY GuidingIs
<1>2. AllThere(G, E, t.values, c)
  BY <1>1, AllThereGrown
<1> QED
  BY <1>1, <1>2, AllThereCut

LEMMA ConstGuided ==
  ASSUME NEW F, NEW D, NEW s, NEW t, NEW results, Guiding(F, D, s, t, results), NEW type, NEW ts,
         Working(BuildInst(F, t.cur, "const", type, <<>>),
                 Append(s, Revalued(t, Append(t.values, F.next), ts)), results)
  PROVE  Guided(BuildInst(F, t.cur, "const", type, <<>>), Append(s, Revalued(t, Append(t.values, F.next), ts)))
<1> DEFINE r == <<>>
           G == BuildInst(F, t.cur, "const", type, r)
           vs == Append(t.values, F.next)
<1>1. r \in Seq(DOMAIN F.inst) /\ Len(r) = 0
  OBVIOUS
<1>2. "const" \notin Terminators /\ "const" # "phi"
  BY DEF Terminators, Branches
<1>3. Working(G, Append(s, Revalued(t, vs, ts)), results)
  OBVIOUS
<1> HIDE DEF r
<1>4. AllThere(F, D, r, t.cur)
  BY <1>1 DEF AllThere
<1>5. Furthered(F, D, G, D, Entry) /\ There(G, D, F.next, t.cur)
  BY <1>1, <1>2, <1>4, PlainGuided
<1>6. /\ Good(F) /\ Led(F, D, Entry) /\ t.cur \in DOMAIN F.code /\ t.values \in Seq(DOMAIN F.inst)
      /\ AllThere(F, D, t.values, t.cur)
  BY GuidingIs
<1> HIDE DEF G
<1>7. AllThere(G, D, t.values, t.cur)
  <2>1. D[t.cur] \subseteq D[t.cur]
    OBVIOUS
  <2> QED
    BY <1>5, <1>6, <2>1, AllThereGrown
<1>8. AllThere(G, D, vs, t.cur)
  BY <1>5, <1>6, <1>7, AllTherePushed
<1> HIDE DEF vs
<1>9. Guided(G, Append(s, Revalued(t, vs, ts)))
  BY <1>3, <1>5, <1>8, StayGuided
<1> QED
  BY <1>9 DEF G, vs, r

LEMMA UnaryGuided ==
  ASSUME NEW F, NEW D, NEW s, NEW t, NEW results, Guiding(F, D, s, t, results), NEW type, NEW ts, Enough(t, 1),
         Working(BuildInst(F, t.cur, "unary", type, peek(t.values, 1)),
                 Append(s, Revalued(t, Append(pop(t.values, 1), F.next), ts)), results)
  PROVE  Guided(BuildInst(F, t.cur, "unary", type, peek(t.values, 1)),
                Append(s, Revalued(t, Append(pop(t.values, 1), F.next), ts)))
<1> DEFINE r == peek(t.values, 1)
           G == BuildInst(F, t.cur, "unary", type, r)
           u == pop(t.values, 1)
           vs == Append(u, F.next)
<1>1. /\ Good(F) /\ t.values \in Seq(DOMAIN F.inst) /\ AllThere(F, D, t.values, t.cur)
      /\ Furthered(F, D, F, D, Entry) /\ 1 \in Nat /\ 1 <= Len(t.values)
  BY GuidingIs DEF Enough
<1>2. r \in Seq(DOMAIN F.inst) /\ AllThere(F, D, r, t.cur) /\ u \in Seq(DOMAIN F.inst)
  BY <1>1, Peeked, AllThereCut
<1>3. "unary" \notin Terminators /\ "unary" # "phi"
  BY DEF Terminators, Branches
<1>4. Working(G, Append(s, Revalued(t, vs, ts)), results)
  OBVIOUS
<1> HIDE DEF r
<1>5. Furthered(F, D, G, D, Entry) /\ There(G, D, F.next, t.cur)
  BY <1>2, <1>3, PlainGuided
<1> HIDE DEF G
<1>6. AllThere(G, D, u, t.cur)
  <2>1. D[t.cur] \subseteq D[t.cur]
    OBVIOUS
  <2> QED
    BY <1>1, <1>5, <2>1, PoppedThere
<1> HIDE DEF u
<1>7. AllThere(G, D, vs, t.cur)
  BY <1>2, <1>5, <1>6, AllTherePushed
<1> HIDE DEF vs
<1>8. Guided(G, Append(s, Revalued(t, vs, ts)))
  BY <1>4, <1>5, <1>7, StayGuided
<1> QED
  BY <1>8 DEF G, vs, u, r

LEMMA PopGuided ==
  ASSUME NEW F, NEW D, NEW s, NEW t, NEW results, Guiding(F, D, s, t, results), Enough(t, 1),
         NEW G, Furthered(F, D, G, D, Entry), NEW ts,
         Working(G, Append(s, Revalued(t, pop(t.values, 1), ts)), results)
  PROVE  Guided(G, Append(s, Revalued(t, pop(t.values, 1), ts)))
<1>1. AllThere(G, D, pop(t.values, 1), t.cur)
  <2>1. D[t.cur] \subseteq D[t.cur] /\ 1 \in Nat /\ 1 <= Len(t.values)
    BY DEF Enough
  <2> QED
    BY <2>1, PoppedThere
<1> QED
  BY <1>1, StayGuided

LEMMA CallGuided ==
  ASSUME NEW F, NEW D, NEW s, NEW t, NEW results, Guiding(F, D, s, t, results), Enough(t, 1), NEW ts,
         Working(BuildInst(F, t.cur, "call", Void, peek(t.values, 1)),
                 Append(s, Revalued(t, pop(t.values, 1), ts)), results)
  PROVE  Guided(BuildInst(F, t.cur, "call", Void, peek(t.values, 1)),
                Append(s, Revalued(t, pop(t.values, 1), ts)))
<1> DEFINE r == peek(t.values, 1)
           G == BuildInst(F, t.cur, "call", Void, r)
<1>1. t.values \in Seq(DOMAIN F.inst) /\ AllThere(F, D, t.values, t.cur) /\ 1 \in Nat /\ 1 <= Len(t.values)
  BY GuidingIs DEF Enough
<1>2. r \in Seq(DOMAIN F.inst) /\ AllThere(F, D, r, t.cur)
  BY <1>1, Peeked, AllThereCut
<1>3. "call" \notin Terminators /\ "call" # "phi"
  BY DEF Terminators, Branches
<1> HIDE DEF r
<1>4. Furthered(F, D, G, D, Entry)
  BY <1>2, <1>3, PlainGuided
<1> HIDE DEF G
<1>5. Working(G, Append(s, Revalued(t, pop(t.values, 1), ts)), results)
  BY DEF G, r
<1>6. Guided(G, Append(s, Revalued(t, pop(t.values, 1), ts)))
  BY <1>4, <1>5, PopGuided
<1> QED
  BY <1>6 DEF G, r

LEMMA DropGuided ==
  ASSUME NEW F, NEW D, NEW s, NEW t, NEW results, Guiding(F, D, s, t, results), Enough(t, 1), NEW ts,
         Working(F, Append(s, Revalued(t, pop(t.values, 1), ts)), results)
  PROVE  Guided(F, Append(s, Revalued(t, pop(t.values, 1), ts)))
BY PopGuided, GuidingIs

-----------------------------------------------------------------------------
(* A new block n whose only way in is through c.                           *)
Below(E, c, n) == E[n] = E[c] \cup {n} /\ n # Entry

LEMMA BelowPasses ==
  ASSUME NEW E, NEW c, NEW n, Below(E, c, n)
  PROVE  Passes(E, c, n, Entry) /\ E[c] \subseteq E[n]
BY DEF Below, Passes

LEMMA BelowGrown ==
  ASSUME NEW F, NEW D, NEW G, NEW E, Furthered(F, D, G, E, Entry), NEW c \in DOMAIN F.code,
         NEW n \in DOMAIN F.code, Below(D, c, n)
  PROVE  Below(E, c, n)
BY DEF Below, Furthered

LEMMA NextLed ==
  ASSUME NEW F, Good(F), NEW D, NEW G, NEW E, Led(F, D, Entry), Furthered(F, D, G, E, Entry),
         NEW pos \in DOMAIN F.code, pos # Entry, NEW c \in DOMAIN F.code
  PROVE  LET H == BuildBasicBlock(G, pos) IN
         /\ Opened(G, H, G.next)
         /\ \E X : Furthered(F, D, H, X, Entry) /\ Furthered(G, E, H, X, Entry) /\ Below(X, c, G.next)
<1> DEFINE H == BuildBasicBlock(G, pos)
           n == G.next
           X == Spread(E, DOMAIN G.code, c, n)
<1>1. Good(G) /\ Led(G, E, Entry) /\ DOMAIN F.code \subseteq DOMAIN G.code
  BY FurtheredIs
<1>2. pos \in DOMAIN G.code /\ c \in DOMAIN G.code
  BY <1>1
<1>3. Furthered(G, E, H, X, Entry) /\ X[n] = E[c] \cup {n} /\ Opened(G, H, n)
  BY <1>1, <1>2, BlockLed
<1> HIDE DEF X, n, H
<1>4. X[c] = E[c]
  BY <1>2, <1>3, FurtheredIs
<1>5. Entry \in DOMAIN G.code /\ n \notin DOMAIN G.code
  BY <1>1, <1>3, LedIs DEF Opened
<1>6. n # Entry
  BY <1>5
<1>7. Furthered(F, D, H, X, Entry)
  BY <1>3, FurtheredTwice
<1>8. Below(X, c, n)
  BY <1>3, <1>4, <1>6 DEF Below
<1> QED
  BY <1>3, <1>7, <1>8 DEF H, n

(* The visitor of a body that starts in c.                                 *)
Started(G, E, c, b) == StockedAll(G, E, b) /\ Reach(E, b, b) /\ (\A x \in Curs(b) : E[c] \subseteq E[x])

LEMMA BodyGuided ==
  ASSUME NEW F, NEW D, NEW s, NEW t, NEW results, Guiding(F, D, s, t, results),
         NEW G, NEW E, Furthered(F, D, G, E, Entry), NEW c, E[t.cur] \subseteq E[c],
         NEW l, Passes(E, c, l, Entry), NEW o, Passes(E, c, o, Entry), NEW before, before # Entry,
         NEW vs, AllThere(G, E, vs, c), NEW ts, NEW m, NEW r
  PROVE  Started(G, E, t.cur, Body(c, before, vs, ts, l, m, o, r))
<1> DEFINE b == Body(c, before, vs, ts, l, m, o, r)
<1>1. /\ Exit \in DOMAIN F.code /\ t.cur \in DOMAIN F.code
      /\ Reach(D, t, t) /\ Ready(F, t)
  BY GuidingIs
<1>2. /\ b.cur = c /\ b.before = before /\ b.values = vs /\ b.label = l /\ b.to = o /\ b.alt = <<>>
  BY DEF Body
<1> HIDE DEF b
<1>3. DOMAIN b.alt = {}
  BY <1>2
<1>4. Curs(b) = {c} /\ Places(b) = {Exit, l, o}
  BY <1>2, <1>3 DEF Curs, Places
<1>5. Exit \in Places(t)
  BY DEF Places
<1>6. Passes(E, c, Exit, Entry)
  BY <1>1, <1>5, PlacesThere, ReachBelow
<1>7. Reach(E, b, b)
  BY <1>4, <1>6 DEF Reach
<1>8. StockedAll(G, E, b)
  BY <1>2, <1>3 DEF StockedAll, Stocked
<1> QED
  BY <1>4, <1>7, <1>8 DEF Started, b

(* Both visitors on the stack.                                             *)
LEMMA NestGuided ==
  ASSUME NEW F, NEW D, NEW s, NEW t, NEW results, Guiding(F, D, s, t, results),
         NEW G, NEW E, Furthered(F, D, G, E, Entry), NEW n, E[t.cur] \subseteq E[n],
         NEW k \in Nat, k <= Len(t.values), NEW values \in Seq(DOMAIN G.inst), AllThere(G, E, values, n),
         NEW types, NEW b, Started(G, E, t.cur, b),
         Working(G, s \o <<Relanded(t, n, k, values, types), b>>, results)
  PROVE  Guided(G, s \o <<Relanded(t, n, k, values, types), b>>)
<1> DEFINE vs == pop(t.values, k) \o values
           ts == pop(t.types, k) \o types
           w == Recurred(t, n, vs, ts)
<1>1. t \in Visitors /\ s \in Seq(Visitors) /\ t.values \in Seq(DOMAIN F.inst)
  BY GuidingIs
<1>2. Relanded(t, n, k, values, types) = w
  BY DEF Relanded
<1>3. w \in Visitors /\ b \in Visitors
  <2> HIDE DEF w
  <2> QED
    BY <1>1, <1>2, StackedAre
<1>4. AllThere(G, E, vs, n)
  <2> DEFINE u == pop(t.values, k)
  <2>1. AllThere(G, E, u, n)
    BY PoppedThere
  <2>2. u \in Seq(DOMAIN G.inst)
    <3>1. DOMAIN F.inst \subseteq DOMAIN G.inst
      BY FurtheredIs
    <3>2. u \in Seq(DOMAIN F.inst)
      BY <1>1, Peeked
    <3> HIDE DEF u
    <3> QED
      BY <3>1, <3>2, SeqMonotonic
  <2> HIDE DEF u
  <2>3. AllThere(G, E, u \o values, n)
    BY <2>1, <2>2, AllThereJoined
  <2> QED
    BY <2>3 DEF u
<1> HIDE DEF vs, ts
<1>5. Recast(t, w, n, vs, ts)
  BY <1>1, <1>3, RecurredCast
<1> HIDE DEF w
<1>6. StockedAll(G, E, b) /\ Reach(E, b, b) /\ \A x \in Curs(b) : E[t.cur] \subseteq E[x]
  BY DEF Started
<1>7. Guides(G, E, s \o <<w, b>>)
  BY <1>3, <1>4, <1>5, <1>6, GuidedNested
<1>8. Led(G, E, Entry)
  BY FurtheredIs
<1> QED
  BY <1>2, <1>7, <1>8 DEF Guided

LEMMA BrIfGuided ==
  ASSUME NEW F, NEW D, NEW s, NEW t, NEW results, Guiding(F, D, s, t, results),
         NEW x, NEW types, Receives(F, x, types), Enough(t, Len(types) + 1), Passes(D, t.cur, x, Entry)
  PROVE  LET vs == pop(t.values, 1)
             M  == addMergeCandidates(BuildBasicBlock(F, t.before), x, t.cur, peek(vs, Len(types)))
         IN  Guided(BuildInst(M, t.cur, "cond", Void, <<Last(t.values), x, F.next>>),
                    Append(s, Recurred(t, F.next, vs, pop(t.types, 1))))
<1> DEFINE n == F.next
           v == Last(t.values)
           c == t.cur
           us == pop(t.values, 1)
           vs == peek(us, Len(types))
           ts == pop(t.types, 1)
           B == BuildBasicBlock(F, t.before)
           M == addMergeCandidates(B, x, c, vs)
           G == BuildInst(M, c, "cond", Void, <<v, x, n>>)
           w == Recurred(t, n, us, ts)
<1>1. /\ Good(F) /\ c \in DOMAIN F.code /\ t.values \in Seq(DOMAIN F.inst) /\ LoopsMerge
      /\ Led(F, D, Entry) /\ AllThere(F, D, t.values, c) /\ Furthered(F, D, F, D, Entry)
      /\ t.before \in DOMAIN F.code /\ t.before # Entry /\ t \in Visitors /\ s \in Seq(Visitors)
      /\ Face(F, s, t, results)
  BY GuidingIs
<1>2. types \in Seq(Types) /\ x \in DOMAIN F.code /\ Expects(F, x, types)
  BY DEF Receives, Expects
<1>3. Len(types) \in Nat /\ Len(types) + 1 <= Len(t.values)
  BY <1>2, LenProperties DEF Enough
<1>4. vs \in Seq(DOMAIN F.inst) /\ Len(vs) = Len(types) /\ v \in DOMAIN F.inst
  BY <1>1, <1>2, Beneath
<1>5. AllThere(F, D, vs, c) /\ There(F, D, v, c)
  <2> DEFINE u == t.values
             m == Len(types)
  <2>1. u \in Seq(DOMAIN F.inst) /\ AllThere(F, D, u, c) /\ m \in Nat /\ m + 1 <= Len(u)
    BY <1>1, <1>3
  <2> HIDE DEF u, m, c
  <2>2. AllThere(F, D, peek(pop(u, 1), m), c) /\ There(F, D, Last(u), c)
    BY <2>1, BeneathThere
  <2> QED
    BY <2>2 DEF u, m
<1>6. w \in Visitors
  <2>1. Working(G, Append(s, w), results)
    BY <1>1, <1>2, BrIfStep
  <2> HIDE DEF G, w
  <2> QED
    BY <1>1, <2>1, StackedAre
<1>7. Recast(t, w, n, us, ts)
  <2> HIDE DEF n, us, ts
  <2> QED
    BY <1>1, <1>6, RecurredCast
<1> HIDE DEF vs, v, w, ts
<1>8. Opened(F, B, n)
  BY <1>1, NextLed
<1>9. PICK E : Furthered(F, D, B, E, Entry) /\ Below(E, c, n)
  BY <1>1, NextLed
<1> HIDE DEF B, n, c
<1>10. Furthered(F, D, M, E, Entry) /\ DOMAIN M.code = DOMAIN B.code
  BY <1>1, <1>4, <1>5, <1>9, MergedLed
<1> HIDE DEF M
<1>11. Good(M) /\ Grown(F, M) /\ Led(M, E, Entry) /\ DOMAIN F.code \subseteq DOMAIN M.code
       /\ E[c] = D[c] /\ E[x] = D[x]
  BY <1>1, <1>2, <1>10, FurtheredIs
<1>12. n \in DOMAIN M.code /\ x \in DOMAIN M.code /\ c \in DOMAIN M.code
  BY <1>1, <1>2, <1>8, <1>10, <1>11 DEF Opened
<1>13. There(M, E, v, c)
  <2>1. D[c] \subseteq DOMAIN F.code /\ D[c] \subseteq E[c]
    BY <1>1, <1>11, LedIs
  <2> QED
    BY <1>1, <1>5, <1>11, <2>1, ThereGrown
<1>14. Passes(E, c, x, Entry) /\ Passes(E, c, n, Entry) /\ E[c] \subseteq E[n]
  BY <1>9, <1>11, BelowPasses DEF Passes, c
<1>15. Furthered(M, E, G, E, Entry)
  BY <1>11, <1>12, <1>13, <1>14, ChoiceLed
<1> HIDE DEF G
<1>16. Furthered(F, D, G, E, Entry)
  BY <1>1, <1>10, <1>15, FurtheredTwice
<1>17. E[t.cur] \subseteq E[n]
  BY <1>14 DEF c
<1>18. AllThere(G, E, us, n)
  <2>1. 1 \in Nat /\ 1 <= Len(t.values)
    BY <1>3
  <2> QED
    BY <1>16, <1>17, <2>1, PoppedThere DEF us
<1> HIDE DEF us
<1>19. Guides(G, E, Append(s, w)) /\ Led(G, E, Entry)
  BY <1>7, <1>16, <1>17, <1>18, GuidedSettled, FurtheredIs
<1>20. Guided(G, Append(s, w))
  BY <1>19 DEF Guided
<1> QED
  BY <1>20 DEF G, M, B, n, v, c, us, vs, ts, w

LEMMA BlockGuided ==
  ASSUME NEW F, NEW D, NEW s, NEW t, NEW results, Guiding(F, D, s, t, results),
         NEW p \in Seq(Types), NEW r \in Seq(Types), Offers(t, p)
  PROVE  LET n == F.next
             G == BuildPhis(BuildBasicBlock(F, t.before), n, r)
         IN  Guided(G, s \o <<Relanded(t, n, Len(p), Phis(G, n), r),
                              Body(t.cur, n, peek(t.values, Len(p)), p, n, r, n, r)>>)
<1> DEFINE n == F.next
           c == t.cur
           k == Len(p)
           B == BuildBasicBlock(F, t.before)
           G == BuildPhis(B, n, r)
           args == peek(t.values, k)
           ps == Phis(G, n)
           b == Body(c, n, args, p, n, r, n, r)
<1>1. /\ Good(F) /\ c \in DOMAIN F.code /\ Led(F, D, Entry) /\ Furthered(F, D, F, D, Entry)
      /\ t.before \in DOMAIN F.code /\ t.before # Entry /\ Face(F, s, t, results)
  BY GuidingIs
<1>2. Working(G, s \o <<Relanded(t, n, k, ps, r), b>>, results)
  BY <1>1, BlockStep
<1>3. k \in Nat /\ k <= Len(t.values) /\ Len(r) \in Nat
  BY <1>1, OffersEnough, LenProperties
<1>4. Opened(F, B, n)
  BY <1>1, NextLed
<1>5. PICK E : Furthered(F, D, B, E, Entry) /\ Below(E, c, n)
  BY <1>1, NextLed
<1> HIDE DEF B, n, k
<1>6. Good(B) /\ n \in DOMAIN B.code /\ B.code[n] = <<>> /\ Led(B, E, Entry)
  BY <1>4, <1>5, FurtheredIs DEF Opened
<1>7. Furthered(B, E, G, E, Entry) /\ \A j \in 1 .. Len(ps) : There(G, E, ps[j], n)
  BY <1>3, <1>6, PhisLed
<1>8. ps \in Seq(DOMAIN G.inst)
  <2>1. Opened(F, B, n) /\ n \notin DOMAIN F.code /\ Grown(F, B) /\ Faultless(F, B)
    BY <1>4 DEF Opened, Faultless
  <2>2. LandsOn(F, B, G, n, r)
    BY <1>1, <1>6, <2>1, LandingLaid
  <2> QED
    BY <2>2 DEF LandsOn, Lands
<1> HIDE DEF G, ps
<1>9. Furthered(F, D, G, E, Entry)
  BY <1>1, <1>5, <1>7, FurtheredTwice
<1>10. AllThere(G, E, ps, n)
  BY <1>7 DEF AllThere
<1>11. Passes(E, c, n, Entry) /\ E[c] \subseteq E[n] /\ E[c] \subseteq E[c] /\ n # Entry
  BY <1>5, BelowPasses DEF Below
<1>12. AllThere(G, E, args, c)
  BY <1>3, <1>9, <1>11, PoppedThere
<1> HIDE DEF args
<1>13. Started(G, E, t.cur, b)
  BY <1>9, <1>11, <1>12, BodyGuided
<1> HIDE DEF b
<1>14. Guided(G, s \o <<Relanded(t, n, k, ps, r), b>>)
  <2>1. E[t.cur] \subseteq E[n]
    BY <1>11
  <2> QED
    BY <1>2, <1>3, <1>8, <1>9, <1>10, <1>13, <2>1, NestGuided
<1> QED
  BY <1>14 DEF G, B, n, c, k, args, ps, b

-----------------------------------------------------------------------------
LEMMA LoopGuided ==
  ASSUME NEW F, NEW D, NEW s, NEW t, NEW results, Guiding(F, D, s, t, results),
         NEW p \in Seq(Types), NEW r \in Seq(Types), Offers(t, p), Zips(p, r)
  PROVE  LET l == F.next
             n == F.next + 1
             B == BuildBasicBlock(BuildBasicBlock(F, t.before), t.before)
             J == BuildInst(B, t.cur, "br", Void, <<l>>)
             L == MergePhis(J, l, t.cur, r, peek(t.values, Len(p)))
             G == BuildPhis(L, n, r)
         IN  Guided(G, s \o <<Relanded(t, n, Len(p), Phis(G, n), r),
                              Body(l, n, L.code[l], p, l, p, n, r)>>)
<1> DEFINE l == F.next
           n == F.next + 1
           c == t.cur
           k == Len(p)
           A == BuildBasicBlock(F, t.before)
           B == BuildBasicBlock(A, t.before)
           J == BuildInst(B, c, "br", Void, <<l>>)
           args == peek(t.values, k)
           L == MergePhis(J, l, c, r, args)
           G == BuildPhis(L, n, r)
           code == L.code[l]
           ps == Phis(G, n)
           b == Body(l, n, code, p, l, p, n, r)
           nothing == <<>>
           z == Smaller(Len(r), Len(args))
<1>1. /\ Good(F) /\ c \in DOMAIN F.code /\ Led(F, D, Entry) /\ Furthered(F, D, F, D, Entry)
      /\ t.before \in DOMAIN F.code /\ t.before # Entry /\ Face(F, s, t, results)
      /\ t.values \in Seq(DOMAIN F.inst) /\ AllThere(F, D, t.values, c)
  BY GuidingIs
<1>2. Working(G, s \o <<Relanded(t, n, k, ps, r), b>>, results)
  BY <1>1, LoopStep
<1>3. k \in Nat /\ k <= Len(t.values) /\ Len(r) \in Nat
  BY <1>1, OffersEnough, LenProperties
<1>4. args \in Seq(DOMAIN F.inst) /\ AllThere(F, D, args, c)
  BY <1>1, <1>3, Peeked, AllThereCut
<1> HIDE DEF k, args
<1>5. Opened(F, A, l)
  BY <1>1, NextLed
<1>6. PICK E : Furthered(F, D, A, E, Entry) /\ Below(E, c, l)
  BY <1>1, NextLed
<1>7. A.next = n
  BY <1>5 DEF Opened
<1> HIDE DEF A
<1>8. Opened(A, B, n)
  BY <1>1, <1>6, <1>7, NextLed
<1>9. PICK X : Furthered(F, D, B, X, Entry) /\ Furthered(A, E, B, X, Entry) /\ Below(X, c, n)
  BY <1>1, <1>6, <1>7, NextLed
<1> HIDE DEF B, l, n, c, nothing
<1>10. /\ l \in DOMAIN B.code /\ n \in DOMAIN B.code /\ c \in DOMAIN B.code /\ l # n /\ l # c /\ n # c
       /\ B.code[l] = nothing /\ B.code[n] = nothing /\ n \notin DOMAIN F.code
  <2>1. /\ l \in DOMAIN A.code /\ l \notin DOMAIN F.code /\ A.code[l] = nothing
        /\ DOMAIN A.code = DOMAIN F.code \cup {l}
    BY <1>5 DEF Opened, nothing
  <2>2. /\ n \in DOMAIN B.code /\ n \notin DOMAIN A.code /\ B.code[n] = nothing
        /\ DOMAIN B.code = DOMAIN A.code \cup {n} /\ \A d \in DOMAIN A.code : B.code[d] = A.code[d]
    BY <1>8 DEF Opened, nothing
  <2> QED
    BY <1>1, <2>1, <2>2
<1>11. Below(X, c, l)
  <2>1. c \in DOMAIN A.code /\ l \in DOMAIN A.code
    BY <1>1, <1>5 DEF Opened
  <2> QED
    BY <1>6, <1>9, <2>1, BelowGrown
<1>12. /\ Passes(X, c, l, Entry) /\ Passes(X, c, n, Entry) /\ X[c] \subseteq X[l] /\ X[c] \subseteq X[n]
  BY <1>9, <1>11, BelowPasses
<1>13. Good(B) /\ Led(B, X, Entry)
  BY <1>9, FurtheredIs
<1>14. Furthered(B, X, J, X, Entry) /\ DOMAIN J.code = DOMAIN B.code
  BY <1>10, <1>12, <1>13, BranchLed
<1>15. Put1(B, J, c, "br", Void)
  BY <1>10, <1>13, BranchBuilt
<1> HIDE DEF J
<1>16. Furthered(F, D, J, X, Entry)
  BY <1>1, <1>9, <1>14, FurtheredTwice
<1>17. /\ Good(J) /\ Led(J, X, Entry) /\ J.code[l] = nothing /\ J.code[n] = nothing
       /\ DOMAIN F.inst \subseteq DOMAIN J.inst /\ Grown(F, J)
  BY <1>10, <1>15, <1>16, FurtheredIs DEF Put1
<1>18. args \in Seq(DOMAIN J.inst) /\ AllThere(J, X, args, c)
  <2>1. X[c] \subseteq X[c]
    OBVIOUS
  <2> QED
    BY <1>1, <1>4, <1>16, <1>17, <2>1, AllThereGrown, SeqMonotonic
<1>19. /\ Furthered(J, X, L, X, Entry) /\ DOMAIN L.code = DOMAIN J.code /\ AllThere(L, X, code, l)
  <2>1. J.code[l] = <<>> /\ l \in DOMAIN J.code /\ c \in DOMAIN J.code
    BY <1>10, <1>14, <1>17 DEF nothing
  <2> QED
    BY <1>3, <1>17, <1>18, <2>1, LoopLed
<1>20. PhisPut(J, L, l, r, z)
  <2>1. J.code[l] = <<>> /\ l \in DOMAIN J.code /\ c \in DOMAIN J.code
    BY <1>10, <1>14, <1>17 DEF nothing
  <2> QED
    BY <1>3, <1>17, <1>18, <2>1, PhisMerged
<1> HIDE DEF L, code, z
<1>21. Good(L) /\ Led(L, X, Entry) /\ n \in DOMAIN L.code /\ L.code[n] = nothing /\ L.fault = J.fault
  BY <1>10, <1>14, <1>17, <1>19, <1>20, FurtheredIs DEF PhisPut
<1>22. Furthered(F, D, L, X, Entry)
  BY <1>1, <1>16, <1>19, FurtheredTwice
<1>23. Furthered(L, X, G, X, Entry) /\ \A j \in 1 .. Len(ps) : There(G, X, ps[j], n)
  <2>1. L.code[n] = <<>>
    BY <1>21 DEF nothing
  <2> QED
    BY <1>3, <1>21, <2>1, PhisLed
<1>24. ps \in Seq(DOMAIN G.inst)
  <2>1. Grown(F, L) /\ L.code[n] = <<>>
    BY <1>21, <1>22, FurtheredIs DEF nothing
  <2>2. A.fault = F.fault /\ B.fault = A.fault /\ J.fault = B.fault
    BY <1>5, <1>8, <1>15 DEF Opened, Put1
  <2>3. Faultless(F, L)
    BY <1>21, <2>2 DEF Faultless
  <2>4. LandsOn(F, L, G, n, r)
    BY <1>1, <1>10, <1>21, <2>1, <2>3, LandingLaid
  <2> QED
    BY <2>4 DEF LandsOn, Lands
<1> HIDE DEF G, ps
<1>25. Furthered(F, D, G, X, Entry)
  BY <1>1, <1>22, <1>23, FurtheredTwice
<1>26. AllThere(G, X, ps, n)
  BY <1>23 DEF AllThere
<1>27. AllThere(G, X, code, l)
  <2>1. l \in DOMAIN L.code /\ X[l] \subseteq X[l]
    BY <1>10, <1>14, <1>19
  <2> QED
    BY <1>19, <1>21, <1>23, <2>1, AllThereGrown
<1>28. Passes(X, l, l, Entry) /\ Passes(X, l, n, Entry) /\ n # Entry
  BY <1>9, <1>11, <1>12 DEF Passes, Below
<1>29. X[t.cur] \subseteq X[l] /\ X[t.cur] \subseteq X[n]
  BY <1>12 DEF c
<1>30. Started(G, X, t.cur, b)
  BY <1>25, <1>27, <1>28, <1>29, BodyGuided
<1> HIDE DEF b
<1>31. Guided(G, s \o <<Relanded(t, n, k, ps, r), b>>)
  BY <1>2, <1>3, <1>24, <1>25, <1>26, <1>29, <1>30, NestGuided
<1> QED
  BY <1>31 DEF G, L, J, B, A, n, l, c, k, args, code, ps, b

-----------------------------------------------------------------------------
(* The conditionals.                                                       *)

LEMMA WithAltIs ==
  ASSUME NEW c, NEW before, NEW vs, NEW ts, NEW l, NEW m, NEW o, NEW r, NEW y
  PROVE  LET w == WithAlt(Body(c, before, vs, ts, l, m, o, r), y) IN
         /\ w.cur = c /\ w.before = before /\ w.values = vs /\ w.label = l /\ w.to = o
         /\ DOMAIN w.alt = {1} /\ w.alt[1] = y
<1> DEFINE a == <<y>>
<1>1. DOMAIN a = {1} /\ a[1] = y
  <2>1. DOMAIN a = 1 .. 1 /\ 1 .. 1 = {1}
    OBVIOUS
  <2> QED
    BY <2>1
<1> DEFINE w == [Body(c, before, vs, ts, l, m, o, r) EXCEPT !.alt = a]
<1>2. w = WithAlt(Body(c, before, vs, ts, l, m, o, r), y)
  BY DEF WithAlt
<1> HIDE DEF a
<1>3. w.cur = c /\ w.before = before /\ w.values = vs /\ w.label = l /\ w.to = o /\ w.alt = a
  BY DEF Body
<1> HIDE DEF w
<1> QED
  BY <1>1, <1>2, <1>3

LEMMA BothGuided ==
  ASSUME NEW G, NEW E, NEW z, NEW c, NEW before, NEW vs, NEW ts, NEW l, NEW m, NEW o, NEW r,
         NEW d, NEW after, NEW us,
         Started(G, E, z, Body(c, before, vs, ts, l, m, o, r)), Started(G, E, z, Body(d, after, us, ts, l, m, o, r))
  PROVE  Started(G, E, z, WithAlt(Body(c, before, vs, ts, l, m, o, r), Body(d, after, us, ts, l, m, o, r)))
<1> DEFINE x == Body(c, before, vs, ts, l, m, o, r)
           y == Body(d, after, us, ts, l, m, o, r)
           w == WithAlt(x, y)
<1>1. /\ w.cur = c /\ w.before = before /\ w.values = vs /\ w.label = l /\ w.to = o
      /\ DOMAIN w.alt = {1} /\ w.alt[1] = y
  <2> HIDE DEF y
  <2> QED
    BY WithAltIs
<1>2. /\ x.cur = c /\ x.before = before /\ x.values = vs /\ x.label = l /\ x.to = o /\ x.alt = <<>>
      /\ y.cur = d /\ y.before = after /\ y.values = us /\ y.label = l /\ y.to = o /\ y.alt = <<>>
  BY DEF Body
<1> HIDE DEF x, y, w
<1>3. DOMAIN x.alt = {} /\ DOMAIN y.alt = {}
  BY <1>2
<1>4. Curs(x) = {c} /\ Curs(y) = {d} /\ Curs(w) = {c, d}
  BY <1>1, <1>2, <1>3 DEF Curs
<1>5. Places(x) = {Exit, l, o} /\ Places(y) = {Exit, l, o} /\ Places(w) = {Exit, l, o}
  BY <1>1, <1>2, <1>3 DEF Places
<1>6. Started(G, E, z, x) /\ Started(G, E, z, y)
  BY DEF x, y
<1>7. Reach(E, w, w)
  BY <1>4, <1>5, <1>6 DEF Started, Reach
<1>8. \A q \in Curs(w) : E[z] \subseteq E[q]
  BY <1>4, <1>6 DEF Started
<1>9. StockedAll(G, E, w)
  <2>1. Stocked(G, E, x) /\ Stocked(G, E, y)
    BY <1>6 DEF Started, StockedAll
  <2>2. Stocked(G, E, w)
    BY <1>1, <1>2, <2>1 DEF Stocked
  <2> QED
    BY <1>1, <2>1, <2>2 DEF StockedAll
<1> QED
  BY <1>7, <1>8, <1>9 DEF Started, w, x, y

-----------------------------------------------------------------------------
LEMMA IfElseGuided ==
  ASSUME NEW F, NEW D, NEW s, NEW t, NEW results, Guiding(F, D, s, t, results),
         NEW p \in Seq(Types), NEW r \in Seq(Types), CondType \in Types, Offers(t, Append(p, CondType))
  PROVE  LET x == F.next
             y == F.next + 1
             n == F.next + 2
             args == peek(pop(t.values, 1), Len(p))
             B == BuildBasicBlock(BuildBasicBlock(BuildBasicBlock(F, t.before), t.before), t.before)
             C == BuildInst(B, t.cur, "cond", Void, <<Last(t.values), x, y>>)
             G == BuildPhis(C, n, r)
         IN  Guided(G, s \o <<Relanded(t, n, Len(p) + 1, Phis(G, n), r),
                              WithAlt(Body(x, y, args, p, n, r, n, r), Body(y, n, args, p, n, r, n, r))>>)
<1> DEFINE x == F.next
           y == F.next + 1
           n == F.next + 2
           args == peek(pop(t.values, 1), Len(p))
           v == Last(t.values)
           c == t.cur
           k == Len(p) + 1
           A == BuildBasicBlock(F, t.before)
           H == BuildBasicBlock(A, t.before)
           B == BuildBasicBlock(H, t.before)
           C == BuildInst(B, c, "cond", Void, <<v, x, y>>)
           G == BuildPhis(C, n, r)
           ps == Phis(G, n)
           one == Body(x, y, args, p, n, r, n, r)
           two == Body(y, n, args, p, n, r, n, r)
           b == WithAlt(one, two)
           nothing == <<>>
<1>1. /\ Good(F) /\ c \in DOMAIN F.code /\ Led(F, D, Entry) /\ Furthered(F, D, F, D, Entry)
      /\ t.before \in DOMAIN F.code /\ t.before # Entry /\ Face(F, s, t, results)
      /\ t.values \in Seq(DOMAIN F.inst) /\ AllThere(F, D, t.values, c) /\ F.next \in Nat
  BY GuidingIs, NodesAreNumbers
<1>2. Working(G, s \o <<Relanded(t, n, k, ps, r), b>>, results)
  BY <1>1, IfElseStep
<1>3. k \in Nat /\ k <= Len(t.values) /\ Len(r) \in Nat /\ Len(p) \in Nat
  <2>1. Enough(t, Len(p) + 1)
    BY <1>1, Chosen
  <2> QED
    BY <2>1, LenProperties DEF Enough
<1>4. v \in DOMAIN F.inst /\ args \in Seq(DOMAIN F.inst)
  BY <1>1, Chosen
<1>5. AllThere(F, D, args, c) /\ There(F, D, v, c)
  <2> DEFINE u == t.values
             m == Len(p)
  <2>1. u \in Seq(DOMAIN F.inst) /\ AllThere(F, D, u, c) /\ m \in Nat /\ m + 1 <= Len(u)
    BY <1>1, <1>3
  <2> HIDE DEF u, m, c
  <2>2. AllThere(F, D, peek(pop(u, 1), m), c) /\ There(F, D, Last(u), c)
    BY <2>1, BeneathThere
  <2> QED
    BY <2>2 DEF u, m
<1> HIDE DEF k, args, v
<1>6. Opened(F, A, x)
  BY <1>1, NextLed
<1>7. PICK E1 : Furthered(F, D, A, E1, Entry) /\ Below(E1, c, x)
  BY <1>1, NextLed
<1>8. A.next = y
  BY <1>6 DEF Opened
<1> HIDE DEF A
<1>9. Opened(A, H, y)
  BY <1>1, <1>7, <1>8, NextLed
<1>10. PICK E2 : Furthered(F, D, H, E2, Entry) /\ Furthered(A, E1, H, E2, Entry) /\ Below(E2, c, y)
  BY <1>1, <1>7, <1>8, NextLed
<1>11. H.next = n
  BY <1>1, <1>8, <1>9 DEF Opened
<1> HIDE DEF H, x, y, n
<1>12. Opened(H, B, n)
  BY <1>1, <1>10, <1>11, NextLed
<1>13. PICK X : Furthered(F, D, B, X, Entry) /\ Furthered(H, E2, B, X, Entry) /\ Below(X, c, n)
  BY <1>1, <1>10, <1>11, NextLed
<1> HIDE DEF B, c, nothing
<1>14. /\ x \in DOMAIN A.code /\ y \in DOMAIN H.code /\ x \in DOMAIN H.code
       /\ x \in DOMAIN B.code /\ y \in DOMAIN B.code /\ n \in DOMAIN B.code
       /\ c \in DOMAIN A.code /\ c \in DOMAIN H.code /\ c \in DOMAIN B.code
       /\ n # x /\ n # y /\ n # c /\ B.code[n] = nothing /\ n \notin DOMAIN F.code
  <2>1. x \in DOMAIN A.code /\ x \notin DOMAIN F.code /\ DOMAIN A.code = DOMAIN F.code \cup {x}
    BY <1>6 DEF Opened
  <2>2. y \in DOMAIN H.code /\ y \notin DOMAIN A.code /\ DOMAIN H.code = DOMAIN A.code \cup {y}
    BY <1>9 DEF Opened
  <2>3. /\ n \in DOMAIN B.code /\ n \notin DOMAIN H.code /\ DOMAIN B.code = DOMAIN H.code \cup {n}
        /\ B.code[n] = nothing
    BY <1>12 DEF Opened, nothing
  <2> QED
    BY <1>1, <2>1, <2>2, <2>3
<1>15. Below(X, c, x) /\ Below(X, c, y)
  <2>1. Below(E2, c, x)
    BY <1>7, <1>10, <1>14, BelowGrown
  <2> QED
    BY <1>10, <1>13, <1>14, <2>1, BelowGrown
<1>16. /\ Passes(X, c, x, Entry) /\ Passes(X, c, y, Entry) /\ Passes(X, c, n, Entry)
       /\ X[c] \subseteq X[x] /\ X[c] \subseteq X[y] /\ X[c] \subseteq X[n]
       /\ x # Entry /\ y # Entry /\ n # Entry
  BY <1>13, <1>15, BelowPasses DEF Below
<1>17. Good(B) /\ Led(B, X, Entry) /\ v \in DOMAIN B.inst /\ Grown(F, B) /\ X[c] = D[c]
  BY <1>1, <1>4, <1>13, FurtheredIs
<1>18. There(B, X, v, c)
  <2>1. D[c] \subseteq DOMAIN F.code /\ D[c] \subseteq X[c]
    BY <1>1, <1>17, LedIs
  <2> QED
    BY <1>1, <1>5, <1>17, <2>1, ThereGrown
<1>19. Furthered(B, X, C, X, Entry) /\ DOMAIN C.code = DOMAIN B.code
  BY <1>14, <1>16, <1>17, <1>18, ChoiceLed
<1>20. Put1(B, C, c, "cond", Void)
  BY <1>14, <1>17, ChoiceBuilt
<1> HIDE DEF C
<1>21. Furthered(F, D, C, X, Entry)
  BY <1>1, <1>13, <1>19, FurtheredTwice
<1>22. Good(C) /\ Led(C, X, Entry) /\ n \in DOMAIN C.code /\ C.code[n] = nothing /\ Grown(F, C)
  BY <1>14, <1>19, <1>20, <1>21, FurtheredIs DEF Put1
<1>23. Furthered(C, X, G, X, Entry) /\ \A j \in 1 .. Len(ps) : There(G, X, ps[j], n)
  <2>1. C.code[n] = <<>>
    BY <1>22 DEF nothing
  <2> QED
    BY <1>3, <1>22, <2>1, PhisLed
<1>24. ps \in Seq(DOMAIN G.inst)
  <2>1. C.code[n] = <<>>
    BY <1>22 DEF nothing
  <2>2. A.fault = F.fault /\ H.fault = A.fault /\ B.fault = H.fault /\ C.fault = B.fault
    BY <1>6, <1>9, <1>12, <1>20 DEF Opened, Put1
  <2>3. Faultless(F, C)
    BY <2>2 DEF Faultless
  <2>4. LandsOn(F, C, G, n, r)
    BY <1>1, <1>14, <1>22, <2>1, <2>3, LandingLaid
  <2> QED
    BY <2>4 DEF LandsOn, Lands
<1> HIDE DEF G, ps
<1>25. Furthered(F, D, G, X, Entry)
  BY <1>1, <1>21, <1>23, FurtheredTwice
<1>26. AllThere(G, X, ps, n)
  BY <1>23 DEF AllThere
<1>27. AllThere(G, X, args, x) /\ AllThere(G, X, args, y)
  BY <1>1, <1>5, <1>16, <1>25, AllThereGrown
<1>28. Passes(X, x, n, Entry) /\ Passes(X, y, n, Entry)
  BY <1>16 DEF Passes
<1>29. X[t.cur] \subseteq X[x] /\ X[t.cur] \subseteq X[y] /\ X[t.cur] \subseteq X[n]
  BY <1>16 DEF c
<1>30. Started(G, X, t.cur, one)
  BY <1>16, <1>25, <1>27, <1>28, <1>29, BodyGuided
<1>31. Started(G, X, t.cur, two)
  BY <1>16, <1>25, <1>27, <1>28, <1>29, BodyGuided
<1>32. Started(G, X, t.cur, b)
  BY <1>30, <1>31, BothGuided
<1> HIDE DEF b
<1>33. Guided(G, s \o <<Relanded(t, n, k, ps, r), b>>)
  BY <1>2, <1>3, <1>24, <1>25, <1>26, <1>29, <1>32, NestGuided
<1> QED
  BY <1>33 DEF G, C, B, H, A, x, y, n, args, v, c, k, ps, one, two, b

LEMMA IfGuided ==
  ASSUME NEW F, NEW D, NEW s, NEW t, NEW results, Guiding(F, D, s, t, results),
         CondType \in Types, Offers(t, <<CondType>>)
  PROVE  LET x == F.next
             n == F.next + 1
             B == BuildBasicBlock(BuildBasicBlock(F, t.before), t.before)
             G == BuildInst(B, t.cur, "cond", Void, <<Last(t.values), x, n>>)
         IN  Guided(G, s \o <<Relanded(t, n, 1, Phis(B, n), <<>>),
                              Body(x, n, <<>>, <<>>, n, <<>>, n, <<>>)>>)
<1> DEFINE x == F.next
           n == F.next + 1
           v == Last(t.values)
           c == t.cur
           p == <<>>
           A == BuildBasicBlock(F, t.before)
           B == BuildBasicBlock(A, t.before)
           G == BuildInst(B, c, "cond", Void, <<v, x, n>>)
           ps == Phis(B, n)
           b == Body(x, n, p, p, n, p, n, p)
<1>1. /\ Good(F) /\ c \in DOMAIN F.code /\ Led(F, D, Entry) /\ Furthered(F, D, F, D, Entry)
      /\ t.before \in DOMAIN F.code /\ t.before # Entry /\ Face(F, s, t, results)
      /\ t.values \in Seq(DOMAIN F.inst) /\ AllThere(F, D, t.values, c)
  BY GuidingIs
<1>2. Working(G, s \o <<Relanded(t, n, 1, ps, p), b>>, results)
  BY <1>1, IfStep
<1>3. Len(p) = 0 /\ p \in Seq(Types) /\ Append(p, CondType) = <<CondType>> /\ \A X : p \in Seq(X)
  OBVIOUS
<1> DEFINE m == Len(p)
<1>4. v \in DOMAIN F.inst /\ 1 <= Len(t.values) /\ 1 \in Nat /\ 0 \in Nat
  <2> HIDE DEF p
  <2>1. Offers(t, Append(p, CondType))
    BY <1>3
  <2>2. v \in DOMAIN F.inst /\ Enough(t, Len(p) + 1)
    BY <1>1, <1>3, <2>1, Chosen
  <2>3. Len(t.values) \in Nat
    <3> DEFINE w == t.values
    <3>1. w \in Seq(DOMAIN F.inst)
      BY <1>1
    <3> HIDE DEF w
    <3>2. Len(w) \in Nat
      BY <3>1
    <3> QED
      BY <3>2 DEF w
  <2> QED
    BY <1>3, <2>2, <2>3 DEF Enough
<1>5. There(F, D, v, c)
  <2> DEFINE u == t.values
             z == 0
  <2>1. u \in Seq(DOMAIN F.inst) /\ AllThere(F, D, u, c) /\ z \in Nat /\ z + 1 <= Len(u)
    BY <1>1, <1>4
  <2> HIDE DEF u, z, c
  <2>2. There(F, D, Last(u), c)
    BY <2>1, BeneathThere
  <2> QED
    BY <2>2 DEF u
<1> HIDE DEF v, p
<1>6. Opened(F, A, x)
  BY <1>1, NextLed
<1>7. PICK E : Furthered(F, D, A, E, Entry) /\ Below(E, c, x)
  BY <1>1, NextLed
<1>8. A.next = n
  BY <1>6 DEF Opened
<1> HIDE DEF A
<1>9. Opened(A, B, n)
  BY <1>1, <1>7, <1>8, NextLed
<1>10. PICK X : Furthered(F, D, B, X, Entry) /\ Furthered(A, E, B, X, Entry) /\ Below(X, c, n)
  BY <1>1, <1>7, <1>8, NextLed
<1> HIDE DEF B, x, n, c
<1>11. /\ x \in DOMAIN A.code /\ x \in DOMAIN B.code /\ n \in DOMAIN B.code
       /\ c \in DOMAIN A.code /\ c \in DOMAIN B.code /\ B.code[n] = p
  <2>1. x \in DOMAIN A.code /\ DOMAIN A.code = DOMAIN F.code \cup {x}
    BY <1>6 DEF Opened
  <2>2. /\ n \in DOMAIN B.code /\ DOMAIN B.code = DOMAIN A.code \cup {n} /\ B.code[n] = p
    BY <1>9 DEF Opened, p
  <2> QED
    BY <1>1, <2>1, <2>2
<1>12. Below(X, c, x)
  BY <1>7, <1>10, <1>11, BelowGrown
<1>13. /\ Passes(X, c, x, Entry) /\ Passes(X, c, n, Entry)
       /\ X[c] \subseteq X[x] /\ X[c] \subseteq X[n] /\ n # Entry
  BY <1>10, <1>12, BelowPasses DEF Below
<1>14. Good(B) /\ Led(B, X, Entry) /\ Grown(F, B) /\ X[c] = D[c]
  BY <1>1, <1>10, FurtheredIs
<1>15. There(B, X, v, c)
  <2>1. D[c] \subseteq DOMAIN F.code /\ D[c] \subseteq X[c]
    BY <1>1, <1>14, LedIs
  <2> QED
    BY <1>1, <1>5, <1>14, <2>1, ThereGrown
<1>16. Furthered(B, X, G, X, Entry)
  BY <1>11, <1>13, <1>14, <1>15, ChoiceLed
<1>17. ps = p
  BY <1>11, NoPhis DEF p
<1> HIDE DEF G, ps
<1>18. Furthered(F, D, G, X, Entry)
  BY <1>1, <1>10, <1>16, FurtheredTwice
<1>19. \A z : AllThere(G, X, p, z)
  <2>1. 1 .. 0 = {}
    OBVIOUS
  <2> QED
    BY <1>3, <2>1 DEF AllThere
<1>20. X[t.cur] \subseteq X[x] /\ X[t.cur] \subseteq X[n]
  BY <1>13 DEF c
<1>21. Passes(X, x, n, Entry)
  BY <1>13 DEF Passes
<1>22. Started(G, X, t.cur, b)
  BY <1>13, <1>18, <1>19, <1>20, <1>21, BodyGuided
<1> HIDE DEF b
<1>23. Guided(G, s \o <<Relanded(t, n, 1, ps, p), b>>)
  <2>1. ps \in Seq(DOMAIN G.inst) /\ AllThere(G, X, ps, n)
    BY <1>3, <1>17, <1>19
  <2> DEFINE one == 1
  <2>2. one \in Nat /\ one <= Len(t.values) /\ Working(G, s \o <<Relanded(t, n, one, ps, p), b>>, results)
    BY <1>2, <1>4
  <2> HIDE DEF one
  <2>3. Guided(G, s \o <<Relanded(t, n, one, ps, p), b>>)
    BY <1>18, <1>20, <1>22, <2>1, <2>2, NestGuided
  <2> QED
    BY <2>3 DEF one
<1> QED
  BY <1>23 DEF G, B, A, x, n, v, c, p, ps, b

-----------------------------------------------------------------------------
(* The translation starts with the entry and, below it, the exit.          *)
Starting(F) ==
  \E D : Led(F, D, Entry) /\ D[Entry] = {Entry} /\ D[Exit] = {Entry, Exit}

LEMMA FirstInserted ==
  ASSUME NEW n \in Nat
  PROVE  InsertAt(<<>>, 1, n) # <<>> /\ Head(InsertAt(<<>>, 1, n)) = n /\ InsertAt(<<>>, 1, n) \in Seq(Nat)
<1> DEFINE e == <<>>
           s == SubSeq(e, 1, 1 - 1)
           t == SubSeq(e, 1, Len(e))
           o == <<n>>
<1>1. s = <<>> /\ t = <<>>
  OBVIOUS
<1>2. InsertAt(e, 1, n) = s \o o \o t
  BY DEF InsertAt
<1> HIDE DEF s, t
<1>3. s \o o \o t = o
  BY <1>1
<1> QED
  BY <1>2, <1>3

LEMMA BlocksOrdered ==
  LET E == BuildBasicBlock(BuildBasicBlock(EmptyFunction, Nil), Nil)
  IN  /\ Good(E) /\ E.order # <<>> /\ Head(E.order) = Entry /\ DOMAIN E.code = {Entry, Exit}
      /\ E.code[Exit] = <<>> /\ E.inst = EmptyFunction.inst
<1> DEFINE F == EmptyFunction
           D == BuildBasicBlock(F, Nil)
           E == BuildBasicBlock(D, Nil)
           nothing == <<>>
<1>1. /\ Good(F) /\ F.next = 1
  BY EmptyGood
<1>2. DOMAIN F.code = {} /\ F.order = nothing
  BY DEF EmptyFunction
<1>3. D.order = InsertAt(F.order, Len(F.order) + 1, F.next)
  <2>1. D = [F EXCEPT !.order = InsertAt(@, Len(F.order) + 1, F.next), !.code = Entered(@, F.next, <<>>),
                      !.uses = Entered(@, F.next, <<>>), !.next = @ + 1]
    BY DEF BuildBasicBlock
  <2> QED
    BY <2>1 DEF EmptyFunction
<1> DEFINE z == Len(nothing) + 1
<1>4. z = 1 /\ 1 \in Nat
  OBVIOUS
<1>5. D.order = InsertAt(nothing, 1, 1)
  <2>1. D.order = InsertAt(nothing, z, 1)
    BY <1>1, <1>2, <1>3
  <2> HIDE DEF z
  <2> QED
    BY <1>4, <2>1
<1>6. D.order # <<>> /\ Head(D.order) = 1 /\ D.order \in Seq(Nat)
  BY <1>4, <1>5, FirstInserted
<1>7. DOMAIN D = DOMAIN F /\ Opened(F, D, F.next)
  <2>1. Opened(F, D, F.next)
    BY <1>1, BuiltBlock, BlockGrown
  <2>2. DOMAIN D = DOMAIN F
    BY DEF BuildBasicBlock
  <2> QED
    BY <2>1, <2>2
<1>a. DOMAIN F = {"order", "code", "inst", "uses", "fault", "next"}
  BY DEF EmptyFunction
<1> HIDE DEF F
<1>8. E.order = InsertAt(D.order, Len(D.order) + 1, D.next)
  <2> HIDE DEF D
  <2>1. E = [D EXCEPT !.order = InsertAt(@, Len(D.order) + 1, D.next), !.code = Entered(@, D.next, <<>>),
                      !.uses = Entered(@, D.next, <<>>), !.next = @ + 1]
    BY DEF BuildBasicBlock
  <2> QED
    BY <1>7, <1>a, <2>1
<1> HIDE DEF D
<1>9. Good(D) /\ D.next = 2 /\ DOMAIN D.code = {1}
  BY <1>1, <1>2, <1>7 DEF Opened, Grown
<1>10. Opened(D, E, D.next)
  BY <1>9, BuiltBlock, BlockGrown
<1> HIDE DEF E
<1>11. E.order # <<>> /\ Head(E.order) = 1
  <2> DEFINE s == D.order
             n == D.next
             at == Len(s) + 1
  <2>1. s \in Seq(Nat) /\ s # <<>> /\ n \in Nat /\ Head(s) = 1
    BY <1>6, <1>9
  <2> HIDE DEF s, n
  <2>2. at \in 2 .. Len(s) + 1
    BY <2>1
  <2> HIDE DEF at
  <2>3. InsertAt(s, at, n) # <<>> /\ Head(InsertAt(s, at, n)) = Head(s)
    BY <2>1, <2>2, InsertedHead
  <2> QED
    BY <1>8, <2>1, <2>3 DEF s, n, at
<1>12. /\ Good(E) /\ DOMAIN E.code = {1} \cup {2} /\ E.code[2] = nothing /\ E.inst = F.inst
  BY <1>7, <1>9, <1>10 DEF Opened, Grown
<1>13. {1} \cup {2} = {Entry, Exit} /\ Entry = 1 /\ Exit = 2
  BY DEF Entry, Exit
<1> QED
  BY <1>11, <1>12, <1>13 DEF E, D, F

LEMMA BlocksStart ==
  LET E == BuildBasicBlock(BuildBasicBlock(EmptyFunction, Nil), Nil)
  IN  Starting(E)
<1> DEFINE E == BuildBasicBlock(BuildBasicBlock(EmptyFunction, Nil), Nil)
           C == [x \in {Entry, Exit} |-> IF x = Entry THEN {Entry} ELSE {Entry, Exit}]
<1>1. /\ Good(E) /\ E.order # <<>> /\ Head(E.order) = Entry /\ DOMAIN E.code = {Entry, Exit}
      /\ E.inst = EmptyFunction.inst
  BY BlocksOrdered
<1>2. Entry # Exit /\ DOMAIN EmptyFunction.inst = {}
  BY DEF Entry, Exit, EmptyFunction
<1> HIDE DEF E
<1>3. DOMAIN E.inst = {}
  BY <1>1, <1>2
<1>4. \A x, z : ~Comes(E, x, z)
  BY <1>3 DEF Comes
<1>5. Charted(E, DOMAIN E.code, C, Entry)
  BY <1>1, <1>2, <1>4 DEF Charted
<1>6. Backed(E, DOMAIN E.code, C) /\ Paired(E)
  BY <1>3 DEF Backed, Paired, PhisOf
<1>7. Rooted(E, Entry)
  BY <1>1, <1>4 DEF Rooted
<1>8. Led(E, C, Entry) /\ C[Entry] = {Entry} /\ C[Exit] = {Entry, Exit}
  BY <1>2, <1>5, <1>6, <1>7 DEF Led, Ruled
<1> HIDE DEF C
<1> QED
  BY <1>8 DEF Starting, E

LEMMA ContextStarts ==
  ASSUME Results \in Seq(Types)
  PROVE  Starting(TranslationContext)
<1> DEFINE r == Results
           E == BuildBasicBlock(BuildBasicBlock(EmptyFunction, Nil), Nil)
           P == BuildPhis(E, Exit, r)
           phis == P.code[Exit]
           K == BuildInst(P, Exit, "pack", Void, phis)
           none == <<>>
           both == <<P.next>>
           open == {Entry, Exit}
<1>1. Waiting(P, r, open) /\ phis \in Seq(DOMAIN P.inst)
  BY BlocksWait
<1>2. Exit \in open /\ none \in Seq(DOMAIN P.inst) /\ Len(none) = 0
  OBVIOUS
<1>3. \/ TranslationContext = BuildInst(P, Exit, "return", Void, none)
      \/ TranslationContext = BuildInst(P, Exit, "return", Void, phis)
      \/ TranslationContext = BuildInst(K, Exit, "return", Void, both)
  <2>1. Len(r) \in Nat
    BY LenProperties
  <2> DEFINE n == Len(r)
             x == BuildInst(P, Exit, "return", Void, none)
             y == BuildInst(P, Exit, "return", Void, phis)
             z == BuildInst(K, Exit, "return", Void, both)
  <2>2. TranslationContext = CASE n = 0 -> x [] n = 1 -> y [] OTHER -> z
    BY DEF TranslationContext
  <2> HIDE DEF n, x, y, z
  <2>3. TranslationContext = x \/ TranslationContext = y \/ TranslationContext = z
    BY <2>2
  <2> QED
    BY <2>3 DEF x, y, z
<1>4. PICK D : Led(E, D, Entry) /\ D[Entry] = {Entry} /\ D[Exit] = {Entry, Exit}
  BY BlocksStart DEF Starting
<1>5. Good(E) /\ Exit \in DOMAIN E.code /\ E.code[Exit] = <<>> /\ Entry \in DOMAIN E.code
  BY BlocksOrdered
<1>6. Len(r) \in Nat /\ r \in Seq(Types)
  BY LenProperties DEF r
<1>7. Heads(P, Exit, r) /\ Good(P) /\ Exit \in DOMAIN P.code
  BY <1>1 DEF Waiting
<1> HIDE DEF E, r
<1>8. /\ Furthered(E, D, P, D, Entry)
      /\ \A k \in 1 .. Len(Phis(P, Exit)) : There(P, D, Phis(P, Exit)[k], Exit)
  BY <1>4, <1>5, <1>6, PhisLed
<1>10. Phis(P, Exit) = phis
  <2> DEFINE c == Len(r)
             G == P
  <2>1. PhisBuilt(E, G, Exit, r, c) /\ c \in Nat
    BY <1>5, <1>6, BuiltPhis
  <2> HIDE DEF G, c
  <2>2. PhisPut(E, G, Exit, r, c)
    BY <1>5, <2>1, PhisGrown
  <2> QED
    BY <2>2 DEF PhisPut, G
<1> HIDE DEF P, none
<1>9. Led(P, D, Entry)
  BY <1>8 DEF Furthered
<1>11. \A k \in 1 .. Len(phis) : There(P, D, phis[k], Exit)
  BY <1>8, <1>10
<1>12. /\ "return" \notin Branches /\ "return" # "phi" /\ "pack" \notin Branches /\ "pack" # "phi"
       /\ "pack" \notin Terminators
  BY DEF Branches, Terminators
<1> HIDE DEF phis
<1>13. Furthered(P, D, BuildInst(P, Exit, "return", Void, none), D, Entry)
  <2>1. \A k \in 1 .. Len(none) : There(P, D, none[k], Exit)
    BY <1>2
  <2> QED
    BY <1>2, <1>7, <1>9, <1>12, <2>1, PlainLed
<1>14. Furthered(P, D, BuildInst(P, Exit, "return", Void, phis), D, Entry)
  BY <1>1, <1>7, <1>9, <1>11, <1>12, PlainLed
<1>15. /\ Furthered(P, D, K, D, Entry) /\ There(K, D, P.next, Exit) /\ DOMAIN K.code = DOMAIN P.code
  BY <1>1, <1>7, <1>9, <1>11, <1>12, PlainLed
<1>16. P.next \in DOMAIN K.inst
  BY <1>15 DEF There, Yields
<1> HIDE DEF K
<1>17. both \in Seq(DOMAIN K.inst) /\ Len(both) = 1 /\ both[1] = P.next
  <2> DEFINE v == P.next
             X == DOMAIN K.inst
  <2>1. v \in X
    BY <1>16
  <2> HIDE DEF v, X
  <2>2. <<v>> \in Seq(X) /\ Len(<<v>>) = 1 /\ <<v>>[1] = v
    BY <2>1
  <2> QED
    BY <2>2 DEF v, X
<1> HIDE DEF both
<1>18. Furthered(K, D, BuildInst(K, Exit, "return", Void, both), D, Entry)
  <2>1. \A k \in 1 .. Len(both) : There(K, D, both[k], Exit)
    <3>1. Len(both) = 1 /\ \A k \in 1 .. 1 : k = 1
      BY <1>17
    <3> QED
      BY <1>15, <1>17, <3>1
  <2>2. Good(K) /\ Led(K, D, Entry) /\ Exit \in DOMAIN K.code
    BY <1>7, <1>15 DEF Furthered, Grown
  <2> QED
    BY <1>12, <1>17, <2>1, <2>2, PlainLed
<1>19. Led(TranslationContext, D, Entry)
  BY <1>3, <1>13, <1>14, <1>18 DEF Furthered
<1> QED
  BY <1>4, <1>19 DEF Starting

LEMMA GuidedBegins ==
  ASSUME Results \in Seq(Types)
  PROVE  Guided(TranslationContext,
                <<Body(Entry, Exit, <<>>, <<>>, Exit, Results, Exit, Results)>>)
<1> DEFINE F == TranslationContext
           r == Results
           e == <<>>
           w == Body(Entry, Exit, e, e, Exit, r, Exit, r)
           fs == <<w>>
<1>1. PICK D : Led(F, D, Entry) /\ D[Entry] = {Entry} /\ D[Exit] = {Entry, Exit}
  BY ContextStarts DEF Starting
<1>2. DOMAIN fs = {1} /\ fs[1] = w
  <2>1. DOMAIN fs = 1 .. 1 /\ 1 .. 1 = {1}
    OBVIOUS
  <2> QED
    BY <2>1
<1>3. Entry # Exit
  BY DEF Entry, Exit
<1>4. Len(e) = 0 /\ DOMAIN e = {}
  OBVIOUS
<1> HIDE DEF F, r, e
<1>5. /\ w.cur = Entry /\ w.before = Exit /\ w.values = e /\ w.label = Exit /\ w.to = Exit
      /\ DOMAIN w.alt = {}
  BY DEF Body
<1> HIDE DEF w, fs
<1>6. Curs(w) = {Entry} /\ Places(w) = {Exit}
  BY <1>5 DEF Curs, Places
<1>7. Passes(D, Entry, Exit, Entry)
  BY <1>1, <1>3 DEF Passes
<1>8. Reach(D, w, w)
  BY <1>6, <1>7 DEF Reach
<1>9. StockedAll(F, D, w)
  BY <1>3, <1>4, <1>5 DEF StockedAll, Stocked, AllThere
<1>10. Guides(F, D, fs)
  BY <1>2, <1>8, <1>9 DEF Guides
<1> QED
  BY <1>1, <1>10 DEF Guided, F, r, fs, w, e

-----------------------------------------------------------------------------
(* The actions of the translation.                                         *)

LEMMA ResultsAre ==
  ASSUME scope \in Scopes
  PROVE  /\ Results \in Seq(Types) /\ CondType \in Types
         /\ \A bt \in scope.blockTypes : bt[1] \in Seq(Types) /\ bt[2] \in Seq(Types)
         /\ \A bt \in scope.loopTypes :
              /\ bt[1] \in Seq(Types) /\ bt[2] \in Seq(Types) /\ Zips(bt[1], bt[2])
<1>1. /\ CondType \in Types /\ scope.results \in Seq(Types)
      /\ scope.blockTypes \subseteq FunctionType /\ scope.loopTypes \subseteq scope.blockTypes
  BY ConstantsAssumption
<1>2. \A bt \in FunctionType : bt[1] \in Seq(Types) /\ bt[2] \in Seq(Types)
  BY DEF FunctionType
<1>3. \A bt \in scope.loopTypes : Zips(bt[1], bt[2])
  BY DEF LoopsMerge, Zips
<1> QED
  BY <1>1, <1>2, <1>3 DEF Results

LEMMA InFace ==
  ASSUME Results \in Seq(Types), Working(fn, frames, Results), frames # <<>>
  PROVE  Face(fn, Front(frames), Top, Results)
<1>1. frames \in Seq(Visitors)
  BY DEF Working, Stacked
<1>2. Front(frames) \in Seq(Visitors) /\ Top \in Visitors /\ frames = Append(Front(frames), Top)
  BY <1>1, Topped DEF Top
<1>3. Working(fn, Append(Front(frames), Top), Results)
  BY <1>2
<1> QED
  BY <1>2, <1>3 DEF Face

LEMMA LeaveIs == Leave = Left(Front(frames), Top)
BY DEF Leave, Left

LEMMA OneOffered ==
  ASSUME NEW type \in Types, Takes(<<type>>), Results \in Seq(Types),
         Working(fn, frames, Results), frames # <<>>
  PROVE  Enough(Top, 1) /\ peek(Top.types, 1) = <<type>> /\ Offers(Top, <<type>>)
<1> DEFINE ts == <<type>>
<1>1. ts \in Seq(Types) /\ Len(ts) = 1 /\ Offers(Top, ts)
  BY DEF Takes, Offers
<1> HIDE DEF ts
<1>2. Enough(Top, Len(ts)) /\ peek(Top.types, Len(ts)) = ts
  BY <1>1, InFace, OffersEnough DEF Offers
<1> QED
  BY <1>1, <1>2 DEF ts

LEMMA Offered ==
  ASSUME NEW ts, Takes(ts)
  PROVE  Offers(Top, ts)
BY DEF Takes, Offers

(* Where the translation stands before an action, and what the action      *)
(* leaves.                                                                 *)
Moving(F, fs, results) ==
  Working(F, fs, results) /\ (LoopsMerge => Flows(F, fs, results) /\ Guided(F, fs))
Attended(F, s, t, results) == \E D : Guiding(F, D, s, t, results)
AtWork == scope \in Scopes /\ Moving(fn, frames, Results)

LEMMA WorkIs ==
  ASSUME AtWork, frames # <<>>
  PROVE  /\ Results \in Seq(Types) /\ Working(fn, frames, Results)
         /\ Face(fn, Front(frames), Top, Results)
         /\ LoopsMerge => Faced(fn, Front(frames), Top, Results) /\ Attended(fn, Front(frames), Top, Results)
<1>1. /\ Results \in Seq(Types) /\ Working(fn, frames, Results)
      /\ LoopsMerge => Flows(fn, frames, Results) /\ Guided(fn, frames)
  BY ResultsAre DEF AtWork, Moving
<1>2. Face(fn, Front(frames), Top, Results)
  BY <1>1, InFace
<1>3. frames = Append(Front(frames), Top)
  <2>1. frames \in Seq(Visitors)
    BY <1>1 DEF Working, Stacked
  <2> QED
    BY <2>1, Topped DEF Top
<1>4. LoopsMerge => Flows(fn, Append(Front(frames), Top), Results)
  BY <1>1, <1>3
<1>5. LoopsMerge => Faced(fn, Front(frames), Top, Results)
  <2> SUFFICES ASSUME LoopsMerge  PROVE Faced(fn, Front(frames), Top, Results)
    OBVIOUS
  <2>1. Flows(fn, Append(Front(frames), Top), Results)
    BY <1>4
  <2> QED
    BY <1>2, <2>1 DEF Faced
<1>6. LoopsMerge => Guided(fn, Append(Front(frames), Top))
  BY <1>1, <1>3
<1>7. LoopsMerge => Attended(fn, Front(frames), Top, Results)
  BY <1>5, <1>6 DEF Attended, Guiding, Guided
<1> QED
  BY <1>1, <1>2, <1>5, <1>7

(* The merge block of a label.                                             *)
LEMMA LabelIs ==
  ASSUME AtWork, frames # <<>>, NEW d \in Depths
  PROVE  /\ Expects(fn, Label(d).label, Label(d).labelTypes)
         /\ LoopsMerge => Receives(fn, Label(d).label, Label(d).labelTypes)
<1> DEFINE n == Len(frames)
           k == n - d
<1>1. frames \in Seq(Visitors) /\ n \in Nat /\ DOMAIN frames = 1 .. n
  BY WorkIs, LenProperties DEF Working, Stacked
<1>2. frames = Append(Front(frames), Top)
  BY <1>1, Topped DEF Top
<1>3. d \in 0 .. (n - 1)
  BY DEF Depths
<1> HIDE DEF n
<1>4. k \in DOMAIN frames
  BY <1>1, <1>3
<1>5. \A j \in DOMAIN frames : Expects(fn, frames[j].label, frames[j].labelTypes)
  BY <1>2, WorkIs, LabelExpects
<1>6. LoopsMerge => \A j \in DOMAIN frames : Receives(fn, frames[j].label, frames[j].labelTypes)
  BY <1>2, WorkIs, PlacesReceive
<1>7. /\ Expects(fn, frames[k].label, frames[k].labelTypes)
      /\ LoopsMerge => Receives(fn, frames[k].label, frames[k].labelTypes)
  BY <1>4, <1>5, <1>6
<1> QED
  BY <1>7 DEF Label, n

LEMMA LabelPasses ==
  ASSUME AtWork, frames # <<>>, NEW d \in Depths, NEW D, Guiding(fn, D, Front(frames), Top, Results)
  PROVE  Passes(D, Top.cur, Label(d).label, Entry)
<1> DEFINE n == Len(frames)
           k == n - d
<1>1. frames \in Seq(Visitors) /\ n \in Nat /\ DOMAIN frames = 1 .. n
  BY WorkIs, LenProperties DEF Working, Stacked
<1>2. frames = Append(Front(frames), Top)
  BY <1>1, Topped DEF Top
<1>3. d \in 0 .. (n - 1)
  BY DEF Depths
<1> HIDE DEF n
<1>4. k \in DOMAIN frames
  BY <1>1, <1>3
<1>5. \A j \in DOMAIN Append(Front(frames), Top) : Passes(D, Top.cur, Append(Front(frames), Top)[j].label, Entry)
  BY PlacesPass
<1>6. Passes(D, Top.cur, frames[k].label, Entry)
  BY <1>2, <1>4, <1>5
<1> QED
  BY <1>6 DEF Label, n

LEMMA OnePeeked ==
  ASSUME AtWork, frames # <<>>, Enough(Top, 1)
  PROVE  peek(Top.values, 1) \in Seq(DOMAIN fn.inst)
<1>1. Top.values \in Seq(DOMAIN fn.inst)
  BY WorkIs, FaceIs
<1> QED
  BY <1>1, Peeked DEF Enough

LEMMA ConstWorks ==
  ASSUME AtWork, VisitConst
  PROVE  Moving(fn', frames', Results)
<1>1. frames # <<>>
  BY DEF VisitConst, Visit
<1>2. PICK type \in Types :
        Stay(BuildInst(fn, Top.cur, "const", type, <<>>),
             Append(Top.values, fn.next), Append(Top.types, type))
  BY DEF VisitConst
<1>3. Working(BuildInst(fn, Top.cur, "const", type, <<>>),
              Append(Front(frames), Revalued(Top, Append(Top.values, fn.next), Append(Top.types, type))),
              Results)
  BY <1>1, WorkIs, ConstStep
<1>4. LoopsMerge =>
        Flows(BuildInst(fn, Top.cur, "const", type, <<>>),
              Append(Front(frames), Revalued(Top, Append(Top.values, fn.next), Append(Top.types, type))),
              Results)
  <2>1. "const" \notin Branches /\ "const" # "phi" /\ <<>> \in Seq(DOMAIN fn.inst)
    BY DEF Branches
  <2> QED
    BY <1>1, <1>3, <2>1, WorkIs, StayFlow
<1>5. LoopsMerge => Guided(BuildInst(fn, Top.cur, "const", type, <<>>),
                       Append(Front(frames), Revalued(Top, Append(Top.values, fn.next), Append(Top.types, type))))
  <2> SUFFICES ASSUME LoopsMerge  PROVE Guided(BuildInst(fn, Top.cur, "const", type, <<>>),
                       Append(Front(frames), Revalued(Top, Append(Top.values, fn.next), Append(Top.types, type))))
    OBVIOUS
  <2>1. PICK D : Guiding(fn, D, Front(frames), Top, Results)
    BY <1>1, WorkIs DEF Attended
  <2> QED
    BY <1>3, <2>1, ConstGuided
<1> QED
  BY <1>2, <1>3, <1>4, <1>5 DEF Stay, Revalued, Moving

LEMMA UnaryWorks ==
  ASSUME AtWork, VisitUnary
  PROVE  Moving(fn', frames', Results)
<1>1. frames # <<>>
  BY DEF VisitUnary, Visit
<1>2. PICK type \in Types :
        /\ Takes(<<type>>)
        /\ Stay(BuildInst(fn, Top.cur, "unary", type, peek(Top.values, 1)),
                Append(pop(Top.values, 1), fn.next), Top.types)
  BY DEF VisitUnary
<1>3. Enough(Top, 1) /\ peek(Top.types, 1) = <<type>>
  BY <1>1, <1>2, WorkIs, OneOffered
<1>4. Working(BuildInst(fn, Top.cur, "unary", type, peek(Top.values, 1)),
              Append(Front(frames), Revalued(Top, Append(pop(Top.values, 1), fn.next), Top.types)),
              Results)
  BY <1>1, <1>3, WorkIs, UnaryStep
<1>5. LoopsMerge =>
        Flows(BuildInst(fn, Top.cur, "unary", type, peek(Top.values, 1)),
              Append(Front(frames), Revalued(Top, Append(pop(Top.values, 1), fn.next), Top.types)),
              Results)
  <2>1. "unary" \notin Branches /\ "unary" # "phi" /\ peek(Top.values, 1) \in Seq(DOMAIN fn.inst)
    BY <1>1, <1>3, OnePeeked DEF Branches
  <2> QED
    BY <1>1, <1>4, <2>1, WorkIs, StayFlow
<1>6. LoopsMerge => Guided(BuildInst(fn, Top.cur, "unary", type, peek(Top.values, 1)),
                       Append(Front(frames), Revalued(Top, Append(pop(Top.values, 1), fn.next), Top.types)))
  <2> SUFFICES ASSUME LoopsMerge  PROVE Guided(BuildInst(fn, Top.cur, "unary", type, peek(Top.values, 1)),
                       Append(Front(frames), Revalued(Top, Append(pop(Top.values, 1), fn.next), Top.types)))
    OBVIOUS
  <2>1. PICK D : Guiding(fn, D, Front(frames), Top, Results)
    BY <1>1, WorkIs DEF Attended
  <2> QED
    BY <1>3, <1>4, <2>1, UnaryGuided
<1> QED
  BY <1>2, <1>4, <1>5, <1>6 DEF Stay, Revalued, Moving

LEMMA CallWorks ==
  ASSUME AtWork, VisitCall
  PROVE  Moving(fn', frames', Results)
<1>1. frames # <<>>
  BY DEF VisitCall, Visit
<1>2. PICK type \in Types :
        /\ Takes(<<type>>)
        /\ Stay(BuildInst(fn, Top.cur, "call", Void, peek(Top.values, 1)),
                pop(Top.values, 1), pop(Top.types, 1))
  BY DEF VisitCall
<1>3. Enough(Top, 1)
  BY <1>1, <1>2, WorkIs, OneOffered
<1>4. Working(BuildInst(fn, Top.cur, "call", Void, peek(Top.values, 1)),
              Append(Front(frames), Revalued(Top, pop(Top.values, 1), pop(Top.types, 1))), Results)
  BY <1>1, <1>3, WorkIs, CallStep
<1>5. LoopsMerge =>
        Flows(BuildInst(fn, Top.cur, "call", Void, peek(Top.values, 1)),
              Append(Front(frames), Revalued(Top, pop(Top.values, 1), pop(Top.types, 1))), Results)
  <2>1. "call" \notin Branches /\ "call" # "phi" /\ peek(Top.values, 1) \in Seq(DOMAIN fn.inst)
    BY <1>1, <1>3, OnePeeked DEF Branches
  <2> QED
    BY <1>1, <1>4, <2>1, WorkIs, StayFlow
<1>6. LoopsMerge => Guided(BuildInst(fn, Top.cur, "call", Void, peek(Top.values, 1)),
                       Append(Front(frames), Revalued(Top, pop(Top.values, 1), pop(Top.types, 1))))
  <2> SUFFICES ASSUME LoopsMerge  PROVE Guided(BuildInst(fn, Top.cur, "call", Void, peek(Top.values, 1)),
                       Append(Front(frames), Revalued(Top, pop(Top.values, 1), pop(Top.types, 1))))
    OBVIOUS
  <2>1. PICK D : Guiding(fn, D, Front(frames), Top, Results)
    BY <1>1, WorkIs DEF Attended
  <2> QED
    BY <1>3, <1>4, <2>1, CallGuided
<1> QED
  BY <1>2, <1>4, <1>5, <1>6 DEF Stay, Revalued, Moving

LEMMA DropWorks ==
  ASSUME AtWork, VisitDrop
  PROVE  Moving(fn', frames', Results)
<1>1. frames # <<>>
  BY DEF VisitDrop, Visit
<1>2. PICK type \in Types :
        Takes(<<type>>) /\ Stay(fn, pop(Top.values, 1), pop(Top.types, 1))
  BY DEF VisitDrop
<1>3. Enough(Top, 1)
  BY <1>1, <1>2, WorkIs, OneOffered
<1>4. Working(fn, Append(Front(frames), Revalued(Top, pop(Top.values, 1), pop(Top.types, 1))), Results)
  BY <1>1, <1>3, WorkIs, DropStep
<1>5. LoopsMerge =>
        Flows(fn, Append(Front(frames), Revalued(Top, pop(Top.values, 1), pop(Top.types, 1))), Results)
  BY <1>1, <1>4, WorkIs, DropFlow
<1>6. LoopsMerge => Guided(fn, Append(Front(frames), Revalued(Top, pop(Top.values, 1), pop(Top.types, 1))))
  <2> SUFFICES ASSUME LoopsMerge  PROVE Guided(fn, Append(Front(frames), Revalued(Top, pop(Top.values, 1), pop(Top.types, 1))))
    OBVIOUS
  <2>1. PICK D : Guiding(fn, D, Front(frames), Top, Results)
    BY <1>1, WorkIs DEF Attended
  <2> QED
    BY <1>3, <1>4, <2>1, DropGuided
<1> QED
  BY <1>2, <1>4, <1>5, <1>6 DEF Stay, Revalued, Moving

LEMMA BrWorks ==
  ASSUME AtWork, VisitBr
  PROVE  Moving(fn', frames', Results)
<1>1. frames # <<>> /\ frames' = Left(Front(frames), Top)
  BY LeaveIs DEF VisitBr, Visit
<1>2. PICK d \in Depths :
        /\ Takes(Label(d).labelTypes)
        /\ fn' = BuildInst(addMergeCandidates(fn, Label(d).label, Top.cur,
                                              peek(Top.values, Len(Label(d).labelTypes))),
                           Top.cur, "br", Void, <<Label(d).label>>)
  BY DEF VisitBr
<1> DEFINE x == Label(d).label
           types == Label(d).labelTypes
<1>3. Expects(fn, x, types) /\ (LoopsMerge => Receives(fn, x, types))
  BY <1>1, LabelIs
<1>4. /\ Face(fn, Front(frames), Top, Results) /\ Offers(Top, types)
      /\ LoopsMerge => Faced(fn, Front(frames), Top, Results) /\ Attended(fn, Front(frames), Top, Results)
  BY <1>1, <1>2, WorkIs, Offered
<1>5. fn' = BuildInst(addMergeCandidates(fn, x, Top.cur, peek(Top.values, Len(types))),
                      Top.cur, "br", Void, <<x>>)
  BY <1>2
<1>9. \A D : Guiding(fn, D, Front(frames), Top, Results) => Passes(D, Top.cur, x, Entry)
  BY <1>1, LabelPasses
<1> HIDE DEF x, types
<1>6. Enough(Top, Len(types))
  BY <1>3, <1>4, OffersEnough DEF Expects
<1>7. Working(BuildInst(addMergeCandidates(fn, x, Top.cur, peek(Top.values, Len(types))),
                        Top.cur, "br", Void, <<x>>), Left(Front(frames), Top), Results)
  BY <1>3, <1>4, <1>6, BrStep
<1>8. LoopsMerge =>
        Flows(BuildInst(addMergeCandidates(fn, x, Top.cur, peek(Top.values, Len(types))),
                        Top.cur, "br", Void, <<x>>), Left(Front(frames), Top), Results)
  BY <1>3, <1>4, <1>6, BrFlow
<1>10. LoopsMerge => Guided(BuildInst(addMergeCandidates(fn, x, Top.cur, peek(Top.values, Len(types))),
                                 Top.cur, "br", Void, <<x>>), Left(Front(frames), Top))
  <2> SUFFICES ASSUME LoopsMerge  PROVE Guided(BuildInst(addMergeCandidates(fn, x, Top.cur, peek(Top.values, Len(types))),
                                 Top.cur, "br", Void, <<x>>), Left(Front(frames), Top))
    OBVIOUS
  <2>1. PICK D : Guiding(fn, D, Front(frames), Top, Results)
    BY <1>4 DEF Attended
  <2>2. Passes(D, Top.cur, x, Entry)
    BY <1>9, <2>1
  <2> QED
    BY <1>3, <1>6, <2>1, <2>2, BrGuided
<1> QED
  BY <1>1, <1>5, <1>7, <1>8, <1>10 DEF Moving

LEMMA BrIfWorks ==
  ASSUME AtWork, VisitBrIf
  PROVE  Moving(fn', frames', Results)
<1>1. frames # <<>>
  BY DEF VisitBrIf, Visit
<1>2. PICK d \in Depths :
        /\ Takes(Append(Label(d).labelTypes, CondType))
        /\ fn' = BuildInst(addMergeCandidates(BuildBasicBlock(fn, Top.before), Label(d).label, Top.cur,
                                              peek(pop(Top.values, 1), Len(Label(d).labelTypes))),
                           Top.cur, "cond", Void, <<Last(Top.values), Label(d).label, fn.next>>)
        /\ frames' = Append(Front(frames),
                            [Top EXCEPT !.cur = fn.next, !.values = pop(Top.values, 1),
                                        !.types = pop(@, 1)])
  BY DEF VisitBrIf
<1> DEFINE x == Label(d).label
           types == Label(d).labelTypes
           t == Top
           s == Front(frames)
           vs == pop(t.values, 1)
           M == addMergeCandidates(BuildBasicBlock(fn, t.before), x, t.cur, peek(vs, Len(types)))
           G == BuildInst(M, t.cur, "cond", Void, <<Last(t.values), x, fn.next>>)
           w == Recurred(t, fn.next, vs, pop(t.types, 1))
<1>3. Expects(fn, x, types) /\ types \in Seq(Types) /\ (LoopsMerge => Receives(fn, x, types))
  BY <1>1, LabelIs DEF Expects
<1>4. /\ Face(fn, s, t, Results) /\ Offers(t, Append(types, CondType)) /\ CondType \in Types
      /\ LoopsMerge => Faced(fn, s, t, Results) /\ Attended(fn, s, t, Results)
  BY <1>1, <1>2, WorkIs, Offered, ResultsAre DEF AtWork
<1>5. fn' = G /\ frames' = Append(s, w)
  BY <1>2 DEF Recurred
<1>9. \A D : Guiding(fn, D, s, t, Results) => Passes(D, t.cur, x, Entry)
  BY <1>1, LabelPasses
<1> HIDE DEF x, types, t, s
<1>6. Enough(t, Len(types) + 1)
  BY <1>3, <1>4, Chosen
<1>7. Working(G, Append(s, w), Results)
  BY <1>3, <1>4, <1>6, BrIfStep
<1>8. LoopsMerge => Flows(G, Append(s, w), Results)
  BY <1>3, <1>4, <1>6, BrIfFlow
<1>10. LoopsMerge => Guided(G, Append(s, w))
  <2> SUFFICES ASSUME LoopsMerge  PROVE Guided(G, Append(s, w))
    OBVIOUS
  <2>1. PICK D : Guiding(fn, D, s, t, Results)
    BY <1>4 DEF Attended
  <2>2. Passes(D, t.cur, x, Entry)
    BY <1>9, <2>1
  <2> QED
    BY <1>3, <1>6, <2>1, <2>2, BrIfGuided
<1> QED
  BY <1>5, <1>7, <1>8, <1>10 DEF Moving

LEMMA BrTableWorks ==
  ASSUME AtWork, VisitBrTable
  PROVE  Moving(fn', frames', Results)
<1>1. frames # <<>> /\ frames' = Left(Front(frames), Top)
  BY LeaveIs DEF VisitBrTable, Visit
<1>2. PICK d \in Depths, e \in Depths :
        /\ Label(e).labelTypes = Label(d).labelTypes
        /\ Takes(Append(Label(d).labelTypes, CondType))
        /\ fn' = BuildInst(addMergeCandidates(
                               addMergeCandidates(fn, Label(d).label, Top.cur,
                                                  peek(pop(Top.values, 1), Len(Label(d).labelTypes))),
                               Label(e).label, Top.cur,
                               peek(pop(Top.values, 1), Len(Label(d).labelTypes))),
                           Top.cur, "switch", Void, <<Last(Top.values), Label(d).label, Label(e).label>>)
  BY DEF VisitBrTable
<1> DEFINE x == Label(d).label
           y == Label(e).label
           types == Label(d).labelTypes
           t == Top
           s == Front(frames)
           vs == peek(pop(t.values, 1), Len(types))
           G == BuildInst(addMergeCandidates(addMergeCandidates(fn, x, t.cur, vs), y, t.cur, vs),
                          t.cur, "switch", Void, <<Last(t.values), x, y>>)
<1>3. /\ Expects(fn, x, types) /\ Expects(fn, y, types) /\ types \in Seq(Types)
      /\ LoopsMerge => Receives(fn, x, types) /\ Receives(fn, y, types)
  <2>1. Expects(fn, x, types) /\ (LoopsMerge => Receives(fn, x, types))
    BY <1>1, LabelIs
  <2>2. Expects(fn, y, Label(e).labelTypes) /\ (LoopsMerge => Receives(fn, y, Label(e).labelTypes))
    BY <1>1, LabelIs
  <2> QED
    BY <1>2, <2>1, <2>2 DEF Expects
<1>4. /\ Face(fn, s, t, Results) /\ Offers(t, Append(types, CondType)) /\ CondType \in Types
      /\ LoopsMerge => Faced(fn, s, t, Results) /\ Attended(fn, s, t, Results)
  BY <1>1, <1>2, WorkIs, Offered, ResultsAre DEF AtWork
<1>5. fn' = G /\ frames' = Left(s, t)
  BY <1>1, <1>2
<1>9. \A D : Guiding(fn, D, s, t, Results) => Passes(D, t.cur, x, Entry)
  BY <1>1, LabelPasses
<1>10. \A D : Guiding(fn, D, s, t, Results) => Passes(D, t.cur, y, Entry)
  BY <1>1, LabelPasses
<1> HIDE DEF x, y, types, t, s
<1>6. Enough(t, Len(types) + 1)
  BY <1>3, <1>4, Chosen
<1>7. Working(G, Left(s, t), Results)
  BY <1>3, <1>4, <1>6, TableStep
<1>8. LoopsMerge => Flows(G, Left(s, t), Results)
  BY <1>3, <1>4, <1>6, TableFlow
<1>11. LoopsMerge => Guided(G, Left(s, t))
  <2> SUFFICES ASSUME LoopsMerge  PROVE Guided(G, Left(s, t))
    OBVIOUS
  <2>1. PICK D : Guiding(fn, D, s, t, Results)
    BY <1>4 DEF Attended
  <2>2. Passes(D, t.cur, x, Entry) /\ Passes(D, t.cur, y, Entry)
    BY <1>9, <1>10, <2>1
  <2> QED
    BY <1>3, <1>6, <2>1, <2>2, TableGuided
<1> QED
  BY <1>5, <1>7, <1>8, <1>11 DEF Moving

LEMMA ReturnWorks ==
  ASSUME AtWork, VisitReturn
  PROVE  Moving(fn', frames', Results)
<1>1. frames # <<>> /\ frames' = Left(Front(frames), Top)
  BY LeaveIs DEF VisitReturn, Visit
<1>2. /\ Takes(Results)
      /\ fn' = addMergeCandidates(BuildInst(fn, Top.cur, "br", Void, <<Exit>>),
                                  Exit, Top.cur, peek(Top.values, Len(Results)))
  BY DEF VisitReturn
<1>3. /\ Face(fn, Front(frames), Top, Results) /\ Offers(Top, Results) /\ Results \in Seq(Types)
      /\ LoopsMerge => Faced(fn, Front(frames), Top, Results) /\ Attended(fn, Front(frames), Top, Results)
  BY <1>1, <1>2, WorkIs, Offered
<1>4. Expects(fn, Exit, Results) /\ Len(Results) \in Nat /\ Len(Results) <= Len(Top.values)
  BY <1>3, LabelExpects, OffersEnough, LenProperties
<1>a. LoopsMerge => Receives(fn, Exit, Results)
  BY <1>3, PlacesReceive
<1>b. \A D : Guiding(fn, D, Front(frames), Top, Results) => Passes(D, Top.cur, Exit, Entry)
  BY PlacesPass
<1> HIDE DEF Exit, Results, Top
<1>5. Working(addMergeCandidates(BuildInst(fn, Top.cur, "br", Void, <<Exit>>),
                                 Exit, Top.cur, peek(Top.values, Len(Results))),
              Left(Front(frames), Top), Results)
  BY <1>3, <1>4, HandOverStep
<1>6. LoopsMerge =>
        Flows(addMergeCandidates(BuildInst(fn, Top.cur, "br", Void, <<Exit>>),
                                 Exit, Top.cur, peek(Top.values, Len(Results))),
              Left(Front(frames), Top), Results)
  BY <1>3, <1>4, <1>a, HandOverFlow
<1>7. LoopsMerge => Guided(addMergeCandidates(BuildInst(fn, Top.cur, "br", Void, <<Exit>>),
                                          Exit, Top.cur, peek(Top.values, Len(Results))),
                       Left(Front(frames), Top))
  <2> SUFFICES ASSUME LoopsMerge  PROVE Guided(addMergeCandidates(BuildInst(fn, Top.cur, "br", Void, <<Exit>>),
                                          Exit, Top.cur, peek(Top.values, Len(Results))),
                       Left(Front(frames), Top))
    OBVIOUS
  <2>1. PICK D : Guiding(fn, D, Front(frames), Top, Results)
    BY <1>3 DEF Attended
  <2>2. Passes(D, Top.cur, Exit, Entry)
    BY <1>b, <2>1
  <2> QED
    BY <1>4, <1>a, <2>1, <2>2, HandOverGuided
<1> QED
  BY <1>1, <1>2, <1>5, <1>6, <1>7 DEF Moving

LEMMA EndWorks ==
  ASSUME AtWork, EndBody
  PROVE  Moving(fn', frames', Results)
<1>1. frames # <<>> /\ frames' = Left(Front(frames), Top)
  BY LeaveIs DEF EndBody
<1> DEFINE t == Top
           s == Front(frames)
           types == t.results
           x == t.to
<1>2. /\ Len(t.values) >= Len(types)
      /\ fn' = addMergeCandidates(BuildInst(fn, t.cur, "br", Void, <<x>>),
                                  x, t.cur, peek(t.values, Len(types)))
  BY DEF EndBody
<1>3. Face(fn, s, t, Results) /\ (LoopsMerge => Faced(fn, s, t, Results) /\ Attended(fn, s, t, Results))
  BY <1>1, WorkIs
<1>4. /\ Expects(fn, x, types) /\ types \in Seq(Types) /\ t.values \in Seq(DOMAIN fn.inst)
      /\ LoopsMerge => Receives(fn, x, types)
  BY <1>3, LabelExpects, FaceIs, PlacesReceive
<1>5. frames' = Left(s, t)
  BY <1>1
<1>9. \A D : Guiding(fn, D, s, t, Results) => Passes(D, t.cur, x, Entry)
  BY PlacesPass
<1> HIDE DEF t, s, types, x
<1>6. Len(types) \in Nat /\ Len(types) <= Len(t.values)
  BY <1>2, <1>4, LenProperties
<1>7. Working(addMergeCandidates(BuildInst(fn, t.cur, "br", Void, <<x>>), x, t.cur,
                                 peek(t.values, Len(types))), Left(s, t), Results)
  BY <1>3, <1>4, <1>6, HandOverStep
<1>8. LoopsMerge =>
        Flows(addMergeCandidates(BuildInst(fn, t.cur, "br", Void, <<x>>), x, t.cur,
                                 peek(t.values, Len(types))), Left(s, t), Results)
  BY <1>3, <1>4, <1>6, HandOverFlow
<1>10. LoopsMerge => Guided(addMergeCandidates(BuildInst(fn, t.cur, "br", Void, <<x>>), x, t.cur,
                                          peek(t.values, Len(types))), Left(s, t))
  <2> SUFFICES ASSUME LoopsMerge  PROVE Guided(addMergeCandidates(BuildInst(fn, t.cur, "br", Void, <<x>>), x, t.cur,
                                          peek(t.values, Len(types))), Left(s, t))
    OBVIOUS
  <2>1. PICK D : Guiding(fn, D, s, t, Results)
    BY <1>3 DEF Attended
  <2>2. Passes(D, t.cur, x, Entry)
    BY <1>9, <2>1
  <2> QED
    BY <1>4, <1>6, <2>1, <2>2, HandOverGuided
<1> QED
  BY <1>2, <1>5, <1>7, <1>8, <1>10 DEF Moving

LEMMA UnreachableWorks ==
  ASSUME AtWork, VisitUnreachable
  PROVE  Moving(fn', frames', Results)
<1>1. /\ frames # <<>> /\ frames' = Left(Front(frames), Top)
      /\ fn' = BuildInst(fn, Top.cur, "unreachable", Void, <<>>)
  BY LeaveIs DEF VisitUnreachable
<1>2. Working(BuildInst(fn, Top.cur, "unreachable", Void, <<>>), Left(Front(frames), Top), Results)
  BY <1>1, WorkIs, UnreachableStep
<1>3. LoopsMerge =>
        Flows(BuildInst(fn, Top.cur, "unreachable", Void, <<>>), Left(Front(frames), Top), Results)
  BY <1>1, WorkIs, UnreachableFlow
<1>4. LoopsMerge => Guided(BuildInst(fn, Top.cur, "unreachable", Void, <<>>), Left(Front(frames), Top))
  <2> SUFFICES ASSUME LoopsMerge  PROVE Guided(BuildInst(fn, Top.cur, "unreachable", Void, <<>>), Left(Front(frames), Top))
    OBVIOUS
  <2>1. PICK D : Guiding(fn, D, Front(frames), Top, Results)
    BY <1>1, WorkIs DEF Attended
  <2> QED
    BY <2>1, UnreachableGuided
<1> QED
  BY <1>1, <1>2, <1>3, <1>4 DEF Moving

LEMMA LandedIs ==
  ASSUME NEW G, NEW n, NEW k, NEW types, Top \in Visitors
  PROVE  Landed(G, n, k, types) = Relanded(Top, n, k, Phis(G, n), types)
<1> DEFINE c == Top.cur
           b == Top.before
           x == Top.values
           y == Top.types
           l == Top.label
           m == Top.labelTypes
           o == Top.to
           r == Top.results
           a == Top.alt
           t == Nine(c, b, x, y, l, m, o, r, a)
           vs == pop(x, k) \o Phis(G, n)
           ts == pop(y, k) \o types
<1>1. Top = t
  BY VisitorIs
<1>2. t.values = x /\ t.types = y
  BY DEF Nine
<1> HIDE DEF c, b, x, y, l, m, o, r, a
<1>3. [t EXCEPT !.cur = n, !.values = pop(@, k) \o Phis(G, n), !.types = pop(@, k) \o types]
        = [t EXCEPT !.cur = n, !.values = pop(t.values, k) \o Phis(G, n), !.types = pop(t.types, k) \o types]
  BY DEF Nine
<1> HIDE DEF t
<1> QED
  BY <1>1, <1>3 DEF Landed, Relanded, Recurred

LEMMA BlockWorks ==
  ASSUME AtWork, VisitBlock
  PROVE  Moving(fn', frames', Results)
<1>1. frames # <<>>
  BY DEF VisitBlock, Visit
<1>2. PICK bt \in scope.blockTypes :
        LET F == BuildPhis(BuildBasicBlock(fn, Top.before), fn.next, bt[2]) IN
        /\ Takes(bt[1])
        /\ fn' = F
        /\ frames' = Front(frames)
              \o << Landed(F, fn.next, Len(bt[1]), bt[2]),
                    Body(Top.cur, fn.next, peek(Top.values, Len(bt[1])), bt[1],
                         fn.next, bt[2], fn.next, bt[2]) >>
  BY DEF VisitBlock
<1> DEFINE p == bt[1]
           r == bt[2]
           n == fn.next
           t == Top
           s == Front(frames)
           G == BuildPhis(BuildBasicBlock(fn, t.before), n, r)
           b == Body(t.cur, n, peek(t.values, Len(p)), p, n, r, n, r)
<1>3. p \in Seq(Types) /\ r \in Seq(Types)
  BY ResultsAre DEF AtWork
<1>4. /\ Face(fn, s, t, Results) /\ Offers(t, p) /\ t \in Visitors
      /\ LoopsMerge => Faced(fn, s, t, Results) /\ Attended(fn, s, t, Results)
  BY <1>1, <1>2, WorkIs, Offered, FaceIs
<1>5. fn' = G /\ frames' = s \o <<Relanded(t, n, Len(p), Phis(G, n), r), b>>
  BY <1>2, <1>4, LandedIs
<1> HIDE DEF p, r, t, s
<1>6. Working(G, s \o <<Relanded(t, n, Len(p), Phis(G, n), r), b>>, Results)
  BY <1>3, <1>4, BlockStep
<1>7. LoopsMerge => Flows(G, s \o <<Relanded(t, n, Len(p), Phis(G, n), r), b>>, Results)
  BY <1>3, <1>4, BlockFlow
<1>8. LoopsMerge => Guided(G, s \o <<Relanded(t, n, Len(p), Phis(G, n), r), b>>)
  <2> SUFFICES ASSUME LoopsMerge  PROVE Guided(G, s \o <<Relanded(t, n, Len(p), Phis(G, n), r), b>>)
    OBVIOUS
  <2>1. PICK D : Guiding(fn, D, s, t, Results)
    BY <1>4 DEF Attended
  <2> QED
    BY <1>3, <1>4, <2>1, BlockGuided
<1> QED
  BY <1>5, <1>6, <1>7, <1>8 DEF Moving

LEMMA LoopWorks ==
  ASSUME AtWork, VisitLoop
  PROVE  Moving(fn', frames', Results)
<1>1. frames # <<>>
  BY DEF VisitLoop, Visit
<1>2. PICK bt \in scope.loopTypes :
        LET B == BuildBasicBlock(BuildBasicBlock(fn, Top.before), Top.before)
            J == BuildInst(B, Top.cur, "br", Void, <<fn.next>>)
            L == MergePhis(J, fn.next, Top.cur, bt[2], peek(Top.values, Len(bt[1])))
            F == BuildPhis(L, fn.next + 1, bt[2])
        IN  /\ Takes(bt[1])
            /\ fn' = F
            /\ frames' = Front(frames)
                  \o << Landed(F, fn.next + 1, Len(bt[1]), bt[2]),
                        Body(fn.next, fn.next + 1, L.code[fn.next], bt[1],
                             fn.next, bt[1], fn.next + 1, bt[2]) >>
  BY DEF VisitLoop
<1> DEFINE p == bt[1]
           r == bt[2]
           l == fn.next
           n == fn.next + 1
           t == Top
           s == Front(frames)
           B == BuildBasicBlock(BuildBasicBlock(fn, t.before), t.before)
           J == BuildInst(B, t.cur, "br", Void, <<l>>)
           L == MergePhis(J, l, t.cur, r, peek(t.values, Len(p)))
           G == BuildPhis(L, n, r)
           b == Body(l, n, L.code[l], p, l, p, n, r)
<1>3. p \in Seq(Types) /\ r \in Seq(Types) /\ Zips(p, r)
  BY ResultsAre DEF AtWork
<1>4. /\ Face(fn, s, t, Results) /\ Offers(t, p) /\ t \in Visitors
      /\ LoopsMerge => Faced(fn, s, t, Results) /\ Attended(fn, s, t, Results)
  BY <1>1, <1>2, WorkIs, Offered, FaceIs
<1>5. fn' = G /\ frames' = s \o <<Relanded(t, n, Len(p), Phis(G, n), r), b>>
  BY <1>2, <1>4, LandedIs
<1> HIDE DEF p, r, t, s
<1>6. Working(G, s \o <<Relanded(t, n, Len(p), Phis(G, n), r), b>>, Results)
  BY <1>3, <1>4, LoopStep
<1>7. LoopsMerge => Flows(G, s \o <<Relanded(t, n, Len(p), Phis(G, n), r), b>>, Results)
  BY <1>3, <1>4, LoopFlow
<1>8. LoopsMerge => Guided(G, s \o <<Relanded(t, n, Len(p), Phis(G, n), r), b>>)
  <2> SUFFICES ASSUME LoopsMerge  PROVE Guided(G, s \o <<Relanded(t, n, Len(p), Phis(G, n), r), b>>)
    OBVIOUS
  <2>1. PICK D : Guiding(fn, D, s, t, Results)
    BY <1>4 DEF Attended
  <2> QED
    BY <1>3, <1>4, <2>1, LoopGuided
<1> QED
  BY <1>5, <1>6, <1>7, <1>8 DEF Moving

LEMMA IfElseWorks ==
  ASSUME AtWork, VisitIfElse
  PROVE  Moving(fn', frames', Results)
<1>1. frames # <<>>
  BY DEF VisitIfElse, Visit
<1>2. PICK bt \in scope.blockTypes :
        LET args == peek(pop(Top.values, 1), Len(bt[1]))
            B == BuildBasicBlock(BuildBasicBlock(BuildBasicBlock(
                     fn, Top.before), Top.before), Top.before)
            C == BuildInst(B, Top.cur, "cond", Void, <<Last(Top.values), fn.next, fn.next + 1>>)
            F == BuildPhis(C, fn.next + 2, bt[2])
            branch(at, before) == Body(at, before, args, bt[1],
                                       fn.next + 2, bt[2], fn.next + 2, bt[2])
        IN  /\ Takes(Append(bt[1], CondType))
            /\ fn' = F
            /\ frames' = Front(frames)
                  \o << Landed(F, fn.next + 2, Len(bt[1]) + 1, bt[2]),
                        [branch(fn.next, fn.next + 1)
                           EXCEPT !.alt = <<branch(fn.next + 1, fn.next + 2)>>] >>
  BY DEF VisitIfElse
<1> DEFINE p == bt[1]
           r == bt[2]
           x == fn.next
           y == fn.next + 1
           n == fn.next + 2
           t == Top
           s == Front(frames)
           args == peek(pop(t.values, 1), Len(p))
           B == BuildBasicBlock(BuildBasicBlock(BuildBasicBlock(fn, t.before), t.before), t.before)
           C == BuildInst(B, t.cur, "cond", Void, <<Last(t.values), x, y>>)
           G == BuildPhis(C, n, r)
           b == WithAlt(Body(x, y, args, p, n, r, n, r), Body(y, n, args, p, n, r, n, r))
<1>3. p \in Seq(Types) /\ r \in Seq(Types) /\ CondType \in Types
  BY ResultsAre DEF AtWork
<1>4. /\ Face(fn, s, t, Results) /\ Offers(t, Append(p, CondType)) /\ t \in Visitors
      /\ LoopsMerge => Faced(fn, s, t, Results) /\ Attended(fn, s, t, Results)
  BY <1>1, <1>2, WorkIs, Offered, FaceIs
<1>5. fn' = G /\ frames' = s \o <<Relanded(t, n, Len(p) + 1, Phis(G, n), r), b>>
  BY <1>2, <1>4, LandedIs DEF WithAlt
<1> HIDE DEF p, r, t, s
<1>6. Working(G, s \o <<Relanded(t, n, Len(p) + 1, Phis(G, n), r), b>>, Results)
  BY <1>3, <1>4, IfElseStep
<1>7. LoopsMerge => Flows(G, s \o <<Relanded(t, n, Len(p) + 1, Phis(G, n), r), b>>, Results)
  BY <1>3, <1>4, IfElseFlow
<1>8. LoopsMerge => Guided(G, s \o <<Relanded(t, n, Len(p) + 1, Phis(G, n), r), b>>)
  <2> SUFFICES ASSUME LoopsMerge  PROVE Guided(G, s \o <<Relanded(t, n, Len(p) + 1, Phis(G, n), r), b>>)
    OBVIOUS
  <2>1. PICK D : Guiding(fn, D, s, t, Results)
    BY <1>4 DEF Attended
  <2> QED
    BY <1>3, <1>4, <2>1, IfElseGuided
<1> QED
  BY <1>5, <1>6, <1>7, <1>8 DEF Moving

LEMMA IfWorks ==
  ASSUME AtWork, VisitIf
  PROVE  Moving(fn', frames', Results)
<1> DEFINE x == fn.next
           n == fn.next + 1
           t == Top
           s == Front(frames)
           B == BuildBasicBlock(BuildBasicBlock(fn, t.before), t.before)
           G == BuildInst(B, t.cur, "cond", Void, <<Last(t.values), x, n>>)
           b == Body(x, n, <<>>, <<>>, n, <<>>, n, <<>>)
<1>1. frames # <<>>
  BY DEF VisitIf, Visit
<1>2. Takes(<<CondType>>) /\ fn' = G /\ frames' = s \o <<Landed(B, n, 1, <<>>), b>>
  BY DEF VisitIf
<1>3. CondType \in Types
  BY ResultsAre DEF AtWork
<1>4. /\ Face(fn, s, t, Results) /\ Offers(t, <<CondType>>) /\ t \in Visitors
      /\ LoopsMerge => Faced(fn, s, t, Results) /\ Attended(fn, s, t, Results)
  BY <1>1, <1>2, WorkIs, Offered, FaceIs
<1>5. frames' = s \o <<Relanded(t, n, 1, Phis(B, n), <<>>), b>>
  BY <1>2, <1>4, LandedIs
<1> HIDE DEF t, s
<1>6. Working(G, s \o <<Relanded(t, n, 1, Phis(B, n), <<>>), b>>, Results)
  BY <1>3, <1>4, IfStep
<1>7. LoopsMerge => Flows(G, s \o <<Relanded(t, n, 1, Phis(B, n), <<>>), b>>, Results)
  BY <1>3, <1>4, IfFlow
<1>8. LoopsMerge => Guided(G, s \o <<Relanded(t, n, 1, Phis(B, n), <<>>), b>>)
  <2> SUFFICES ASSUME LoopsMerge  PROVE Guided(G, s \o <<Relanded(t, n, 1, Phis(B, n), <<>>), b>>)
    OBVIOUS
  <2>1. PICK D : Guiding(fn, D, s, t, Results)
    BY <1>4 DEF Attended
  <2> QED
    BY <1>3, <1>4, <2>1, IfGuided
<1> QED
  BY <1>2, <1>5, <1>6, <1>7, <1>8 DEF Moving

LEMMA TranslateWorks ==
  ASSUME AtWork, Translate
  PROVE  Moving(fn', frames', Results)
BY ConstWorks, UnaryWorks, CallWorks, DropWorks, BlockWorks, LoopWorks, IfElseWorks, IfWorks,
   BrWorks, BrIfWorks, BrTableWorks, ReturnWorks, UnreachableWorks, EndWorks DEF Translate

-----------------------------------------------------------------------------
(* The runs of the pass.                                                   *)

LEMMA RunShrinks ==
  ASSUME Steady(fn), SimplifyTrivialPhi \/ SimplifyTrivialBranch \/ DeadBasicBlockElem \/ DeadInstructionElem
  PROVE  Shrunk(fn, fn')
<1> DEFINE b == FirstRewritable(fn)
<1>1. InPass
  BY DEF SimplifyTrivialPhi, SimplifyTrivialBranch, DeadBasicBlockElem, DeadInstructionElem
<1>2. b \in DOMAIN fn.code /\ Rewritable(fn, b)
  BY <1>1, StopsAtBlock DEF InPass
<1>3. CASE SimplifyTrivialPhi
  <2>1. HasTrivialPhi(fn, b) /\ fn' = simplifyTrivialPhi(fn, b)
    BY <1>3 DEF SimplifyTrivialPhi, Rewrite
  <2> HIDE DEF b
  <2> QED
    BY <1>2, <2>1, TrivialPhiSimplified
<1>4. CASE SimplifyTrivialBranch
  <2>1. HasTrivialBranch(fn, b) /\ fn' = simplifyTrivialBranch(fn, b)
    BY <1>4 DEF SimplifyTrivialBranch, Rewrite
  <2> HIDE DEF b
  <2> QED
    BY <1>2, <2>1, TrivialBranchSimplified
<1>5. CASE DeadBasicBlockElem
  <2>1. HasDeadBasicBlock(fn, b) /\ fn' = deadBasicBlockElem(fn, b)
    BY <1>5 DEF DeadBasicBlockElem, Rewrite
  <2> HIDE DEF b
  <2> QED
    BY <1>2, <2>1, DeadBlockErased
<1>6. CASE DeadInstructionElem
  <2>1. /\ ~HasTrivialPhi(fn, b) /\ ~HasTrivialBranch(fn, b) /\ ~HasDeadBasicBlock(fn, b)
        /\ fn' = deadInstructionElem(fn, b)
    BY <1>6 DEF DeadInstructionElem, Rewrite
  <2>2. HasDeadInstruction(fn, b)
    BY <1>2, <2>1 DEF Rewritable
  <2> HIDE DEF b
  <2> QED
    BY <1>2, <2>1, <2>2, DeadInstructionErased
<1> QED
  BY <1>3, <1>4, <1>5, <1>6

(* The four actions are the run.                                           *)
LEMMA RunFlows ==
  ASSUME Steady(fn), Valued(fn), Loose(fn),
         SimplifyTrivialPhi \/ SimplifyTrivialBranch \/ DeadBasicBlockElem \/ DeadInstructionElem
  PROVE  /\ Valued(fn') /\ Loose(fn')
         /\ Dominated(fn, Entry) => Dominated(fn', Entry)
<1> DEFINE b == FirstRewritable(fn)
<1>1. ~Converged(fn)
  BY DEF SimplifyTrivialPhi, SimplifyTrivialBranch, DeadBasicBlockElem, DeadInstructionElem, InPass
<1>2. fn' = Simplified(fn)
  BY DEF SimplifyTrivialPhi, SimplifyTrivialBranch, DeadBasicBlockElem, DeadInstructionElem, Rewrite, Simplified
<1> QED
  BY <1>1, <1>2, SimplifiedFlow, SimplifiedRuled

LEMMA NodesFinite ==
  ASSUME NEW F, Good(F)
  PROVE  /\ IsFiniteSet(DOMAIN F.code) /\ IsFiniteSet(DOMAIN F.inst)
         /\ Cardinality(DOMAIN F.code) \in Nat /\ Cardinality(DOMAIN F.inst) \in Nat
<1> DEFINE n == F.next - 1
<1>1. /\ F.next \in Nat /\ F.next # 0 /\ DOMAIN F.inst \subseteq 1 .. n /\ DOMAIN F.code \subseteq 1 .. n
  BY GoodRefs DEF Good
<1>2. 1 \in Int /\ n \in Int
  BY <1>1
<1> HIDE DEF n
<1>3. IsFiniteSet(1 .. n)
  BY <1>2, FS_Interval
<1>4. DOMAIN F.inst \in SUBSET (1 .. n) /\ DOMAIN F.code \in SUBSET (1 .. n)
  BY <1>1
<1>5. IsFiniteSet(DOMAIN F.code) /\ IsFiniteSet(DOMAIN F.inst)
  BY <1>3, <1>4, FS_Subset
<1> QED
  BY <1>5, FS_CardinalityType

LEMMA ShrunkIsSmaller ==
  ASSUME NEW F, Steady(F), NEW H, Shrunk(F, H)
  PROVE  Size(H) < Size(F)
<1> DEFINE a == Cardinality(DOMAIN F.code)
           b == Cardinality(DOMAIN F.inst)
           c == Cardinality(DOMAIN H.code)
           d == Cardinality(DOMAIN H.inst)
<1>1. Good(F) /\ Good(H)
  BY DEF Steady, Shrunk
<1>2. /\ IsFiniteSet(DOMAIN F.code) /\ IsFiniteSet(DOMAIN F.inst)
      /\ a \in Nat /\ b \in Nat /\ c \in Nat /\ d \in Nat
  BY <1>1, NodesFinite
<1>3. DOMAIN H.code \in SUBSET DOMAIN F.code /\ DOMAIN H.inst \in SUBSET DOMAIN F.inst
  BY DEF Shrunk
<1>4. c <= a /\ (a = c => DOMAIN F.code = DOMAIN H.code)
  BY <1>2, <1>3, FS_Subset
<1>5. d <= b /\ (b = d => DOMAIN F.inst = DOMAIN H.inst)
  BY <1>2, <1>3, FS_Subset
<1>6. DOMAIN F.code # DOMAIN H.code \/ DOMAIN F.inst # DOMAIN H.inst
  BY DEF Shrunk
<1>7. Size(H) = c + d /\ Size(F) = a + b
  BY DEF Size
<1> HIDE DEF a, b, c, d
<1>8. a # c \/ b # d
  BY <1>4, <1>5, <1>6
<1> QED
  BY <1>2, <1>4, <1>5, <1>7, <1>8

-----------------------------------------------------------------------------
(* The inductive invariant.                                                *)

LEMMA FaultIsBoolean ==
  ASSUME Inv
  PROVE  fn.fault \in BOOLEAN /\ (fn.fault = FALSE => Good(fn))
<1>1. CASE phase = "codegen"
  BY <1>1, GoodRefs DEF Inv, CodegenInv, Sound
<1>2. CASE phase \in {"simplify", "done"}
  BY <1>2 DEF Inv, PassInv, Steady
<1>3. CASE phase = "teardown"
  BY <1>3 DEF Inv, TeardownInv
<1> QED
  BY <1>1, <1>2, <1>3 DEF Inv

(* The visitors start with the entry and the exit.                         *)
LEMMA InvStarts ==
  ASSUME InitTranslation
  PROVE  Inv
<1>1. /\ scope \in Scopes /\ fn = TranslationContext /\ fuel = scope.fuel /\ phase = "codegen"
      /\ frames = <<Body(Entry, Exit, <<>>, <<>>, Exit, Results, Exit, Results)>>
  BY DEF InitTranslation, Init
<1>2. fuel \in Nat
  BY <1>1, ConstantsAssumption
<1>3. Working(fn, frames, Results)
  BY <1>1, ResultsAre, Begins
<1>4. phase \notin {"simplify", "done"} /\ phase # "teardown"
  BY <1>1
<1>5. Flows(fn, frames, Results) /\ Guided(fn, frames)
  BY <1>1, ResultsAre, FlowsBegin, GuidedBegins
<1> QED
  BY <1>1, <1>2, <1>3, <1>4, <1>5 DEF Inv, CodegenInv, PassInv, TeardownInv, FlowInv, Working

LEMMA CodegenKeeps ==
  ASSUME Inv, Codegen
  PROVE  Inv'
<1>1. phase = "codegen" /\ Translate /\ scope' = scope /\ phase' = "codegen"
  BY DEF Codegen
<1>2. AtWork
  BY <1>1 DEF Inv, CodegenInv, FlowInv, AtWork, Moving, Working
<1>3. Moving(fn', frames', Results)
  BY <1>1, <1>2, TranslateWorks
<1>4. Results' = Results
  BY <1>1 DEF Results
<1>5. CodegenInv'
  BY <1>3, <1>4 DEF CodegenInv, Moving, Working
<1>9. FlowInv'
  BY <1>1, <1>3, <1>4 DEF FlowInv, Moving
<1>6. fuel' \in Nat
  <2>1. fuel \in Nat
    BY DEF Inv
  <2>2. fuel' = fuel \/ (fuel > 0 /\ fuel' = fuel - 1)
    BY <1>1 DEF Translate, VisitConst, VisitUnary, VisitCall, VisitDrop, VisitBlock, VisitLoop,
       VisitIfElse, VisitIf, VisitBr, VisitBrIf, VisitBrTable, VisitReturn, VisitUnreachable,
       EndBody, Visit
  <2> QED
    BY <2>1, <2>2
<1>7. scope' \in Scopes /\ phase' \in {"codegen", "simplify", "done", "teardown"}
  BY <1>1 DEF Inv
<1>8. PassInv' /\ TeardownInv'
  BY <1>1 DEF PassInv, TeardownInv
<1> QED
  BY <1>5, <1>6, <1>7, <1>8, <1>9 DEF Inv

LEMMA StartKeeps ==
  ASSUME Inv, StartPass
  PROVE  Inv'
<1>1. /\ phase = "codegen" /\ frames = <<>> /\ phase' = "simplify"
      /\ fn' = fn /\ frames' = frames /\ fuel' = fuel /\ scope' = scope
  BY DEF StartPass, codegenVars
<1>2. Sound(fn, Results) /\ Sealed(fn, Open(frames))
  BY <1>1 DEF Inv, CodegenInv
<1>3. Good(fn) /\ fn.fault \in BOOLEAN /\ (LoopsMerge => fn.fault = FALSE)
  BY <1>2, GoodRefs DEF Sound
<1>4. fn.fault = FALSE => Steady(fn)
  BY <1>1, <1>2, <1>3, StackEmpty DEF Steady
<1>5. PassInv'
  BY <1>1, <1>3, <1>4 DEF PassInv
<1>6. CodegenInv' /\ TeardownInv'
  BY <1>1 DEF CodegenInv, TeardownInv
<1>7. FlowInv'
  <2>1. LoopsMerge => Valued(fn) /\ Loose(fn)
    BY <1>1 DEF Inv, FlowInv, Flows, Matched, Loose
  <2>2. LoopsMerge => Dominated(fn, Entry)
    BY <1>1 DEF Inv, FlowInv, Guided, Led, Dominated
  <2> QED
    BY <1>1, <2>1, <2>2 DEF FlowInv
<1> QED
  BY <1>1, <1>5, <1>6, <1>7 DEF Inv

LEMMA RunKeeps ==
  ASSUME Inv, SimplifyTrivialPhi \/ SimplifyTrivialBranch \/ DeadBasicBlockElem \/ DeadInstructionElem
  PROVE  Inv' /\ Steady(fn) /\ Shrunk(fn, fn')
<1>1. /\ phase = "simplify" /\ ~fn.fault /\ phase' = phase /\ frames' = frames
      /\ fuel' = fuel /\ scope' = scope
  BY DEF SimplifyTrivialPhi, SimplifyTrivialBranch, DeadBasicBlockElem, DeadInstructionElem,
         Rewrite, InPass
<1>2. frames = <<>> /\ fn.fault \in BOOLEAN /\ (fn.fault = FALSE => Steady(fn))
  BY <1>1 DEF Inv, PassInv
<1>3. Steady(fn)
  BY <1>1, <1>2
<1>4. Shrunk(fn, fn')
  BY <1>3, RunShrinks
<1>5. Steady(fn') /\ fn'.fault = FALSE
  BY <1>4 DEF Shrunk, Steady
<1>6. PassInv'
  BY <1>1, <1>2, <1>5 DEF PassInv
<1>7. CodegenInv' /\ TeardownInv'
  BY <1>1 DEF CodegenInv, TeardownInv
<1>8. FlowInv'
  <2>1. LoopsMerge => Valued(fn') /\ Loose(fn') /\ Dominated(fn', Entry)
    BY <1>1, <1>3, RunFlows DEF Inv, FlowInv
  <2> QED
    BY <1>1, <2>1 DEF FlowInv
<1> QED
  BY <1>1, <1>3, <1>4, <1>6, <1>7, <1>8 DEF Inv

LEMMA DestroyKeeps ==
  ASSUME Inv, DestroyBlock
  PROVE  Inv'
<1>1. /\ phase \in {"done", "teardown"} /\ fn.order # <<>> /\ ~fn.fault
      /\ fn' = eraseBlock(fn, Head(fn.order)) /\ phase' = "teardown"
      /\ frames' = frames /\ fuel' = fuel /\ scope' = scope
  BY DEF DestroyBlock
<1>2. fn.fault = FALSE /\ Good(fn) /\ frames = <<>>
  BY <1>1, FaultIsBoolean DEF Inv, PassInv, TeardownInv
<1> DEFINE b == Head(fn.order)
<1>3. b \in DOMAIN fn.code
  <2>1. fn.order \in Seq(DOMAIN fn.code)
    BY <1>2 DEF Good, Rowed
  <2> QED
    BY <1>1, <2>1
<1>4. fn' = eraseBlock(fn, b)
  BY <1>1
<1> HIDE DEF b
<1>5. BlockErasing(fn, fn', b) \/ fn'.fault = TRUE
  BY <1>2, <1>3, <1>4, ErasedBlock
<1>6. fn'.fault \in BOOLEAN /\ (fn'.fault = FALSE => Good(fn'))
  BY <1>5 DEF BlockErasing
<1>7. TeardownInv'
  BY <1>1, <1>2, <1>6 DEF TeardownInv
<1>8. CodegenInv' /\ PassInv' /\ FlowInv'
  BY <1>1 DEF CodegenInv, PassInv, FlowInv
<1> QED
  BY <1>1, <1>7, <1>8 DEF Inv

LEMMA InvKept ==
  ASSUME Inv, [Next]_vars
  PROVE  Inv'
<1>1. CASE Codegen
  BY <1>1, CodegenKeeps
<1>2. CASE StartPass
  BY <1>2, StartKeeps
<1>3. CASE SimplifyTrivialPhi \/ SimplifyTrivialBranch \/ DeadBasicBlockElem \/ DeadInstructionElem
  BY <1>3, RunKeeps
<1>4. CASE Converge
  BY <1>4 DEF Converge, Inv, CodegenInv, PassInv, TeardownInv, FlowInv
<1>5. CASE DestroyBlock
  BY <1>5, DestroyKeeps
<1>6. CASE UNCHANGED vars
  BY <1>6 DEF vars, Inv, CodegenInv, PassInv, TeardownInv, FlowInv, Results
<1> QED
  BY <1>1, <1>2, <1>3, <1>4, <1>5, <1>6 DEF Next, Gone

LEMMA InvHolds == Spec => []Inv
<1>1. InitTranslation => Inv
  BY InvStarts
<1>2. Inv /\ [Next]_vars => Inv'
  BY InvKept
<1> QED
  BY <1>1, <1>2, PTL DEF Spec

-----------------------------------------------------------------------------
(* What follows for the function.                                          *)

LEMMA UsesAreExact ==
  ASSUME Inv
  PROVE  UsesExact
<1> SUFFICES ASSUME ~fn.fault
             PROVE  /\ DOMAIN fn.uses = Blocks \union DOMAIN fn.inst
                    /\ \A i \in DOMAIN fn.inst :
                           ToSet(fn.inst[i].refs) \subseteq DOMAIN fn.uses \union {Nil}
                    /\ \A n \in DOMAIN fn.uses :
                           /\ ToSet(fn.uses[n]) \subseteq DOMAIN fn.inst
                           /\ \A i \in DOMAIN fn.inst :
                                  Times(fn.uses[n], i) = Times(fn.inst[i].refs, n)
  BY DEF UsesExact
<1>1. Good(fn)
  BY FaultIsBoolean
<1>2. Linked(fn, {})
  BY <1>1 DEF Good
<1>3. DOMAIN fn.uses = Blocks \union DOMAIN fn.inst
  BY <1>1, GoodRefs DEF Good, Blocks
<1>4. ASSUME NEW i \in DOMAIN fn.inst
      PROVE  ToSet(fn.inst[i].refs) \subseteq DOMAIN fn.uses \union {Nil}
  <2>1. fn.inst[i].refs \in Seq(DOMAIN fn.uses \union {Nil})
    BY <1>1, GoodRefs
  <2> QED
    BY <2>1 DEF ToSet
<1>5. ASSUME NEW n \in DOMAIN fn.uses
      PROVE  ToSet(fn.uses[n]) \subseteq DOMAIN fn.inst
  <2>1. ASSUME NEW u \in ToSet(fn.uses[n])  PROVE u \in DOMAIN fn.inst
    <3>1. u \in DOMAIN fn.inst \ {}
      BY <1>2, <2>1, UsersAre
    <3> QED
      BY <3>1
  <2> QED
    BY <2>1
<1>6. ASSUME NEW n \in DOMAIN fn.uses, NEW i \in DOMAIN fn.inst
      PROVE  Times(fn.uses[n], i) = Times(fn.inst[i].refs, n)
  <2>1. i \notin {}
    OBVIOUS
  <2>2. i \in DOMAIN fn.uses /\ fn.inst[i].refs = Held(fn, {})[i]
    BY <1>2, <2>1, LinkedRefs
  <2>3. Times(fn.uses[n], i) = Times(Held(fn, {})[i], n)
    BY <1>2, <2>2 DEF Linked, Listed
  <2> QED
    BY <2>2, <2>3
<1> QED
  BY <1>3, <1>4, <1>5, <1>6

(* From the context to the last block of the teardown, the use lists name  *)
(* every reference once, unless an assertion has ended the process: what   *)
(* ASTNode::add_use, remove_use and the destructors of the nodes keep.     *)
THEOREM UseListsAreExact == Spec => []UsesExact
<1>1. Inv => UsesExact
  BY UsesAreExact
<1> QED
  BY <1>1, InvHolds, PTL

(* Every run of SimplifyCFG that finds something to do takes a block or an *)
(* instruction away and adds none, so the driver's loop ends.              *)
THEOREM RunsShrink == Spec => EveryRunShrinks
<1>1. Inv /\ [Next]_vars => [phase = "simplify" /\ phase' = "simplify" => Size(fn') < Size(fn)]_vars
  <2> SUFFICES ASSUME Inv, Next, phase = "simplify", phase' = "simplify"
               PROVE  Size(fn') < Size(fn) \/ UNCHANGED vars
    OBVIOUS
  <2>1. CASE SimplifyTrivialPhi \/ SimplifyTrivialBranch \/ DeadBasicBlockElem \/ DeadInstructionElem
    BY <2>1, RunKeeps, ShrunkIsSmaller
  <2>2. CASE Codegen \/ StartPass \/ Converge \/ DestroyBlock \/ Gone
    BY <2>2 DEF Codegen, StartPass, Converge, DestroyBlock, Gone
  <2> QED
    BY <2>1, <2>2 DEF Next
<1> QED
  BY <1>1, InvHolds, PTL DEF Spec, EveryRunShrinks

(* No assertion of the use lists, the phis or the branches fails from the  *)
(* first bytecode to the last run of the pass, when no loop has more       *)
(* parameters than results: in particular replaceAllUseWith never meets    *)
(* the false target of a conditional.                                      *)
THEOREM AssertionsHold ==
  ASSUME LoopsMerge
  PROVE  Spec => []NoAssertionFails
<1>1. Inv => NoAssertionFails
  BY DEF Inv, CodegenInv, PassInv, Sound, NoAssertionFails
<1> QED
  BY <1>1, InvHolds, PTL

LEMMA ValuesHaveTypes ==
  ASSUME Inv, LoopsMerge
  PROVE  StacksAgree
<1> SUFFICES ASSUME NEW k \in DOMAIN frames
             PROVE  [j \in DOMAIN frames[k].values |-> fn.inst[frames[k].values[j]].type]
                      = frames[k].types
  BY DEF StacksAgree
<1> DEFINE v == frames[k]
<1>1. CASE phase = "codegen"
  <2>1. Stacked(fn, frames)
    BY <1>1 DEF Inv, CodegenInv
  <2>2. v \in Visitors /\ Fit(fn, v)
    BY <2>1, LenProperties, ElementOfSeq DEF Stacked, Ready
  <2>3. v.values \in Seq(Nat) /\ v.types \in Seq(Types) /\ Typed(fn, v.values, v.types)
    BY <2>2, VisitorIs DEF Fit, Merging
  <2> DEFINE vs == v.values
             ts == v.types
             f == [j \in DOMAIN vs |-> fn.inst[vs[j]].type]
  <2>4. /\ Len(vs) = Len(ts) /\ Len(ts) \in Nat /\ DOMAIN vs = 1 .. Len(ts) /\ DOMAIN ts = 1 .. Len(ts)
        /\ \A j \in 1 .. Len(ts) : fn.inst[vs[j]].type = ts[j]
    BY <2>3, LenProperties DEF Typed
  <2>5. ts = [j \in DOMAIN ts |-> ts[j]]
    BY <2>3
  <2> HIDE DEF vs, ts
  <2>6. f = ts
    BY <2>4, <2>5
  <2> QED
    BY <2>6 DEF vs, ts
<1>2. CASE phase # "codegen"
  <2>1. frames = <<>>
    BY <1>2 DEF Inv, PassInv, TeardownInv
  <2> QED
    BY <2>1
<1> QED
  BY <1>1, <1>2

(* The visitor's values are what validation has on its operand stack, in   *)
(* number and in type, at every bytecode of every body, when no loop has   *)
(* more parameters than results.                                           *)
THEOREM VisitorsFollowValidation ==
  ASSUME LoopsMerge
  PROVE  Spec => []StacksAgree
<1>1. Inv => StacksAgree
  BY ValuesHaveTypes
<1> QED
  BY <1>1, InvHolds, PTL

(* The paths of a phi are every second reference.                          *)
LEMMA PathsOf ==
  ASSUME NEW I, NEW A, I.refs \in Seq(A), Len(I.refs) % 2 = 0
  PROVE  LET paths == [k \in DOMAIN Candidates(I) |-> Candidates(I)[k][2]] IN
         /\ Len(paths) = Len(I.refs) \div 2
         /\ \A c : c \in ToSet(paths) <=> Through(I.refs, c)
<1> DEFINE r == I.refs
           n == Len(r)
           m == n \div 2
           C == Candidates(I)
           paths == [k \in DOMAIN C |-> C[k][2]]
<1>1. n \in Nat /\ m \in Nat /\ n = 2 * m
  <2>1. n \in Nat /\ n % 2 = 0
    BY LenProperties
  <2> HIDE DEF n
  <2> QED
    BY <2>1
<1>2. C = [k \in 1 .. m |-> <<r[2 * k - 1], r[2 * k]>>]
  BY DEF Candidates
<1>3. DOMAIN C = 1 .. m /\ \A k \in 1 .. m : C[k][2] = r[2 * k]
  <2> HIDE DEF C, m, r
  <2>1. \A x, y : <<x, y>>[2] = y
    OBVIOUS
  <2> QED
    BY <1>2, <2>1
<1> HIDE DEF C
<1>4. paths = [k \in 1 .. m |-> r[2 * k]]
  BY <1>3
<1> HIDE DEF paths
<1>5. Len(paths) = m /\ DOMAIN paths = 1 .. m /\ \A k \in 1 .. m : paths[k] = r[2 * k]
  <2> HIDE DEF m
  <2> QED
    BY <1>1, <1>4
<1>6. \A c : c \in ToSet(paths) <=> \E k \in 1 .. m : r[2 * k] = c
  BY <1>5 DEF ToSet
<1>7. \A k \in 1 .. m : 2 * k \in 1 .. n /\ (2 * k) % 2 = 0
  <2> HIDE DEF m, n
  <2> QED
    BY <1>1
<1>8. \A j \in 1 .. n : j % 2 = 0 => j \div 2 \in 1 .. m /\ j = 2 * (j \div 2)
  <2> HIDE DEF m, n
  <2> QED
    BY <1>1
<1>9. \A c : (\E k \in 1 .. m : r[2 * k] = c) <=> \E j \in 1 .. n : j % 2 = 0 /\ r[j] = c
  <2> HIDE DEF m, n, r
  <2> QED
    BY <1>7, <1>8
<1>10. \A c : Through(r, c) <=> \E j \in 1 .. n : j % 2 = 0 /\ r[j] = c
  BY DEF Through
<1> QED
  BY <1>5, <1>6, <1>9, <1>10 DEF paths, C

LEMMA PhisFollow ==
  ASSUME Inv, LoopsMerge
  PROVE  PhisMatchFlow
<1> DEFINE paths(i) == [k \in DOMAIN Candidates(fn.inst[i]) |-> Candidates(fn.inst[i])[k][2]]
<1> SUFFICES ASSUME phase # "teardown", NEW b \in DOMAIN fn.code, NEW i \in ToSet(Phis(fn, b)),
                    Cardinality(ToSet(paths(i))) = Len(paths(i))
             PROVE  ToSet(paths(i)) = getInwardFlow(fn, b)
  BY DEF PhisMatchFlow, Blocks
<1>1. Loose(fn) /\ Good(fn)
  <2>1. fn.fault = FALSE
    BY DEF Inv, CodegenInv, PassInv, Sound
  <2>2. Loose(fn)
    BY DEF Inv, FlowInv, Flows, Matched, Loose
  <2> QED
    BY <2>1, <2>2, FaultIsBoolean
<1>2. i \in DOMAIN fn.inst /\ fn.inst[i].kind = "phi" /\ Sits(fn, b, i)
  BY <1>1, PhisHere
<1> DEFINE I == fn.inst[i]
<1>3. Meets(fn, b, i) \/ Strays(fn, b, i)
  BY <1>1, <1>2 DEF Loose
<1> DEFINE A == DOMAIN fn.uses \cup {Nil}
<1>4. I.refs \in Seq(A) /\ Len(I.refs) % 2 = 0
  BY <1>1, <1>2, <1>3, GoodRefs DEF Meets, Strays
<1> HIDE DEF A
<1> DEFINE p == paths(i)
<1>5. Len(p) = Len(I.refs) \div 2 /\ \A c : c \in ToSet(p) <=> Through(I.refs, c)
  BY <1>4, PathsOf
<1>6. Cardinality(ToSet(p)) = Len(p)
  OBVIOUS
<1> HIDE DEF p
<1>7. CASE Meets(fn, b, i)
  <2>1. \A c : c \in ToSet(p) <=> c \in DOMAIN fn.code /\ Comes(fn, c, b)
    BY <1>5, <1>7 DEF Meets, Comes
  <2>2. getInwardFlow(fn, b) = {c \in DOMAIN fn.code : Comes(fn, c, b)}
    BY <1>1, InwardIs
  <2>3. ToSet(p) = getInwardFlow(fn, b)
    BY <2>1, <2>2
  <2> QED
    BY <2>3 DEF p
<1>8. CASE Strays(fn, b, i)
  <2>1. \A c : c \in ToSet(p) <=> c = b
    BY <1>5, <1>8 DEF Strays
  <2>2. ToSet(p) = {b}
    BY <2>1
  <2>3. Cardinality({b}) = 1
    BY FS_Singleton
  <2> DEFINE n == Len(I.refs)
  <2>4. n \in Nat /\ n >= 4 /\ n % 2 = 0
    BY <1>4, <1>8, LenProperties DEF Strays
  <2>5. n \div 2 = 1
    BY <1>5, <1>6, <2>2, <2>3
  <2> HIDE DEF n
  <2>6. FALSE
    BY <2>4, <2>5
  <2> QED
    BY <2>6
<1> QED
  BY <1>3, <1>7, <1>8

(* Every phi has a candidate for each block that branches to its own and   *)
(* for no other, from the first bytecode to the last run of SimplifyCFG,   *)
(* when no loop has more parameters than results: the merges of the        *)
(* visitors, the splice of two blocks and the death of a block keep it.    *)
THEOREM PhisFollowFlow ==
  ASSUME LoopsMerge
  PROVE  Spec => []PhisMatchFlow
<1>1. Inv => PhisMatchFlow
  BY PhisFollow
<1> QED
  BY <1>1, InvHolds, PTL

-----------------------------------------------------------------------------
(* What a chart says of the ways through the function.                     *)

(* getOutwardFlow asks the last instruction of the block.                  *)
LEMMA OutwardComes ==
  ASSUME NEW F, Steady(F), NEW b \in DOMAIN F.code, NEW z \in getOutwardFlow(F, b)
  PROVE  z \in DOMAIN F.code /\ Comes(F, b, z)
<1> DEFINE u == Last(F.code[b])
<1>1. Good(F) /\ u \in DOMAIN F.inst /\ Parent(F, u) = b
  BY LastOf DEF Steady
<1>2. z \in Targets(F.inst[u])
  BY DEF getOutwardFlow
<1> HIDE DEF u
<1>3. /\ F.inst[u].kind \in Branches
      /\ \E k \in DOMAIN F.inst[u].refs \ Values(F.inst[u]) : F.inst[u].refs[k] = z /\ z # Nil
  BY <1>2 DEF Targets
<1>4. z \in DOMAIN F.code
  BY <1>1, <1>3 DEF Good, Aimed
<1>5. Names(F.inst[u].refs, z)
  <2> DEFINE r == F.inst[u].refs
  <2>1. r \in Seq(DOMAIN F.uses \cup {Nil})
    BY <1>1, GoodRefs
  <2>2. DOMAIN r = 1 .. Len(r)
    BY <2>1, LenProperties
  <2> QED
    BY <1>3, <2>2 DEF Names
<1>6. Sits(F, b, u)
  BY <1>1, SitsIs
<1> QED
  BY <1>1, <1>3, <1>4, <1>5, <1>6 DEF Comes

(* The rounds of ReachableAvoiding.                                        *)
WidensStep(F, x, S) == S \union ((UNION {getOutwardFlow(F, b) : b \in S}) \ {x})
Widens(F, x, f, m) ==
  f = [j \in 0 .. m |-> IF j = 0 THEN {Head(F.order)} \ {x}
                        ELSE f[j - 1] \union ((UNION {getOutwardFlow(F, b) : b \in f[j - 1]}) \ {x})]
Widened(F, x, f, n) ==
  /\ f[0] = {Head(F.order)} \ {x} /\ ReachableAvoiding(F, x) = f[n]
  /\ \A j \in 1 .. n : f[j] = WidensStep(F, x, f[j - 1])

LEMMA WidensUnfold ==
  ASSUME NEW F, NEW x, Len(F.order) \in Nat
  PROVE  \E f : Widened(F, x, f, Len(F.order))
<1> DEFINE c == Len(F.order)
           A == {Head(F.order)} \ {x}
           S == {m \in 0 .. c : \E f : Widens(F, x, f, m)}
<1>1. 0 \in S
  <2>1. Widens(F, x, [j \in 0 .. 0 |-> A], 0)
    BY DEF Widens
  <2> QED
    BY <2>1
<1>2. ASSUME NEW m \in 0 .. c, m \in S, m < c  PROVE m + 1 \in S
  <2>1. PICK f : Widens(F, x, f, m)
    BY <1>2
  <2> DEFINE g == [j \in 0 .. m + 1 |-> IF j = m + 1 THEN WidensStep(F, x, f[m]) ELSE f[j]]
  <2>2. ASSUME NEW j \in 0 .. m + 1
        PROVE  g[j] = IF j = 0 THEN A ELSE WidensStep(F, x, g[j - 1])
    <3>1. CASE j = m + 1
      <4>1. g[j] = WidensStep(F, x, f[m]) /\ g[j - 1] = f[m]
        BY <1>2, <3>1
      <4> QED
        BY <1>2, <3>1, <4>1
    <3>2. CASE j # m + 1
      <4>1. j \in 0 .. m /\ g[j] = f[j]
        BY <1>2, <3>2
      <4>2. f[j] = IF j = 0 THEN A ELSE WidensStep(F, x, f[j - 1])
        BY <2>1, <4>1 DEF Widens, WidensStep
      <4>3. j # 0 => g[j - 1] = f[j - 1]
        BY <1>2, <4>1
      <4> QED
        BY <4>1, <4>2, <4>3
    <3> QED
      BY <3>1, <3>2
  <2>3. Widens(F, x, g, m + 1)
    BY <2>2 DEF Widens, WidensStep
  <2> QED
    BY <1>2, <2>3
<1>3. c \in S
  <2>1. \A m \in 0 .. c : m \in S /\ m < c => m + 1 \in S
    BY <1>2
  <2> HIDE DEF S
  <2>2. \A m \in 0 .. c : m \in S
    BY <1>1, <2>1, Climbs
  <2> QED
    BY <2>2
<1> DEFINE f == CHOOSE f : Widens(F, x, f, c)
<1>4. Widens(F, x, f, c)
  BY <1>3
<1>5. ReachableAvoiding(F, x) = f[c]
  BY DEF ReachableAvoiding, Widens
<1> HIDE DEF f, c
<1>6. f = [j \in 0 .. c |-> IF j = 0 THEN A ELSE WidensStep(F, x, f[j - 1])]
  BY <1>4 DEF Widens, WidensStep
<1>7. c \in Nat
  BY DEF c
<1>8. f[0] = A /\ \A j \in 1 .. c : f[j] = WidensStep(F, x, f[j - 1])
  <2> HIDE DEF A
  <2> QED
    BY <1>6, <1>7
<1>9. Widened(F, x, f, c)
  BY <1>5, <1>8 DEF Widened
<1> QED
  BY <1>9 DEF c

(* What has the first block and is never left has all of them.             *)
LEMMA ReachableWithin ==
  ASSUME NEW F, NEW x, Len(F.order) \in Nat, NEW T, Head(F.order) # x => Head(F.order) \in T,
         \A b \in T : \A z \in getOutwardFlow(F, b) : z # x => z \in T
  PROVE  ReachableAvoiding(F, x) \subseteq T
<1> DEFINE c == Len(F.order)
<1>a. PICK f : Widened(F, x, f, c)
  BY WidensUnfold
<1>1. /\ f[0] = {Head(F.order)} \ {x} /\ ReachableAvoiding(F, x) = f[c]
      /\ \A j \in 1 .. c : f[j] = WidensStep(F, x, f[j - 1])
  BY <1>a DEF Widened
<1> HIDE DEF c
<1> DEFINE S == {m \in 0 .. c : f[m] \subseteq T}
<1>2. c \in Nat
  BY DEF c
<1>3. 0 \in S
  BY <1>1, <1>2
<1>4. ASSUME NEW m \in 0 .. c, m \in S, m < c  PROVE m + 1 \in S
  <2>1. m + 1 \in 1 .. c /\ m + 1 \in 0 .. c /\ (m + 1) - 1 = m
    BY <1>2, <1>4
  <2>2. f[m + 1] = WidensStep(F, x, f[m])
    BY <1>1, <2>1
  <2>3. f[m] \subseteq T
    BY <1>4
  <2> DEFINE X == f[m]
  <2> HIDE DEF X
  <2>5. X \subseteq T
    BY <2>3 DEF X
  <2>6. ASSUME NEW z \in UNION {getOutwardFlow(F, b) : b \in X}, z # x  PROVE z \in T
    <3>1. PICK b \in X : z \in getOutwardFlow(F, b)
      OBVIOUS
    <3>2. b \in T
      BY <2>5
    <3> QED
      BY <2>6, <3>1, <3>2
  <2>4. WidensStep(F, x, X) \subseteq T
    <3> DEFINE U == UNION {getOutwardFlow(F, b) : b \in X}
    <3>1. \A z \in U : z # x => z \in T
      BY <2>6
    <3>2. WidensStep(F, x, X) = X \union (U \ {x})
      BY DEF WidensStep
    <3> HIDE DEF U
    <3> QED
      BY <2>5, <3>1, <3>2
  <2> QED
    BY <2>1, <2>2, <2>4 DEF X
<1>5. c \in S
  <2>1. \A m \in 0 .. c : m \in S /\ m < c => m + 1 \in S
    BY <1>4
  <2> HIDE DEF S
  <2>2. \A m \in 0 .. c : m \in S
    BY <1>2, <1>3, <2>1, Climbs
  <2> QED
    BY <1>2, <2>2
<1> QED
  BY <1>1, <1>5

(* A block that the chart has on every way to b dominates b.               *)
LEMMA ChartDominates ==
  ASSUME NEW F, Steady(F), NEW e, Rooted(F, e), NEW R, NEW D, Charted(F, R, D, e)
  PROVE  /\ Reachable(F) \subseteq R
         /\ \A b \in R : \A a \in D[b] : Dominates(F, a, b)
<1>1. Good(F) /\ Len(F.order) \in Nat /\ Nil \notin DOMAIN F.code /\ Head(F.order) = e
  <2>1. F.order \in Seq(DOMAIN F.code)
    BY DEF Steady, Good, Rowed
  <2> QED
    BY <2>1, GoodRefs, LenProperties DEF Steady, Rooted
<1>2. ASSUME NEW x  PROVE ReachableAvoiding(F, x) \subseteq {z \in R : x \notin D[z]}
  <2> DEFINE T == {z \in R : x \notin D[z]}
  <2>1. e # x => e \in T
    BY DEF Charted
  <2>2. ASSUME NEW b \in T, NEW z \in getOutwardFlow(F, b), z # x  PROVE z \in T
    <3>1. b \in R /\ x \notin D[b] /\ b \in DOMAIN F.code
      BY DEF Charted
    <3>2. z \in DOMAIN F.code /\ Comes(F, b, z)
      BY <3>1, OutwardComes
    <3>3. z \in R /\ D[z] \subseteq D[b] \cup {z}
      BY <3>1, <3>2 DEF Charted
    <3> QED
      BY <2>2, <3>1, <3>3
  <2> HIDE DEF T
  <2>3. ReachableAvoiding(F, x) \subseteq T
    BY <1>1, <2>1, <2>2, ReachableWithin
  <2> QED
    BY <2>3 DEF T
<1>3. Reachable(F) \subseteq R
  BY <1>2 DEF Reachable
<1>4. \A b \in R : \A a \in D[b] : Dominates(F, a, b)
  BY <1>2 DEF Dominates
<1> QED
  BY <1>3, <1>4

-----------------------------------------------------------------------------
(* What is used is there, as OperandsDominate has it.                      *)

LEMMA CandidatesBring ==
  ASSUME NEW I, NEW A, I.refs \in Seq(A), NEW c \in ToSet(Candidates(I))
  PROVE  Brings(I.refs, c[1], c[2])
<1> DEFINE r == I.refs
           n == Len(r)
           m == n \div 2
           C == Candidates(I)
<1>1. n \in Nat /\ m \in Nat /\ 2 * m <= n
  <2>1. n \in Nat
    BY LenProperties
  <2> HIDE DEF n
  <2> QED
    BY <2>1
<1>2. C = [k \in 1 .. m |-> <<r[2 * k - 1], r[2 * k]>>]
  BY DEF Candidates
<1> HIDE DEF C, m, r
<1>3. DOMAIN C = 1 .. m
  BY <1>2
<1>4. PICK k \in 1 .. m : c = <<r[2 * k - 1], r[2 * k]>>
  BY <1>2, <1>3 DEF ToSet, C
<1>5. c[1] = r[2 * k - 1] /\ c[2] = r[2 * k]
  BY <1>4
<1> DEFINE j == 2 * k - 1
<1> HIDE DEF n
<1>6. j \in 1 .. n /\ j % 2 = 1 /\ j + 1 \in 1 .. n /\ j + 1 = 2 * k
  <2>1. k \in Nat /\ k >= 1 /\ k <= m
    BY <1>1, <1>4
  <2> QED
    BY <1>1, <2>1
<1> HIDE DEF j
<1>7. c[1] = r[j] /\ c[2] = r[j + 1]
  BY <1>5, <1>6 DEF j
<1>8. Brings(r, c[1], c[2])
  BY <1>6, <1>7 DEF Brings, n
<1> QED
  BY <1>8 DEF r

(* The block that computes v is its parent, and it dominates where v is.   *)
DefinedIn(F, v, b) == v \in DOMAIN F.inst /\ Dominates(F, Parent(F, v), b)

LEMMA ThereIsDefined ==
  ASSUME NEW F, Steady(F), NEW e, Rooted(F, e), NEW R, NEW D, Charted(F, R, D, e),
         NEW b \in R, NEW a \in D[b], NEW v, Yields(F, a, v)
  PROVE  DefinedIn(F, v, b) /\ Parent(F, v) = a
<1>1. Good(F) /\ a \in DOMAIN F.code
  BY DEF Steady, Charted
<1>2. v \in DOMAIN F.inst /\ Sits(F, a, v)
  BY DEF Yields
<1>3. Parent(F, v) = a
  BY <1>1, <1>2, SitsIs
<1>4. Dominates(F, a, b)
  BY ChartDominates
<1> QED
  BY <1>2, <1>3, <1>4 DEF DefinedIn

LEMMA OperandsDefined ==
  ASSUME NEW F, Steady(F), NEW e, Dominated(F, e),
         NEW b \in Reachable(F), NEW i \in ToSet(F.code[b])
  PROVE  IF F.inst[i].kind = "phi"
         THEN \A c \in ToSet(Candidates(F.inst[i])) : c[2] \in Reachable(F) => DefinedIn(F, c[1], c[2])
         ELSE \A k \in Values(F.inst[i]) :
                /\ DefinedIn(F, F.inst[i].refs[k], b)
                /\ Parent(F, F.inst[i].refs[k]) = b => Before(F.code[b], F.inst[i].refs[k], i)
<1>1. Rooted(F, e) /\ Good(F)
  BY DEF Dominated, Steady
<1>2. PICK R, D : Charted(F, R, D, e) /\ Backed(F, R, D)
  BY DEF Dominated, Ruled
<1>3. Reachable(F) \subseteq R /\ b \in R /\ b \in DOMAIN F.code /\ b \in D[b]
  BY <1>1, <1>2, ChartDominates DEF Charted
<1>4. Sits(F, b, i) /\ i \in DOMAIN F.inst
  <2>1. F.code[b] \in Seq(DOMAIN F.inst)
    BY <1>1, <1>3 DEF Good, Housed
  <2>2. DOMAIN F.code[b] = 1 .. Len(F.code[b])
    BY <2>1, LenProperties
  <2>3. Sits(F, b, i)
    BY <2>2 DEF ToSet, Sits, Names
  <2> QED
    BY <1>1, <1>3, <2>3, SitsIs
<1>5. IF F.inst[i].kind = "phi" THEN Brought(F, R, D, i) ELSE Given(F, D, b, i)
  BY <1>2, <1>3, <1>4 DEF Backed
<1>6. CASE F.inst[i].kind = "phi"
  <2> DEFINE I == F.inst[i]
  <2> SUFFICES ASSUME NEW c \in ToSet(Candidates(I)), c[2] \in Reachable(F)  PROVE DefinedIn(F, c[1], c[2])
    BY <1>6
  <2>1. I.refs \in Seq(DOMAIN F.uses \cup {Nil})
    BY <1>1, <1>4, GoodRefs
  <2> DEFINE A == DOMAIN F.uses \cup {Nil}
  <2> HIDE DEF A, I
  <2>2. Brings(I.refs, c[1], c[2])
    BY <2>1, CandidatesBring DEF A
  <2> DEFINE v == c[1]
             p == c[2]
  <2>3. p \in R /\ Brings(F.inst[i].refs, v, p)
    BY <1>3, <2>2 DEF I
  <2> HIDE DEF v, p
  <2>4. There(F, D, v, p)
    BY <1>5, <1>6, <2>3 DEF Brought
  <2>5. PICK a \in D[p] : Yields(F, a, v)
    BY <2>4 DEF There
  <2>6. DefinedIn(F, v, p)
    BY <1>1, <1>2, <2>3, <2>5, ThereIsDefined
  <2> QED
    BY <2>6 DEF v, p
<1>7. CASE F.inst[i].kind # "phi"
  <2> SUFFICES ASSUME NEW k \in Values(F.inst[i])
               PROVE  /\ DefinedIn(F, F.inst[i].refs[k], b)
                      /\ Parent(F, F.inst[i].refs[k]) = b => Before(F.code[b], F.inst[i].refs[k], i)
    BY <1>7
  <2> DEFINE v == F.inst[i].refs[k]
  <2>1. Above(F, D, v, b, i)
    BY <1>5, <1>7 DEF Given
  <2> HIDE DEF v
  <2>2. CASE \E a \in D[b] \ {b} : Yields(F, a, v)
    <3>1. PICK a \in D[b] : a # b /\ Yields(F, a, v)
      BY <2>2
    <3>2. DefinedIn(F, v, b) /\ Parent(F, v) = a
      BY <1>1, <1>2, <1>3, <3>1, ThereIsDefined
    <3> QED
      BY <3>1, <3>2 DEF v
  <2>3. CASE Before(F.code[b], v, i)
    <3>1. Sits(F, b, v) /\ v \in DOMAIN F.inst
      BY <1>1, <1>3, <2>3, BeforeSits
    <3>2. Parent(F, v) = b
      BY <1>1, <1>3, <3>1, SitsIs
    <3>3. Dominates(F, b, b)
      BY <1>1, <1>2, <1>3, ChartDominates
    <3>4. DefinedIn(F, v, b)
      BY <3>1, <3>2, <3>3 DEF DefinedIn
    <3> QED
      BY <2>3, <3>4 DEF v
  <2> QED
    BY <2>1, <2>2, <2>3 DEF Above
<1> QED
  BY <1>6, <1>7

(* Once nothing is left to rewrite, nothing is left that no block branches *)
(* to, and the dominator pass has the flow it expects.                     *)
LEMMA ConvergedFlows ==
  ASSUME Steady(fn), Converged(fn), NEW e, Rooted(fn, e)
  PROVE  Pass!IsFlow(FlowGraph)
<1> DEFINE G == FlowGraph
           B == DOMAIN fn.code
           o == fn.order
<1>1. /\ Good(fn) /\ o \in Seq(B) /\ \A b \in B : Times(o, b) = 1
  BY DEF Steady, Good, Rowed
<1>2. e \in B /\ Head(o) = e /\ \A c : ~Comes(fn, c, e)
  BY DEF Rooted
<1>3. /\ G.entry = e /\ G.order = o
      /\ G.inward = [b \in B |-> getInwardFlow(fn, b)]
  BY <1>2 DEF FlowGraph, Blocks
<1> HIDE DEF G, o
<1>4. \A b \in B : getInwardFlow(fn, b) = {c \in B : Comes(fn, c, b)}
  BY <1>1, InwardIs
<1>5. DOMAIN G.inward = B /\ \A b \in B : G.inward[b] = {c \in B : Comes(fn, c, b)}
  BY <1>3, <1>4
<1>6. G.inward \in [B -> SUBSET B]
  BY <1>3, <1>4
<1>7. ASSUME NEW b \in B  PROVE \E k \in 1 .. Len(o) : o[k] = b
  <2>1. Times(o, b) = 0 <=> \A k \in 1 .. Len(o) : o[k] # b
    BY <1>1, TimesCounted
  <2> QED
    BY <1>1, <2>1
<1>8. ASSUME NEW b \in B, b # e  PROVE G.inward[b] # {}
  <2>1. b \in ToSet(o)
    <3>1. DOMAIN o = 1 .. Len(o)
      BY <1>1, LenProperties
    <3> QED
      BY <1>7, <3>1 DEF ToSet
  <2>2. ~HasDeadBasicBlock(fn, b)
    BY <2>1 DEF Converged, Rewritable, o
  <2>3. BranchUsers(fn, b) # {}
    BY <1>2, <1>8, <2>2 DEF HasDeadBasicBlock, isEntryBlock, hasNoInwardFlow, o
  <2>4. getInwardFlow(fn, b) # {}
    BY <2>3 DEF getInwardFlow
  <2> QED
    BY <1>3, <2>4
<1>9. G.inward[e] = {}
  BY <1>2, <1>5
<1> QED
  BY <1>1, <1>2, <1>3, <1>5, <1>6, <1>7, <1>8, <1>9 DEF Pass!IsFlow, Pass!Blocks, G, o

LEMMA OperandsHold ==
  ASSUME Inv, LoopsMerge
  PROVE  OperandsDominate
<1> DEFINE R == Reachable(fn)
           Home(v) == Parent(fn, v)
           Defined(v, b) == v \in DOMAIN fn.inst /\ Dominates(fn, Home(v), b)
           Earlier(v, i) == \E j, k \in DOMAIN fn.code[Home(i)] :
                              j < k /\ fn.code[Home(i)][j] = v /\ fn.code[Home(i)][k] = i
           Fits(b, i) ==
             IF fn.inst[i].kind = "phi"
             THEN \A c \in ToSet(Candidates(fn.inst[i])) : c[2] \in R => Defined(c[1], c[2])
             ELSE \A k \in Values(fn.inst[i]) :
                    /\ Defined(fn.inst[i].refs[k], b)
                    /\ Home(fn.inst[i].refs[k]) = b => Earlier(fn.inst[i].refs[k], i)
<1>1. ASSUME phase \in {"simplify", "done"}  PROVE Steady(fn) /\ Dominated(fn, Entry)
  BY <1>1 DEF Inv, PassInv, FlowInv
<1>2. ASSUME phase \in {"simplify", "done"}, NEW b \in R, NEW i \in ToSet(fn.code[b])
      PROVE  Fits(b, i)
  <2>1. R \subseteq DOMAIN fn.code
    <3>1. Rooted(fn, Entry) /\ \E X, D : Charted(fn, X, D, Entry)
      BY <1>1, <1>2 DEF Dominated, Ruled
    <3> QED
      BY <1>1, <1>2, <3>1, ChartDominates DEF Charted
  <2>2. DOMAIN fn.code[b] = 1 .. Len(fn.code[b]) /\ Good(fn)
    <3>1. fn.code[b] \in Seq(DOMAIN fn.inst) /\ Good(fn)
      BY <1>1, <1>2, <2>1 DEF Steady, Good, Housed
    <3> QED
      BY <3>1, LenProperties
  <2>3. Home(i) = b
    <3>1. Sits(fn, b, i)
      BY <2>2 DEF ToSet, Sits, Names
    <3> QED
      BY <2>1, <2>2, <3>1, SitsIs
  <2>4. IF fn.inst[i].kind = "phi"
        THEN \A c \in ToSet(Candidates(fn.inst[i])) : c[2] \in R => DefinedIn(fn, c[1], c[2])
        ELSE \A k \in Values(fn.inst[i]) :
               /\ DefinedIn(fn, fn.inst[i].refs[k], b)
               /\ Home(fn.inst[i].refs[k]) = b => Before(fn.code[b], fn.inst[i].refs[k], i)
    BY <1>1, <1>2, OperandsDefined
  <2>5. \A v, c : DefinedIn(fn, v, c) <=> Defined(v, c)
    BY DEF DefinedIn
  <2>6. \A v : Before(fn.code[b], v, i) => Earlier(v, i)
    BY <2>2, <2>3 DEF Before
  <2> HIDE DEF Defined, Earlier, Home, R
  <2> QED
    BY <2>4, <2>5, <2>6
<1>3. ASSUME phase = "done"  PROVE Pass!IsFlow(FlowGraph)
  <2>1. Converged(fn) /\ Steady(fn) /\ Rooted(fn, Entry)
    BY <1>1, <1>3 DEF Inv, PassInv, Dominated
  <2> QED
    BY <2>1, ConvergedFlows
<1>4. (\A b \in R : \A i \in ToSet(fn.code[b]) : phase \in {"simplify", "done"} => Fits(b, i))
  BY <1>2
<1> QED
  BY <1>3, <1>4 DEF OperandsDominate

(* While SimplifyCFG runs and when it has converged, the definition of     *)
(* whatever a block uses that control can reach dominates the use, and the *)
(* function that is left is one the dominator pass accepts, when no loop   *)
(* has more parameters than results: the translation may visit the blocks  *)
(* in a preorder of the dominator tree.                                    *)
THEOREM OperandsAreDominated ==
  ASSUME LoopsMerge
  PROVE  Spec => []OperandsDominate
<1>1. Inv => OperandsDominate
  BY OperandsHold
<1> QED
  BY <1>1, InvHolds, PTL

=============================================================================
