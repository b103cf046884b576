-------------------------- MODULE Validation_proofs --------------------------
(***************************************************************************)
(* The sites that an error of validation reports, for any instructions,     *)
(* contexts, block types and bounds.  Visitors are pushed and popped by the *)
(* handlers of blocks, sites by those of every instruction, and an error    *)
(* may leave any of them half-way: that the sites are the open blocks is    *)
(* inductive as long as the expression is running (SitesOpen), and what     *)
(* ends it adds at most the site of the instruction that is refused.        *)
(***************************************************************************)
EXTENDS Validation, FiniteInduction

\* Some sequence of visitors, one at least.
IsVisitor(f) ==
  f = [kind |-> f.kind, params |-> f.params, results |-> f.results, operands |-> f.operands]
Visitors ==
  \E n \in Nat : /\ frames = [i \in 1 .. n + 1 |-> frames[i]]
                 /\ \A i \in 1 .. n + 1 : IsVisitor(frames[i])

\* The site of the block a visitor was made for.
IfElse == "if else"
Site(f) == IF f.kind = "else" THEN IfElse ELSE f.kind
SitesOf(fs) == [i \in 1 .. Len(fs) - 1 |-> Site(fs[i + 1])]
SitesOpen == trace = SitesOf(frames)

IInv ==
  /\ Visitors
  /\ status = "running" => SitesOpen
  /\ SitesNest

-----------------------------------------------------------------------------
(* Sequences of whatever elements.                                         *)

LEMMA FunctionIsSeq ==
  ASSUME NEW n \in Nat, NEW s, s = [i \in 1 .. n |-> s[i]]
  PROVE  Len(s) = n /\ DOMAIN s = 1 .. n /\ s \in Seq({s[i] : i \in 1 .. n})
OBVIOUS

LEMMA Appended ==
  ASSUME NEW n \in Nat, NEW s, s = [i \in 1 .. n |-> s[i]], NEW e
  PROVE  Append(s, e) = [i \in 1 .. n + 1 |-> IF i = n + 1 THEN e ELSE s[i]]
<1>1. /\ s \in Seq({s[i] : i \in 1 .. n} \cup {e}) /\ Len(s) = n
  BY FunctionIsSeq
<1> QED
  BY <1>1

LEMMA Shortened ==
  ASSUME NEW n \in Nat, NEW s, s = [i \in 1 .. n + 1 |-> s[i]]
  PROVE  SubSeq(s, 1, n) = [i \in 1 .. n |-> s[i]]
<1>1. /\ s \in Seq({s[i] : i \in 1 .. n + 1}) /\ Len(s) = n + 1
  BY FunctionIsSeq
<1> QED
  BY <1>1

LEMMA SitesCounted ==
  ASSUME NEW n \in Nat, NEW fs, Len(fs) = n + 1
  PROVE  SitesOf(fs) = [i \in 1 .. n |-> Site(fs[i + 1])]
<1>1. Len(fs) - 1 = n
  OBVIOUS
<1> QED
  BY <1>1 DEF SitesOf

\* What is running has its trace ending where its open blocks do.
LEMMA RunningSitesNest ==
  ASSUME Visitors, status = "running", SitesOpen
  PROVE  SitesNest
BY DEF SitesNest, SitesOpen, SitesOf, Site, IfElse

\* The visitors and the sites, with the number of open blocks for a name.
LEMMA Counted ==
  ASSUME Visitors, SitesOpen
  PROVE  \E n \in Nat : /\ Len(frames) = n + 1 /\ DOMAIN frames = 1 .. n + 1
                        /\ frames = [i \in 1 .. n + 1 |-> frames[i]]
                        /\ \A i \in 1 .. n + 1 : IsVisitor(frames[i])
                        /\ trace = [i \in 1 .. n |-> Site(frames[i + 1])]
                        /\ Len(trace) = n
<1>1. PICK n \in Nat : /\ frames = [i \in 1 .. n + 1 |-> frames[i]]
                       /\ \A i \in 1 .. n + 1 : IsVisitor(frames[i])
  BY DEF Visitors
<1>2. Len(frames) = n + 1 /\ DOMAIN frames = 1 .. n + 1
  BY <1>1
<1>3. trace = [i \in 1 .. n |-> Site(frames[i + 1])]
  BY <1>2, SitesCounted DEF SitesOpen
<1> QED
  BY <1>1, <1>2, <1>3

-----------------------------------------------------------------------------
(* What handlers do to the visitors and to the trace.                      *)

\* An instruction is accepted, in the visitor at work.
Kept ==
  /\ \E to : frames' = [frames EXCEPT ![Depth].operands = to]
  /\ UNCHANGED <<trace, status>>

\* An instruction is refused: its site stays.
Refused ==
  /\ \E site : trace' = Append(trace, site)
  /\ status' # "running"
  /\ UNCHANGED frames

LEMMA KeptSafe ==
  ASSUME IInv, status = "running", Kept  PROVE IInv'
<1>1. PICK n \in Nat : /\ Len(frames) = n + 1
                       /\ frames = [i \in 1 .. n + 1 |-> frames[i]]
                       /\ \A i \in 1 .. n + 1 : IsVisitor(frames[i])
                       /\ trace = [i \in 1 .. n |-> Site(frames[i + 1])]
  BY Counted DEF IInv
<1>2. PICK to : frames' = [frames EXCEPT ![n + 1].operands = to]
  BY <1>1 DEF Kept, Depth
<1>3. /\ frames' = [i \in 1 .. n + 1 |-> frames'[i]]
      /\ \A i \in 1 .. n + 1 : frames'[i].kind = frames[i].kind /\ IsVisitor(frames'[i])
  <2>1. frames' = [i \in 1 .. n + 1 |->
                     IF i = n + 1 THEN [frames[i] EXCEPT !.operands = to] ELSE frames[i]]
    BY <1>1, <1>2
  <2>2. [frames[n + 1] EXCEPT !.operands = to] =
          [kind |-> frames[n + 1].kind, params |-> frames[n + 1].params,
           results |-> frames[n + 1].results, operands |-> to]
    BY <1>1 DEF IsVisitor
  <2> QED
    BY <2>1, <2>2, <1>1 DEF IsVisitor
<1>4. Visitors'
  BY <1>3 DEF Visitors
<1>5. Len(frames') = n + 1
  BY <1>3
<1>6. \A i \in 1 .. n : frames'[i + 1].kind = frames[i + 1].kind
  BY <1>3
<1>7. SitesOf(frames') = SitesOf(frames)
  <2>1. \A i \in 1 .. n : Site(frames'[i + 1]) = Site(frames[i + 1])
    BY <1>6 DEF Site
  <2>2. SitesOf(frames') = [i \in 1 .. n |-> Site(frames'[i + 1])]
    BY <1>5, SitesCounted
  <2>3. SitesOf(frames) = [i \in 1 .. n |-> Site(frames[i + 1])]
    BY <1>1, SitesCounted
  <2> QED
    BY <2>1, <2>2, <2>3
<1>8. SitesOpen'
  BY <1>7 DEF SitesOpen, Kept, IInv
<1> QED
  BY <1>4, <1>8 DEF IInv, Kept, SitesNest, SitesOpen, SitesOf, Site, IfElse

\* The sites are those of the open blocks and perhaps one more.
LEMMA StoppedSitesNest ==
  ASSUME IInv, status = "running", status' # "running", UNCHANGED frames,
         trace' = trace \/ \E site : trace' = Append(trace, site)
  PROVE  IInv'
<1>1. PICK n \in Nat : /\ Len(frames) = n + 1
                       /\ trace = [i \in 1 .. n |-> Site(frames[i + 1])]
                       /\ Len(trace) = n
  BY Counted DEF IInv
<1> DEFINE open == SitesOf(frames)
<1>2. trace = [i \in 1 .. n |-> trace[i]] /\ trace \in Seq({trace[i] : i \in 1 .. n})
  <2>1. trace = [i \in 1 .. n |-> trace[i]]
    BY <1>1
  <2> QED
    BY <2>1, FunctionIsSeq
<1>3. Len(open) = n /\ trace = open
  BY <1>1, SitesCounted
<1>4. Len(trace') \in {n, n + 1} /\ SubSeq(trace', 1, n) = open
  <2>1. CASE trace' = trace
    <3>1. SubSeq(trace, 1, n) = trace
      BY <1>1, <1>2
    <3> QED
      BY <2>1, <3>1, <1>1, <1>3
  <2>2. ASSUME NEW site, trace' = Append(trace, site)
        PROVE  Len(trace') \in {n, n + 1} /\ SubSeq(trace', 1, n) = open
    <3>1. trace' = [i \in 1 .. n + 1 |-> IF i = n + 1 THEN site ELSE trace[i]]
      BY <1>2, <2>2, Appended
    <3>2. SubSeq(trace', 1, n) = [i \in 1 .. n |-> trace'[i]] /\ Len(trace') = n + 1
      BY <3>1, Shortened
    <3>3. [i \in 1 .. n |-> trace'[i]] = trace
      BY <1>2, <3>1
    <3> QED
      BY <3>2, <3>3, <1>3
  <2> QED
    BY <2>1, <2>2
<1>5. SitesNest'
  <2>1. open = [i \in 1 .. Len(frames') - 1 |->
                  IF frames'[i + 1].kind = "else" THEN "if else" ELSE frames'[i + 1].kind]
    BY DEF SitesOf, Site, IfElse
  <2> HIDE DEF open
  <2> QED
    BY <1>3, <1>4, <2>1 DEF SitesNest
<1> QED
  BY <1>5 DEF IInv, Visitors

LEMMA RefusedSafe ==
  ASSUME IInv, status = "running", Refused  PROVE IInv'
BY StoppedSitesNest DEF Refused

\* A block is entered: a site and a visitor for it, or its site alone.
LEMMA EnterSafe ==
  ASSUME IInv, status = "running", NEW kind, kind # "else", NEW params, NEW type, NEW label,
         Enter(kind, params, type, label)
  PROVE  IInv'
<1>1. PICK n \in Nat : /\ Len(frames) = n + 1 /\ DOMAIN frames = 1 .. n + 1
                       /\ frames = [i \in 1 .. n + 1 |-> frames[i]]
                       /\ \A i \in 1 .. n + 1 : IsVisitor(frames[i])
                       /\ trace = [i \in 1 .. n |-> Site(frames[i + 1])]
  BY Counted DEF IInv
<1>2. CASE status' = "rejected" /\ UNCHANGED frames
  BY <1>2, StoppedSitesNest DEF Enter
<1>3. ASSUME NEW to, UNCHANGED status,
             frames' = Append([frames EXCEPT ![Depth].operands = to], Frame(kind, type))
      PROVE  IInv'
  <2> DEFINE kept == [frames EXCEPT ![n + 1].operands = to]
  <2>1. /\ kept = [i \in 1 .. n + 1 |-> kept[i]]
        /\ \A i \in 1 .. n + 1 : kept[i].kind = frames[i].kind /\ IsVisitor(kept[i])
    <3>1. kept = [i \in 1 .. n + 1 |->
                    IF i = n + 1 THEN [frames[i] EXCEPT !.operands = to] ELSE frames[i]]
      BY <1>1
    <3>2. [frames[n + 1] EXCEPT !.operands = to] =
            [kind |-> frames[n + 1].kind, params |-> frames[n + 1].params,
             results |-> frames[n + 1].results, operands |-> to]
      <4>1. n + 1 \in 1 .. n + 1
        OBVIOUS
      <4> QED
        BY <1>1, <4>1 DEF IsVisitor
    <3> QED
      BY <3>1, <3>2, <1>1 DEF IsVisitor
  <2>2. frames' = Append(kept, Frame(kind, type))
    BY <1>1, <1>3 DEF Depth
  <2> HIDE DEF kept
  <2>3. frames' = [i \in 1 .. n + 2 |-> IF i = n + 2 THEN Frame(kind, type) ELSE kept[i]]
    BY <2>1, <2>2, Appended
  <2>4. IsVisitor(Frame(kind, type)) /\ Frame(kind, type).kind = kind
    BY DEF IsVisitor, Frame
  <2>5. Visitors' /\ Len(frames') = n + 2
    <3>1. \A i \in 1 .. (n + 1) + 1 : IsVisitor(frames'[i])
      BY <2>1, <2>3, <2>4
    <3>2. frames' = [i \in 1 .. (n + 1) + 1 |-> frames'[i]]
      BY <2>3
    <3> QED
      BY <2>3, <3>1, <3>2 DEF Visitors
  <2>6. trace' = [i \in 1 .. n + 1 |-> IF i = n + 1 THEN kind ELSE trace[i]]
    BY <1>1, Appended DEF Enter
  <2>7. \A i \in 1 .. n + 1 :
          Site(frames'[i + 1]) = IF i = n + 1 THEN kind ELSE Site(frames[i + 1])
    <3> SUFFICES ASSUME NEW i \in 1 .. n + 1
                 PROVE  Site(frames'[i + 1]) = IF i = n + 1 THEN kind ELSE Site(frames[i + 1])
      OBVIOUS
    <3>1. CASE i = n + 1
      <4>1. frames'[i + 1] = Frame(kind, type)
        BY <2>3, <3>1
      <4> QED
        BY <2>4, <3>1, <4>1 DEF Site
    <3>2. CASE i # n + 1
      <4>1. i + 1 \in 1 .. n + 1 /\ frames'[i + 1].kind = frames[i + 1].kind
        BY <2>1, <2>3, <3>2
      <4> QED
        BY <3>2, <4>1 DEF Site
    <3> QED
      BY <3>1, <3>2
  <2>8. trace' = [i \in 1 .. n + 1 |-> Site(frames'[i + 1])]
    <3>1. ASSUME NEW i \in 1 .. n + 1
          PROVE  (IF i = n + 1 THEN kind ELSE trace[i]) = Site(frames'[i + 1])
      <4>1. trace = [j \in 1 .. n |-> Site(frames[j + 1])]
        BY <1>1
      <4>2. i # n + 1 => trace[i] = Site(frames[i + 1])
        BY <4>1
      <4> QED
        BY <2>7, <4>2
    <3> QED
      BY <2>6, <3>1
  <2>9. SitesOpen'
    <3>1. trace' = SitesOf(frames')
      BY <2>5, <2>8, SitesCounted
    <3> QED
      BY <3>1 DEF SitesOpen
  <2> QED
    BY <1>3, <2>5, <2>9 DEF IInv, SitesNest, SitesOpen, SitesOf, Site, IfElse
<1> QED
  BY <1>2, <1>3 DEF Enter

LEMMA EndBlockSafe ==
  ASSUME IInv, status = "running", Depth > 1, EndBlock  PROVE IInv'
<1>1. PICK n \in Nat : /\ Len(frames) = n + 1
                       /\ frames = [i \in 1 .. n + 1 |-> frames[i]]
                       /\ \A i \in 1 .. n + 1 : IsVisitor(frames[i])
                       /\ trace = [i \in 1 .. n |-> Site(frames[i + 1])]
                       /\ Len(trace) = n
  BY Counted DEF IInv
<1>2. PICK m \in Nat : n = m + 1
  <2>1. n > 0 /\ n - 1 \in Nat
    BY <1>1 DEF Depth
  <2> QED
    BY <2>1
<1>3. frames' = [i \in 1 .. n |-> frames[i]]
  BY <1>1, Shortened DEF EndBlock, Depth
<1>4. trace' = [i \in 1 .. m |-> trace[i]]
  <2>1. trace = [i \in 1 .. m + 1 |-> trace[i]] /\ trace' = SubSeq(trace, 1, m)
    BY <1>1, <1>2 DEF EndBlock
  <2> QED
    BY <2>1, Shortened
<1>5. Visitors' /\ Len(frames') = m + 1
  <2>1. frames' = [i \in 1 .. m + 1 |-> frames'[i]]
    BY <1>2, <1>3
  <2>2. \A i \in 1 .. m + 1 : IsVisitor(frames'[i])
    BY <1>1, <1>2, <1>3
  <2> QED
    BY <2>1, <2>2 DEF Visitors
<1>6. trace' = [i \in 1 .. m |-> Site(frames'[i + 1])]
  BY <1>1, <1>2, <1>3, <1>4
<1>7. SitesOpen'
  <2>1. trace' = SitesOf(frames')
    BY <1>5, <1>6, SitesCounted
  <2> QED
    BY <2>1 DEF SitesOpen
<1> QED
  BY <1>5, <1>7 DEF IInv, EndBlock, SitesNest, SitesOpen, SitesOf, Site, IfElse

\* The other branch of an if has the site of the first.
LEMMA EndElseSafe ==
  ASSUME IInv, status = "running", Top.kind = IfElse, EndElse  PROVE IInv'
<1>1. PICK n \in Nat : /\ Len(frames) = n + 1
                       /\ frames = [i \in 1 .. n + 1 |-> frames[i]]
                       /\ \A i \in 1 .. n + 1 : IsVisitor(frames[i])
                       /\ trace = [i \in 1 .. n |-> Site(frames[i + 1])]
  BY Counted DEF IInv
<1> DEFINE other == Frame("else", [params |-> Top.params, results |-> Top.results])
<1>2. /\ IsVisitor(other) /\ other.kind = "else"
      /\ frames' = [frames EXCEPT ![n + 1] = other]
  <2>1. IsVisitor(other) /\ other.kind = "else"
    BY DEF Frame, IsVisitor
  <2>2. frames' = [frames EXCEPT ![n + 1] = other]
    <3>1. frames' = [frames EXCEPT ![Depth] = other]
      BY DEF EndElse, Top
    <3> HIDE DEF other
    <3> QED
      BY <3>1, <1>1 DEF Depth
  <2> QED
    BY <2>1, <2>2
<1> HIDE DEF other
<1>3. frames' = [i \in 1 .. n + 1 |-> IF i = n + 1 THEN other ELSE frames[i]]
  BY <1>1, <1>2
<1>4. /\ frames' = [i \in 1 .. n + 1 |-> frames'[i]] /\ Len(frames') = n + 1
      /\ \A i \in 1 .. n + 1 : IsVisitor(frames'[i])
  <2>1. frames' = [i \in 1 .. n + 1 |-> frames'[i]] /\ Len(frames') = n + 1
    BY <1>1, <1>3
  <2>2. ASSUME NEW i \in 1 .. n + 1  PROVE IsVisitor(frames'[i])
    <3>1. IsVisitor(frames[i]) /\ IsVisitor(other)
      BY <1>1, <1>2
    <3>2. frames'[i] = other \/ frames'[i] = frames[i]
      BY <1>3
    <3> QED
      BY <3>1, <3>2
  <2> QED
    BY <2>1, <2>2
<1>5. Visitors'
  BY <1>4 DEF Visitors
<1>6. \A i \in 1 .. n : Site(frames'[i + 1]) = Site(frames[i + 1])
  <2> SUFFICES ASSUME NEW i \in 1 .. n PROVE Site(frames'[i + 1]) = Site(frames[i + 1])
    OBVIOUS
  <2>1. CASE i = n
    <3>1. frames'[i + 1] = other /\ frames[i + 1] = Top
      <4>1. i + 1 = n + 1 /\ n + 1 \in 1 .. n + 1
        BY <1>1, <2>1
      <4> QED
        BY <1>1, <1>3, <4>1 DEF Top, Depth
    <3> QED
      BY <1>2, <3>1 DEF Site
  <2>2. CASE i # n
    <3>1. frames'[i + 1] = frames[i + 1]
      <4>1. i + 1 \in 1 .. n + 1 /\ i + 1 # n + 1
        BY <1>1, <2>2
      <4> QED
        BY <1>3, <4>1
    <3> QED
      BY <3>1
  <2> QED
    BY <2>1, <2>2
<1>7. SitesOpen'
  <2>1. trace' = [i \in 1 .. n |-> Site(frames'[i + 1])]
    BY <1>1, <1>6 DEF EndElse
  <2>2. trace' = SitesOf(frames')
    BY <1>4, <2>1, SitesCounted
  <2> QED
    BY <2>2 DEF SitesOpen
<1> QED
  BY <1>5, <1>7 DEF IInv, EndElse, SitesNest, SitesOpen, SitesOf, Site, IfElse

-----------------------------------------------------------------------------
(* The handlers.                                                           *)

\* Handlers other than those of blocks accept or refuse.
PlainStep == Kept \/ Refused

LEMMA VisitIsPlain ==
  ASSUME status = "running", NEW site, NEW r, NEW rules,
         Visit(site, r, rules) \/ VisitAsserted(site, r, rules)
  PROVE  PlainStep
BY DEF Visit, VisitAsserted, Accept, Refuse, RefuseAs, PlainStep, Kept, Refused

LEMMA RefuseIsPlain ==
  ASSUME status = "running", NEW site, NEW rules, Refuse(site, rules)  PROVE PlainStep
BY DEF Refuse, RefuseAs, PlainStep, Refused

LEMMA PlainSafe ==
  ASSUME IInv, status = "running", PlainStep  PROVE IInv'
BY KeptSafe, RefusedSafe DEF PlainStep

LEMMA EndExpressionSafe ==
  ASSUME IInv, EndExpression  PROVE IInv'
<1>1. status = "running"
  BY DEF EndExpression, Running
<1>2. CASE EndElse /\ Top.kind = IfElse
  BY <1>1, <1>2, EndElseSafe
<1>3. CASE EndBlock /\ Depth > 1
  BY <1>1, <1>3, EndBlockSafe
<1>4. CASE status' # "running" /\ UNCHANGED <<frames, trace>>
  BY <1>1, <1>4, StoppedSitesNest
<1> QED
  BY <1>2, <1>3, <1>4 DEF EndExpression, IfElse

LEMMA BlockSafe ==
  ASSUME IInv, NEW type, NEW hasElse, Block(type) \/ Loop(type) \/ If(type, hasElse)
  PROVE  IInv'
<1>1. status = "running"
  BY DEF Block, Loop, If, Running
<1>2. CASE \E kind, params, label : kind # "else" /\ Enter(kind, params, type, label)
  BY <1>1, <1>2, EnterSafe
<1>3. CASE Refuse("if", {})
  BY <1>1, <1>3, RefuseIsPlain, PlainSafe
<1> QED
  BY <1>2, <1>3 DEF Block, Loop, If

LEMMA OtherSafe ==
  ASSUME IInv, status = "running",
         \/ \E site, r, rules : Visit(site, r, rules) \/ VisitAsserted(site, r, rules)
         \/ \E site, rules : Refuse(site, rules)
  PROVE  IInv'
BY VisitIsPlain, RefuseIsPlain, PlainSafe

LEMMA StepSafe == IInv /\ [Next]_vars => IInv'
<1> SUFFICES ASSUME IInv, [Next]_vars PROVE IInv'
  OBVIOUS
<1> USE OtherSafe DEF Running
<1>1. ASSUME NEW op, NEW align, NEW lane, Plain(op, align, lane)  PROVE IInv'
  BY <1>1 DEF Plain, Typed
<1>2. CASE Unreachable \/ Return \/ UnknownBlockType
  BY <1>2 DEF Unreachable, Return, UnknownBlockType, Stuck
<1>3. CASE Drop \/ Select
  BY <1>3 DEF Drop, Select
<1>4. ASSUME NEW l, Br(l) \/ BrIf(l)  PROVE IInv'
  BY <1>4 DEF Br, BrIf, Stuck
<1>5. ASSUME NEW targets, NEW l, BrTable(targets, l)  PROVE IInv'
  BY <1>5 DEF BrTable, Stuck
<1>6. ASSUME NEW x, Call(x) \/ CallIndirect(x)  PROVE IInv'
  BY <1>6 DEF Call, CallIndirect, Typed
<1>7. ASSUME NEW x, LocalGet(x) \/ LocalSet(x) \/ LocalTee(x)  PROVE IInv'
  BY <1>7 DEF LocalGet, LocalSet, LocalTee, Typed
<1>8. ASSUME NEW x, GlobalGet(x) \/ GlobalSet(x)  PROVE IInv'
  BY <1>8 DEF GlobalGet, GlobalSet, Typed
<1>9. CASE UNCHANGED vars
  BY <1>9 DEF vars, IInv, Visitors, SitesOpen, SitesOf, SitesNest
<1> QED
  BY <1>1, <1>2, <1>3, <1>4, <1>5, <1>6, <1>7, <1>8, <1>9, BlockSafe, EndExpressionSafe
     DEF Next

LEMMA InitSafe == Init => IInv
<1> SUFFICES ASSUME Init PROVE IInv
  OBVIOUS
<1>1. PICK f : frames = <<f>> /\ IsVisitor(f)
  BY DEF Init, Frame, IsVisitor
<1>2. frames = [i \in 1 .. 0 + 1 |-> frames[i]] /\ Len(frames) = 0 + 1
  BY <1>1
<1>3. Visitors
  BY <1>1, <1>2 DEF Visitors
<1>4. SitesOf(frames) = <<>>
  <2>1. 0 \in Nat /\ Len(frames) = 0 + 1
    BY <1>1
  <2>2. SitesOf(frames) = [i \in 1 .. 0 |-> Site(frames[i + 1])]
    BY <2>1, SitesCounted, Zenon
  <2>3. 1 .. 0 = {}
    OBVIOUS
  <2>4. [i \in {} |-> Site(frames[i + 1])] = <<>>
    OBVIOUS
  <2> QED
    BY <2>2, <2>3, <2>4, Zenon
<1>5. SitesOpen
  BY <1>4 DEF SitesOpen, Init
<1> QED
  BY <1>3, <1>5, RunningSitesNest DEF IInv, Init

(* The sites of an error are the blocks that are open around it, in order,  *)
(* and at most the instruction that is refused, whatever was validated.     *)
THEOREM SitesAlwaysNest == Spec => []SitesNest
<1>1. IInv => SitesNest
  BY DEF IInv
<1> QED
  BY <1>1, InitSafe, StepSafe, PTL DEF Spec

-----------------------------------------------------------------------------
(* Type variables on the operand stacks of validation, for any types and     *)
(* expressions.  What one instruction does to a stack is a recursion over     *)
(* its operands (Ensured); it is followed operand by operand (EnsuredRuns),    *)
(* by an induction stated with a set (Climbs), which is all that a proof    *)
(* over data needs here.  It leaves what is below the cursor alone, never     *)
(* asks an epsilon before the stack is used up, and counts what it asks for   *)
(* (Consumes): that is why a variable that select leaves behind is the lowest *)
(* operand, and below the number of the next one.                            *)

-----------------------------------------------------------------------------
(* The recursion over the operands.                                        *)

Start(t) == [stack |-> t.stack, cursor |-> Len(t.stack), required |-> t.required,
             epsilon |-> t.epsilon, ok |-> TRUE]

\* After i operands, the last first.
Runs(t, ensures, f, m) ==
  f = [i \in 0 .. m |-> IF i = 0 THEN Start(t)
                                 ELSE Ensure(f[i - 1], ensures[Len(ensures) - i + 1])]

LEMMA RunsFor ==
  ASSUME NEW t, NEW ensures, Len(ensures) \in Nat
  PROVE  \E f : Runs(t, ensures, f, Len(ensures))
<1> DEFINE n == Len(ensures)
           S == {m \in 0 .. n : \E f : Runs(t, ensures, f, m)}
<1>1. 0 \in S
  <2>1. Runs(t, ensures, [i \in 0 .. 0 |-> Start(t)], 0)
    BY DEF Runs
  <2> QED
    BY <2>1
<1>2. ASSUME NEW m \in 0 .. n, m \in S, m < n  PROVE m + 1 \in S
  <2>1. PICK f : Runs(t, ensures, f, m)
    BY <1>2
  <2> DEFINE g == [i \in 0 .. m + 1 |-> IF i = m + 1 THEN Ensure(f[m], ensures[n - m])
                                                     ELSE f[i]]
  <2>2. ASSUME NEW i \in 0 .. m + 1
        PROVE  g[i] = IF i = 0 THEN Start(t) ELSE Ensure(g[i - 1], ensures[n - i + 1])
    <3>1. CASE i = m + 1
      <4>1. g[i] = Ensure(f[m], ensures[n - m]) /\ g[i - 1] = f[m] /\ n - i + 1 = n - m
        BY <1>2, <3>1
      <4> QED
        BY <1>2, <3>1, <4>1
    <3>2. CASE i # m + 1
      <4>1. i \in 0 .. m /\ g[i] = f[i]
        BY <1>2, <3>2
      <4>2. f[i] = IF i = 0 THEN Start(t) ELSE Ensure(f[i - 1], ensures[n - i + 1])
        BY <2>1, <4>1 DEF Runs
      <4>3. i # 0 => g[i - 1] = f[i - 1]
        BY <1>2, <4>1
      <4> QED
        BY <4>1, <4>2, <4>3
    <3> QED
      BY <3>1, <3>2
  <2>3. Runs(t, ensures, g, m + 1)
    BY <2>2 DEF Runs
  <2> QED
    BY <1>2, <2>3
<1>3. n \in S
  <2>1. \A m \in 0 .. n : m \in S /\ m < n => m + 1 \in S
    BY <1>2
  <2> HIDE DEF S
  <2>2. \A m \in 0 .. n : m \in S
    BY <1>1, <2>1, Climbs
  <2> QED
    BY <2>2
<1> QED
  BY <1>3

LEMMA EnsuredRuns ==
  ASSUME NEW t, NEW ensures, Len(ensures) \in Nat
  PROVE  \E f : /\ f[0] = Start(t) /\ Ensured(t, ensures) = f[Len(ensures)]
                /\ \A i \in 0 .. Len(ensures) :
                     i # 0 => f[i] = Ensure(f[i - 1], ensures[Len(ensures) - i + 1])
<1> DEFINE f == CHOOSE f : Runs(t, ensures, f, Len(ensures))
<1>1. Runs(t, ensures, f, Len(ensures))
  BY RunsFor
<1>2. Ensured(t, ensures) = f[Len(ensures)]
  BY DEF Ensured, Runs, Start
<1> DEFINE n == Len(ensures)
<1> HIDE DEF f, n
<1>3. f = [i \in 0 .. n |-> IF i = 0 THEN Start(t) ELSE Ensure(f[i - 1], ensures[n - i + 1])]
  BY <1>1 DEF Runs, n
<1>4. n \in Nat
  BY DEF n
<1>5. f[0] = Start(t)
  BY <1>3, <1>4
<1>6. ASSUME NEW i \in 0 .. n, i # 0
      PROVE  f[i] = Ensure(f[i - 1], ensures[n - i + 1])
  BY <1>3, <1>6
<1>7. Ensured(t, ensures) = f[n]
  BY <1>2 DEF n
<1> QED
  BY <1>5, <1>6, <1>7 DEF n

-----------------------------------------------------------------------------
(* One instruction on a stack.                                             *)

\* A stack with its variable, if any, at the bottom, where an epsilon is.
Sound(t) ==
  /\ t = [stack |-> t.stack, required |-> t.required, epsilon |-> t.epsilon]
  /\ t.required \in Nat /\ t.epsilon \in BOOLEAN
  /\ \E h \in Nat : /\ t.stack = [j \in 1 .. h |-> t.stack[j]]
                    /\ \A j \in 1 .. h : IsVar(t.stack[j]) =>
                         j = 1 /\ t.epsilon /\ t.stack[j].id \in 0 .. t.required - 1

\* The state of an Ensured, between two operands.
Row(st, h) == st = [j \in 1 .. h |-> st[j]]
Fields(s) ==
  s = [stack |-> s.stack, cursor |-> s.cursor, required |-> s.required, epsilon |-> s.epsilon,
       ok |-> s.ok]

\* What holds after i operands, of a stack of h: below the cursor nothing has
\* changed, and above it and from the epsilon i operands have been taken.
Consumed(t, h, s, i) ==
  /\ Fields(s)
  /\ s.cursor \in 0 .. h /\ s.required \in Nat /\ s.ok \in BOOLEAN /\ s.epsilon = t.epsilon
  /\ Row(s.stack, h)
  /\ \A j \in 1 .. s.cursor : s.stack[j] = t.stack[j]
  /\ s.required >= t.required /\ (s.required > t.required => s.cursor = 0)
  /\ s.ok => (h - s.cursor) + (s.required - t.required) = i

LEMMA StackHeight ==
  ASSUME NEW t, Sound(t)
  PROVE  /\ Len(t.stack) \in Nat /\ t.stack = [j \in 1 .. Len(t.stack) |-> t.stack[j]]
         /\ DOMAIN t.stack = 1 .. Len(t.stack)
         /\ \A j \in 1 .. Len(t.stack) : IsVar(t.stack[j]) =>
              j = 1 /\ t.epsilon /\ t.stack[j].id \in 0 .. t.required - 1
<1>1. PICK h \in Nat : /\ t.stack = [j \in 1 .. h |-> t.stack[j]]
                       /\ \A j \in 1 .. h : IsVar(t.stack[j]) =>
                            j = 1 /\ t.epsilon /\ t.stack[j].id \in 0 .. t.required - 1
  BY DEF Sound
<1>2. Len(t.stack) = h /\ DOMAIN t.stack = 1 .. h
  BY <1>1
<1> QED
  BY <1>1, <1>2

\* The fields that Ensure changes.
LEMMA Changed ==
  ASSUME NEW s, NEW c, NEW q, NEW st,
         Fields(s)
  PROVE  /\ [s EXCEPT !.cursor = c, !.stack = st] =
               [stack |-> st, cursor |-> c, required |-> s.required, epsilon |-> s.epsilon,
                ok |-> s.ok]
         /\ [s EXCEPT !.cursor = c] =
               [stack |-> s.stack, cursor |-> c, required |-> s.required,
                epsilon |-> s.epsilon, ok |-> s.ok]
         /\ [s EXCEPT !.required = q] =
               [stack |-> s.stack, cursor |-> s.cursor, required |-> q,
                epsilon |-> s.epsilon, ok |-> s.ok]
<1> DEFINE r == [s EXCEPT !.cursor = c, !.stack = st]
           fields == {"stack", "cursor", "required", "epsilon", "ok"}
<1>1. DOMAIN s = fields
  BY DEF Fields
<1>2. r = [x \in fields |-> IF x = "stack" THEN st ELSE IF x = "cursor" THEN c ELSE s[x]]
  BY <1>1
<1>3. r = [stack |-> st, cursor |-> c, required |-> s.required, epsilon |-> s.epsilon,
           ok |-> s.ok]
  BY <1>2
<1>4. [s EXCEPT !.cursor = c] =
        [stack |-> s.stack, cursor |-> c, required |-> s.required, epsilon |-> s.epsilon,
         ok |-> s.ok]
  BY DEF Fields
<1>5. [s EXCEPT !.required = q] =
        [stack |-> s.stack, cursor |-> s.cursor, required |-> q, epsilon |-> s.epsilon,
         ok |-> s.ok]
  BY DEF Fields
<1> QED
  BY <1>3, <1>4, <1>5

LEMMA EnsureConsumes ==
  ASSUME NEW t, Sound(t), NEW i \in Nat, NEW s, Consumed(t, Len(t.stack), s, i), NEW e
  PROVE  Consumed(t, Len(t.stack), Ensure(s, e), i + 1)
<1> DEFINE h == Len(t.stack)
           x == s.stack[s.cursor]
           r == Ensure(s, e)
           replaced == [j \in DOMAIN s.stack |-> IF s.stack[j] = x THEN e ELSE s.stack[j]]
<1>1. /\ h \in Nat /\ t.required \in Nat /\ t.epsilon \in BOOLEAN
      /\ \A j \in 1 .. h : IsVar(t.stack[j]) => j = 1
  BY StackHeight DEF Sound
<1>2. /\ Fields(s) /\ Row(s.stack, h)
      /\ s.cursor \in 0 .. h /\ s.required \in Nat /\ s.ok \in BOOLEAN /\ s.epsilon = t.epsilon
      /\ s.required >= t.required /\ (s.required > t.required => s.cursor = 0)
      /\ s.ok => (h - s.cursor) + (s.required - t.required) = i
  BY DEF Consumed
<1>3. \A j \in 1 .. s.cursor : s.stack[j] = t.stack[j]
  BY DEF Consumed
<1>4. CASE ~s.ok
  <2>1. r = s
    BY <1>4 DEF Ensure
  <2> QED
    BY <1>2, <1>3, <1>4, <2>1 DEF Consumed
<1>5. ASSUME s.ok, r = [s EXCEPT !.ok = FALSE]  PROVE Consumed(t, h, r, i + 1)
  <2> HIDE DEF r, h, x
  <2>1. /\ Fields(r) /\ r.stack = s.stack /\ r.cursor = s.cursor /\ r.required = s.required
        /\ r.epsilon = s.epsilon /\ r.ok = FALSE
    BY <1>2, <1>5 DEF Fields
  <2> QED
    BY <1>2, <1>3, <2>1 DEF Consumed
<1>6. CASE s.ok /\ s.cursor > 0 /\ IsVar(x)
  <2>1. r = [s EXCEPT !.cursor = s.cursor - 1, !.stack = replaced]
    BY <1>6 DEF Ensure
  <2>2. Row(replaced, h)
    BY <1>2 DEF Row
  <2>3. s.cursor = 1
    <3>1. s.cursor \in 1 .. h
      BY <1>1, <1>2, <1>6
    <3>2. x = t.stack[s.cursor]
      BY <1>1, <1>2, <1>3, <1>6
    <3> QED
      BY <1>1, <1>6, <3>1, <3>2
  <2> HIDE DEF r, h, x, replaced
  <2>4. r = [stack |-> replaced, cursor |-> s.cursor - 1, required |-> s.required,
             epsilon |-> s.epsilon, ok |-> s.ok]
    BY <1>2, <2>1, Changed
  <2>5. /\ r.stack = replaced /\ r.cursor = 0 /\ r.required = s.required
        /\ r.epsilon = s.epsilon /\ r.ok = TRUE
    <3>1. s.ok = TRUE
      BY <1>2, <1>6
    <3> QED
      BY <2>3, <2>4, <3>1
  <2>6. Fields(r)
    BY <2>4 DEF Fields
  <2>7. 0 \in 0 .. h /\ (h - 0) + (s.required - t.required) = i + 1
    BY <1>1, <1>2, <1>6, <2>3
  <2>8. Fields(r) /\ Row(r.stack, h) /\ r.epsilon = t.epsilon /\ r.ok \in BOOLEAN
    BY <1>2, <2>2, <2>5, <2>6
  <2>9. /\ r.cursor \in 0 .. h /\ r.required \in Nat /\ r.required >= t.required
        /\ r.required > t.required => r.cursor = 0
        /\ r.ok => (h - r.cursor) + (r.required - t.required) = i + 1
    BY <1>2, <2>5, <2>7
  <2>10. \A k \in 1 .. r.cursor : r.stack[k] = t.stack[k]
    BY <2>5
  <2>11. Consumed(t, h, r, i + 1)
    BY <2>8, <2>9, <2>10 DEF Consumed
  <2> QED
    BY <2>11 DEF h, r
<1>7. CASE s.ok /\ s.cursor > 0 /\ ~IsVar(x) /\ ~(IsVar(e) \/ x # e)
  <2>1. r = [s EXCEPT !.cursor = s.cursor - 1]
    BY <1>7 DEF Ensure
  <2> HIDE DEF r, h, x
  <2>2. r = [stack |-> s.stack, cursor |-> s.cursor - 1, required |-> s.required,
             epsilon |-> s.epsilon, ok |-> s.ok]
    BY <1>2, <2>1, Changed
  <2>3. /\ r.stack = s.stack /\ r.cursor = s.cursor - 1 /\ r.required = s.required
        /\ r.epsilon = s.epsilon /\ r.ok = TRUE
    <3>1. s.ok = TRUE
      BY <1>2, <1>7
    <3> QED
      BY <2>2, <3>1
  <2>4. Fields(r)
    BY <2>2 DEF Fields
  <2>5. /\ s.cursor - 1 \in 0 .. h
        /\ (h - (s.cursor - 1)) + (s.required - t.required) = i + 1
        /\ s.required > t.required => s.cursor - 1 = 0
    <3> DEFINE c == s.cursor
               q == s.required
               p == t.required
    <3>1. c \in 1 .. h /\ h \in Nat /\ q \in Nat /\ p \in Nat
      BY <1>1, <1>2, <1>7
    <3>2. ~(q > p) /\ (h - c) + (q - p) = i
      BY <1>2, <1>7
    <3> HIDE DEF c, q, p
    <3>3. c - 1 \in 0 .. h /\ (h - (c - 1)) + (q - p) = i + 1
      BY <3>1, <3>2
    <3> QED
      BY <3>2, <3>3 DEF c, q, p
  <2>6. \A j \in 1 .. s.cursor - 1 : s.stack[j] = t.stack[j]
    BY <1>1, <1>2, <1>3
  <2>7. Fields(r) /\ Row(r.stack, h) /\ r.epsilon = t.epsilon /\ r.ok \in BOOLEAN
    BY <1>2, <2>3, <2>4
  <2>8. /\ r.cursor \in 0 .. h /\ r.required \in Nat /\ r.required >= t.required
        /\ r.required > t.required => r.cursor = 0
        /\ r.ok => (h - r.cursor) + (r.required - t.required) = i + 1
    BY <1>2, <2>3, <2>5
  <2>9. \A k \in 1 .. r.cursor : r.stack[k] = t.stack[k]
    BY <2>3, <2>6
  <2>10. Consumed(t, h, r, i + 1)
    BY <2>7, <2>8, <2>9 DEF Consumed
  <2> QED
    BY <2>10 DEF h, r
<1>8. CASE s.ok /\ ~(s.cursor > 0) /\ s.epsilon
  <2>1. r = [s EXCEPT !.required = s.required + 1]
    BY <1>8 DEF Ensure
  <2> HIDE DEF r, h
  <2>2. r = [stack |-> s.stack, cursor |-> s.cursor, required |-> s.required + 1,
             epsilon |-> s.epsilon, ok |-> s.ok]
    BY <1>2, <2>1, Changed
  <2>3. /\ r.stack = s.stack /\ r.cursor = s.cursor /\ r.required = s.required + 1
        /\ r.epsilon = s.epsilon /\ r.ok = TRUE
    <3>1. s.ok = TRUE
      BY <1>2, <1>8
    <3> QED
      BY <2>2, <3>1
  <2>4. Fields(r)
    BY <2>2 DEF Fields
  <2>5. /\ s.required + 1 \in Nat /\ s.required + 1 >= t.required /\ s.cursor = 0
        /\ (h - s.cursor) + ((s.required + 1) - t.required) = i + 1
    <3>1. (h - s.cursor) + (s.required - t.required) = i
      BY <1>2, <1>8
    <3>2. s.cursor = 0
      BY <1>1, <1>2, <1>8
    <3>3. h \in Nat /\ s.required \in Nat /\ t.required \in Nat /\ s.required >= t.required
      BY <1>1, <1>2
    <3> QED
      BY <3>1, <3>2, <3>3
  <2>6. Fields(r) /\ Row(r.stack, h) /\ r.epsilon = t.epsilon /\ r.ok \in BOOLEAN
    BY <1>2, <2>3, <2>4
  <2>7. /\ r.cursor \in 0 .. h /\ r.required \in Nat /\ r.required >= t.required
        /\ r.required > t.required => r.cursor = 0
        /\ r.ok => (h - r.cursor) + (r.required - t.required) = i + 1
    BY <1>2, <2>3, <2>5
  <2>8. \A k \in 1 .. r.cursor : r.stack[k] = t.stack[k]
    BY <1>3, <2>3
  <2>9. Consumed(t, h, r, i + 1)
    BY <2>6, <2>7, <2>8 DEF Consumed
  <2> QED
    BY <2>9 DEF h, r
<1> QED
  <2>1. \/ ~s.ok
        \/ s.ok /\ r = [s EXCEPT !.ok = FALSE]
        \/ s.ok /\ s.cursor > 0 /\ IsVar(x)
        \/ s.ok /\ s.cursor > 0 /\ ~IsVar(x) /\ ~(IsVar(e) \/ x # e)
        \/ s.ok /\ ~(s.cursor > 0) /\ s.epsilon
    BY DEF Ensure
  <2> QED
    BY <2>1, <1>4, <1>5, <1>6, <1>7, <1>8

LEMMA StartConsumed ==
  ASSUME NEW t, Sound(t)  PROVE Consumed(t, Len(t.stack), Start(t), 0)
<1> DEFINE h == Len(t.stack)
<1>1. h \in Nat /\ t.stack = [j \in 1 .. h |-> t.stack[j]]
  BY StackHeight
<1>2. t.required \in Nat /\ h \in 0 .. h
  BY <1>1 DEF Sound
<1>3. /\ Start(t).stack = t.stack /\ Start(t).cursor = h /\ Start(t).required = t.required
      /\ Start(t).epsilon = t.epsilon /\ Start(t).ok = TRUE
  BY DEF Start
<1>4. Fields(Start(t)) /\ Row(t.stack, h)
  BY <1>1 DEF Start, Fields, Row
<1> HIDE DEF h
<1>5. /\ Start(t).cursor \in 0 .. h /\ Start(t).required \in Nat
      /\ Start(t).required >= t.required
      /\ Start(t).required > t.required => Start(t).cursor = 0
      /\ (h - Start(t).cursor) + (Start(t).required - t.required) = 0
  BY <1>1, <1>2, <1>3
<1>6. Start(t).ok \in BOOLEAN
  BY <1>3
<1>7. Consumed(t, h, Start(t), 0)
  BY <1>3, <1>4, <1>5, <1>6, Zenon DEF Consumed
<1> QED
  BY <1>7 DEF h

\* What all the operands of an instruction leave behind.
LEMMA Consumes ==
  ASSUME NEW t, Sound(t), NEW ensures, Len(ensures) \in Nat
  PROVE  Consumed(t, Len(t.stack), Ensured(t, ensures), Len(ensures))
<1> DEFINE n == Len(ensures)
           h == Len(t.stack)
<1>1. PICK f : /\ f[0] = Start(t) /\ Ensured(t, ensures) = f[n]
               /\ \A i \in 0 .. n : i # 0 => f[i] = Ensure(f[i - 1], ensures[n - i + 1])
  BY EnsuredRuns
<1> DEFINE S == {i \in 0 .. n : Consumed(t, h, f[i], i)}
<1>2. 0 \in S
  <2>1. Consumed(t, h, Start(t), 0)
    BY StartConsumed
  <2> QED
    BY <1>1, <2>1
<1>3. \A i \in 0 .. n : i \in S /\ i < n => i + 1 \in S
  <2> SUFFICES ASSUME NEW i \in 0 .. n, i \in S, i < n  PROVE i + 1 \in S
    OBVIOUS
  <2>1. i + 1 \in 0 .. n /\ i + 1 # 0 /\ (i + 1) - 1 = i
    OBVIOUS
  <2>2. f[i + 1] = Ensure(f[i], ensures[n - (i + 1) + 1])
    BY <1>1, <2>1
  <2>3. Consumed(t, h, f[i], i) /\ i \in Nat
    OBVIOUS
  <2>4. Consumed(t, h, f[i + 1], i + 1)
    BY <2>2, <2>3, EnsureConsumes
  <2> QED
    BY <2>1, <2>4
<1>4. \A i \in 0 .. n : i \in S
  <2> HIDE DEF S
  <2> QED
    BY <1>2, <1>3, Climbs
<1> QED
  BY <1>1, <1>4

-----------------------------------------------------------------------------
(* What an instruction leaves on a stack.                                  *)

Onto(s, c, p) == SubSeq(s, 1, c) \o p
Join(s, c, p, m) == [j \in 1 .. c + m |-> IF j <= c THEN s[j] ELSE p[j - c]]

LEMMA Joined ==
  ASSUME NEW c \in Nat, NEW h \in Nat, c <= h, NEW s, Row(s, h), NEW m \in Nat, NEW p, Row(p, m)
  PROVE  Onto(s, c, p) = Join(s, c, p, m)
<1> DEFINE A == {s[j] : j \in 1 .. h} \cup {p[j] : j \in 1 .. m}
<1>0. (\A j \in 1 .. h : s[j] \in A) /\ (\A j \in 1 .. m : p[j] \in A)
  OBVIOUS
<1> HIDE DEF A
<1>1. s \in Seq(A) /\ Len(s) = h /\ p \in Seq(A) /\ Len(p) = m
  <2>1. [j \in 1 .. h |-> s[j]] \in Seq(A) /\ Len([j \in 1 .. h |-> s[j]]) = h
    BY <1>0
  <2>2. [j \in 1 .. m |-> p[j]] \in Seq(A) /\ Len([j \in 1 .. m |-> p[j]]) = m
    BY <1>0
  <2> QED
    BY <2>1, <2>2, Zenon DEF Row
<1>2. SubSeq(s, 1, c) = [j \in 1 .. c |-> s[j]]
  BY <1>1
<1>3. SubSeq(s, 1, c) \in Seq(A) /\ Len(SubSeq(s, 1, c)) = c
  BY <1>1, <1>2
<1> DEFINE q == SubSeq(s, 1, c)
<1> HIDE DEF q
<1>4. q \o p = [j \in 1 .. c + m |-> IF j <= c THEN q[j] ELSE p[j - c]]
  BY <1>1, <1>3 DEF q
<1>5. \A j \in 1 .. c : q[j] = s[j]
  BY <1>2 DEF q
<1> QED
  BY <1>4, <1>5 DEF q, Onto, Join

LEMMA TypeStackSound ==
  ASSUME NEW t, Sound(t), NEW ensures, Len(ensures) \in Nat,
         NEW m \in Nat, NEW promises, Row(promises, m),
         \A j \in 1 .. m : IsVar(promises[j]) =>
           /\ j = 1 /\ t.epsilon /\ Ensured(t, ensures).cursor = 0
           /\ promises[j].id \in 0 .. Ensured(t, ensures).required - 1
  PROVE  Sound(TypeStack(t, ensures, promises).to)
<1> DEFINE h == Len(t.stack)
           end == Ensured(t, ensures)
           to == TypeStack(t, ensures, promises).to
           joined == SubSeq(end.stack, 1, end.cursor) \o promises
<1>1. /\ h \in Nat
      /\ \A j \in 1 .. h : IsVar(t.stack[j]) => j = 1 /\ t.epsilon /\ t.stack[j].id \in 0 .. t.required - 1
  BY StackHeight
<1>2. /\ Row(end.stack, h) /\ end.cursor \in 0 .. h /\ end.required \in Nat
      /\ end.required >= t.required /\ end.epsilon = t.epsilon
      /\ \A j \in 1 .. end.cursor : end.stack[j] = t.stack[j]
  BY Consumes DEF Consumed
<1>3. t.required \in Nat /\ t.epsilon \in BOOLEAN
  BY DEF Sound
<1>4. to = [stack |-> joined, required |-> end.required, epsilon |-> end.epsilon]
  BY DEF TypeStack
<1> HIDE DEF end, h, to
<1>5. joined = [j \in 1 .. end.cursor + m |->
                  IF j <= end.cursor THEN end.stack[j] ELSE promises[j - end.cursor]]
  <2>1. end.cursor \in Nat /\ end.cursor <= h
    BY <1>1, <1>2
  <2>2. h \in Nat /\ m \in Nat /\ Row(end.stack, h) /\ Row(promises, m)
    BY <1>1, <1>2
  <2>3. Onto(end.stack, end.cursor, promises) = Join(end.stack, end.cursor, promises, m)
    BY <2>1, <2>2, Joined
  <2> QED
    BY <2>3 DEF joined, Join, Onto
<1> HIDE DEF joined
<1>6. ASSUME NEW j \in 1 .. end.cursor + m, IsVar(joined[j])
      PROVE  j = 1 /\ end.epsilon /\ joined[j].id \in 0 .. end.required - 1
  <2>1. CASE j <= end.cursor
    <3>1. j \in 1 .. h /\ joined[j] = t.stack[j]
      BY <1>1, <1>2, <1>5, <2>1
    <3>2. j = 1 /\ t.epsilon /\ joined[j].id \in 0 .. t.required - 1
      BY <1>1, <1>6, <3>1
    <3>3. joined[j].id \in 0 .. end.required - 1
      BY <1>2, <1>3, <3>2
    <3> QED
      BY <1>2, <3>2, <3>3
  <2>2. CASE ~(j <= end.cursor)
    <3>1. j - end.cursor \in 1 .. m /\ joined[j] = promises[j - end.cursor]
      BY <1>1, <1>2, <1>5, <2>2
    <3>2. /\ j - end.cursor = 1 /\ t.epsilon /\ end.cursor = 0
          /\ joined[j].id \in 0 .. end.required - 1
      BY <1>6, <3>1 DEF end
    <3> QED
      BY <1>2, <3>2
  <2> QED
    BY <2>1, <2>2
<1>7. /\ to.stack = joined /\ to.required = end.required /\ to.epsilon = end.epsilon
      /\ to = [stack |-> to.stack, required |-> to.required, epsilon |-> to.epsilon]
  BY <1>4
<1>8. end.cursor + m \in Nat /\ joined = [j \in 1 .. end.cursor + m |-> joined[j]]
  BY <1>1, <1>2, <1>5
<1>9. Sound(to)
  BY <1>2, <1>3, <1>6, <1>7, <1>8 DEF Sound
<1> QED
  BY <1>9 DEF to

\* Value types are no variables.
LEMMA Promised ==
  ASSUME NEW ts \in Seq(ValueTypes)
  PROVE  /\ Len(Vals(ts)) = Len(ts) /\ Len(ts) \in Nat /\ Row(Vals(ts), Len(ts))
         /\ \A j \in 1 .. Len(ts) : ~IsVar(Vals(ts)[j])
<1>1. Len(ts) \in Nat /\ DOMAIN ts = 1 .. Len(ts)
  OBVIOUS
<1>2. Vals(ts) = [j \in 1 .. Len(ts) |-> Val(ts[j])]
  BY <1>1 DEF Vals
<1>3. \A j \in 1 .. Len(ts) : ts[j] \in ValueTypes /\ Vals(ts)[j] = Val(ts[j])
  BY <1>1, <1>2
<1>4. \A v \in ValueTypes : ~IsVar(Val(v))
  BY DEF ValueTypes, IntTypes, FPTypes, IsVar, Val
<1> QED
  BY <1>1, <1>2, <1>3, <1>4 DEF Row

LEMMA TypedSound ==
  ASSUME NEW t, Sound(t), NEW params \in Seq(ValueTypes), NEW results \in Seq(ValueTypes)
  PROVE  Sound(TypeStack(t, Vals(params), Vals(results)).to)
BY Promised, TypeStackSound

-----------------------------------------------------------------------------
(* The types of the table.                                                 *)

LEMMA Shorts ==
  /\ <<>> \in Seq(ValueTypes)
  /\ \A a \in ValueTypes : <<a>> \in Seq(ValueTypes)
  /\ \A a \in ValueTypes, b \in ValueTypes : <<a, b>> \in Seq(ValueTypes)
  /\ \A a \in ValueTypes, b \in ValueTypes, c \in ValueTypes : <<a, b, c>> \in Seq(ValueTypes)
OBVIOUS

Signed(sig) == sig.params \in Seq(ValueTypes) /\ sig.results \in Seq(ValueTypes)

LEMMA TypingSigned ==
  ASSUME NEW ps \in Seq(ValueTypes), NEW rs \in Seq(ValueTypes)
  PROVE  Signed(Typing(ps, rs))
BY DEF Signed, Typing

LEMMA Named == "I32" \in ValueTypes /\ "V128" \in ValueTypes /\ IntTypes \cup FPTypes \subseteq ValueTypes
BY DEF ValueTypes, IntTypes

LEMMA ScalarsSigned ==
  ASSUME NEW op \in ScalarOps  PROVE Signed(ScalarSignature(op))
<1>1. op[1] \in ValueTypes /\ (op \in Conversion \cup TruncSat => op[3] \in ValueTypes)
  BY DEF ScalarOps, IntEqz, IntCompare, FPCompare, IntUnary, IntBinary, FPUnary, FPBinary,
         Conversion, TruncSat, SignExtend, Constant, ValueTypes, IntTypes, FPTypes
<1>2. \/ ScalarSignature(op) \in
           { Typing(<<op[1]>>, <<"I32">>), Typing(<<op[1], op[1]>>, <<"I32">>),
             Typing(<<op[1]>>, <<op[1]>>), Typing(<<op[1], op[1]>>, <<op[1]>>),
             Typing(<<>>, <<op[1]>>) }
      \/ op \in Conversion \cup TruncSat /\ ScalarSignature(op) = Typing(<<op[3]>>, <<op[1]>>)
  BY DEF ScalarSignature, ScalarOps
<1>3. \A a \in ValueTypes, b \in ValueTypes :
        /\ Signed(Typing(<<a>>, <<b>>)) /\ Signed(Typing(<<a, a>>, <<b>>))
        /\ Signed(Typing(<<>>, <<b>>))
  BY Shorts, TypingSigned
<1>4. CASE op \in Conversion \cup TruncSat /\ ScalarSignature(op) = Typing(<<op[3]>>, <<op[1]>>)
  BY <1>1, <1>3, <1>4
<1> QED
  BY <1>1, <1>2, <1>3, <1>4, Named

LEMMA VectorsSigned ==
  ASSUME NEW op \in VectorOps  PROVE Signed(VectorSignature(op))
<1>1. op \in Splat \cup ExtractLane \cup ReplaceLane => LaneScalar(op[1]) \in ValueTypes
  BY DEF Splat, ExtractLane, ReplaceLane, LaneScalar, IntLanes, FPLanes, ValueTypes, IntTypes, FPTypes
<1>2. \/ VectorSignature(op) \in
           { Typing(<<"V128">>, <<"V128">>), Typing(<<"V128", "V128">>, <<"V128">>),
             Typing(<<"V128", "I32">>, <<"V128">>), Typing(<<"V128">>, <<"I32">>),
             Typing(<<>>, <<"V128">>), Typing(<<"V128", "V128", "V128">>, <<"V128">>) }
      \/ /\ op \in Splat \cup ExtractLane \cup ReplaceLane
         /\ VectorSignature(op) \in
              { Typing(<<LaneScalar(op[1])>>, <<"V128">>), Typing(<<"V128">>, <<LaneScalar(op[1])>>),
                Typing(<<"V128", LaneScalar(op[1])>>, <<"V128">>) }
  BY DEF VectorSignature, VectorOps
<1>3. \A a \in ValueTypes, b \in ValueTypes, c \in ValueTypes :
        /\ Signed(Typing(<<a>>, <<b>>)) /\ Signed(Typing(<<a, b>>, <<c>>))
        /\ Signed(Typing(<<>>, <<b>>)) /\ Signed(Typing(<<a, a, a>>, <<b>>))
  BY Shorts, TypingSigned
<1> QED
  BY <1>1, <1>2, <1>3, Named

LEMMA AccessesSigned ==
  ASSUME NEW op \in MemoryOps  PROVE Signed(MemorySignature(op))
<1>1. op \in Loads \cup Stores => op[1] \in ValueTypes
  BY DEF Loads, Stores, Load, NarrowLoad, Store, NarrowStore, V128PartLoad, ValueTypes, IntTypes,
         FPTypes
<1>2. \/ MemorySignature(op) \in
           { Typing(<<"I32", "V128">>, <<"V128">>), Typing(<<"I32", "V128">>, <<>>) }
      \/ /\ op \in Loads \cup Stores
         /\ MemorySignature(op) \in { Typing(<<"I32">>, <<op[1]>>), Typing(<<"I32", op[1]>>, <<>>) }
  BY DEF MemorySignature, MemoryOps
<1>3. \A a \in ValueTypes, b \in ValueTypes, c \in ValueTypes :
        /\ Signed(Typing(<<a>>, <<b>>)) /\ Signed(Typing(<<a, b>>, <<c>>))
        /\ Signed(Typing(<<a, b>>, <<>>))
  BY Shorts, TypingSigned
<1> QED
  BY <1>1, <1>2, <1>3, Named

LEMMA SignatureSigned ==
  ASSUME NEW op \in Opcode  PROVE Signed(Signature(op))
<1>1. \/ op \in ScalarOps /\ Signature(op) = ScalarSignature(op)
      \/ op \in VectorOps /\ Signature(op) = VectorSignature(op)
      \/ op \in MemoryOps /\ Signature(op) = MemorySignature(op)
      \/ Signature(op) \in { Typing(<<>>, <<"I32">>), Typing(<<"I32">>, <<"I32">>), Typing(<<>>, <<>>) }
  BY DEF Opcode, Signature, MemorySizeOps
<1>2. \A sig \in { Typing(<<>>, <<"I32">>), Typing(<<"I32">>, <<"I32">>), Typing(<<>>, <<>>) } :
        Signed(sig)
  BY Shorts, TypingSigned, Named
<1> QED
  BY <1>1, <1>2, ScalarsSigned, VectorsSigned, AccessesSigned

-----------------------------------------------------------------------------
(* The invariant: every visitor's stack is sound, and what validation reads *)
(* types from holds value types.                                           *)

VisitorSound(f) == IsVisitor(f) /\ Signed(f) /\ Sound(f.operands)
VisitorsSound ==
  \E n \in Nat : /\ frames = [i \in 1 .. n + 1 |-> frames[i]]
                 /\ \A i \in 1 .. n + 1 : VisitorSound(frames[i])

VInv ==
  /\ ctx \in Contexts
  /\ labels \in Seq(Seq(ValueTypes))
  /\ VisitorsSound
  /\ status # "aborted"

LEMMA AtWork ==
  ASSUME VInv
  PROVE  \E n \in Nat : /\ Depth = n + 1 /\ DOMAIN frames = 1 .. n + 1
                        /\ frames = [i \in 1 .. n + 1 |-> frames[i]]
                        /\ \A i \in 1 .. n + 1 : VisitorSound(frames[i])
<1>1. PICK n \in Nat : /\ frames = [i \in 1 .. n + 1 |-> frames[i]]
                       /\ \A i \in 1 .. n + 1 : VisitorSound(frames[i])
  BY DEF VInv, VisitorsSound
<1>2. Len(frames) = n + 1 /\ DOMAIN frames = 1 .. n + 1
  BY <1>1
<1> QED
  BY <1>1, <1>2 DEF Depth

LEMMA StackAtWork ==
  ASSUME VInv  PROVE Sound(Stack) /\ Signed(Top)
<1>1. PICK n \in Nat : Depth = n + 1 /\ \A i \in 1 .. n + 1 : VisitorSound(frames[i])
  BY AtWork
<1>2. n + 1 \in 1 .. n + 1
  OBVIOUS
<1> QED
  BY <1>1, <1>2 DEF Stack, Top, VisitorSound

LEMMA Replaced ==
  ASSUME NEW f, VisitorSound(f), NEW to, Sound(to)
  PROVE  VisitorSound([f EXCEPT !.operands = to])
<1>1. [f EXCEPT !.operands = to] =
        [kind |-> f.kind, params |-> f.params, results |-> f.results, operands |-> to]
  BY DEF VisitorSound, IsVisitor
<1> QED
  BY <1>1 DEF VisitorSound, IsVisitor, Signed

LEMMA KeptSound ==
  ASSUME VInv, NEW to, Sound(to), frames' = [frames EXCEPT ![Depth].operands = to],
         UNCHANGED <<ctx, labels, status>>
  PROVE  VInv'
<1>1. PICK n \in Nat : /\ Depth = n + 1 /\ DOMAIN frames = 1 .. n + 1
                       /\ frames = [i \in 1 .. n + 1 |-> frames[i]]
                       /\ \A i \in 1 .. n + 1 : VisitorSound(frames[i])
  BY AtWork
<1> DEFINE last == [frames[n + 1] EXCEPT !.operands = to]
<1>2. VisitorSound(last)
  <2>1. n + 1 \in 1 .. n + 1
    OBVIOUS
  <2> QED
    BY <1>1, <2>1, Replaced
<1>3. frames' = [i \in 1 .. n + 1 |-> IF i = n + 1 THEN last ELSE frames[i]]
  BY <1>1
<1> HIDE DEF last
<1>4. \A i \in 1 .. n + 1 : VisitorSound(frames'[i])
  BY <1>1, <1>2, <1>3
<1>5. frames' = [i \in 1 .. n + 1 |-> frames'[i]]
  BY <1>3
<1>6. VisitorsSound'
  BY <1>4, <1>5 DEF VisitorsSound
<1> QED
  BY <1>6 DEF VInv

LEMMA RefusedSound ==
  ASSUME VInv, UNCHANGED <<ctx, labels, frames>>, status' # "aborted"
  PROVE  VInv'
BY DEF VInv, VisitorsSound

LEMMA VisitSound ==
  ASSUME VInv, UNCHANGED ctx, NEW site, NEW r, NEW rules, r.ok => Sound(r.to),
         Visit(site, r, rules) \/ (r.ok /\ VisitAsserted(site, r, rules))
  PROVE  VInv'
<1>1. CASE r.ok /\ Accept(r.to, rules)
  BY <1>1, KeptSound DEF Accept
<1>2. CASE Refuse(site, rules)
  BY <1>2, RefusedSound DEF Refuse, RefuseAs
<1> QED
  BY <1>1, <1>2 DEF Visit, VisitAsserted

LEMMA TypedVisitSound ==
  ASSUME VInv, UNCHANGED ctx, NEW site, NEW params \in Seq(ValueTypes),
         NEW results \in Seq(ValueTypes), NEW rules,
         Visit(site, TypeStack(Stack, Vals(params), Vals(results)), rules)
  PROVE  VInv'
<1> DEFINE r == TypeStack(Stack, Vals(params), Vals(results))
<1>1. Sound(r.to)
  BY StackAtWork, TypedSound
<1>2. Visit(site, r, rules)
  OBVIOUS
<1> HIDE DEF r
<1>3. (r.ok => Sound(r.to)) /\ (Visit(site, r, rules) \/ (r.ok /\ VisitAsserted(site, r, rules)))
  BY <1>1, <1>2
<1> QED
  BY <1>3, VisitSound, Zenon

LEMMA ClearedSound == Sound(Cleared)
<1>1. Cleared.stack = [j \in 1 .. 0 |-> Cleared.stack[j]] /\ 0 \in Nat
  BY DEF Cleared
<1> QED
  BY <1>1 DEF Sound, Cleared

LEMMA StuckSound ==
  ASSUME VInv, UNCHANGED ctx, NEW site, NEW params, NEW rules, Stuck(site, params, rules)
  PROVE  VInv'
<1> DEFINE r == TypeStack(Stack, Vals(params), <<>>)
           c == [r EXCEPT !.to = Cleared]
<1>1. c.to = Cleared
  BY DEF TypeStack
<1>2. Visit(site, c, rules)
  BY DEF Stuck
<1> HIDE DEF c
<1>3. (c.ok => Sound(c.to)) /\ (Visit(site, c, rules) \/ (c.ok /\ VisitAsserted(site, c, rules)))
  BY <1>1, <1>2, ClearedSound
<1> QED
  BY <1>3, VisitSound, Zenon

-----------------------------------------------------------------------------
(* The handlers that look at the stack or trust that it answers.           *)

\* No operand is expected and a value type promised: always accepted.
LEMMA PushOk ==
  ASSUME NEW t, NEW promises  PROVE TypeStack(t, <<>>, promises).ok
<1>1. Len(<<>>) = 0
  OBVIOUS
<1>2. PICK f : f[0] = Start(t) /\ Ensured(t, <<>>) = f[Len(<<>>)]
  BY <1>1, EnsuredRuns
<1> QED
  BY <1>1, <1>2 DEF TypeStack, Start

\* The operand that peek answers is there to be taken.
LEMMA PeekedOk ==
  ASSUME NEW t, Sound(t), NEW e \in Peek(t, 0)  PROVE TypeStack(t, <<e>>, <<>>).ok
<1>1. Len(t.stack) \in Nat
  BY StackHeight
<1> DEFINE one == <<e>>
<1>2. Len(one) = 1 /\ Len(one) \in Nat /\ one[1] = e /\ 1 \in 0 .. 1
  OBVIOUS
<1> HIDE DEF one
<1>3. PICK f : /\ f[0] = Start(t) /\ Ensured(t, one) = f[Len(one)]
               /\ \A i \in 0 .. Len(one) : i # 0 => f[i] = Ensure(f[i - 1], one[Len(one) - i + 1])
  BY <1>2, EnsuredRuns
<1>4. Ensured(t, one) = Ensure(Start(t), e)
  <2>1. f[1] = Ensure(f[0], e)
    BY <1>2, <1>3
  <2> QED
    BY <1>2, <1>3, <2>1
<1> DEFINE s == Start(t)
<1>5. /\ s.stack = t.stack /\ s.cursor = Len(t.stack) /\ s.epsilon = t.epsilon /\ s.ok = TRUE
      /\ Fields(s)
  BY DEF Start, Fields
<1>6. /\ Len(t.stack) > 0 => e = t.stack[Len(t.stack)]
      /\ ~(Len(t.stack) > 0) => t.epsilon
  BY <1>1 DEF Peek
<1> HIDE DEF s
<1>7. Ensure(s, e).ok
  <2>1. CASE Len(t.stack) > 0
    <3>1. \/ \E st : Ensure(s, e) = [s EXCEPT !.cursor = s.cursor - 1, !.stack = st]
          \/ Ensure(s, e) = [s EXCEPT !.cursor = s.cursor - 1]
      BY <1>5, <1>6, <2>1 DEF Ensure
    <3> QED
      BY <1>5, <3>1, Changed
  <2>2. CASE ~(Len(t.stack) > 0)
    <3>1. Ensure(s, e) = [s EXCEPT !.required = s.required + 1]
      BY <1>5, <1>6, <2>2 DEF Ensure
    <3> QED
      BY <1>5, <3>1, Changed
  <2> QED
    BY <2>1, <2>2
<1> QED
  BY <1>4, <1>7 DEF TypeStack, s, one

LEMMA NoPromise == Row(<<>>, 0)
BY DEF Row

LEMMA DropSound ==
  ASSUME VInv, Drop  PROVE VInv'
<1>1. UNCHANGED ctx /\ Sound(Stack)
  BY StackAtWork DEF Drop, Running
<1>2. CASE Refuse("drop", DropRules)
  BY <1>1, <1>2, RefusedSound DEF Refuse, RefuseAs
<1>3. ASSUME NEW e \in Peek(Stack, 0),
             VisitAsserted("drop", TypeStack(Stack, <<e>>, <<>>), DropRules)
      PROVE  VInv'
  <2> DEFINE r == TypeStack(Stack, <<e>>, <<>>)
  <2>1. Sound(r.to)
    <3>1. Len(<<e>>) \in Nat /\ 0 \in Nat /\ 1 .. 0 = {}
      OBVIOUS
    <3> QED
      BY <1>1, <3>1, NoPromise, TypeStackSound
  <2>2. r.ok
    BY <1>1, PeekedOk
  <2>3. VisitAsserted("drop", r, DropRules)
    BY <1>3
  <2> HIDE DEF r
  <2> QED
    BY <1>1, <2>1, <2>2, <2>3, VisitSound
<1> QED
  BY <1>2, <1>3 DEF Drop

LEMMA PushSound ==
  ASSUME VInv, UNCHANGED ctx, NEW site, NEW v \in ValueTypes, NEW rules,
         VisitAsserted(site, TypeStack(Stack, <<>>, <<Val(v)>>), rules)
  PROVE  VInv'
<1> DEFINE r == TypeStack(Stack, <<>>, <<Val(v)>>)
<1>1. r.ok
  BY PushOk
<1>2. Sound(r.to)
  <2>1. <<v>> \in Seq(ValueTypes) /\ <<>> \in Seq(ValueTypes)
    BY Shorts
  <2>2. Vals(<<v>>) = <<Val(v)>> /\ Vals(<<>>) = <<>>
    BY DEF Vals
  <2> QED
    BY <2>1, <2>2, StackAtWork, TypedSound
<1>3. VisitAsserted(site, r, rules)
  OBVIOUS
<1> HIDE DEF r
<1> QED
  BY <1>1, <1>2, <1>3, VisitSound

\* Select promises the element below its condition: a variable only if fewer than
\* three operands are there, and then the stack is used up.
LEMMA SelectLeaves ==
  ASSUME NEW t, Sound(t), NEW e \in Peek(t, 1),
         TypeStack(t, <<e, e, Val("I32")>>, <<e>>).ok
  PROVE  Sound(TypeStack(t, <<e, e, Val("I32")>>, <<e>>).to)
<1> DEFINE three == <<e, e, Val("I32")>>
           one == <<e>>
           end == Ensured(t, three)
           r == TypeStack(t, three, one)
<1>1. Len(three) = 3 /\ Len(three) \in Nat /\ Row(one, 1) /\ one[1] = e /\ r.ok
  BY DEF Row
<1> HIDE DEF three, one
<1>2. /\ Len(t.stack) \in Nat
      /\ \A j \in 1 .. Len(t.stack) : IsVar(t.stack[j]) =>
           j = 1 /\ t.epsilon /\ t.stack[j].id \in 0 .. t.required - 1
  BY StackHeight
<1>3. t.required \in Nat
  BY DEF Sound
<1>4. /\ end.cursor \in 0 .. Len(t.stack) /\ end.required \in Nat
      /\ end.required >= t.required /\ (end.required > t.required => end.cursor = 0)
      /\ end.ok => (Len(t.stack) - end.cursor) + (end.required - t.required) = 3
  BY <1>1, Consumes DEF Consumed
<1>5. IsVar(e) => Len(t.stack) <= 2 /\ t.epsilon /\ e.id \in 0 .. t.required
  <2>1. CASE 1 < Len(t.stack)
    <3>1. e = t.stack[Len(t.stack) - 1] /\ Len(t.stack) - 1 \in 1 .. Len(t.stack)
      BY <1>2, <2>1 DEF Peek
    <3> QED
      BY <1>2, <1>3, <3>1
  <2>2. CASE ~(1 < Len(t.stack))
    <3>1. t.epsilon /\ e = TypeVariable(t.required)
      BY <2>2 DEF Peek
    <3> QED
      BY <1>2, <1>3, <2>2, <3>1 DEF TypeVariable
  <2> QED
    BY <2>1, <2>2
<1>6. end.ok => (IsVar(e) => end.cursor = 0 /\ e.id \in 0 .. end.required - 1)
  <2> HIDE DEF end
  <2> QED
    BY <1>2, <1>3, <1>4, <1>5
<1>7. Sound(r.to)
  <2>1. end.ok
    BY <1>1 DEF TypeStack
  <2>2. \A j \in 1 .. 1 : IsVar(one[j]) =>
          /\ j = 1 /\ t.epsilon /\ Ensured(t, three).cursor = 0
          /\ one[j].id \in 0 .. Ensured(t, three).required - 1
    <3>1. \A j \in 1 .. 1 : j = 1
      OBVIOUS
    <3> QED
      BY <1>1, <1>5, <1>6, <2>1, <3>1
  <2>3. 1 \in Nat
    OBVIOUS
  <2> QED
    BY <1>1, <2>2, <2>3, TypeStackSound
<1> QED
  BY <1>7 DEF r, three, one

LEMMA SelectSound ==
  ASSUME VInv, Select  PROVE VInv'
<1>1. UNCHANGED ctx /\ Sound(Stack)
  BY StackAtWork DEF Select, Running
<1>2. CASE Refuse("select", SelectRules)
  BY <1>1, <1>2, RefusedSound DEF Refuse, RefuseAs
<1>3. ASSUME NEW e \in Peek(Stack, 1),
             Visit("select", TypeStack(Stack, <<e, e, Val("I32")>>, <<e>>), SelectRules)
      PROVE  VInv'
  <2> DEFINE r == TypeStack(Stack, <<e, e, Val("I32")>>, <<e>>)
  <2>1. r.ok => Sound(r.to)
    BY <1>1, SelectLeaves
  <2>2. Visit("select", r, SelectRules)
    BY <1>3
  <2> HIDE DEF r
  <2> QED
    BY <1>1, <2>1, <2>2, VisitSound
<1> QED
  BY <1>2, <1>3 DEF Select

-----------------------------------------------------------------------------
(* Blocks.                                                                 *)

LEMMA FilledFields ==
  ASSUME NEW st
  PROVE  [EmptyStack EXCEPT !.stack = st] = [stack |-> st, required |-> 0, epsilon |-> FALSE]
<1> DEFINE t == [EmptyStack EXCEPT !.stack = st]
           fields == {"stack", "required", "epsilon"}
<1>1. /\ EmptyStack = [x \in fields |-> EmptyStack[x]]
      /\ EmptyStack.required = 0 /\ EmptyStack.epsilon = FALSE
  BY DEF EmptyStack
<1>2. t = [x \in fields |-> IF x = "stack" THEN st ELSE EmptyStack[x]]
  BY <1>1
<1> HIDE DEF t
<1>3. t = [stack |-> st, required |-> EmptyStack.required, epsilon |-> EmptyStack.epsilon]
  BY <1>2
<1>4. t = [stack |-> st, required |-> 0, epsilon |-> FALSE]
  BY <1>1, <1>3
<1> QED
  BY <1>4 DEF t

LEMMA Filled ==
  ASSUME NEW st, NEW h \in Nat, Row(st, h), \A j \in 1 .. h : ~IsVar(st[j])
  PROVE  Sound([EmptyStack EXCEPT !.stack = st])
<1> DEFINE t == [EmptyStack EXCEPT !.stack = st]
<1>1. t = [stack |-> st, required |-> 0, epsilon |-> FALSE]
  BY FilledFields
<1> HIDE DEF t
<1>2. /\ t = [stack |-> t.stack, required |-> t.required, epsilon |-> t.epsilon]
      /\ t.stack = st /\ t.required \in Nat /\ t.epsilon \in BOOLEAN
  BY <1>1
<1>3. /\ t.stack = [j \in 1 .. h |-> t.stack[j]]
      /\ \A j \in 1 .. h : IsVar(t.stack[j]) =>
           j = 1 /\ t.epsilon /\ t.stack[j].id \in 0 .. t.required - 1
  BY <1>2 DEF Row
<1>4. Sound(t)
  BY <1>2, <1>3 DEF Sound
<1> QED
  BY <1>4 DEF t

LEMMA FrameSound ==
  ASSUME NEW kind, NEW type, Signed(type)  PROVE VisitorSound(Frame(kind, type))
<1> DEFINE operands == [EmptyStack EXCEPT !.stack = Vals(type.params)]
<1>2. /\ Len(type.params) \in Nat /\ Row(Vals(type.params), Len(type.params))
      /\ \A j \in 1 .. Len(type.params) : ~IsVar(Vals(type.params)[j])
  BY Promised DEF Signed
<1>3. Sound(operands)
  BY <1>2, Filled
<1>4. Frame(kind, type) = [kind |-> kind, params |-> type.params, results |-> type.results,
                           operands |-> operands]
  BY DEF Frame
<1> HIDE DEF operands
<1> QED
  BY <1>3, <1>4 DEF VisitorSound, IsVisitor, Signed

LEMMA DeclaredSigned ==
  /\ \A type \in BlockTypes : Signed(type)
  /\ \A i \in DOMAIN FunctionTypes : Signed(FunctionTypes[i])
  /\ \A i \in DOMAIN Callees : Signed(Callees[i])
<1>1. \A type \in FunctionType : Signed(type)
  BY DEF FunctionType, Signed
<1> QED
  BY <1>1, TypesAssumption

LEMMA EnterSound ==
  ASSUME VInv, UNCHANGED ctx, status = "running", NEW kind, NEW params \in Seq(ValueTypes),
         NEW type \in BlockTypes, NEW label \in Seq(ValueTypes), Enter(kind, params, type, label)
  PROVE  VInv'
<1>1. Signed(type)
  BY DeclaredSigned
<1>2. labels' \in Seq(Seq(ValueTypes))
  <2>1. labels' = Append(labels, label)
    BY DEF Enter
  <2> QED
    BY <2>1 DEF VInv
<1>3. CASE status' = "rejected" /\ UNCHANGED frames
  BY <1>2, <1>3 DEF VInv, VisitorsSound
<1>4. CASE /\ UNCHANGED status
           /\ frames' = Append([frames EXCEPT ![Depth].operands =
                                  TypeStack(Stack, Vals(params), Vals(type.results)).to],
                               Frame(kind, type))
  <2> DEFINE to == TypeStack(Stack, Vals(params), Vals(type.results)).to
             new == Frame(kind, type)
  <2>1. Sound(to) /\ VisitorSound(new)
    BY <1>1, StackAtWork, TypedSound, FrameSound DEF Signed
  <2>2. PICK n \in Nat : /\ Depth = n + 1 /\ DOMAIN frames = 1 .. n + 1
                         /\ frames = [i \in 1 .. n + 1 |-> frames[i]]
                         /\ \A i \in 1 .. n + 1 : VisitorSound(frames[i])
    BY AtWork
  <2>3. frames' = Append([frames EXCEPT ![n + 1].operands = to], new)
    BY <1>4, <2>2
  <2> DEFINE last == [frames[n + 1] EXCEPT !.operands = to]
             kept == [frames EXCEPT ![n + 1].operands = to]
  <2> HIDE DEF to, new
  <2>4. VisitorSound(last)
    <3>1. n + 1 \in 1 .. n + 1
      OBVIOUS
    <3> QED
      BY <2>1, <2>2, <3>1, Replaced
  <2>5. kept = [i \in 1 .. n + 1 |-> IF i = n + 1 THEN last ELSE frames[i]]
    BY <2>2
  <2>6. frames' = Append(kept, new)
    BY <2>3
  <2> HIDE DEF last, kept
  <2>7. kept = [i \in 1 .. n + 1 |-> kept[i]] /\ \A i \in 1 .. n + 1 : VisitorSound(kept[i])
    BY <2>2, <2>4, <2>5
  <2>8. frames' = [i \in 1 .. (n + 1) + 1 |-> IF i = (n + 1) + 1 THEN new ELSE kept[i]]
    BY <2>6, <2>7, Appended
  <2>9. \A i \in 1 .. (n + 1) + 1 : VisitorSound(frames'[i])
    BY <2>1, <2>7, <2>8
  <2>10. frames' = [i \in 1 .. (n + 1) + 1 |-> frames'[i]] /\ n + 1 \in Nat
    BY <2>8
  <2>11. VisitorsSound'
    BY <2>9, <2>10 DEF VisitorsSound
  <2> QED
    BY <1>2, <1>4, <2>11 DEF VInv
<1> QED
  BY <1>3, <1>4 DEF Enter

LEMMA EndElseSound ==
  ASSUME VInv, UNCHANGED ctx, EndElse  PROVE VInv'
<1>1. PICK n \in Nat : /\ Depth = n + 1 /\ DOMAIN frames = 1 .. n + 1
                       /\ frames = [i \in 1 .. n + 1 |-> frames[i]]
                       /\ \A i \in 1 .. n + 1 : VisitorSound(frames[i])
  BY AtWork
<1> DEFINE type == [params |-> Top.params, results |-> Top.results]
           other == Frame("else", type)
<1>2. VisitorSound(other)
  <2>1. Signed(type)
    BY StackAtWork DEF Signed
  <2> QED
    BY <2>1, FrameSound
<1>3. frames' = [frames EXCEPT ![n + 1] = other]
  <2>1. frames' = [frames EXCEPT ![Depth] = other]
    BY DEF EndElse, Top
  <2> HIDE DEF other
  <2> QED
    BY <1>1, <2>1
<1> HIDE DEF other
<1>4. frames' = [i \in 1 .. n + 1 |-> IF i = n + 1 THEN other ELSE frames[i]]
  BY <1>1, <1>3
<1>5. \A i \in 1 .. n + 1 : VisitorSound(frames'[i])
  BY <1>1, <1>2, <1>4
<1>6. frames' = [i \in 1 .. n + 1 |-> frames'[i]]
  BY <1>4
<1>7. VisitorsSound'
  BY <1>5, <1>6 DEF VisitorsSound
<1> QED
  BY <1>7 DEF VInv, EndElse

LEMMA EndBlockSound ==
  ASSUME VInv, UNCHANGED ctx, Depth > 1, EndBlock  PROVE VInv'
<1>1. PICK n \in Nat : /\ Depth = n + 1
                       /\ frames = [i \in 1 .. n + 1 |-> frames[i]]
                       /\ \A i \in 1 .. n + 1 : VisitorSound(frames[i])
  BY AtWork
<1>2. PICK m \in Nat : n = m + 1
  <2>1. n > 0 /\ n - 1 \in Nat
    BY <1>1
  <2> QED
    BY <2>1
<1>3. frames' = [i \in 1 .. n |-> frames[i]]
  <2>1. frames' = SubSeq(frames, 1, n)
    BY <1>1 DEF EndBlock
  <2> QED
    BY <1>1, <2>1, Shortened
<1>4. \A i \in 1 .. m + 1 : VisitorSound(frames'[i])
  BY <1>1, <1>2, <1>3
<1>5. frames' = [i \in 1 .. m + 1 |-> frames'[i]]
  BY <1>2, <1>3
<1>6. VisitorsSound'
  BY <1>4, <1>5 DEF VisitorsSound
<1>7. labels' \in Seq(Seq(ValueTypes))
  <2>1. labels \in Seq(Seq(ValueTypes)) /\ labels' = SubSeq(labels, 1, Len(labels) - 1)
    BY DEF VInv, EndBlock
  <2> QED
    BY <2>1
<1> QED
  BY <1>6, <1>7 DEF VInv, EndBlock

LEMMA EndSound ==
  ASSUME VInv, EndExpression  PROVE VInv'
<1>1. UNCHANGED ctx
  BY DEF EndExpression, Running
<1>2. CASE EndElse
  BY <1>1, <1>2, EndElseSound
<1>3. CASE EndBlock /\ Depth > 1
  BY <1>1, <1>3, EndBlockSound
<1>4. CASE status' # "aborted" /\ UNCHANGED <<frames, labels>>
  BY <1>1, <1>4, RefusedSound
<1> QED
  BY <1>2, <1>3, <1>4 DEF EndExpression

-----------------------------------------------------------------------------
(* The other handlers: what they expect and promise are value types.       *)

\* What the contexts declare.
LEMMA ContextTyped ==
  ASSUME VInv
  PROVE  /\ ctx.returns \in Seq(ValueTypes)
         /\ \A x \in DOMAIN ctx.locals : ctx.locals[x] \in ValueTypes
         /\ \A x \in DOMAIN ctx.globals : ctx.globals[x].type \in ValueTypes
<1>1. ctx.returns \in Seq(ValueTypes) /\ ctx.locals \in Seq(ValueTypes)
  BY TypesAssumption DEF VInv
<1>2. \A x \in DOMAIN ctx.globals : ctx.globals[x].type \in ValueTypes
  BY TypesAssumption DEF VInv
<1> QED
  BY <1>1, <1>2

LEMMA Longer ==
  ASSUME NEW ts \in Seq(ValueTypes)  PROVE Append(ts, "I32") \in Seq(ValueTypes)
BY Named

LEMMA LabelTyped ==
  ASSUME VInv, NEW l \in LabelIndex, NEW types \in Label(l)  PROVE types \in Seq(ValueTypes)
<1>1. labels \in Seq(Seq(ValueTypes)) /\ l \in Nat
  BY DEF VInv, LabelIndex
<1>2. l < Len(labels) /\ types = labels[Len(labels) - l]
  BY DEF Label
<1> QED
  BY <1>1, <1>2

LEMMA TypedStepSound ==
  ASSUME VInv, UNCHANGED ctx, NEW site, NEW params \in Seq(ValueTypes),
         NEW results \in Seq(ValueTypes), Typed(site, params, results)
  PROVE  VInv'
BY TypedVisitSound DEF Typed

LEMMA RefuseSound ==
  ASSUME VInv, UNCHANGED ctx, NEW site, NEW rules, Refuse(site, rules)  PROVE VInv'
BY RefusedSound DEF Refuse, RefuseAs

LEMMA PlainSound ==
  ASSUME VInv, NEW op \in PlainOps, NEW align, NEW lane, Plain(op, align, lane)  PROVE VInv'
<1>1. Signed(Signature(op)) /\ UNCHANGED ctx
  BY OpsAssumption, SignatureSigned DEF Plain, Running
<1>2. CASE Typed(op[2], Signature(op).params, Signature(op).results)
  BY <1>1, <1>2, TypedStepSound DEF Signed
<1>3. CASE Refuse(op[2], {})
  BY <1>1, <1>3, RefuseSound
<1> QED
  BY <1>2, <1>3 DEF Plain

LEMMA UnreachableSound ==
  ASSUME VInv, Unreachable  PROVE VInv'
<1> DEFINE r == [ok |-> TRUE, to |-> Cleared]
<1>1. UNCHANGED ctx /\ Visit("unreachable", r, {StuckRule(<<>>)}) /\ r.to = Cleared
  BY DEF Unreachable, Running
<1> HIDE DEF r
<1> QED
  BY <1>1, ClearedSound, VisitSound

LEMMA BlocksSound ==
  ASSUME VInv, NEW type \in BlockTypes, NEW hasElse, Block(type) \/ Loop(type) \/ If(type, hasElse)
  PROVE  VInv'
<1>1. UNCHANGED ctx /\ status = "running"
  BY DEF Block, Loop, If, Running
<1>2. /\ type.params \in Seq(ValueTypes) /\ type.results \in Seq(ValueTypes)
      /\ Append(type.params, "I32") \in Seq(ValueTypes)
  BY DeclaredSigned, Longer DEF Signed
<1>3. CASE \E kind : \E params \in Seq(ValueTypes), label \in Seq(ValueTypes) :
             Enter(kind, params, type, label)
  BY <1>1, <1>3, EnterSound
<1>4. CASE Refuse("if", {})
  BY <1>1, <1>4, RefuseSound
<1> QED
  BY <1>2, <1>3, <1>4 DEF Block, Loop, If

LEMMA BranchesSound ==
  ASSUME VInv, NEW l \in LabelIndex, NEW targets, Br(l) \/ BrIf(l) \/ BrTable(targets, l)
  PROVE  VInv'
<1>1. UNCHANGED ctx
  BY DEF Br, BrIf, BrTable, Running
<1>2. CASE \E site, params, rules : Stuck(site, params, rules)
  BY <1>1, <1>2, StuckSound
<1>3. CASE \E site, rules : Refuse(site, rules)
  BY <1>1, <1>3, RefuseSound
<1>4. ASSUME NEW types \in Label(l), NEW rules,
             Visit("br_if", TypeStack(Stack, Vals(Append(types, "I32")), Vals(types)), rules)
      PROVE  VInv'
  <2>1. types \in Seq(ValueTypes) /\ Append(types, "I32") \in Seq(ValueTypes)
    BY LabelTyped, Longer
  <2> QED
    BY <1>1, <1>4, <2>1, TypedVisitSound
<1> QED
  BY <1>2, <1>3, <1>4 DEF Br, BrIf, BrTable

LEMMA CallsSound ==
  ASSUME VInv, NEW x, Call(x) \/ CallIndirect(x)  PROVE VInv'
<1>1. UNCHANGED ctx
  BY DEF Call, CallIndirect, Running
<1>2. CASE \E site : \E params \in Seq(ValueTypes), results \in Seq(ValueTypes) :
             Typed(site, params, results)
  BY <1>1, <1>2, TypedStepSound
<1>3. CASE \E site, rules : Refuse(site, rules)
  BY <1>1, <1>3, RefuseSound
<1> QED
  BY <1>2, <1>3, DeclaredSigned, Longer DEF Call, CallIndirect, Signed

LEMMA VariablesSound ==
  ASSUME VInv, NEW x,
         \/ LocalGet(x) \/ LocalSet(x) \/ LocalTee(x) \/ GlobalGet(x) \/ GlobalSet(x)
  PROVE  VInv'
<1>1. UNCHANGED ctx
  BY DEF LocalGet, LocalSet, LocalTee, GlobalGet, GlobalSet, Running
<1>2. CASE \E site : \E params \in Seq(ValueTypes), results \in Seq(ValueTypes) :
             Typed(site, params, results)
  BY <1>1, <1>2, TypedStepSound
<1>3. CASE \E site, rules : Refuse(site, rules)
  BY <1>1, <1>3, RefuseSound
<1>4. CASE \E site, rules : \E v \in ValueTypes :
             VisitAsserted(site, TypeStack(Stack, <<>>, <<Val(v)>>), rules)
  BY <1>1, <1>4, PushSound
<1> QED
  BY <1>2, <1>3, <1>4, ContextTyped, Shorts
     DEF LocalGet, LocalSet, LocalTee, GlobalGet, GlobalSet, VisibleGlobal

LEMMA ReturnSound ==
  ASSUME VInv, Return \/ UnknownBlockType  PROVE VInv'
<1>1. UNCHANGED ctx
  BY DEF Return, UnknownBlockType, Running
<1> QED
  BY <1>1, StuckSound, RefuseSound DEF Return, UnknownBlockType

-----------------------------------------------------------------------------
(* Every step, and the theorems.                                           *)

LEMMA StepSound == VInv /\ [Next]_vars => VInv'
<1> SUFFICES ASSUME VInv, [Next]_vars PROVE VInv'
  OBVIOUS
<1>1. CASE UNCHANGED vars
  BY <1>1 DEF vars, VInv, VisitorsSound
<1> QED
  BY <1>1, PlainSound, UnreachableSound, ReturnSound, DropSound, SelectSound, BlocksSound,
     BranchesSound, CallsSound, VariablesSound, EndSound DEF Next

LEMMA InitSound == Init => VInv
<1> SUFFICES ASSUME Init PROVE VInv
  OBVIOUS
<1>1. ctx \in Contexts
  BY DEF Init
<1>2. ctx.results \in Seq(ValueTypes) /\ ctx.labels \in Seq(Seq(ValueTypes))
  BY <1>1, TypesAssumption
<1> DEFINE body == Frame("body", Typing(<<>>, ctx.results))
<1>3. VisitorSound(body)
  BY <1>2, Shorts, TypingSigned, FrameSound
<1>4. frames = <<body>>
  BY DEF Init
<1> HIDE DEF body
<1>5. frames = [i \in 1 .. 0 + 1 |-> frames[i]] /\ \A i \in 1 .. 0 + 1 : VisitorSound(frames[i])
  BY <1>3, <1>4
<1>6. VisitorsSound
  BY <1>5 DEF VisitorsSound
<1> QED
  BY <1>1, <1>2, <1>6 DEF VInv, Init

(* A type variable is only ever the lowest operand, in code that is not      *)
(* reached, and below the number of the next one, whatever expression is     *)
(* validated: select may leave one, and no later instruction buries it.      *)
THEOREM VariablesAlwaysAtBottom == Spec => []VariablesAtBottom
<1>1. VInv => VariablesAtBottom
  <2> SUFFICES ASSUME VInv, NEW i \in DOMAIN frames, NEW j \in DOMAIN frames[i].operands.stack,
                      IsVar(frames[i].operands.stack[j])
               PROVE  /\ j = 1 /\ frames[i].operands.epsilon
                      /\ frames[i].operands.stack[j].id < frames[i].operands.required
    BY DEF VariablesAtBottom
  <2> DEFINE t == frames[i].operands
  <2>1. Sound(t)
    BY AtWork DEF VisitorSound
  <2> HIDE DEF t
  <2>2. /\ DOMAIN t.stack = 1 .. Len(t.stack) /\ t.required \in Nat
        /\ \A k \in 1 .. Len(t.stack) : IsVar(t.stack[k]) =>
             k = 1 /\ t.epsilon /\ t.stack[k].id \in 0 .. t.required - 1
    BY <2>1, StackHeight DEF Sound
  <2>3. j = 1 /\ t.epsilon /\ t.stack[j].id < t.required
    <3>1. j \in DOMAIN t.stack /\ IsVar(t.stack[j])
      BY DEF t
    <3>2. t.stack[j].id \in 0 .. t.required - 1 /\ j = 1 /\ t.epsilon
      BY <2>2, <3>1
    <3> QED
      BY <2>2, <3>2
  <2> QED
    BY <2>3 DEF t
<1> QED
  BY <1>1, InitSound, StepSound, PTL DEF Spec

(* The asserts of drop, local.get and global.get, that the stack accepts     *)
(* what was just looked at or what expects nothing, hold for every expression.*)
THEOREM ValidationNeverAborts == Spec => []NeverAborts
<1>1. VInv => NeverAborts
  BY DEF VInv, NeverAborts
<1> QED
  BY <1>1, InitSound, StepSound, PTL DEF Spec

-----------------------------------------------------------------------------
(***************************************************************************)
(* Validation is the typing rules, for any expression, contexts and types.   *)
(*                                                                         *)
(* A stack of the validator stands for a set of stacks of types, one for    *)
(* each reading of its variable (Tops).  An instruction that expects value     *)
(* types is accepted exactly if one of the readings agrees with it, operand *)
(* by operand (Fits, Agree), and then what is left is the stack that stands *)
(* for what the rule leaves of all the readings that agree (TypedReads).    *)
(* drop and select have a rule for each type, and take what they peek at.    *)
(***************************************************************************)
-----------------------------------------------------------------------------
(* The readings of a stack.                                                *)

\* An element is a variable or a value type.
Clean(t) ==
  \A j \in 1 .. Len(t.stack) :
    IsVar(t.stack[j]) \/ \E v \in ValueTypes : t.stack[j] = Val(v)

Tops(t) ==
  {top \in [1 .. Len(t.stack) -> ValueTypes] :
     \A j \in 1 .. Len(t.stack) : IsVar(t.stack[j]) \/ top[j] = t.stack[j].type}

Reading(o, top) == [open |-> o, top |-> top]

LEMMA TypeOfVal ==
  /\ \A v : Val(v).type = v
  /\ \A v \in ValueTypes : ~IsVar(Val(v))
BY DEF Val, IsVar, ValueTypes, IntTypes, FPTypes

LEMMA ReadingsAreTops ==
  ASSUME NEW t, Sound(t), Clean(t)
  PROVE  Readings(t) = {Reading(t.epsilon, top) : top \in Tops(t)}
<1> DEFINE h == Len(t.stack)
           variables == {e \in {t.stack[i] : i \in DOMAIN t.stack} : IsVar(e)}
           Read(reading) == [i \in DOMAIN t.stack |->
                               IF IsVar(t.stack[i]) THEN reading[t.stack[i]] ELSE t.stack[i].type]
<1>1. /\ h \in Nat /\ DOMAIN t.stack = 1 .. h
      /\ \A j \in 1 .. h : IsVar(t.stack[j]) => j = 1
  BY StackHeight
<1>2. Readings(t) = {Reading(t.epsilon, Read(reading)) : reading \in [variables -> ValueTypes]}
  BY DEF Readings, Reading
<1>3. \A j \in 1 .. h : ~IsVar(t.stack[j]) => t.stack[j].type \in ValueTypes
  BY TypeOfVal DEF Clean
<1>4. ASSUME NEW reading \in [variables -> ValueTypes]  PROVE Read(reading) \in Tops(t)
  <2>1. \A j \in 1 .. h : IsVar(t.stack[j]) => t.stack[j] \in variables
    BY <1>1
  <2> HIDE DEF variables
  <2>2. \A j \in 1 .. h : IsVar(t.stack[j]) => reading[t.stack[j]] \in ValueTypes
    BY <2>1
  <2>3. Read(reading) \in [1 .. h -> ValueTypes]
    BY <1>1, <1>3, <2>2
  <2>4. \A j \in 1 .. h : IsVar(t.stack[j]) \/ Read(reading)[j] = t.stack[j].type
    BY <1>1
  <2> QED
    BY <2>3, <2>4 DEF Tops
<1>5. ASSUME NEW top \in Tops(t)
      PROVE  \E reading \in [variables -> ValueTypes] : Read(reading) = top
  <2>1. /\ top \in [1 .. h -> ValueTypes]
        /\ \A j \in 1 .. h : IsVar(t.stack[j]) \/ top[j] = t.stack[j].type
    BY DEF Tops
  <2>2. PICK v \in ValueTypes : \A j \in 1 .. h : IsVar(t.stack[j]) => top[j] = v
    <3>1. CASE h = 0
      BY <3>1, Named
    <3>2. CASE h # 0
      <4>1. 1 \in 1 .. h /\ top[1] \in ValueTypes
        BY <1>1, <2>1, <3>2
      <4>2. \A j \in 1 .. h : IsVar(t.stack[j]) => top[j] = top[1]
        BY <1>1
      <4> QED
        BY <4>1, <4>2
    <3> QED
      BY <3>1, <3>2
  <2> DEFINE reading == [e \in variables |-> v]
  <2>3. reading \in [variables -> ValueTypes]
    OBVIOUS
  <2>4. \A j \in 1 .. h : IsVar(t.stack[j]) => reading[t.stack[j]] = v
    BY <1>1
  <2> HIDE DEF reading, variables
  <2>5. Read(reading) = [j \in 1 .. h |-> top[j]]
    BY <1>1, <2>1, <2>2, <2>4
  <2>6. Read(reading) = top
    BY <2>1, <2>5
  <2> QED
    BY <2>3, <2>6
<1> HIDE DEF Read, variables
<1> QED
  BY <1>2, <1>4, <1>5

-----------------------------------------------------------------------------
(* One instruction on a stack and its rule on the readings, from the last   *)
(* operand to the first.                                                   *)

\* The expected element e against x, which is on the stack.
Matches(x, e) == IsVar(x) \/ (~IsVar(e) /\ x = e)

\* The last i of the expected elements fit a stack, or the epsilon below it.
Fits(t, ensures, i) ==
  \A k \in 0 .. i - 1 :
    IF k < Len(t.stack) THEN Matches(t.stack[Len(t.stack) - k], ensures[Len(ensures) - k])
                        ELSE t.epsilon

LEMMA EnsureFits ==
  ASSUME NEW t, Sound(t), NEW ensures, NEW i \in Nat, NEW s,
         Consumed(t, Len(t.stack), s, i), s.ok <=> Fits(t, ensures, i)
  PROVE  Ensure(s, ensures[Len(ensures) - i]).ok <=> Fits(t, ensures, i + 1)
<1> DEFINE h == Len(t.stack)
           e == ensures[Len(ensures) - i]
           Fit(k) == IF k < h THEN Matches(t.stack[h - k], ensures[Len(ensures) - k])
                              ELSE t.epsilon
<1>1. h \in Nat /\ t.required \in Nat
  BY StackHeight DEF Sound
<1>2. /\ Fields(s) /\ s.cursor \in 0 .. h /\ s.required \in Nat /\ s.ok \in BOOLEAN
      /\ s.epsilon = t.epsilon
      /\ s.required >= t.required /\ (s.required > t.required => s.cursor = 0)
      /\ s.ok => (h - s.cursor) + (s.required - t.required) = i
  BY DEF Consumed
<1>3. \A j \in 1 .. s.cursor : s.stack[j] = t.stack[j]
  BY DEF Consumed
<1>4. Fits(t, ensures, i + 1) <=> Fits(t, ensures, i) /\ Fit(i)
  <2>1. \A k : k \in 0 .. (i + 1) - 1 <=> k \in 0 .. i - 1 \/ k = i
    OBVIOUS
  <2> HIDE DEF Fit
  <2>2. Fits(t, ensures, i) <=> \A k \in 0 .. i - 1 : Fit(k)
    BY DEF Fits, Fit
  <2>3. Fits(t, ensures, i + 1) <=> \A k \in 0 .. (i + 1) - 1 : Fit(k)
    BY DEF Fits, Fit
  <2> QED
    BY <2>1, <2>2, <2>3
<1> HIDE DEF Fit, h, e
<1>5. CASE ~s.ok
  <2>1. Ensure(s, e) = s
    BY <1>5 DEF Ensure
  <2> QED
    BY <1>4, <1>5, <2>1 DEF e
<1>6. CASE s.ok /\ i < h
  <2>1. s.cursor = h - i /\ s.cursor > 0 /\ s.stack[s.cursor] = t.stack[h - i]
    <3>1. s.cursor = h - i /\ s.cursor \in 1 .. s.cursor
      <4>1. /\ (h - s.cursor) + (s.required - t.required) = i
            /\ s.required \in Nat /\ t.required \in Nat /\ h \in Nat /\ i < h
            /\ s.required >= t.required /\ s.cursor \in 0 .. h
        BY <1>1, <1>2, <1>6
      <4>2. s.required > t.required => s.cursor = 0
        BY <1>2
      <4>3. s.required = t.required
        BY <4>1, <4>2
      <4> QED
        BY <4>1, <4>3
    <3> QED
      BY <1>1, <1>3, <1>6, <3>1
  <2> DEFINE x == s.stack[s.cursor]
  <2>2. Fit(i) <=> Matches(x, e)
    BY <1>6, <2>1 DEF Fit, e
  <2>3. Ensure(s, e).ok <=> Matches(x, e)
    <3>1. CASE IsVar(x)
      <4>1. \E st : Ensure(s, e) = [s EXCEPT !.cursor = s.cursor - 1, !.stack = st]
        BY <1>6, <2>1, <3>1 DEF Ensure
      <4> QED
        BY <1>2, <1>6, <3>1, <4>1, Changed DEF Matches
    <3>2. CASE ~IsVar(x) /\ ~(IsVar(e) \/ x # e)
      <4>1. Ensure(s, e) = [s EXCEPT !.cursor = s.cursor - 1]
        BY <1>6, <2>1, <3>2 DEF Ensure
      <4> QED
        BY <1>2, <1>6, <3>2, <4>1, Changed DEF Matches
    <3>3. CASE ~IsVar(x) /\ (IsVar(e) \/ x # e)
      <4>1. Ensure(s, e) = [s EXCEPT !.ok = FALSE]
        BY <1>6, <2>1, <3>3 DEF Ensure
      <4>2. ~Ensure(s, e).ok
        BY <1>2, <4>1 DEF Fields
      <4> QED
        BY <3>3, <4>2 DEF Matches
    <3> QED
      BY <3>1, <3>2, <3>3
  <2> QED
    BY <1>4, <1>6, <2>2, <2>3 DEF e
<1>7. CASE s.ok /\ ~(i < h)
  <2>1. s.cursor = 0
    BY <1>1, <1>2, <1>7
  <2>2. Fit(i) <=> t.epsilon
    BY <1>7 DEF Fit
  <2>3. Ensure(s, e).ok <=> s.epsilon
    <3>1. CASE s.epsilon
      <4>1. Ensure(s, e) = [s EXCEPT !.required = s.required + 1]
        BY <1>7, <2>1, <3>1 DEF Ensure
      <4> QED
        BY <1>2, <1>7, <3>1, <4>1, Changed
    <3>2. CASE ~s.epsilon
      <4>1. Ensure(s, e) = [s EXCEPT !.ok = FALSE]
        BY <1>7, <2>1, <3>2 DEF Ensure
      <4>2. ~Ensure(s, e).ok
        BY <1>2, <4>1 DEF Fields
      <4> QED
        BY <3>2, <4>2
    <3> QED
      BY <3>1, <3>2
  <2> QED
    BY <1>2, <1>4, <1>7, <2>2, <2>3 DEF e
<1> QED
  BY <1>5, <1>6, <1>7

\* How many elements are left when n were taken from h.
Left(h, n) == IF n <= h THEN h - n ELSE 0

LEMMA EnsuredFits ==
  ASSUME NEW t, Sound(t), NEW ensures, Len(ensures) \in Nat
  PROVE  /\ Ensured(t, ensures).ok <=> Fits(t, ensures, Len(ensures))
         /\ Ensured(t, ensures).ok =>
              Ensured(t, ensures).cursor = Left(Len(t.stack), Len(ensures))
<1> DEFINE n == Len(ensures)
           h == Len(t.stack)
<1>1. PICK f : /\ f[0] = Start(t) /\ Ensured(t, ensures) = f[n]
               /\ \A i \in 0 .. n : i # 0 => f[i] = Ensure(f[i - 1], ensures[n - i + 1])
  BY EnsuredRuns
<1> DEFINE S == {i \in 0 .. n : Consumed(t, h, f[i], i) /\ (f[i].ok <=> Fits(t, ensures, i))}
<1>2. 0 \in S
  <2>1. Consumed(t, h, f[0], 0)
    BY <1>1, StartConsumed
  <2>2. f[0].ok <=> Fits(t, ensures, 0)
    <3>1. Start(t).ok = TRUE
      BY DEF Start
    <3>2. Fits(t, ensures, 0)
      BY DEF Fits
    <3> QED
      BY <1>1, <3>1, <3>2
  <2> QED
    BY <2>1, <2>2
<1>3. \A i \in 0 .. n : i \in S /\ i < n => i + 1 \in S
  <2> SUFFICES ASSUME NEW i \in 0 .. n, i \in S, i < n  PROVE i + 1 \in S
    OBVIOUS
  <2>1. i + 1 \in 0 .. n /\ i + 1 # 0 /\ (i + 1) - 1 = i /\ n - (i + 1) + 1 = n - i
    OBVIOUS
  <2>2. f[i + 1] = Ensure(f[i], ensures[n - i])
    BY <1>1, <2>1
  <2>3. Consumed(t, h, f[i], i) /\ i \in Nat /\ (f[i].ok <=> Fits(t, ensures, i))
    OBVIOUS
  <2>4. Consumed(t, h, f[i + 1], i + 1)
    BY <2>2, <2>3, EnsureConsumes
  <2>5. f[i + 1].ok <=> Fits(t, ensures, i + 1)
    BY <2>2, <2>3, EnsureFits
  <2> QED
    BY <2>1, <2>4, <2>5
<1>4. \A i \in 0 .. n : i \in S
  <2> HIDE DEF S
  <2> QED
    BY <1>2, <1>3, Climbs
<1>5. f[n].ok <=> Fits(t, ensures, n)
  BY <1>4
<1>6. f[n].ok => f[n].cursor = Left(h, n)
  <2>1. /\ f[n].cursor \in 0 .. h /\ f[n].required \in Nat /\ f[n].required >= t.required
        /\ f[n].required > t.required => f[n].cursor = 0
        /\ f[n].ok => (h - f[n].cursor) + (f[n].required - t.required) = n
    BY <1>4 DEF Consumed
  <2>2. h \in Nat /\ t.required \in Nat
    BY StackHeight DEF Sound
  <2> DEFINE c == f[n].cursor
             r == f[n].required
             r0 == t.required
  <2>3. SUFFICES ASSUME f[n].ok  PROVE c = Left(h, n)
    OBVIOUS
  <2>4. /\ c \in 0 .. h /\ r \in Nat /\ r0 \in Nat /\ h \in Nat /\ r >= r0
        /\ r > r0 => c = 0
        /\ (h - c) + (r - r0) = n
    BY <2>1, <2>2, <2>3
  <2> HIDE DEF h, n, S, c, r, r0
  <2> QED
    BY <2>4 DEF Left
<1> QED
  BY <1>1, <1>5, <1>6

\* The same of one stack of types, and what is left of it.
Agree(o, h, top, params) ==
  \A k \in 0 .. Len(params) - 1 :
    IF k < h THEN top[h - k] = params[Len(params) - k] ELSE o
Rest(top, c) == [j \in 1 .. c |-> top[j]]

LEMMA Segment ==
  ASSUME NEW V, NEW h \in Nat, NEW top \in [1 .. h -> V], NEW a \in Nat, a <= h
  PROVE  /\ Len(top) = h
         /\ SubSeq(top, a + 1, h) = [i \in 1 .. h - a |-> top[a + i]]
         /\ SubSeq(top, 1, a) = Rest(top, a)
<1>1. top \in Seq(V) /\ Len(top) = h
  OBVIOUS
<1>2. SubSeq(top, a + 1, h) = [i \in 1 .. h - a |-> top[a + i]]
  <2> DEFINE end == SubSeq(top, a + 1, h)
  <2>1. end \in Seq(V) /\ Len(end) = h - a
    BY <1>1
  <2>2. ASSUME NEW i \in 1 .. h - a  PROVE end[i] = top[a + i]
    BY <1>1
  <2>3. end = [i \in 1 .. h - a |-> end[i]]
    <3> HIDE DEF end
    <3> QED
      BY <2>1
  <2> HIDE DEF end
  <2>4. end = [i \in 1 .. h - a |-> top[a + i]]
    BY <2>2, <2>3
  <2> QED
    BY <2>4 DEF end
<1>3. SubSeq(top, 1, a) = [i \in 1 .. a |-> top[i]]
  BY <1>1
<1> QED
  BY <1>1, <1>2, <1>3 DEF Rest

SameEnd(h, top, n, e) == \A k \in 0 .. n - 1 : top[h - k] = e[n - k]

LEMMA EndsPointwise ==
  ASSUME NEW h \in Nat, NEW top \in [1 .. h -> ValueTypes],
         NEW n \in Nat, NEW e \in [1 .. n -> ValueTypes]
  PROVE  EndsWith(top, e) <=> n <= h /\ SameEnd(h, top, n, e)
<1>1. Len(top) = h /\ Len(e) = n
  OBVIOUS
<1>2. EndsWith(top, e) <=> n <= h /\ SubSeq(top, h - n + 1, h) = e
  BY <1>1 DEF EndsWith
<1>3. ASSUME n <= h
      PROVE  SubSeq(top, h - n + 1, h) = e <=> \A k \in 0 .. n - 1 : top[h - k] = e[n - k]
  <2>1. h - n \in Nat /\ h - n <= h /\ h - (h - n) = n
    BY <1>3
  <2>2. SubSeq(top, h - n + 1, h) = [i \in 1 .. n |-> top[h - n + i]]
    BY <2>1, Segment
  <2>3. SubSeq(top, h - n + 1, h) = e <=> \A i \in 1 .. n : top[h - n + i] = e[i]
    BY <2>2
  <2>4. (\A i \in 1 .. n : top[h - n + i] = e[i])
          <=> \A k \in 0 .. n - 1 : top[h - k] = e[n - k]
    <3>1. ASSUME \A i \in 1 .. n : top[h - n + i] = e[i], NEW k \in 0 .. n - 1
          PROVE  top[h - k] = e[n - k]
      <4>1. n - k \in 1 .. n /\ h - n + (n - k) = h - k
        BY <1>3
      <4> QED
        BY <3>1, <4>1
    <3>2. ASSUME \A k \in 0 .. n - 1 : top[h - k] = e[n - k], NEW i \in 1 .. n
          PROVE  top[h - n + i] = e[i]
      <4>1. n - i \in 0 .. n - 1 /\ h - (n - i) = h - n + i /\ n - (n - i) = i
        BY <1>3
      <4> QED
        BY <3>2, <4>1
    <3> QED
      BY <3>1, <3>2
  <2> QED
    BY <2>3, <2>4
<1> QED
  BY <1>2, <1>3 DEF SameEnd

LEMMA UnderAgrees ==
  ASSUME NEW o \in BOOLEAN, NEW h \in Nat, NEW top \in [1 .. h -> ValueTypes],
         NEW params \in Seq(ValueTypes)
  PROVE  Under(Reading(o, top), params) =
           IF Agree(o, h, top, params) THEN {Reading(o, Rest(top, Left(h, Len(params))))} ELSE {}
<1> DEFINE n == Len(params)
           s == Reading(o, top)
<1>1. n \in Nat /\ params \in [1 .. n -> ValueTypes] /\ Len(top) = h
  OBVIOUS
<1>2. s.open = o /\ s.top = top /\ \A x : [s EXCEPT !.top = x] = Reading(o, x)
  BY DEF Reading
<1> HIDE DEF n, s
<1>3. EndsWith(top, params) <=> n <= h /\ \A k \in 0 .. n - 1 : top[h - k] = params[n - k]
  <2>1. EndsWith(top, params) <=> n <= h /\ SameEnd(h, top, n, params)
    BY <1>1, EndsPointwise
  <2> QED
    BY <2>1 DEF SameEnd
<1>4. EndsWith(params, top) <=> h <= n /\ \A k \in 0 .. h - 1 : params[n - k] = top[h - k]
  <2>1. EndsWith(params, top) <=> h <= n /\ SameEnd(n, params, h, top)
    BY <1>1, EndsPointwise
  <2> QED
    BY <2>1 DEF SameEnd
<1>5. Agree(o, h, top, params) <=>
        \A k \in 0 .. n - 1 : IF k < h THEN top[h - k] = params[n - k] ELSE o
  BY DEF Agree, n
<1>6. CASE n <= h
  <2>1. Agree(o, h, top, params) <=> EndsWith(top, params)
    <3>1. \A k \in 0 .. n - 1 : k < h
      BY <1>1, <1>6
    <3> QED
      BY <1>3, <1>5, <1>6, <3>1
  <2>2. EndsWith(params, top) => EndsWith(top, params)
    <3>1. h <= n => n = h
      BY <1>1, <1>6
    <3> QED
      BY <1>3, <1>4, <1>6, <3>1
  <2>3. SubSeq(top, 1, h - n) = Rest(top, h - n) /\ Left(h, n) = h - n
    <3>1. h - n \in Nat /\ h - n <= h
      BY <1>1, <1>6
    <3> QED
      BY <1>6, <3>1, Segment, ZenonT(60) DEF Left
  <2>4. Under(s, params) = IF EndsWith(top, params) THEN {Reading(o, SubSeq(top, 1, h - n))} ELSE {}
    <3>1. [s EXCEPT !.top = SubSeq(@, 1, Len(@) - Len(params))] = Reading(o, SubSeq(top, 1, h - n))
      BY <1>1, <1>2 DEF n
    <3> QED
      BY <1>2, <2>2, <3>1 DEF Under
  <2> QED
    BY <2>1, <2>3, <2>4 DEF s, n
<1>7. CASE ~(n <= h)
  <2>1. Agree(o, h, top, params) <=> o /\ EndsWith(params, top)
    <3>1. h \in 0 .. n - 1 /\ ~(h < h) /\ h <= n /\ 0 .. h - 1 \subseteq 0 .. n - 1
      BY <1>1, <1>7
    <3>2. \A k \in 0 .. n - 1 : k < h <=> k \in 0 .. h - 1
      BY <1>1
    <3> QED
      BY <1>4, <1>5, <3>1, <3>2
  <2>2. ~EndsWith(top, params) /\ Left(h, n) = 0
    BY <1>3, <1>7 DEF Left
  <2>3. Rest(top, 0) = <<>>
    BY DEF Rest
  <2>4. Under(s, params) = IF o /\ EndsWith(params, top) THEN {Reading(o, <<>>)} ELSE {}
    BY <1>2, <2>2 DEF Under
  <2> QED
    BY <2>1, <2>2, <2>3, <2>4 DEF s, n
<1> QED
  BY <1>6, <1>7

-----------------------------------------------------------------------------
(* What the rules leave of all the readings of a stack.                    *)

Agreeing(t, params) == {top \in Tops(t) : Agree(t.epsilon, Len(t.stack), top, params)}

LEMMA JoinedRest ==
  ASSUME NEW h \in Nat, NEW top \in [1 .. h -> ValueTypes], NEW c \in Nat, c <= h,
         NEW results \in Seq(ValueTypes)
  PROVE  Rest(top, c) \o results = Join(top, c, results, Len(results))
<1>1. Row(top, h) /\ Row(results, Len(results)) /\ Len(results) \in Nat
  BY DEF Row
<1>2. Onto(top, c, results) = Join(top, c, results, Len(results))
  BY <1>1, Joined
<1>3. SubSeq(top, 1, c) = Rest(top, c)
  BY Segment, ZenonT(60)
<1> QED
  BY <1>2, <1>3 DEF Onto

LEMMA LeftBelow ==
  ASSUME NEW h \in Nat, NEW n \in Nat  PROVE Left(h, n) \in Nat /\ Left(h, n) <= h
BY DEF Left

LEMMA ReadingChanged ==
  \A o, top, results : [Reading(o, top) EXCEPT !.top = @ \o results] = Reading(o, top \o results)
<1> SUFFICES ASSUME NEW o, NEW top, NEW results
             PROVE  [Reading(o, top) EXCEPT !.top = @ \o results] = Reading(o, top \o results)
  OBVIOUS
<1>1. \A y : [Reading(o, top) EXCEPT !.top = y] = Reading(o, y) /\ Reading(o, top).top = top
  BY DEF Reading
<1> DEFINE joined == top \o results
<1>2. [Reading(o, top) EXCEPT !.top = @ \o results] = [Reading(o, top) EXCEPT !.top = joined]
  BY <1>1
<1> HIDE DEF joined
<1>3. [Reading(o, top) EXCEPT !.top = joined] = Reading(o, joined)
  BY <1>1
<1> QED
  BY <1>2, <1>3 DEF joined

LEMMA AfterAgrees ==
  ASSUME NEW o \in BOOLEAN, NEW h \in Nat, NEW top \in [1 .. h -> ValueTypes],
         NEW params \in Seq(ValueTypes), NEW results \in Seq(ValueTypes)
  PROVE  /\ After(Reading(o, top), Rule(params, results)) =
              IF Agree(o, h, top, params)
              THEN {Reading(o, Join(top, Left(h, Len(params)), results, Len(results)))} ELSE {}
         /\ After(Reading(o, top), StuckRule(params)) =
              IF Agree(o, h, top, params) THEN {Reading(TRUE, <<>>)} ELSE {}
<1> DEFINE c == Left(h, Len(params))
           under == Under(Reading(o, top), params)
<1>1. c \in Nat /\ c <= h
  <2>1. Len(params) \in Nat
    OBVIOUS
  <2> QED
    BY <2>1, LeftBelow
<1>2. under = IF Agree(o, h, top, params) THEN {Reading(o, Rest(top, c))} ELSE {}
  BY UnderAgrees
<1>3. Rest(top, c) \o results = Join(top, c, results, Len(results))
  BY <1>1, JoinedRest
<1>4. [Reading(o, Rest(top, c)) EXCEPT !.top = @ \o results] = Reading(o, Rest(top, c) \o results)
  BY ReadingChanged
<1>5. After(Reading(o, top), Rule(params, results)) = {[u EXCEPT !.top = @ \o results] : u \in under}
  BY DEF After, Rule
<1>6. After(Reading(o, top), StuckRule(params)) = {Reading(TRUE, <<>>) : u \in under}
  BY DEF After, StuckRule, Reading
<1> HIDE DEF c, under
<1>7. CASE Agree(o, h, top, params)
  <2>1. under = {Reading(o, Rest(top, c))}
    BY <1>2, <1>7
  <2>2. After(Reading(o, top), Rule(params, results)) = {Reading(o, Rest(top, c) \o results)}
    BY <1>4, <1>5, <2>1
  <2>3. After(Reading(o, top), StuckRule(params)) = {Reading(TRUE, <<>>)}
    BY <1>6, <2>1
  <2> QED
    BY <1>3, <1>7, <2>2, <2>3 DEF c
<1>8. CASE ~Agree(o, h, top, params)
  BY <1>2, <1>5, <1>6, <1>8
<1> QED
  BY <1>7, <1>8

LEMMA DerivedFrom ==
  ASSUME NEW t, Sound(t), Clean(t), NEW rule, NEW x
  PROVE  x \in Derive(Readings(t), {rule})
           <=> \E top \in Tops(t) : x \in After(Reading(t.epsilon, top), rule)
<1>1. Readings(t) = {Reading(t.epsilon, top) : top \in Tops(t)}
  BY ReadingsAreTops
<1>2. x \in Derive(Readings(t), {rule}) <=> \E s \in Readings(t) : x \in After(s, rule)
  BY DEF Derive
<1> QED
  BY <1>1, <1>2

Leaving(t, params, results) ==
  {Reading(t.epsilon, Join(top, Left(Len(t.stack), Len(params)), results, Len(results))) :
     top \in Agreeing(t, params)}

LEMMA DeriveRule ==
  ASSUME NEW t, Sound(t), Clean(t), NEW params \in Seq(ValueTypes), NEW results \in Seq(ValueTypes)
  PROVE  /\ Derive(Readings(t), {Rule(params, results)}) = Leaving(t, params, results)
         /\ Derive(Readings(t), {StuckRule(params)}) =
              {Reading(TRUE, <<>>) : top \in Agreeing(t, params)}
<1> DEFINE h == Len(t.stack)
           Joint(top) == Join(top, Left(h, Len(params)), results, Len(results))
<1>1. h \in Nat /\ t.epsilon \in BOOLEAN
  BY StackHeight DEF Sound
<1>2. \A top \in Tops(t) : top \in [1 .. h -> ValueTypes]
  BY DEF Tops
<1>3. \A top \in Tops(t) :
        /\ After(Reading(t.epsilon, top), Rule(params, results)) =
             IF Agree(t.epsilon, h, top, params) THEN {Reading(t.epsilon, Joint(top))} ELSE {}
        /\ After(Reading(t.epsilon, top), StuckRule(params)) =
             IF Agree(t.epsilon, h, top, params) THEN {Reading(TRUE, <<>>)} ELSE {}
  BY <1>1, <1>2, AfterAgrees
<1>4. \A top : top \in Agreeing(t, params) <=> top \in Tops(t) /\ Agree(t.epsilon, h, top, params)
  BY DEF Agreeing
<1> HIDE DEF Joint, h
<1>5. \A x : x \in Derive(Readings(t), {Rule(params, results)})
               <=> x \in {Reading(t.epsilon, Joint(top)) : top \in Agreeing(t, params)}
  <2> TAKE x
  <2>1. x \in Derive(Readings(t), {Rule(params, results)})
          <=> \E top \in Tops(t) : x \in After(Reading(t.epsilon, top), Rule(params, results))
    <3> DEFINE rule == Rule(params, results)
    <3> HIDE DEF rule
    <3>1. x \in Derive(Readings(t), {rule})
            <=> \E top \in Tops(t) : x \in After(Reading(t.epsilon, top), rule)
      BY DerivedFrom
    <3> QED
      BY <3>1 DEF rule
  <2> QED
    BY <1>3, <1>4, <2>1
<1>6. \A x : x \in Derive(Readings(t), {StuckRule(params)})
               <=> x \in {Reading(TRUE, <<>>) : top \in Agreeing(t, params)}
  <2> TAKE x
  <2>1. x \in Derive(Readings(t), {StuckRule(params)})
          <=> \E top \in Tops(t) : x \in After(Reading(t.epsilon, top), StuckRule(params))
    <3> DEFINE rule == StuckRule(params)
    <3> HIDE DEF rule
    <3>1. x \in Derive(Readings(t), {rule})
            <=> \E top \in Tops(t) : x \in After(Reading(t.epsilon, top), rule)
      BY DerivedFrom
    <3> QED
      BY <3>1 DEF rule
  <2> QED
    BY <1>3, <1>4, <2>1
<1>7. Derive(Readings(t), {Rule(params, results)}) =
        {Reading(t.epsilon, Joint(top)) : top \in Agreeing(t, params)}
  BY <1>5
<1>8. Derive(Readings(t), {StuckRule(params)}) =
        {Reading(TRUE, <<>>) : top \in Agreeing(t, params)}
  BY <1>6
<1> QED
  BY <1>7, <1>8 DEF Joint, h, Leaving

-----------------------------------------------------------------------------
(* A whole instruction, against its rule.                                  *)

LEMMA Expected ==
  ASSUME NEW params \in Seq(ValueTypes)
  PROVE  /\ Len(params) \in Nat /\ Len(Vals(params)) = Len(params)
         /\ \A k \in 0 .. Len(params) - 1 :
              /\ params[Len(params) - k] \in ValueTypes
              /\ Vals(params)[Len(params) - k] = Val(params[Len(params) - k])
         /\ \A j \in 1 .. Len(params) : params[j] \in ValueTypes /\ Vals(params)[j] = Val(params[j])
<1> DEFINE n == Len(params)
<1>1. n \in Nat /\ Len(Vals(params)) = n /\ DOMAIN params = 1 .. n
  BY Promised
<1>2. \A j \in 1 .. n : params[j] \in ValueTypes /\ Vals(params)[j] = Val(params[j])
  BY <1>1 DEF Vals
<1>3. \A k \in 0 .. n - 1 : n - k \in 1 .. n
  BY <1>1
<1> HIDE DEF n
<1>4. \A k \in 0 .. n - 1 : params[n - k] \in ValueTypes /\ Vals(params)[n - k] = Val(params[n - k])
  BY <1>2, <1>3
<1> QED
  BY <1>1, <1>2, <1>4 DEF n

\* An instruction fits exactly if some reading of the stack agrees with it.
LEMMA FitsAgree ==
  ASSUME NEW t, Sound(t), Clean(t), NEW params \in Seq(ValueTypes)
  PROVE  Fits(t, Vals(params), Len(params)) <=> Agreeing(t, params) # {}
<1> DEFINE h == Len(t.stack)
           n == Len(params)
           es == Vals(params)
           Here(k) == IF k < h THEN Matches(t.stack[h - k], es[n - k]) ELSE t.epsilon
<1>1. h \in Nat /\ n \in Nat
  BY StackHeight, Expected
<1>2. \A k \in 0 .. n - 1 : params[n - k] \in ValueTypes /\ es[n - k] = Val(params[n - k])
  BY Expected
<1>3. \A k \in 0 .. n - 1 : ~IsVar(es[n - k]) /\ es[n - k].type = params[n - k]
  BY <1>2, TypeOfVal
<1>4. Fits(t, es, n) <=> \A k \in 0 .. n - 1 : Here(k)
  <2>1. Len(es) = n
    BY Expected
  <2> QED
    BY <2>1 DEF Fits
<1>5. \A j \in 1 .. h : IsVar(t.stack[j]) \/ \E v \in ValueTypes : t.stack[j] = Val(v)
  BY DEF Clean
<1>6. \A j \in 1 .. h : ~IsVar(t.stack[j]) =>
        t.stack[j].type \in ValueTypes /\ t.stack[j] = Val(t.stack[j].type)
  BY <1>5, TypeOfVal
<1>7. \A k \in 0 .. n - 1 : k < h => h - k \in 1 .. h /\ h - (h - k) = k
  BY <1>1
<1>8. \A top : top \in Agreeing(t, params)
        <=> /\ top \in [1 .. h -> ValueTypes]
            /\ \A j \in 1 .. h : IsVar(t.stack[j]) \/ top[j] = t.stack[j].type
            /\ \A k \in 0 .. n - 1 : IF k < h THEN top[h - k] = params[n - k] ELSE t.epsilon
  BY DEF Agreeing, Tops, Agree
<1> HIDE DEF h, n, es
<1>9. ASSUME NEW top \in Agreeing(t, params), NEW k \in 0 .. n - 1  PROVE Here(k)
  <2>1. CASE k < h
    <3>1. h - k \in 1 .. h /\ top[h - k] = params[n - k]
      BY <1>7, <1>8, <2>1
    <3>2. IsVar(t.stack[h - k]) \/ top[h - k] = t.stack[h - k].type
      BY <1>8, <3>1
    <3>3. ~IsVar(t.stack[h - k]) => t.stack[h - k] = es[n - k]
      BY <1>2, <1>6, <3>1, <3>2
    <3> QED
      BY <1>3, <2>1, <3>3 DEF Matches
  <2>2. CASE ~(k < h)
    BY <1>8, <2>2
  <2> QED
    BY <2>1, <2>2
<1>10. ASSUME \A k \in 0 .. n - 1 : Here(k)  PROVE Agreeing(t, params) # {}
  <2> DEFINE top == [j \in 1 .. h |-> IF ~IsVar(t.stack[j]) THEN t.stack[j].type
                                      ELSE IF h - j \in 0 .. n - 1 THEN params[n - (h - j)]
                                      ELSE "I32"]
  <2>1. top \in [1 .. h -> ValueTypes]
    BY <1>2, <1>6, Named
  <2>2. \A j \in 1 .. h : IsVar(t.stack[j]) \/ top[j] = t.stack[j].type
    OBVIOUS
  <2>3. ASSUME NEW k \in 0 .. n - 1, k < h  PROVE top[h - k] = params[n - k]
    <3>1. h - k \in 1 .. h /\ h - (h - k) = k
      BY <1>7, <2>3
    <3>2. CASE IsVar(t.stack[h - k])
      BY <3>1, <3>2
    <3>3. CASE ~IsVar(t.stack[h - k])
      <4>1. t.stack[h - k] = es[n - k]
        BY <1>10, <2>3, <3>3 DEF Matches
      <4>2. top[h - k] = t.stack[h - k].type
        BY <3>1, <3>3
      <4> QED
        BY <1>3, <4>1, <4>2
    <3> QED
      BY <3>2, <3>3
  <2>4. \A k \in 0 .. n - 1 : ~(k < h) => t.epsilon
    BY <1>10
  <2> HIDE DEF top
  <2>5. top \in Agreeing(t, params)
    BY <1>8, <2>1, <2>2, <2>3, <2>4
  <2> QED
    BY <2>5
<1>11. Fits(t, es, n) <=> Agreeing(t, params) # {}
  <2> HIDE DEF Here
  <2> QED
    BY <1>4, <1>9, <1>10
<1> QED
  BY <1>11 DEF es, n

\* The stack it leaves when it fits.
LEMMA TypedLeaves ==
  ASSUME NEW t, Sound(t), NEW ensures, Len(ensures) \in Nat,
         NEW m \in Nat, NEW promises, Row(promises, m), Ensured(t, ensures).ok
  PROVE  LET c == Left(Len(t.stack), Len(ensures))
             to == TypeStack(t, ensures, promises).to
         IN  /\ to.epsilon = t.epsilon /\ Len(to.stack) = c + m /\ DOMAIN to.stack = 1 .. c + m
             /\ \A j \in 1 .. c + m : to.stack[j] = IF j <= c THEN t.stack[j] ELSE promises[j - c]
<1> DEFINE h == Len(t.stack)
           end == Ensured(t, ensures)
           c == Left(h, Len(ensures))
           to == TypeStack(t, ensures, promises).to
<1>1. h \in Nat /\ c \in Nat /\ c <= h
  BY StackHeight, LeftBelow
<1>2. end.cursor = c
  BY EnsuredFits
<1>3. /\ end.epsilon = t.epsilon /\ Row(end.stack, h)
      /\ \A j \in 1 .. end.cursor : end.stack[j] = t.stack[j]
  BY Consumes DEF Consumed
<1>4. to.epsilon = end.epsilon /\ to.stack = Onto(end.stack, end.cursor, promises)
  BY DEF TypeStack, Onto
<1> HIDE DEF end, to, c, h
<1>5. to.stack = Join(end.stack, c, promises, m)
  <2> DEFINE row == end.stack
  <2>1. Row(row, h)
    BY <1>3
  <2> HIDE DEF row
  <2>2. Onto(row, c, promises) = Join(row, c, promises, m)
    BY <1>1, <2>1, Joined
  <2> QED
    BY <1>2, <1>4, <2>2 DEF row
<1>6. to.stack = [j \in 1 .. c + m |-> IF j <= c THEN end.stack[j] ELSE promises[j - c]]
  BY <1>5 DEF Join
<1>7. DOMAIN to.stack = 1 .. c + m /\ Len(to.stack) = c + m
  BY <1>1, <1>6
<1>8. \A j \in 1 .. c + m : to.stack[j] = IF j <= c THEN t.stack[j] ELSE promises[j - c]
  BY <1>1, <1>2, <1>3, <1>6
<1> QED
  BY <1>3, <1>4, <1>7, <1>8 DEF to, c, h

\* All that was on the stack was taken.
LEMMA OnlyPromises ==
  ASSUME NEW t, Sound(t), NEW ensures, Len(ensures) \in Nat,
         NEW m \in Nat, NEW promises, Row(promises, m), Ensured(t, ensures).ok,
         Len(t.stack) <= Len(ensures)
  PROVE  /\ TypeStack(t, ensures, promises).to.epsilon = t.epsilon
         /\ Len(TypeStack(t, ensures, promises).to.stack) = m
         /\ \A j \in 1 .. m : TypeStack(t, ensures, promises).to.stack[j] = promises[j]
<1> DEFINE to == TypeStack(t, ensures, promises).to
           c == Left(Len(t.stack), Len(ensures))
<1>1. c = 0
  BY StackHeight DEF Left
<1>2. /\ to.epsilon = t.epsilon /\ Len(to.stack) = c + m
      /\ \A j \in 1 .. c + m : to.stack[j] = IF j <= c THEN t.stack[j] ELSE promises[j - c]
  BY TypedLeaves
<1> HIDE DEF to, c
<1>3. Len(to.stack) = m /\ \A j \in 1 .. m : to.stack[j] = promises[j]
  BY <1>1, <1>2
<1> QED
  BY <1>2, <1>3 DEF to

LEMMA NothingLeft ==
  ASSUME NEW t, Sound(t), NEW ensures, Len(ensures) \in Nat, Ensured(t, ensures).ok,
         Len(t.stack) <= Len(ensures)
  PROVE  /\ TypeStack(t, ensures, <<>>).to.epsilon = t.epsilon
         /\ Len(TypeStack(t, ensures, <<>>).to.stack) = 0
<1> DEFINE none == <<>>
           zero == 0
<1>1. Row(none, zero) /\ zero \in Nat
  BY NoPromise
<1> HIDE DEF none, zero
<1>2. /\ TypeStack(t, ensures, none).to.epsilon = t.epsilon
      /\ Len(TypeStack(t, ensures, none).to.stack) = zero
  BY <1>1, OnlyPromises
<1> QED
  BY <1>2 DEF none, zero

LEMMA JoinedTops ==
  ASSUME NEW t, Sound(t), Clean(t), NEW params \in Seq(ValueTypes), NEW results \in Seq(ValueTypes),
         NEW to, Agreeing(t, params) # {},
         LET c == Left(Len(t.stack), Len(params))
             m == Len(results)
         IN  /\ Len(to.stack) = c + m
             /\ \A j \in 1 .. c + m : to.stack[j] = IF j <= c THEN t.stack[j] ELSE Val(results[j - c])
  PROVE  Tops(to) = {Join(top, Left(Len(t.stack), Len(params)), results, Len(results)) :
                       top \in Agreeing(t, params)}
<1> DEFINE h == Len(t.stack)
           n == Len(params)
           m == Len(results)
           c == Left(h, n)
           Joint(top) == Join(top, c, results, m)
<1>1. /\ h \in Nat /\ n \in Nat /\ m \in Nat /\ c \in Nat /\ c <= h
      /\ c = IF n <= h THEN h - n ELSE 0
  BY StackHeight, Expected, LeftBelow DEF Left
<1>2. \A j \in 1 .. m : results[j] \in ValueTypes
  BY Expected
<1>3. \A top : top \in Agreeing(t, params)
        <=> /\ top \in [1 .. h -> ValueTypes]
            /\ \A j \in 1 .. h : IsVar(t.stack[j]) \/ top[j] = t.stack[j].type
            /\ \A k \in 0 .. n - 1 : IF k < h THEN top[h - k] = params[n - k] ELSE t.epsilon
  BY DEF Agreeing, Tops, Agree
<1>4. \A u : u \in Tops(to)
        <=> /\ u \in [1 .. c + m -> ValueTypes]
            /\ \A j \in 1 .. c + m : IsVar(to.stack[j]) \/ u[j] = to.stack[j].type
  BY DEF Tops
<1>5. \A j \in 1 .. c + m : to.stack[j] = IF j <= c THEN t.stack[j] ELSE Val(results[j - c])
  OBVIOUS
<1>6. \A top : Joint(top) = [j \in 1 .. c + m |-> IF j <= c THEN top[j] ELSE results[j - c]]
  BY DEF Join
<1>7. \A j \in 1 .. c + m : ~(j <= c) => j - c \in 1 .. m
  BY <1>1
<1>8. PICK a : a \in Agreeing(t, params)
  OBVIOUS
<1> HIDE DEF h, n, m, c, Joint
<1>9. \A j \in 1 .. c + m : ~(j <= c) =>
        ~IsVar(to.stack[j]) /\ to.stack[j].type = results[j - c] /\ results[j - c] \in ValueTypes
  BY <1>2, <1>5, <1>7, TypeOfVal
<1>10. \A j \in 1 .. c + m : j <= c => j \in 1 .. h /\ to.stack[j] = t.stack[j]
  BY <1>1, <1>5
<1>11. ASSUME NEW top \in Agreeing(t, params)  PROVE Joint(top) \in Tops(to)
  <2>1. \A j \in 1 .. c + m : j <= c => top[j] \in ValueTypes
    BY <1>3, <1>10
  <2>2. Joint(top) \in [1 .. c + m -> ValueTypes]
    BY <1>6, <1>9, <2>1
  <2>3. ASSUME NEW j \in 1 .. c + m  PROVE IsVar(to.stack[j]) \/ Joint(top)[j] = to.stack[j].type
    <3>1. CASE j <= c
      <4>1. j \in 1 .. h /\ to.stack[j] = t.stack[j] /\ Joint(top)[j] = top[j]
        BY <1>6, <1>10, <3>1
      <4> QED
        BY <1>3, <4>1
    <3>2. CASE ~(j <= c)
      BY <1>6, <1>9, <3>2
    <3> QED
      BY <3>1, <3>2
  <2> QED
    BY <1>4, <2>2, <2>3
<1>12. ASSUME NEW u \in Tops(to)  PROVE \E top \in Agreeing(t, params) : Joint(top) = u
  <2> DEFINE top == [j \in 1 .. h |-> IF j <= c THEN u[j] ELSE a[j]]
  <2>0. \A j \in 1 .. c : j \in 1 .. c + m /\ j <= c
    BY <1>1
  <2>1. \A j \in 1 .. h : j <= c => j \in 1 .. c
    BY <1>1
  <2>2. top \in [1 .. h -> ValueTypes]
    <3>1. \A j \in 1 .. h : j <= c => u[j] \in ValueTypes
      BY <1>4, <2>0, <2>1
    <3>2. \A j \in 1 .. h : a[j] \in ValueTypes
      BY <1>3, <1>8
    <3> QED
      BY <3>1, <3>2
  <2>3. ASSUME NEW j \in 1 .. h  PROVE IsVar(t.stack[j]) \/ top[j] = t.stack[j].type
    <3>1. CASE j <= c
      <4>1. j \in 1 .. c + m /\ to.stack[j] = t.stack[j] /\ top[j] = u[j]
        BY <1>10, <2>0, <2>1, <3>1
      <4> QED
        BY <1>4, <4>1
    <3>2. CASE ~(j <= c)
      BY <1>3, <1>8, <3>2
    <3> QED
      BY <3>1, <3>2
  <2>4. \A k \in 0 .. n - 1 : k < h => h - k \in 1 .. h /\ ~(h - k <= c)
    BY <1>1
  <2>5. \A k \in 0 .. n - 1 : IF k < h THEN top[h - k] = params[n - k] ELSE t.epsilon
    <3>1. \A k \in 0 .. n - 1 : k < h => top[h - k] = a[h - k]
      BY <2>4
    <3> HIDE DEF top
    <3> QED
      BY <1>3, <1>8, <3>1
  <2>6. Joint(top) = u
    <3>1. u = [j \in 1 .. c + m |-> u[j]]
      BY <1>4
    <3>2. \A j \in 1 .. c + m : j <= c => top[j] = u[j]
      BY <1>10
    <3>3. \A j \in 1 .. c + m : ~(j <= c) => u[j] = results[j - c]
      BY <1>4, <1>9
    <3> HIDE DEF top
    <3>4. \A j \in 1 .. c + m : (IF j <= c THEN top[j] ELSE results[j - c]) = u[j]
      BY <3>2, <3>3
    <3> QED
      BY <1>6, <3>1, <3>4
  <2> HIDE DEF top
  <2>7. top \in Agreeing(t, params)
    BY <1>3, <2>2, <2>3, <2>5
  <2> QED
    BY <2>6, <2>7
<1>13. Tops(to) = {Joint(top) : top \in Agreeing(t, params)}
  BY <1>11, <1>12
<1> QED
  BY <1>13 DEF h, n, m, c, Joint

\* An instruction of value types is accepted exactly if its rule gives the readings
\* a type, and then leaves a stack that stands for what the rule leaves.
LEMMA TypedReads ==
  ASSUME NEW t, Sound(t), Clean(t), NEW params \in Seq(ValueTypes), NEW results \in Seq(ValueTypes)
  PROVE  LET r == TypeStack(t, Vals(params), Vals(results))
             derived == Derive(Readings(t), {Rule(params, results)})
         IN  /\ r.ok <=> derived # {}
             /\ r.ok => Clean(r.to) /\ Readings(r.to) = derived
<1> DEFINE r == TypeStack(t, Vals(params), Vals(results))
           to == r.to
           h == Len(t.stack)
           n == Len(params)
           m == Len(results)
           c == Left(h, n)
           derived == Derive(Readings(t), {Rule(params, results)})
           Joint(top) == Join(top, c, results, m)
<1>1. /\ h \in Nat /\ n \in Nat /\ m \in Nat /\ c \in Nat /\ c <= h /\ Len(Vals(params)) = n
      /\ Row(Vals(results), m)
  BY StackHeight, Expected, Promised, LeftBelow
<1>2. r.ok <=> Agreeing(t, params) # {}
  <2>1. r.ok <=> Fits(t, Vals(params), n)
    BY <1>1, EnsuredFits DEF TypeStack
  <2> QED
    BY <2>1, FitsAgree
<1>3. derived = {Reading(t.epsilon, Joint(top)) : top \in Agreeing(t, params)}
  <2>1. derived = Leaving(t, params, results)
    BY DeriveRule
  <2> QED
    BY <2>1 DEF Leaving
<1>4. derived # {} <=> Agreeing(t, params) # {}
  <2> HIDE DEF derived, Joint
  <2> QED
    BY <1>3
<1>5. ASSUME r.ok  PROVE Clean(to) /\ Readings(to) = derived
  <2>1. /\ to.epsilon = t.epsilon /\ Len(to.stack) = c + m
        /\ \A j \in 1 .. c + m : to.stack[j] = IF j <= c THEN t.stack[j] ELSE Vals(results)[j - c]
    <3>1. Ensured(t, Vals(params)).ok
      BY <1>5 DEF TypeStack
    <3> QED
      BY <1>1, <3>1, TypedLeaves
  <2>2. \A j \in 1 .. m : results[j] \in ValueTypes /\ Vals(results)[j] = Val(results[j])
    BY Expected
  <2>3. Sound(to)
    BY TypedSound
  <2>4. \A j \in 1 .. h : IsVar(t.stack[j]) \/ \E v \in ValueTypes : t.stack[j] = Val(v)
    BY DEF Clean
  <2> HIDE DEF to, r, h, n, m, c, derived
  <2>5. \A j \in 1 .. c + m : IF j <= c THEN j \in 1 .. h ELSE j - c \in 1 .. m
    BY <1>1
  <2>6. \A j \in 1 .. c + m : to.stack[j] = IF j <= c THEN t.stack[j] ELSE Val(results[j - c])
    BY <2>1, <2>2, <2>5
  <2>7. \A j \in 1 .. c + m : IsVar(to.stack[j]) \/ \E v \in ValueTypes : to.stack[j] = Val(v)
    BY <2>2, <2>4, <2>5, <2>6
  <2>8. Clean(to)
    BY <2>1, <2>7 DEF Clean
  <2>9. Tops(to) = {Joint(top) : top \in Agreeing(t, params)}
    BY <1>2, <1>5, <2>1, <2>6, JoinedTops DEF c, m, h, n
  <2>10. Readings(to) = {Reading(to.epsilon, u) : u \in Tops(to)}
    BY <2>3, <2>8, ReadingsAreTops
  <2> HIDE DEF Joint
  <2>11. Readings(to) = derived
    BY <1>3, <2>1, <2>9, <2>10
  <2> QED
    BY <2>8, <2>11
<1> QED
  BY <1>2, <1>4, <1>5

-----------------------------------------------------------------------------
(* Code that is not reached.                                               *)

LEMMA EmptyReads ==
  ASSUME NEW t, Sound(t), Len(t.stack) = 0
  PROVE  Clean(t) /\ Readings(t) = {Reading(t.epsilon, <<>>)}
<1>1. Clean(t)
  BY DEF Clean
<1>2. Tops(t) = {<<>>}
  <2>1. [1 .. 0 -> ValueTypes] = {<<>>}
    <3>1. <<>> \in [1 .. 0 -> ValueTypes]
      OBVIOUS
    <3>2. \A f \in [1 .. 0 -> ValueTypes] : f = <<>>
      OBVIOUS
    <3> QED
      BY <3>1, <3>2
  <2> QED
    BY <2>1 DEF Tops
<1>3. Readings(t) = {Reading(t.epsilon, top) : top \in Tops(t)}
  BY <1>1, ReadingsAreTops
<1> QED
  BY <1>1, <1>2, <1>3

LEMMA ClearedReads == Clean(Cleared) /\ Readings(Cleared) = {Reading(TRUE, <<>>)}
<1>1. Len(Cleared.stack) = 0 /\ Cleared.epsilon = TRUE
  BY DEF Cleared
<1> QED
  BY <1>1, ClearedSound, EmptyReads

LEMMA StuckReads ==
  ASSUME NEW t, Sound(t), Clean(t), NEW params \in Seq(ValueTypes)
  PROVE  LET r == TypeStack(t, Vals(params), <<>>)
             derived == Derive(Readings(t), {StuckRule(params)})
         IN  /\ r.ok <=> derived # {}
             /\ r.ok => Readings(Cleared) = derived
<1> DEFINE r == TypeStack(t, Vals(params), <<>>)
           derived == Derive(Readings(t), {StuckRule(params)})
<1>1. r.ok <=> Agreeing(t, params) # {}
  <2>1. r.ok <=> Fits(t, Vals(params), Len(params))
    BY Expected, EnsuredFits DEF TypeStack
  <2> QED
    BY <2>1, FitsAgree
<1>2. derived = {Reading(TRUE, <<>>) : top \in Agreeing(t, params)}
  BY Shorts, DeriveRule
<1> HIDE DEF r, derived
<1>3. (r.ok <=> derived # {}) /\ (r.ok => Readings(Cleared) = derived)
  BY <1>1, <1>2, ClearedReads
<1> QED
  BY <1>3 DEF r, derived

-----------------------------------------------------------------------------
(* drop and select, which have a rule for each type of what they peek at.  *)

LEMMA EachRule ==
  ASSUME NEW S, NEW rules
  PROVE  \A x : x \in Derive(S, rules) <=> \E rule \in rules : x \in Derive(S, {rule})
BY DEF Derive

LEMMA OneRule ==
  ASSUME NEW S, NEW rules, NEW rule \in rules,
         \A other \in rules : other = rule \/ Derive(S, {other}) = {}
  PROVE  Derive(S, rules) = Derive(S, {rule})
<1>1. ASSUME NEW x  PROVE x \in Derive(S, rules) <=> x \in Derive(S, {rule})
  <2>1. x \in Derive(S, rules) <=> \E other \in rules : x \in Derive(S, {other})
    BY DEF Derive
  <2> QED
    BY <2>1
<1> QED
  BY <1>1

LEMMA NoRule ==
  ASSUME NEW S, NEW rules, \A rule \in rules : Derive(S, {rule}) = {}
  PROVE  Derive(S, rules) = {}
<1>1. ASSUME NEW x  PROVE x \notin Derive(S, rules)
  <2>1. x \in Derive(S, rules) <=> \E rule \in rules : x \in Derive(S, {rule})
    BY EachRule
  <2> QED
    BY <2>1
<1> QED
  BY <1>1

\* What is peeked at: a value type on the stack, or a variable with nothing below.
LEMMA Peeked ==
  ASSUME NEW t, Sound(t), Clean(t), NEW o \in Nat, NEW e \in Peek(t, o)
  PROVE  /\ Peek(t, o) = {e}
         /\ \/ \E v \in ValueTypes : e = Val(v)
            \/ /\ IsVar(e) /\ t.epsilon /\ Len(t.stack) <= o + 1
               /\ o < Len(t.stack) => e = t.stack[Len(t.stack) - o] /\ Len(t.stack) - o = 1
<1>1. /\ Len(t.stack) \in Nat
      /\ \A j \in 1 .. Len(t.stack) : IsVar(t.stack[j]) => j = 1 /\ t.epsilon
  BY StackHeight
<1>2. CASE o < Len(t.stack)
  <2>1. Peek(t, o) = {t.stack[Len(t.stack) - o]} /\ Len(t.stack) - o \in 1 .. Len(t.stack)
    BY <1>1, <1>2 DEF Peek
  <2>2. IsVar(e) \/ \E v \in ValueTypes : e = Val(v)
    BY <2>1 DEF Clean
  <2>3. IsVar(e) => t.epsilon /\ Len(t.stack) - o = 1
    BY <1>1, <2>1
  <2> QED
    BY <1>1, <2>1, <2>2, <2>3
<1>3. CASE ~(o < Len(t.stack))
  <2>1. Peek(t, o) = {TypeVariable(t.required)} /\ t.epsilon
    BY <1>3 DEF Peek
  <2>2. IsVar(TypeVariable(t.required))
    BY DEF IsVar, TypeVariable
  <2> QED
    BY <1>1, <1>3, <2>1, <2>2
<1> QED
  BY <1>2, <1>3

\* A rule whose operand is not the value type that is peeked at says nothing.
LEMMA OtherRules ==
  ASSUME NEW t, Sound(t), Clean(t), NEW o \in Nat,
         NEW params \in Seq(ValueTypes), NEW results \in Seq(ValueTypes), o < Len(params),
         \/ Peek(t, o) = {}
         \/ \E v \in ValueTypes : Peek(t, o) = {Val(v)} /\ params[Len(params) - o] # v
  PROVE  Derive(Readings(t), {Rule(params, results)}) = {}
<1> DEFINE h == Len(t.stack)
           n == Len(params)
<1>1. h \in Nat /\ n \in Nat /\ o \in 0 .. n - 1
  BY StackHeight, Expected
<1>2. ASSUME NEW top \in Agreeing(t, params)  PROVE FALSE
  <2>1. IF o < h THEN top[h - o] = params[n - o] ELSE t.epsilon
    BY <1>1 DEF Agreeing, Agree
  <2>2. CASE o < h
    <3>1. h - o \in 1 .. h /\ Peek(t, o) = {t.stack[h - o]}
      BY <1>1, <2>2 DEF Peek
    <3>2. PICK v \in ValueTypes : t.stack[h - o] = Val(v) /\ params[n - o] # v
      BY <3>1
    <3>3. IsVar(t.stack[h - o]) \/ top[h - o] = t.stack[h - o].type
      BY <3>1 DEF Agreeing, Tops
    <3> QED
      BY <2>1, <2>2, <3>2, <3>3, TypeOfVal
  <2>3. CASE ~(o < h)
    <3>1. Peek(t, o) = {TypeVariable(t.required)}
      BY <2>1, <2>3 DEF Peek
    <3>2. IsVar(TypeVariable(t.required))
      BY DEF IsVar, TypeVariable
    <3> QED
      BY <3>1, <3>2, TypeOfVal
  <2> QED
    BY <2>2, <2>3
<1>3. Agreeing(t, params) = {}
  BY <1>2
<1>4. Leaving(t, params, results) = {}
  BY <1>3 DEF Leaving
<1> QED
  BY <1>4, DeriveRule

LEMMA ValsOfShorts ==
  /\ Vals(<<>>) = <<>>
  /\ \A v : Vals(<<v>>) = <<Val(v)>>
  /\ \A v : Vals(<<v, v, "I32">>) = <<Val(v), Val(v), Val("I32")>>
BY DEF Vals

LEMMA DropReads ==
  ASSUME NEW t, Sound(t), Clean(t)
  PROVE  /\ Peek(t, 0) = {} => Derive(Readings(t), DropRules) = {}
         /\ \A e \in Peek(t, 0) :
              LET r == TypeStack(t, <<e>>, <<>>) IN
              /\ Derive(Readings(t), DropRules) # {}
              /\ Clean(r.to) /\ Readings(r.to) = Derive(Readings(t), DropRules)
<1> DEFINE S == Readings(t)
<1>1. \A w \in ValueTypes : /\ <<w>> \in Seq(ValueTypes) /\ <<>> \in Seq(ValueTypes)
                            /\ Len(<<w>>) = 1 /\ <<w>>[1 - 0] = w /\ 0 < 1
  OBVIOUS
<1>2. ASSUME Peek(t, 0) = {}  PROVE Derive(S, DropRules) = {}
  <2>1. \A w \in ValueTypes : Derive(S, {Rule(<<w>>, <<>>)}) = {}
    BY <1>1, <1>2, OtherRules
  <2> QED
    BY <2>1, NoRule DEF DropRules
<1>3. ASSUME NEW e \in Peek(t, 0)
      PROVE  LET r == TypeStack(t, <<e>>, <<>>) IN
             /\ Derive(S, DropRules) # {}
             /\ Clean(r.to) /\ Readings(r.to) = Derive(S, DropRules)
  <2> DEFINE r == TypeStack(t, <<e>>, <<>>)
  <2>0. r.ok
    BY PeekedOk
  <2>1. CASE \E v \in ValueTypes : e = Val(v)
    <3>1. PICK v \in ValueTypes : e = Val(v)
      BY <2>1
    <3>2. r = TypeStack(t, Vals(<<v>>), Vals(<<>>))
      BY <3>1, ValsOfShorts
    <3>3. /\ r.ok <=> Derive(S, {Rule(<<v>>, <<>>)}) # {}
          /\ r.ok => Clean(r.to) /\ Readings(r.to) = Derive(S, {Rule(<<v>>, <<>>)})
      <4> DEFINE ps == <<v>>
                 rs == <<>>
      <4>1. ps \in Seq(ValueTypes) /\ rs \in Seq(ValueTypes)
        BY <1>1
      <4> HIDE DEF r, ps, rs
      <4> QED
        BY <3>2, <4>1, TypedReads DEF ps, rs
    <3>4. Peek(t, 0) = {Val(v)}
      BY <3>1, Peeked
    <3>5. \A w \in ValueTypes : w # v => Derive(S, {Rule(<<w>>, <<>>)}) = {}
      BY <1>1, <3>4, OtherRules
    <3>6. Derive(S, DropRules) = Derive(S, {Rule(<<v>>, <<>>)})
      <4> DEFINE rule == Rule(<<v>>, <<>>)
      <4>1. rule \in DropRules /\ \A other \in DropRules : other = rule \/ Derive(S, {other}) = {}
        BY <3>5 DEF DropRules
      <4> HIDE DEF rule, S
      <4>2. Derive(S, DropRules) = Derive(S, {rule})
        BY <4>1, OneRule
      <4> QED
        BY <4>2 DEF rule
    <3> QED
      BY <2>0, <3>3, <3>6
  <2>2. CASE ~ \E v \in ValueTypes : e = Val(v)
    <3>1. /\ IsVar(e) /\ t.epsilon /\ Len(t.stack) <= 0 + 1
          /\ 0 < Len(t.stack) => e = t.stack[Len(t.stack) - 0] /\ Len(t.stack) - 0 = 1
      BY <2>2, Peeked
    <3>2. Left(Len(t.stack), 1) = 0
      BY <3>1, StackHeight DEF Left
    <3>3. /\ Sound(r.to) /\ r.to.epsilon = t.epsilon /\ Len(r.to.stack) = 0
      <4>1. Len(<<e>>) = 1 /\ 1 \in Nat /\ 0 \in Nat /\ 1 .. 0 = {} /\ 0 + 0 = 0
        OBVIOUS
      <4>2. Ensured(t, <<e>>).ok
        BY <2>0 DEF TypeStack
      <4>3. Sound(r.to)
        BY <4>1, NoPromise, TypeStackSound
      <4> DEFINE one == <<e>>
      <4>4. Len(one) \in Nat /\ Len(t.stack) <= Len(one)
        BY <3>1, <4>1
      <4>5. r = TypeStack(t, one, <<>>) /\ Ensured(t, one).ok
        BY <4>2
      <4> HIDE DEF one, r
      <4> QED
        BY <4>3, <4>4, <4>5, NothingLeft
    <3>4. Clean(r.to) /\ Readings(r.to) = {Reading(t.epsilon, <<>>)}
      BY <3>3, EmptyReads
    <3>5. \A w \in ValueTypes :
            Leaving(t, <<w>>, <<>>) = {Reading(t.epsilon, <<>>) : top \in Agreeing(t, <<w>>)}
      <4>1. \A top : Join(top, 0, <<>>, 0) = <<>>
        BY DEF Join
      <4>2. \A w : Len(<<w>>) = 1 /\ Len(<<>>) = 0
        OBVIOUS
      <4> QED
        BY <3>2, <4>1, <4>2 DEF Leaving
    <3>6. Agreeing(t, <<"I32">>) # {}
      <4>1. Fits(t, Vals(<<"I32">>), 1)
        <5>1. \A k \in 0 .. 1 - 1 : k = 0
          OBVIOUS
        <5> QED
          BY <3>1, <5>1 DEF Fits, Matches
      <4> QED
        BY <1>1, <4>1, Named, FitsAgree
    <3>7. \A w \in ValueTypes : Derive(S, {Rule(<<w>>, <<>>)}) = Leaving(t, <<w>>, <<>>)
      BY <1>1, DeriveRule
    <3>8. ASSUME NEW x  PROVE x \in Derive(S, DropRules) <=> x = Reading(t.epsilon, <<>>)
      <4>1. x \in Derive(S, DropRules) <=> \E rule \in DropRules : x \in Derive(S, {rule})
        BY EachRule
      <4> HIDE DEF S
      <4>2. x \in Derive(S, DropRules)
              <=> \E w \in ValueTypes : x \in Derive(S, {Rule(<<w>>, <<>>)})
        BY <4>1 DEF DropRules
      <4>3. \A w \in ValueTypes : Derive(S, {Rule(<<w>>, <<>>)})
              = {Reading(t.epsilon, <<>>) : top \in Agreeing(t, <<w>>)}
        BY <3>5, <3>7
      <4> DEFINE empty == Reading(t.epsilon, <<>>)
      <4> HIDE DEF empty
      <4>4. \A w \in ValueTypes : x \in Derive(S, {Rule(<<w>>, <<>>)}) => x = empty
        BY <4>3 DEF empty
      <4>5. empty \in Derive(S, {Rule(<<"I32">>, <<>>)})
        BY <3>6, <4>3, Named DEF empty
      <4> QED
        BY <4>2, <4>4, <4>5, Named DEF empty
    <3>9. Derive(S, DropRules) = {Reading(t.epsilon, <<>>)}
      BY <3>8
    <3> QED
      BY <3>4, <3>9
  <2> QED
    BY <2>1, <2>2
<1> QED
  BY <1>2, <1>3

LEMMA OneLeft ==
  ASSUME NEW t, Sound(t), NEW ensures, Len(ensures) \in Nat, Ensured(t, ensures).ok,
         Len(t.stack) <= Len(ensures), NEW e, NEW promises, promises = <<e>>
  PROVE  /\ TypeStack(t, ensures, promises).to.epsilon = t.epsilon
         /\ Len(TypeStack(t, ensures, promises).to.stack) = 1
         /\ TypeStack(t, ensures, promises).to.stack[1] = e
<1> DEFINE m == 1
<1>1. Row(promises, m) /\ m \in Nat /\ promises[1] = e
  BY DEF Row
<1> HIDE DEF m
<1>2. /\ TypeStack(t, ensures, promises).to.epsilon = t.epsilon
      /\ Len(TypeStack(t, ensures, promises).to.stack) = m
      /\ \A j \in 1 .. m : TypeStack(t, ensures, promises).to.stack[j] = promises[j]
  BY <1>1, OnlyPromises
<1>3. 1 \in 1 .. m
  BY DEF m
<1> QED
  BY <1>1, <1>2, <1>3 DEF m

\* A stack of nothing but a variable is any stack of one type.
LEMMA VariableReads ==
  ASSUME NEW t, Sound(t), Len(t.stack) = 1, IsVar(t.stack[1])
  PROVE  /\ Clean(t)
         /\ \A x : x \in Readings(t) <=> \E w \in ValueTypes : x = Reading(t.epsilon, <<w>>)
<1>1. \A j \in 1 .. 1 : j = 1
  OBVIOUS
<1>2. Clean(t)
  BY <1>1 DEF Clean
<1>3. Readings(t) = {Reading(t.epsilon, top) : top \in Tops(t)}
  BY <1>2, ReadingsAreTops
<1>4. Tops(t) = [1 .. 1 -> ValueTypes]
  BY <1>1 DEF Tops
<1>5. /\ \A top \in [1 .. 1 -> ValueTypes] : top[1] \in ValueTypes /\ top = <<top[1]>>
      /\ \A w \in ValueTypes : <<w>> \in [1 .. 1 -> ValueTypes]
  OBVIOUS
<1>6. ASSUME NEW x  PROVE x \in Readings(t) <=> \E w \in ValueTypes : x = Reading(t.epsilon, <<w>>)
  <2>1. ASSUME NEW top \in Tops(t)  PROVE \E w \in ValueTypes : top = <<w>>
    BY <1>4, <1>5
  <2>2. \A w \in ValueTypes : <<w>> \in Tops(t)
    BY <1>4, <1>5
  <2> QED
    BY <1>3, <2>1, <2>2
<1> QED
  BY <1>2, <1>6

LEMMA FitsThree ==
  ASSUME NEW t, NEW es, Len(es) = 3, Len(t.stack) \in Nat, Len(t.stack) <= 2, t.epsilon,
         1 < Len(t.stack) => IsVar(t.stack[Len(t.stack) - 1])
  PROVE  Fits(t, es, 3) <=> (0 < Len(t.stack) => Matches(t.stack[Len(t.stack)], es[3]))
<1> DEFINE h == Len(t.stack)
           Here(k) == IF k < h THEN Matches(t.stack[h - k], es[3 - k]) ELSE t.epsilon
<1>1. Fits(t, es, 3) <=> \A k \in 0 .. 3 - 1 : Here(k)
  BY DEF Fits
<1>2. \A k : k \in 0 .. 3 - 1 <=> k = 0 \/ k = 1 \/ k = 2
  OBVIOUS
<1>3. Here(1)
  BY DEF Matches
<1>4. Here(2)
  OBVIOUS
<1>5. Here(0) <=> (0 < h => Matches(t.stack[h], es[3]))
  OBVIOUS
<1> HIDE DEF Here, h
<1>6. (\A k \in 0 .. 3 - 1 : Here(k)) <=> Here(0)
  BY <1>2, <1>3, <1>4
<1>7. Fits(t, es, 3) <=> (0 < h => Matches(t.stack[h], es[3]))
  BY <1>1, <1>5, <1>6
<1> QED
  BY <1>7 DEF h

LEMMA SelectTyped ==
  ASSUME NEW w \in ValueTypes
  PROVE  /\ <<w, w, "I32">> \in Seq(ValueTypes) /\ <<w>> \in Seq(ValueTypes)
         /\ Len(<<w, w, "I32">>) = 3 /\ <<w, w, "I32">>[3 - 1] = w
BY Named

LEMMA OtherSelect ==
  ASSUME NEW t, Sound(t), Clean(t), NEW w \in ValueTypes,
         \/ Peek(t, 1) = {}
         \/ \E v \in ValueTypes : Peek(t, 1) = {Val(v)} /\ w # v
  PROVE  Derive(Readings(t), {Rule(<<w, w, "I32">>, <<w>>)}) = {}
<1> DEFINE ps == <<w, w, "I32">>
           rs == <<w>>
<1>1. /\ ps \in Seq(ValueTypes) /\ rs \in Seq(ValueTypes)
      /\ Len(ps) = 3 /\ ps[Len(ps) - 1] = w /\ 1 < Len(ps) /\ 1 \in Nat
  BY SelectTyped
<1> HIDE DEF ps, rs
<1>2. Derive(Readings(t), {Rule(ps, rs)}) = {}
  BY <1>1, OtherRules
<1> QED
  BY <1>2 DEF ps, rs

LEMMA SelectReads ==
  ASSUME NEW t, Sound(t), Clean(t)
  PROVE  /\ Peek(t, 1) = {} => Derive(Readings(t), SelectRules) = {}
         /\ \A e \in Peek(t, 1) :
              LET r == TypeStack(t, <<e, e, Val("I32")>>, <<e>>) IN
              /\ r.ok <=> Derive(Readings(t), SelectRules) # {}
              /\ r.ok => Clean(r.to) /\ Readings(r.to) = Derive(Readings(t), SelectRules)
<1> DEFINE S == Readings(t)
<1>1. \A w \in ValueTypes :
        /\ <<w, w, "I32">> \in Seq(ValueTypes) /\ <<w>> \in Seq(ValueTypes)
        /\ Len(<<w, w, "I32">>) = 3 /\ <<w, w, "I32">>[3 - 1] = w
  BY SelectTyped
<1>2. ASSUME Peek(t, 1) = {}  PROVE Derive(S, SelectRules) = {}
  <2>1. \A w \in ValueTypes : Derive(S, {Rule(<<w, w, "I32">>, <<w>>)}) = {}
    BY <1>2, OtherSelect
  <2> QED
    BY <2>1, NoRule DEF SelectRules
<1>3. ASSUME NEW e \in Peek(t, 1)
      PROVE  LET r == TypeStack(t, <<e, e, Val("I32")>>, <<e>>) IN
             /\ r.ok <=> Derive(S, SelectRules) # {}
             /\ r.ok => Clean(r.to) /\ Readings(r.to) = Derive(S, SelectRules)
  <2> DEFINE three == <<e, e, Val("I32")>>
             r == TypeStack(t, three, <<e>>)
  <2>1. CASE \E v \in ValueTypes : e = Val(v)
    <3>1. PICK v \in ValueTypes : e = Val(v)
      BY <2>1
    <3>2. r = TypeStack(t, Vals(<<v, v, "I32">>), Vals(<<v>>))
      BY <3>1, ValsOfShorts
    <3> DEFINE rule == Rule(<<v, v, "I32">>, <<v>>)
    <3>3. /\ r.ok <=> Derive(S, {rule}) # {}
          /\ r.ok => Clean(r.to) /\ Readings(r.to) = Derive(S, {rule})
      <4> DEFINE ps == <<v, v, "I32">>
                 rs == <<v>>
      <4>1. ps \in Seq(ValueTypes) /\ rs \in Seq(ValueTypes)
        BY <1>1
      <4> HIDE DEF r, ps, rs
      <4> QED
        BY <3>2, <4>1, TypedReads DEF ps, rs
    <3>4. Peek(t, 1) = {Val(v)}
      BY <3>1, Peeked
    <3>5. \A w \in ValueTypes : w # v => Derive(S, {Rule(<<w, w, "I32">>, <<w>>)}) = {}
      BY <3>4, OtherSelect
    <3>6. rule \in SelectRules /\ \A other \in SelectRules : other = rule \/ Derive(S, {other}) = {}
      BY <3>5 DEF SelectRules
    <3> HIDE DEF rule, S, r
    <3>7. Derive(S, SelectRules) = Derive(S, {rule})
      BY <3>6, OneRule
    <3> QED
      BY <3>3, <3>7 DEF r
  <2>2. CASE ~ \E v \in ValueTypes : e = Val(v)
    <3> DEFINE h == Len(t.stack)
               fits == 0 < h => Matches(t.stack[h], Val("I32"))
               Selects(w) == <<w, w, "I32">>
    <3>1. /\ IsVar(e) /\ t.epsilon /\ h \in Nat /\ h <= 2
          /\ 1 < h => e = t.stack[h - 1] /\ h - 1 = 1
      <4>1. /\ IsVar(e) /\ t.epsilon /\ h <= 1 + 1
            /\ 1 < h => e = t.stack[h - 1] /\ h - 1 = 1
        BY <2>2, Peeked, ZenonT(60)
      <4>2. h \in Nat
        BY StackHeight
      <4> QED
        BY <4>1, <4>2
    <3>2. 1 < h => IsVar(t.stack[h - 1])
      BY <3>1
    <3>3. r.ok <=> fits
      <4>1. Len(three) = 3 /\ three[3] = Val("I32") /\ Len(three) \in Nat
        OBVIOUS
      <4> HIDE DEF three
      <4>2. Ensured(t, three).ok <=> Fits(t, three, 3)
        BY <4>1, EnsuredFits
      <4>3. Fits(t, three, 3) <=> fits
        BY <3>1, <3>2, <4>1, FitsThree
      <4> QED
        BY <4>2, <4>3 DEF TypeStack
    <3>4. ASSUME NEW w \in ValueTypes  PROVE Agreeing(t, Selects(w)) # {} <=> fits
      <4> DEFINE es == Vals(Selects(w))
      <4>1. Selects(w) \in Seq(ValueTypes) /\ Len(Selects(w)) = 3
        BY <1>1
      <4>2. Len(es) = 3 /\ es[3] = Val("I32")
        BY ValsOfShorts
      <4> HIDE DEF Selects
      <4>3. Fits(t, es, 3) <=> Agreeing(t, Selects(w)) # {}
        BY <4>1, FitsAgree
      <4> HIDE DEF es
      <4>4. Fits(t, es, 3) <=> fits
        BY <3>1, <3>2, <4>2, FitsThree
      <4> QED
        BY <4>3, <4>4
    <3>5. ASSUME NEW w \in ValueTypes
          PROVE  Derive(S, {Rule(Selects(w), <<w>>)}) =
                   {Reading(t.epsilon, <<w>>) : top \in Agreeing(t, Selects(w))}
      <4>1. \A top : Join(top, 0, <<w>>, 1) = <<w>>
        BY DEF Join
      <4>2. Len(Selects(w)) = 3 /\ Len(<<w>>) = 1 /\ Left(h, 3) = 0
        BY <3>1 DEF Left
      <4>3. Selects(w) \in Seq(ValueTypes) /\ <<w>> \in Seq(ValueTypes)
        BY <1>1
      <4> DEFINE one == <<w>>
      <4> HIDE DEF Selects, one
      <4>4. Leaving(t, Selects(w), one) = {Reading(t.epsilon, one) : top \in Agreeing(t, Selects(w))}
        BY <4>1, <4>2 DEF Leaving, one
      <4>5. Derive(S, {Rule(Selects(w), one)}) = Leaving(t, Selects(w), one)
        BY <4>3, DeriveRule DEF one
      <4> QED
        BY <4>4, <4>5 DEF one
    <3>6. ASSUME NEW x
          PROVE  x \in Derive(S, SelectRules)
                   <=> fits /\ \E w \in ValueTypes : x = Reading(t.epsilon, <<w>>)
      <4>1. x \in Derive(S, SelectRules) <=> \E rule \in SelectRules : x \in Derive(S, {rule})
        BY EachRule
      <4> HIDE DEF S
      <4>2. x \in Derive(S, SelectRules)
              <=> \E w \in ValueTypes : x \in Derive(S, {Rule(Selects(w), <<w>>)})
        BY <4>1 DEF SelectRules
      <4> HIDE DEF Selects, fits
      <4>3. ASSUME NEW w \in ValueTypes
            PROVE  x \in Derive(S, {Rule(Selects(w), <<w>>)})
                     <=> fits /\ x = Reading(t.epsilon, <<w>>)
        BY <3>4, <3>5
      <4> QED
        BY <4>2, <4>3
    <3>7. ASSUME fits
          PROVE  /\ Sound(r.to) /\ r.to.epsilon = t.epsilon
                 /\ Len(r.to.stack) = 1 /\ IsVar(r.to.stack[1])
      <4>1. Ensured(t, three).ok /\ r.ok
        BY <3>3, <3>7 DEF TypeStack
      <4>2. Len(three) = 3 /\ Len(three) \in Nat /\ h <= Len(three)
        BY <3>1
      <4> HIDE DEF three
      <4>3. /\ r.to.epsilon = t.epsilon /\ Len(r.to.stack) = 1 /\ r.to.stack[1] = e
        <5>1. /\ TypeStack(t, three, <<e>>).to.epsilon = t.epsilon
              /\ Len(TypeStack(t, three, <<e>>).to.stack) = 1
              /\ TypeStack(t, three, <<e>>).to.stack[1] = e
          <6> DEFINE one == <<e>>
          <6>1. one = <<e>>
            OBVIOUS
          <6>2. Ensured(t, three).ok /\ Len(three) \in Nat /\ Len(t.stack) <= Len(three)
            BY <4>1, <4>2
          <6> HIDE DEF r, one, S, h, fits, Selects
          <6>3. /\ TypeStack(t, three, one).to.epsilon = t.epsilon
                /\ Len(TypeStack(t, three, one).to.stack) = 1
                /\ TypeStack(t, three, one).to.stack[1] = e
            BY <6>1, <6>2, OneLeft
          <6> QED
            BY <6>3 DEF one
        <5> QED
          BY <5>1
      <4>4. Sound(r.to)
        BY <4>1, SelectLeaves DEF three
      <4> QED
        BY <3>1, <4>3, <4>4
    <3>8. ASSUME fits
          PROVE  Clean(r.to) /\ \A x : x \in Readings(r.to) <=> x \in Derive(S, SelectRules)
      <4> DEFINE to == r.to
      <4>1. Sound(to) /\ to.epsilon = t.epsilon /\ Len(to.stack) = 1 /\ IsVar(to.stack[1])
        BY <3>7, <3>8
      <4> HIDE DEF to
      <4>2. Clean(to) /\ \A x : x \in Readings(to)
                                 <=> \E w \in ValueTypes : x = Reading(to.epsilon, <<w>>)
        BY <4>1, VariableReads
      <4> HIDE DEF S, fits, r
      <4>3. Clean(to) /\ \A x : x \in Readings(to) <=> x \in Derive(S, SelectRules)
        BY <3>6, <3>8, <4>1, <4>2
      <4> QED
        BY <4>3 DEF to
    <3>9. fits <=> Derive(S, SelectRules) # {}
      <4> HIDE DEF S, fits
      <4> QED
        BY <3>6, Named
    <3> HIDE DEF r, S, fits
    <3>10. (r.ok <=> Derive(S, SelectRules) # {})
           /\ (r.ok => Clean(r.to) /\ Readings(r.to) = Derive(S, SelectRules))
      BY <3>3, <3>8, <3>9
    <3> QED
      BY <3>10 DEF r
  <2> QED
    BY <2>1, <2>2
<1> QED
  BY <1>2, <1>3

-----------------------------------------------------------------------------
(* The invariant.  While validation runs, the labels are those of the blocks *)
(* that are open, under those of the context, and each stack stands for      *)
(* what the rules allow: the rules, which read the labels off the blocks,    *)
(* then ask of the readings what validation asks of the stacks.  A br_table  *)
(* whose labels were compared as its rule does not compare them ends that.   *)

CleanStacks == \A i \in DOMAIN frames : Clean(frames[i].operands)

\* What a branch to a block's label takes with it.
Expects(f) == IF f.kind = "loop" THEN f.params ELSE f.results
LabelsOf(ls, outer, fs) ==
  /\ Len(ls) = Len(outer) + (Len(fs) - 1)
  /\ \A i \in 1 .. Len(outer) : ls[i] = outer[i]
  /\ \A i \in 1 .. Len(fs) - 1 : ls[Len(outer) + i] = Expects(fs[i + 1])
LabelsNest == status = "running" => LabelsOf(labels, ctx.labels, frames)

MeaningOf(fs) == [i \in 1 .. Len(fs) |-> Readings(fs[i].operands)]
Denoted ==
  /\ typable \in BOOLEAN /\ undisputed \in BOOLEAN
  /\ undisputed => (typable <=> status \notin {"rejected", "aborted"})
  /\ undisputed /\ status = "running" => meaning = MeaningOf(frames)

RInv == CleanStacks /\ LabelsNest /\ Denoted

LEMMA MeaningAtWork ==
  ASSUME VInv, RInv, status = "running"
  PROVE  /\ Sound(Stack) /\ Clean(Stack)
         /\ undisputed => meaning[Depth] = Readings(Stack) /\ typable = TRUE
<1>1. PICK n \in Nat : Depth = n + 1 /\ DOMAIN frames = 1 .. n + 1
  BY AtWork
<1>2. Depth \in DOMAIN frames /\ Depth \in 1 .. Len(frames)
  BY <1>1 DEF Depth
<1>3. Clean(Stack)
  BY <1>2 DEF RInv, CleanStacks, Stack, Top
<1>4. undisputed => meaning[Depth] = Readings(Stack)
  BY <1>2 DEF RInv, Denoted, MeaningOf, Stack, Top
<1>5. undisputed => typable = TRUE
  BY DEF RInv, Denoted
<1> QED
  BY <1>3, <1>4, <1>5, StackAtWork

\* The visitors when the stack of the one at work changes.
LEMMA Working ==
  ASSUME VInv, NEW to
  PROVE  LET fs == [frames EXCEPT ![Depth].operands = to] IN
         \E n \in Nat :
           /\ Depth = n + 1 /\ Len(frames) = n + 1 /\ DOMAIN frames = 1 .. n + 1
           /\ Len(fs) = n + 1 /\ DOMAIN fs = 1 .. n + 1 /\ fs = [i \in 1 .. n + 1 |-> fs[i]]
           /\ fs[n + 1].operands = to /\ Expects(fs[n + 1]) = Expects(frames[n + 1])
           /\ \A i \in 1 .. n + 1 : i # n + 1 => fs[i] = frames[i]
<1> DEFINE fs == [frames EXCEPT ![Depth].operands = to]
<1>1. PICK n \in Nat : /\ Depth = n + 1 /\ DOMAIN frames = 1 .. n + 1
                       /\ frames = [i \in 1 .. n + 1 |-> frames[i]]
                       /\ \A i \in 1 .. n + 1 : VisitorSound(frames[i])
  BY AtWork
<1> DEFINE f == frames[n + 1]
           last == [f EXCEPT !.operands = to]
<1>2. last = [kind |-> f.kind, params |-> f.params, results |-> f.results, operands |-> to]
  <2>1. n + 1 \in 1 .. n + 1
    BY <1>1
  <2>2. f = [kind |-> f.kind, params |-> f.params, results |-> f.results, operands |-> f.operands]
    BY <1>1, <2>1 DEF VisitorSound, IsVisitor
  <2> HIDE DEF f
  <2> QED
    BY <2>2
<1>3. fs = [i \in 1 .. n + 1 |-> IF i = n + 1 THEN last ELSE frames[i]]
  BY <1>1
<1> HIDE DEF last, fs
<1>4. last.operands = to /\ Expects(last) = Expects(f)
  BY <1>2 DEF Expects
<1>5. /\ fs[n + 1] = last /\ DOMAIN fs = 1 .. n + 1 /\ fs = [i \in 1 .. n + 1 |-> fs[i]]
      /\ \A i \in 1 .. n + 1 : i # n + 1 => fs[i] = frames[i]
  BY <1>1, <1>3
<1>6. Len(fs) = n + 1 /\ Len(frames) = n + 1
  BY <1>1, <1>5, FunctionIsSeq
<1> QED
  BY <1>1, <1>4, <1>5, <1>6 DEF fs, f

LEMMA AcceptedKept ==
  ASSUME VInv, RInv, status = "running", UNCHANGED ctx, NEW to, NEW rules, Accept(to, rules),
         Clean(to), undisputed' \in BOOLEAN,
         undisputed' => /\ undisputed
                        /\ Derive(Readings(Stack), rules) # {}
                        /\ Readings(to) = Derive(Readings(Stack), rules)
  PROVE  RInv'
<1>1. frames' = [frames EXCEPT ![Depth].operands = to]
  BY DEF Accept
<1>2. PICK n \in Nat :
        /\ Depth = n + 1 /\ Len(frames) = n + 1 /\ DOMAIN frames = 1 .. n + 1
        /\ Len(frames') = n + 1 /\ DOMAIN frames' = 1 .. n + 1
        /\ frames'[n + 1].operands = to /\ Expects(frames'[n + 1]) = Expects(frames[n + 1])
        /\ \A i \in 1 .. n + 1 : i # n + 1 => frames'[i] = frames[i]
  <2> DEFINE fs == [frames EXCEPT ![Depth].operands = to]
  <2>1. \E n \in Nat :
          /\ Depth = n + 1 /\ Len(frames) = n + 1 /\ DOMAIN frames = 1 .. n + 1
          /\ Len(fs) = n + 1 /\ DOMAIN fs = 1 .. n + 1 /\ fs = [i \in 1 .. n + 1 |-> fs[i]]
          /\ fs[n + 1].operands = to /\ Expects(fs[n + 1]) = Expects(frames[n + 1])
          /\ \A i \in 1 .. n + 1 : i # n + 1 => fs[i] = frames[i]
    BY Working
  <2>2. frames' = fs
    BY <1>1
  <2> HIDE DEF fs
  <2> QED
    BY <2>1, <2>2
<1>3. CleanStacks'
  BY <1>2 DEF RInv, CleanStacks
<1>4. LabelsNest'
  <2>1. LabelsOf(labels, ctx.labels, frames) /\ UNCHANGED <<labels, status, ctx>>
    BY DEF RInv, LabelsNest, Accept
  <2>2. \A i \in 1 .. n + 1 : Expects(frames'[i]) = Expects(frames[i])
    BY <1>2
  <2>3. \A i \in 1 .. (n + 1) - 1 : i + 1 \in 1 .. n + 1
    OBVIOUS
  <2>4. LabelsOf(labels', ctx.labels', frames')
    BY <1>2, <2>1, <2>2, <2>3 DEF LabelsOf
  <2> QED
    BY <2>4 DEF LabelsNest
<1>5. Denoted'
  <2> DEFINE M == [meaning EXCEPT ![Depth] = Derive(@, rules)]
  <2>1. status' = status /\ meaning' = M /\ typable' = (typable /\ M[Depth] # {})
    BY DEF Accept
  <2>2. typable' \in BOOLEAN
    BY <2>1
  <2>3. ASSUME undisputed'  PROVE typable' = TRUE /\ meaning' = MeaningOf(frames')
    <3>1. meaning = MeaningOf(frames) /\ meaning[n + 1] = Readings(Stack) /\ typable = TRUE
      BY <1>2, <2>3, MeaningAtWork DEF RInv, Denoted
    <3> DEFINE now == Derive(Readings(Stack), rules)
    <3>2. n + 1 \in 1 .. n + 1 /\ meaning = [i \in 1 .. n + 1 |-> Readings(frames[i].operands)]
      BY <1>2, <3>1 DEF MeaningOf
    <3>3. M = [i \in 1 .. n + 1 |-> IF i = n + 1 THEN now ELSE Readings(frames[i].operands)]
      BY <1>2, <3>1, <3>2
    <3>4. M[Depth] = now /\ now # {} /\ Readings(to) = now
      BY <1>2, <2>3, <3>2, <3>3
    <3> HIDE DEF now, M
    <3>5. \A i \in 1 .. n + 1 :
            (IF i = n + 1 THEN now ELSE Readings(frames[i].operands)) = Readings(frames'[i].operands)
      BY <1>2, <3>4
    <3>6. M = MeaningOf(frames')
      BY <1>2, <3>3, <3>5 DEF MeaningOf
    <3> QED
      BY <2>1, <3>1, <3>4, <3>6
  <2> QED
    BY <2>1, <2>2, <2>3 DEF Denoted
<1> QED
  BY <1>3, <1>4, <1>5 DEF RInv

LEMMA RefusedKept ==
  ASSUME VInv, RInv, status = "running", NEW verdict \in {"rejected", "aborted"}, NEW site,
         NEW rules, RefuseAs(verdict, site, rules), undisputed' \in BOOLEAN,
         undisputed' => undisputed /\ Derive(Readings(Stack), rules) = {}
  PROVE  RInv'
<1>1. CleanStacks' /\ LabelsNest'
  BY DEF RInv, CleanStacks, LabelsNest, RefuseAs
<1>2. status' = verdict /\ typable' = (typable /\ Derive(meaning[Depth], rules) # {})
  BY DEF RefuseAs
<1>3. undisputed' => typable' = FALSE
  BY <1>2, MeaningAtWork
<1>4. Denoted'
  BY <1>2, <1>3 DEF Denoted
<1> QED
  BY <1>1, <1>4 DEF RInv

Follows(r, rules) ==
  /\ r.ok <=> Derive(Readings(Stack), rules) # {}
  /\ r.ok => Readings(r.to) = Derive(Readings(Stack), rules)

LEMMA VisitedKept ==
  ASSUME VInv, RInv, status = "running", UNCHANGED ctx, NEW site, NEW r, NEW rules,
         Visit(site, r, rules) \/ VisitAsserted(site, r, rules),
         r.ok => Clean(r.to), undisputed' \in BOOLEAN,
         undisputed' => undisputed /\ Follows(r, rules)
  PROVE  RInv'
<1>1. CASE r.ok /\ Accept(r.to, rules)
  <2> DEFINE to == r.to
  <2>1. /\ Accept(to, rules) /\ Clean(to)
        /\ undisputed' => /\ undisputed /\ Derive(Readings(Stack), rules) # {}
                          /\ Readings(to) = Derive(Readings(Stack), rules)
    BY <1>1 DEF Follows
  <2> HIDE DEF to
  <2> QED
    BY <2>1, AcceptedKept
<1>2. CASE ~r.ok /\ \E verdict \in {"rejected", "aborted"} : RefuseAs(verdict, site, rules)
  <2>1. undisputed' => undisputed /\ Derive(Readings(Stack), rules) = {}
    BY <1>2 DEF Follows
  <2> QED
    BY <1>2, <2>1, RefusedKept
<1> QED
  BY <1>1, <1>2 DEF Visit, VisitAsserted, Refuse

-----------------------------------------------------------------------------
(* The handlers of one visitor.                                            *)

LEMMA NoRules == \A S : Derive(S, {}) = {}
BY DEF Derive

LEMMA RefuseKept ==
  ASSUME VInv, RInv, status = "running", NEW site, NEW rules, Refuse(site, rules),
         undisputed' \in BOOLEAN, undisputed' => undisputed /\ rules = {}
  PROVE  RInv'
<1>1. undisputed' => undisputed /\ Derive(Readings(Stack), rules) = {}
  BY NoRules
<1> QED
  BY <1>1, RefusedKept DEF Refuse

LEMMA TypedKept ==
  ASSUME VInv, RInv, status = "running", UNCHANGED <<ctx, undisputed>>, NEW site,
         NEW params \in Seq(ValueTypes), NEW results \in Seq(ValueTypes),
         LET r == TypeStack(Stack, Vals(params), Vals(results))
             rules == {Rule(params, results)}
         IN  Visit(site, r, rules) \/ VisitAsserted(site, r, rules)
  PROVE  RInv'
<1> DEFINE r == TypeStack(Stack, Vals(params), Vals(results))
           rules == {Rule(params, results)}
<1>1. /\ r.ok <=> Derive(Readings(Stack), rules) # {}
      /\ r.ok => Clean(r.to) /\ Readings(r.to) = Derive(Readings(Stack), rules)
  BY MeaningAtWork, TypedReads
<1>2. Visit(site, r, rules) \/ VisitAsserted(site, r, rules)
  OBVIOUS
<1>3. undisputed' \in BOOLEAN /\ (undisputed' => undisputed)
  BY DEF RInv, Denoted
<1> HIDE DEF r, rules
<1>4. Follows(r, rules)
  BY <1>1 DEF Follows
<1> QED
  BY <1>1, <1>2, <1>3, <1>4, VisitedKept

LEMMA ClearedKept ==
  ASSUME VInv, RInv, status = "running", UNCHANGED ctx, NEW site, NEW r, NEW rules,
         r.to = Cleared, Visit(site, r, rules), undisputed' \in BOOLEAN,
         undisputed' => /\ undisputed
                        /\ r.ok <=> Derive(Readings(Stack), rules) # {}
                        /\ r.ok => Readings(Cleared) = Derive(Readings(Stack), rules)
  PROVE  RInv'
<1>1. undisputed' => undisputed /\ Follows(r, rules)
  BY DEF Follows
<1>2. r.ok => Clean(r.to)
  BY ClearedReads
<1> QED
  BY <1>1, <1>2, VisitedKept

LEMMA StuckKept ==
  ASSUME VInv, RInv, status = "running", UNCHANGED ctx, NEW site,
         NEW params \in Seq(ValueTypes), NEW rules, Stuck(site, params, rules),
         undisputed' \in BOOLEAN, undisputed' => undisputed /\ rules = {StuckRule(params)}
  PROVE  RInv'
<1> DEFINE s == TypeStack(Stack, Vals(params), <<>>)
           r == [s EXCEPT !.to = Cleared]
<1>1. r.to = Cleared /\ r.ok = s.ok
  BY DEF TypeStack
<1>2. Visit(site, r, rules)
  BY DEF Stuck
<1>3. /\ s.ok <=> Derive(Readings(Stack), {StuckRule(params)}) # {}
      /\ s.ok => Readings(Cleared) = Derive(Readings(Stack), {StuckRule(params)})
  BY MeaningAtWork, StuckReads
<1> HIDE DEF r, s
<1> QED
  BY <1>1, <1>2, <1>3, ClearedKept

LEMMA UnreachableKept ==
  ASSUME VInv, RInv, Unreachable  PROVE RInv'
<1> DEFINE r == [ok |-> TRUE, to |-> Cleared]
           rules == {StuckRule(<<>>)}
<1>1. /\ status = "running" /\ UNCHANGED <<ctx, undisputed>> /\ Visit("unreachable", r, rules)
      /\ r.to = Cleared /\ r.ok = TRUE
  BY DEF Unreachable, Running
<1>2. undisputed' \in BOOLEAN
  BY <1>1 DEF RInv, Denoted
<1>3. Derive(Readings(Stack), rules) # {} /\ Readings(Cleared) = Derive(Readings(Stack), rules)
  <2> DEFINE s == TypeStack(Stack, Vals(<<>>), <<>>)
  <2>1. s.ok
    BY PushOk, ValsOfShorts
  <2>2. /\ s.ok <=> Derive(Readings(Stack), {StuckRule(<<>>)}) # {}
        /\ s.ok => Readings(Cleared) = Derive(Readings(Stack), {StuckRule(<<>>)})
    BY <1>1, MeaningAtWork, Shorts, StuckReads
  <2> QED
    BY <2>1, <2>2
<1> HIDE DEF r, rules
<1> QED
  BY <1>1, <1>2, <1>3, ClearedKept

LEMMA PlainKept ==
  ASSUME VInv, RInv, NEW op \in PlainOps, NEW align, NEW lane, Plain(op, align, lane)
  PROVE  RInv'
<1>1. /\ Signature(op).params \in Seq(ValueTypes) /\ Signature(op).results \in Seq(ValueTypes)
      /\ status = "running" /\ UNCHANGED <<ctx, undisputed>>
  BY OpsAssumption, SignatureSigned DEF Plain, Running, Signed
<1>2. CASE Typed(op[2], Signature(op).params, Signature(op).results)
  BY <1>1, <1>2, TypedKept DEF Typed
<1>3. CASE Refuse(op[2], {})
  BY <1>1, <1>3, RefuseKept DEF RInv, Denoted
<1> QED
  BY <1>2, <1>3 DEF Plain

LEMMA DropKept ==
  ASSUME VInv, RInv, Drop  PROVE RInv'
<1>1. /\ status = "running" /\ UNCHANGED <<ctx, undisputed>> /\ undisputed' \in BOOLEAN
      /\ undisputed' => undisputed
  BY DEF Drop, Running, RInv, Denoted
<1>2. Sound(Stack) /\ Clean(Stack)
  BY <1>1, MeaningAtWork
<1>3. CASE Peek(Stack, 0) = {} /\ Refuse("drop", DropRules)
  <2>1. Derive(Readings(Stack), DropRules) = {}
    BY <1>2, <1>3, DropReads
  <2> QED
    BY <1>1, <1>3, <2>1, RefusedKept DEF Refuse
<1>4. ASSUME NEW e \in Peek(Stack, 0),
             VisitAsserted("drop", TypeStack(Stack, <<e>>, <<>>), DropRules)
      PROVE  RInv'
  <2> DEFINE r == TypeStack(Stack, <<e>>, <<>>)
  <2>1. /\ Derive(Readings(Stack), DropRules) # {}
        /\ Clean(r.to) /\ Readings(r.to) = Derive(Readings(Stack), DropRules)
    BY <1>2, DropReads
  <2>2. r.ok
    BY <1>2, PeekedOk
  <2>3. VisitAsserted("drop", r, DropRules)
    BY <1>4
  <2> HIDE DEF r
  <2>4. Follows(r, DropRules)
    BY <2>1, <2>2 DEF Follows
  <2> QED
    BY <1>1, <2>1, <2>3, <2>4, VisitedKept
<1> QED
  BY <1>3, <1>4 DEF Drop

LEMMA SelectKept ==
  ASSUME VInv, RInv, Select  PROVE RInv'
<1>1. /\ status = "running" /\ UNCHANGED <<ctx, undisputed>> /\ undisputed' \in BOOLEAN
      /\ undisputed' => undisputed
  BY DEF Select, Running, RInv, Denoted
<1>2. Sound(Stack) /\ Clean(Stack)
  BY <1>1, MeaningAtWork
<1>3. CASE Peek(Stack, 1) = {} /\ Refuse("select", SelectRules)
  <2>1. Derive(Readings(Stack), SelectRules) = {}
    BY <1>2, <1>3, SelectReads
  <2> QED
    BY <1>1, <1>3, <2>1, RefusedKept DEF Refuse
<1>4. ASSUME NEW e \in Peek(Stack, 1),
             Visit("select", TypeStack(Stack, <<e, e, Val("I32")>>, <<e>>), SelectRules)
      PROVE  RInv'
  <2> DEFINE r == TypeStack(Stack, <<e, e, Val("I32")>>, <<e>>)
  <2>1. /\ r.ok <=> Derive(Readings(Stack), SelectRules) # {}
        /\ r.ok => Clean(r.to) /\ Readings(r.to) = Derive(Readings(Stack), SelectRules)
    BY <1>2, SelectReads
  <2>2. Visit("select", r, SelectRules)
    BY <1>4
  <2> HIDE DEF r
  <2>3. Follows(r, SelectRules)
    BY <2>1 DEF Follows
  <2> QED
    BY <1>1, <2>1, <2>2, <2>3, VisitedKept
<1> QED
  BY <1>3, <1>4 DEF Select

LEMMA CallsKept ==
  ASSUME VInv, RInv, NEW x, Call(x) \/ CallIndirect(x)  PROVE RInv'
<1>1. /\ status = "running" /\ UNCHANGED <<ctx, undisputed>> /\ undisputed' \in BOOLEAN
  BY DEF Call, CallIndirect, Running, RInv, Denoted
<1>2. CASE \E site : \E params \in Seq(ValueTypes), results \in Seq(ValueTypes) :
             Typed(site, params, results)
  BY <1>1, <1>2, TypedKept DEF Typed
<1>3. CASE \E site : Refuse(site, {})
  BY <1>1, <1>3, RefuseKept
<1> QED
  BY <1>2, <1>3, DeclaredSigned, Longer DEF Call, CallIndirect, Signed

LEMMA PushKept ==
  ASSUME VInv, RInv, status = "running", UNCHANGED <<ctx, undisputed>>, NEW site,
         NEW v \in ValueTypes,
         VisitAsserted(site, TypeStack(Stack, <<>>, <<Val(v)>>), {Rule(<<>>, <<v>>)})
  PROVE  RInv'
<1>1. <<v>> \in Seq(ValueTypes) /\ <<>> \in Seq(ValueTypes)
  BY Shorts
<1>2. Vals(<<v>>) = <<Val(v)>> /\ Vals(<<>>) = <<>>
  BY ValsOfShorts
<1> QED
  BY <1>1, <1>2, TypedKept

LEMMA VariablesKept ==
  ASSUME VInv, RInv, NEW x,
         \/ LocalGet(x) \/ LocalSet(x) \/ LocalTee(x) \/ GlobalGet(x) \/ GlobalSet(x)
  PROVE  RInv'
<1>1. /\ status = "running" /\ UNCHANGED <<ctx, undisputed>> /\ undisputed' \in BOOLEAN
  BY DEF LocalGet, LocalSet, LocalTee, GlobalGet, GlobalSet, Running, RInv, Denoted
<1>2. CASE \E site : \E params \in Seq(ValueTypes), results \in Seq(ValueTypes) :
             Typed(site, params, results)
  BY <1>1, <1>2, TypedKept DEF Typed
<1>3. CASE \E site : Refuse(site, {})
  BY <1>1, <1>3, RefuseKept
<1>4. CASE \E site : \E v \in ValueTypes :
             VisitAsserted(site, TypeStack(Stack, <<>>, <<Val(v)>>), {Rule(<<>>, <<v>>)})
  BY <1>1, <1>4, PushKept
<1> QED
  BY <1>2, <1>3, <1>4, ContextTyped, Shorts
     DEF LocalGet, LocalSet, LocalTee, GlobalGet, GlobalSet, VisibleGlobal

LEMMA ReturnKept ==
  ASSUME VInv, RInv, Return \/ UnknownBlockType  PROVE RInv'
<1>1. /\ status = "running" /\ UNCHANGED <<ctx, undisputed>> /\ undisputed' \in BOOLEAN
      /\ undisputed' => undisputed
  BY DEF Return, UnknownBlockType, Running, RInv, Denoted
<1>2. CASE Stuck("return", ctx.returns, {StuckRule(ctx.returns)})
  <2> DEFINE params == ctx.returns
  <2>1. params \in Seq(ValueTypes) /\ Stuck("return", params, {StuckRule(params)})
    BY <1>2, ContextTyped
  <2> HIDE DEF params
  <2> QED
    BY <1>1, <2>1, StuckKept
<1>3. CASE \E site : Refuse(site, {})
  BY <1>1, <1>3, RefuseKept
<1> QED
  BY <1>2, <1>3 DEF Return, UnknownBlockType

-----------------------------------------------------------------------------
(* Branches: the label that is looked up is the one of the rules.          *)

LEMMA LabelsAgree ==
  ASSUME VInv, RInv, status = "running", NEW l \in Nat
  PROVE  Label(l) = RuleLabel(l)
<1>1. PICK n \in Nat : Depth = n + 1
  BY AtWork
<1> DEFINE outer == ctx.labels
           o == Len(outer)
<1>2. o \in Nat /\ o <= 1 /\ DOMAIN outer = 1 .. o
  <2>1. ctx \in Contexts
    BY DEF VInv
  <2>2. outer \in Seq(Seq(ValueTypes)) /\ o <= 1
    BY <2>1, TypesAssumption, LabelsAssumption
  <2> HIDE DEF outer
  <2> QED
    BY <2>2
<1>3. /\ Len(frames) = n + 1 /\ Len(labels) = o + n
      /\ \A i \in 1 .. o : labels[i] = outer[i]
      /\ \A i \in 1 .. n : labels[o + i] = Expects(frames[i + 1])
  <2>1. LabelsOf(labels, outer, frames)
    BY DEF RInv, LabelsNest
  <2>2. Len(frames) = n + 1 /\ (n + 1) - 1 = n
    BY <1>1 DEF Depth
  <2> HIDE DEF outer
  <2> QED
    BY <2>1, <2>2 DEF LabelsOf
<1>4. RuleLabel(l) = IF l >= n + 1 THEN {}
                     ELSE IF l = n THEN {outer[i] : i \in DOMAIN outer}
                     ELSE {Expects(frames[(n + 1) - l])}
  BY <1>3 DEF RuleLabel, Expects
<1>5. Label(l) = IF l < o + n THEN {labels[(o + n) - l]} ELSE {}
  BY <1>3 DEF Label
<1> HIDE DEF outer, o
<1>6. CASE l >= n + 1
  <2>1. ~(l < o + n)
    BY <1>2, <1>6
  <2> QED
    BY <1>4, <1>5, <1>6, <2>1
<1>7. CASE l = n
  <2>1. (o + n) - l = o /\ (l < o + n <=> o = 1) /\ ~(l >= n + 1) /\ o \in {0, 1}
    BY <1>2, <1>7
  <2>2. CASE o = 1
    <3>1. labels[1] = outer[1] /\ {outer[i] : i \in DOMAIN outer} = {outer[1]}
      BY <1>2, <1>3, <2>2
    <3> QED
      BY <1>4, <1>5, <1>7, <2>1, <2>2, <3>1
  <2>3. CASE o = 0
    <3>1. {outer[i] : i \in DOMAIN outer} = {}
      BY <1>2, <2>3
    <3> QED
      BY <1>4, <1>5, <1>7, <2>1, <2>3, <3>1
  <2> QED
    BY <2>1, <2>2, <2>3
<1>8. CASE l < n
  <2>1. n - l \in 1 .. n /\ (n - l) + 1 = (n + 1) - l /\ o + (n - l) = (o + n) - l /\ l < o + n
        /\ ~(l >= n + 1) /\ l # n
    BY <1>2, <1>8
  <2>2. labels[o + (n - l)] = Expects(frames[(n - l) + 1])
    BY <1>3, <2>1
  <2> QED
    BY <1>4, <1>5, <2>1, <2>2
<1> QED
  BY <1>6, <1>7, <1>8

\* A label is one list of types, or none.
LEMMA OneLabel ==
  \A l : \A types \in Label(l) : Label(l) = {types}
BY DEF Label

LEMMA BrKept ==
  ASSUME VInv, RInv, NEW l \in LabelIndex, Br(l)  PROVE RInv'
<1> DEFINE rules == {StuckRule(types) : types \in RuleLabel(l)}
<1>1. /\ status = "running" /\ UNCHANGED <<ctx, undisputed>> /\ undisputed' \in BOOLEAN
      /\ undisputed' => undisputed
  BY DEF Br, Running, RInv, Denoted
<1>2. Label(l) = RuleLabel(l)
  BY <1>1, LabelsAgree DEF LabelIndex
<1>3. CASE Label(l) = {} /\ Refuse("br", rules)
  <2>1. rules = {}
    BY <1>2, <1>3
  <2> HIDE DEF rules
  <2> QED
    BY <1>1, <1>3, <2>1, RefuseKept
<1>4. ASSUME NEW types \in Label(l), Stuck("br", types, rules)  PROVE RInv'
  <2>1. rules = {StuckRule(types)}
    BY <1>2, OneLabel
  <2>2. types \in Seq(ValueTypes)
    BY LabelTyped
  <2> HIDE DEF rules
  <2> QED
    BY <1>1, <1>4, <2>1, <2>2, StuckKept
<1> QED
  BY <1>3, <1>4 DEF Br

LEMMA BrIfKept ==
  ASSUME VInv, RInv, NEW l \in LabelIndex, BrIf(l)  PROVE RInv'
<1> DEFINE rules == {Rule(Append(types, "I32"), types) : types \in RuleLabel(l)}
<1>1. /\ status = "running" /\ UNCHANGED <<ctx, undisputed>> /\ undisputed' \in BOOLEAN
      /\ undisputed' => undisputed
  BY DEF BrIf, Running, RInv, Denoted
<1>2. Label(l) = RuleLabel(l)
  BY <1>1, LabelsAgree DEF LabelIndex
<1>3. CASE Label(l) = {} /\ Refuse("br_if", rules)
  <2>1. rules = {}
    BY <1>2, <1>3
  <2> HIDE DEF rules
  <2> QED
    BY <1>1, <1>3, <2>1, RefuseKept
<1>4. ASSUME NEW types \in Label(l),
             Visit("br_if", TypeStack(Stack, Vals(Append(types, "I32")), Vals(types)), rules)
      PROVE  RInv'
  <2>1. rules = {Rule(Append(types, "I32"), types)}
    BY <1>2, OneLabel
  <2>2. types \in Seq(ValueTypes) /\ Append(types, "I32") \in Seq(ValueTypes)
    BY LabelTyped, Longer
  <2> DEFINE params == Append(types, "I32")
  <2> HIDE DEF rules, params
  <2>3. Visit("br_if", TypeStack(Stack, Vals(params), Vals(types)), {Rule(params, types)})
    BY <1>4, <2>1 DEF params
  <2> QED
    BY <1>1, <2>2, <2>3, TypedKept DEF params
<1> QED
  BY <1>3, <1>4 DEF BrIf

\* Whether the labels of a table are compared to be equal as its rule says.
TableAgrees(targets, default) ==
  \A types \in Label(default) : \A i \in DOMAIN targets : \A ts \in Label(targets[i]) : ts = types
TableCompared(targets, default) ==
  \A types \in Label(default) : \A i \in DOMAIN targets :
    \A ts \in Label(targets[i]) : RangeEqual(ts, types)

LEMMA TableStep ==
  ASSUME NEW targets, NEW default, BrTable(targets, default)
  PROVE  LET rules == BrTableRules(targets, default) IN
         /\ Running
         /\ \/ /\ \/ Label(default) = {} \/ \E i \in DOMAIN targets : Label(targets[i]) = {}
                  \/ ~TableCompared(targets, default)
               /\ Refuse("br_table", rules)
            \/ /\ Label(default) # {} /\ \A i \in DOMAIN targets : Label(targets[i]) # {}
               /\ TableCompared(targets, default)
               /\ \E types \in Label(default) : Stuck("br_table", Append(types, "I32"), rules)
         /\ undisputed' = (undisputed
                            /\ (TableCompared(targets, default) <=> TableAgrees(targets, default)))
BY DEF BrTable, TableCompared, TableAgrees

LEMMA BrTableKept ==
  ASSUME VInv, RInv, NEW default \in LabelIndex, NEW n, NEW targets \in [1 .. n -> LabelIndex],
         BrTable(targets, default)
  PROVE  RInv'
<1> DEFINE rules == BrTableRules(targets, default)
<1>1. /\ status = "running" /\ UNCHANGED ctx /\ undisputed \in BOOLEAN
      /\ undisputed' = (undisputed
                         /\ (TableCompared(targets, default) <=> TableAgrees(targets, default)))
  BY TableStep DEF Running, RInv, Denoted
<1>2. undisputed' \in BOOLEAN
  BY <1>1
<1>3. Label(default) = RuleLabel(default)
  BY <1>1, LabelsAgree DEF LabelIndex
<1>4. \A i \in DOMAIN targets : Label(targets[i]) = RuleLabel(targets[i])
  BY <1>1, LabelsAgree DEF LabelIndex
<1>5. rules = {StuckRule(Append(types, "I32")) :
                 types \in {ts \in Label(default) : \A i \in DOMAIN targets : Label(targets[i]) = {ts}}}
  BY <1>3, <1>4 DEF BrTableRules
<1> HIDE DEF rules
<1>6. CASE /\ \/ Label(default) = {} \/ \E i \in DOMAIN targets : Label(targets[i]) = {}
              \/ ~TableCompared(targets, default)
           /\ Refuse("br_table", rules)
  <2>1. undisputed' => undisputed /\ rules = {}
    <3> SUFFICES ASSUME undisputed', NEW types \in Label(default),
                        \A i \in DOMAIN targets : Label(targets[i]) = {types}
                 PROVE  FALSE
      BY <1>1, <1>5
    <3>1. Label(default) = {types}
      BY OneLabel
    <3>2. TableAgrees(targets, default)
      BY <3>1 DEF TableAgrees
    <3> QED
      BY <1>1, <1>6, <3>2
  <2> QED
    BY <1>1, <1>2, <1>6, <2>1, RefuseKept
<1>7. ASSUME Label(default) # {}, \A i \in DOMAIN targets : Label(targets[i]) # {},
             TableCompared(targets, default),
             NEW types \in Label(default), Stuck("br_table", Append(types, "I32"), rules)
      PROVE  RInv'
  <2> DEFINE params == Append(types, "I32")
  <2>1. params \in Seq(ValueTypes)
    BY LabelTyped, Longer
  <2>2. undisputed' => undisputed /\ rules = {StuckRule(params)}
    <3> SUFFICES ASSUME undisputed'  PROVE rules = {StuckRule(params)}
      BY <1>1
    <3>1. Label(default) = {types}
      BY OneLabel
    <3>2. ASSUME NEW i \in DOMAIN targets  PROVE Label(targets[i]) = {types}
      <4>1. PICK ts : ts \in Label(targets[i])
        BY <1>7
      <4>2. ts = types
        BY <1>1, <1>7, <4>1 DEF TableAgrees
      <4> QED
        BY <4>1, <4>2, OneLabel
    <3>3. {ts \in Label(default) : \A i \in DOMAIN targets : Label(targets[i]) = {ts}} = {types}
      BY <3>1, <3>2
    <3> QED
      BY <1>5, <3>3
  <2> HIDE DEF params
  <2>3. Stuck("br_table", params, rules)
    BY <1>7 DEF params
  <2> QED
    BY <1>1, <1>2, <2>1, <2>2, <2>3, StuckKept
<1> QED
  BY <1>6, <1>7, TableStep DEF rules

-----------------------------------------------------------------------------
(* Blocks: a visitor of its own, and the end of what it visits.            *)

LEMMA FreshReads ==
  ASSUME NEW kind, NEW type, Signed(type)
  PROVE  /\ Clean(Frame(kind, type).operands)
         /\ Readings(Frame(kind, type).operands) = FreshMeaning(type)
<1> DEFINE params == type.params
           h == Len(params)
           t == Frame(kind, type).operands
<1>1. params \in Seq(ValueTypes)
  BY DEF Signed
<1>2. t = [stack |-> Vals(params), required |-> 0, epsilon |-> FALSE]
  BY FilledFields DEF Frame
<1>3. Sound(t)
  BY FrameSound DEF VisitorSound
<1> HIDE DEF t, params
<1>4. t.stack = Vals(params) /\ t.epsilon = FALSE
  BY <1>2
<1>5. /\ h \in Nat /\ Len(t.stack) = h
      /\ \A j \in 1 .. h : params[j] \in ValueTypes /\ t.stack[j] = Val(params[j])
  BY <1>1, <1>4, Expected
<1>6. params = [j \in 1 .. h |-> params[j]]
  BY <1>1
<1> HIDE DEF h
<1>7. Clean(t)
  BY <1>5 DEF Clean
<1>8. \A j \in 1 .. h : ~IsVar(t.stack[j]) /\ t.stack[j].type = params[j]
  BY <1>5, TypeOfVal
<1>9. Tops(t) = {params}
  <2>1. params \in [1 .. h -> ValueTypes]
    BY <1>5, <1>6
  <2>2. params \in Tops(t)
    BY <1>5, <1>8, <2>1 DEF Tops
  <2>3. ASSUME NEW top \in Tops(t)  PROVE top = params
    <3>1. top \in [1 .. h -> ValueTypes] /\ \A j \in 1 .. h : top[j] = params[j]
      BY <1>5, <1>8 DEF Tops
    <3>2. top = [j \in 1 .. h |-> top[j]]
      BY <3>1
    <3> QED
      BY <1>6, <3>1, <3>2
  <2> QED
    BY <2>2, <2>3
<1>10. Readings(t) = {Reading(FALSE, params)}
  <2>1. Readings(t) = {Reading(t.epsilon, top) : top \in Tops(t)}
    BY <1>3, <1>7, ReadingsAreTops
  <2> QED
    BY <1>4, <1>9, <2>1
<1> QED
  BY <1>7, <1>10 DEF FreshMeaning, Reading, t, params

LEMMA EnterKept ==
  ASSUME VInv, RInv, status = "running", UNCHANGED <<ctx, undisputed>>, NEW kind,
         NEW params \in Seq(ValueTypes), NEW type \in BlockTypes, NEW label,
         label = IF kind = "loop" THEN type.params ELSE type.results,
         Enter(kind, params, type, label)
  PROVE  RInv'
<1> DEFINE r == TypeStack(Stack, Vals(params), Vals(type.results))
           to == r.to
           derived == Derive(meaning[Depth], {Rule(params, type.results)})
           now == Derive(Readings(Stack), {Rule(params, type.results)})
           new == Frame(kind, type)
           kept == [frames EXCEPT ![Depth].operands = to]
           M == [meaning EXCEPT ![Depth] = derived]
<1>1. Signed(type)
  BY DeclaredSigned
<1>2. r.ok <=> now # {}
  BY <1>1, MeaningAtWork, TypedReads DEF Signed
<1>3. r.ok => Clean(to) /\ Readings(to) = now
  BY <1>1, MeaningAtWork, TypedReads DEF Signed
<1>4. undisputed => derived = now /\ typable = TRUE
  BY MeaningAtWork
<1>5. /\ labels' = Append(labels, label) /\ typable' = (typable /\ derived # {})
      /\ \/ /\ r.ok /\ frames' = Append(kept, new) /\ meaning' = Append(M, FreshMeaning(type))
            /\ UNCHANGED status
         \/ ~r.ok /\ status' = "rejected" /\ UNCHANGED <<frames, meaning>>
  BY DEF Enter
<1>6. /\ new.operands = Frame(kind, type).operands /\ Expects(new) = label
      /\ Clean(new.operands) /\ Readings(new.operands) = FreshMeaning(type)
  BY <1>1, FreshReads DEF Frame, Expects
<1>7. PICK n \in Nat :
        /\ Depth = n + 1 /\ Len(frames) = n + 1 /\ DOMAIN frames = 1 .. n + 1
        /\ Len(kept) = n + 1 /\ DOMAIN kept = 1 .. n + 1 /\ kept = [i \in 1 .. n + 1 |-> kept[i]]
        /\ kept[n + 1].operands = to /\ Expects(kept[n + 1]) = Expects(frames[n + 1])
        /\ \A i \in 1 .. n + 1 : i # n + 1 => kept[i] = frames[i]
  BY Working
<1> HIDE DEF r, to, now, new, kept, derived, M
<1>8. CASE ~r.ok /\ status' = "rejected" /\ UNCHANGED <<frames, meaning>>
  <2>1. CleanStacks' /\ LabelsNest'
    BY <1>8 DEF RInv, CleanStacks, LabelsNest
  <2>2. Denoted'
    BY <1>2, <1>4, <1>5, <1>8 DEF RInv, Denoted
  <2> QED
    BY <2>1, <2>2 DEF RInv
<1>9. CASE r.ok /\ frames' = Append(kept, new) /\ meaning' = Append(M, FreshMeaning(type))
           /\ UNCHANGED status
  <2>1. /\ frames' = [i \in 1 .. (n + 1) + 1 |-> IF i = (n + 1) + 1 THEN new ELSE kept[i]]
        /\ n + 1 \in Nat
    BY <1>7, <1>9, Appended
  <2>2. Len(frames') = (n + 1) + 1 /\ DOMAIN frames' = 1 .. (n + 1) + 1
    BY <2>1
  <2>3. \A i \in 1 .. n + 1 : Clean(kept[i].operands) /\ Expects(kept[i]) = Expects(frames[i])
    BY <1>3, <1>7, <1>9 DEF RInv, CleanStacks
  <2>4. CleanStacks'
    BY <1>6, <2>1, <2>2, <2>3 DEF CleanStacks
  <2>5. LabelsNest'
    <3>1. LabelsOf(labels, ctx.labels, frames) /\ labels \in Seq(Seq(ValueTypes))
          /\ Len(ctx.labels) \in Nat
      <4>1. LabelsOf(labels, ctx.labels, frames) /\ labels \in Seq(Seq(ValueTypes))
        BY DEF RInv, LabelsNest, VInv
      <4>2. Len(ctx.labels) \in Nat
        BY TypesAssumption DEF VInv
      <4> QED
        BY <4>1, <4>2
    <3> DEFINE outer == ctx.labels
               o == Len(outer)
    <3>2. /\ Len(labels) = o + n /\ o \in Nat
          /\ \A i \in 1 .. o : labels[i] = outer[i]
          /\ \A i \in 1 .. n : labels[o + i] = Expects(frames[i + 1])
      BY <1>7, <3>1 DEF LabelsOf
    <3>3. /\ labels' = [i \in 1 .. (o + n) + 1 |-> IF i = (o + n) + 1 THEN label ELSE labels[i]]
          /\ Len(labels') = (o + n) + 1
      <4>1. labels = [i \in 1 .. o + n |-> labels[i]] /\ o + n \in Nat
        BY <3>1, <3>2
      <4> HIDE DEF o, outer
      <4>2. labels' = [i \in 1 .. (o + n) + 1 |-> IF i = (o + n) + 1 THEN label ELSE labels[i]]
        BY <1>5, <4>1, Appended
      <4>3. Len(labels') = (o + n) + 1
        BY <4>1, <4>2
      <4> QED
        BY <4>2, <4>3
    <3> HIDE DEF o, outer
    <3>4. \A i \in 1 .. o : labels'[i] = outer[i]
      BY <3>2, <3>3
    <3>5. ASSUME NEW i \in 1 .. n + 1  PROVE labels'[o + i] = Expects(frames'[i + 1])
      <4>1. CASE i = n + 1
        <5>1. labels'[o + i] = label
          BY <3>2, <3>3, <4>1
        <5>2. frames'[i + 1] = new
          BY <2>1, <4>1
        <5> QED
          BY <1>6, <5>1, <5>2
      <4>2. CASE i # n + 1
        <5>0. i \in 1 .. n /\ o + i \in 1 .. (o + n) + 1 /\ o + i # (o + n) + 1
          BY <3>2, <4>2
        <5>1. labels'[o + i] = Expects(frames[i + 1])
          BY <3>2, <3>3, <5>0
        <5>2. i + 1 \in 1 .. n + 1 /\ i + 1 \in 1 .. (n + 1) + 1 /\ i + 1 # (n + 1) + 1
          BY <5>0
        <5>3. frames'[i + 1] = kept[i + 1]
          BY <2>1, <5>2
        <5> QED
          BY <2>3, <5>1, <5>2, <5>3
      <4> QED
        BY <4>1, <4>2
    <3>6. Len(labels') = o + (Len(frames') - 1) /\ Len(frames') - 1 = n + 1
      BY <2>2, <3>2, <3>3
    <3>7. LabelsOf(labels', outer, frames')
      BY <3>4, <3>5, <3>6 DEF LabelsOf, o
    <3> QED
      BY <3>7 DEF LabelsNest, outer
  <2>6. Denoted'
    <3>0. undisputed' => undisputed
      OBVIOUS
    <3>1. ASSUME undisputed
          PROVE  typable' = TRUE /\ meaning' = MeaningOf(frames')
      <4>1. meaning = [i \in 1 .. n + 1 |-> Readings(frames[i].operands)]
        BY <1>7, <3>1 DEF RInv, Denoted, MeaningOf
      <4>2. n + 1 \in 1 .. n + 1
        OBVIOUS
      <4>3. M = [i \in 1 .. n + 1 |-> IF i = n + 1 THEN derived ELSE Readings(frames[i].operands)]
        BY <1>7, <4>1, <4>2 DEF M
      <4>4. \A i \in 1 .. n + 1 :
              (IF i = n + 1 THEN derived ELSE Readings(frames[i].operands)) = Readings(kept[i].operands)
        BY <1>3, <1>4, <1>7, <1>9, <3>1
      <4>5. M = [i \in 1 .. n + 1 |-> Readings(kept[i].operands)]
        BY <4>3, <4>4
      <4>6. M = [i \in 1 .. n + 1 |-> M[i]] /\ \A i \in 1 .. n + 1 : M[i] = Readings(kept[i].operands)
        BY <4>5
      <4>7. meaning' = [i \in 1 .. (n + 1) + 1 |->
                          IF i = (n + 1) + 1 THEN FreshMeaning(type) ELSE M[i]]
        BY <1>9, <2>1, <4>6, Appended
      <4>8. \A i \in 1 .. (n + 1) + 1 :
              (IF i = (n + 1) + 1 THEN FreshMeaning(type) ELSE M[i]) = Readings(frames'[i].operands)
        BY <1>6, <2>1, <4>6
      <4>9. meaning' = [i \in 1 .. (n + 1) + 1 |-> Readings(frames'[i].operands)]
        BY <4>7, <4>8
      <4>10. typable' = TRUE
        BY <1>2, <1>4, <1>5, <1>9, <3>1
      <4> QED
        BY <2>2, <4>9, <4>10 DEF MeaningOf
    <3>2. typable' \in BOOLEAN /\ undisputed' \in BOOLEAN
      BY <1>5 DEF RInv, Denoted
    <3>3. status' \notin {"rejected", "aborted"}
      BY <1>9
    <3>4. undisputed' => typable' = TRUE /\ meaning' = MeaningOf(frames')
      BY <3>0, <3>1
    <3> QED
      BY <3>2, <3>3, <3>4 DEF Denoted
  <2> QED
    BY <2>4, <2>5, <2>6 DEF RInv
<1> QED
  BY <1>5, <1>8, <1>9

LEMMA BlocksKept ==
  ASSUME VInv, RInv, NEW type \in BlockTypes, NEW hasElse, Block(type) \/ Loop(type) \/ If(type, hasElse)
  PROVE  RInv'
<1>1. /\ status = "running" /\ UNCHANGED <<ctx, undisputed>> /\ undisputed' \in BOOLEAN
  BY DEF Block, Loop, If, Running, RInv, Denoted
<1>2. /\ type.params \in Seq(ValueTypes) /\ type.results \in Seq(ValueTypes)
      /\ Append(type.params, "I32") \in Seq(ValueTypes)
  BY DeclaredSigned, Longer DEF Signed
<1>3. CASE Block(type)
  BY <1>1, <1>2, <1>3, EnterKept DEF Block
<1>4. CASE Loop(type)
  BY <1>1, <1>2, <1>4, EnterKept DEF Loop
<1>5. CASE If(type, hasElse)
  <2>1. CASE Refuse("if", {})
    BY <1>1, <2>1, RefuseKept
  <2>2. CASE \E kind \in {"if", IfElse} :
               Enter(kind, Append(type.params, "I32"), type, type.results)
    <3>1. \A kind \in {"if", IfElse} : kind # "loop"
      BY DEF IfElse
    <3> DEFINE params == Append(type.params, "I32")
    <3> HIDE DEF params
    <3> QED
      BY <1>1, <1>2, <2>2, <3>1, EnterKept DEF params
  <2> QED
    BY <1>5, <2>1, <2>2 DEF If, IfElse
<1> QED
  BY <1>3, <1>4, <1>5

\* What is left at the end is one of the readings, and nothing else.
LEMMA EndsReads ==
  ASSUME VInv, RInv, status = "running", undisputed
  PROVE  Concludes(meaning[Depth], Top.results) <=> EndsProperly
<1> DEFINE t == Stack
           results == Top.results
           h == Len(t.stack)
           c == Left(h, Len(results))
           r == TypeStack(t, Vals(results), <<>>)
<1>1. /\ Sound(t) /\ Clean(t) /\ meaning[Depth] = Readings(t) /\ results \in Seq(ValueTypes)
  BY MeaningAtWork, StackAtWork DEF Signed
<1>2. EndsProperly <=> r.ok /\ r.to.stack = <<>>
  BY DEF EndsProperly
<1> HIDE DEF t, results
<1>3. /\ h \in Nat /\ c \in Nat /\ Len(results) \in Nat /\ Len(Vals(results)) = Len(results)
      /\ t.epsilon \in BOOLEAN
  BY <1>1, StackHeight, Expected, LeftBelow DEF Sound
<1>4. r.ok <=> Agreeing(t, results) # {}
  <2>1. r.ok <=> Fits(t, Vals(results), Len(results))
    BY <1>1, <1>3, EnsuredFits DEF TypeStack
  <2> QED
    BY <1>1, <2>1, FitsAgree
<1>5. r.ok => (r.to.stack = <<>> <=> c = 0)
  <2> SUFFICES ASSUME r.ok  PROVE r.to.stack = <<>> <=> c = 0
    OBVIOUS
  <2> DEFINE es == Vals(results)
             end == Ensured(t, es)
  <2>1. end.ok /\ r.to.stack = Onto(end.stack, end.cursor, <<>>)
    BY DEF TypeStack, Onto
  <2>2. Row(end.stack, h) /\ end.cursor = c /\ end.cursor \in 0 .. h
    BY <1>1, <1>3, <2>1, Consumes, EnsuredFits DEF Consumed
  <2> DEFINE row == end.stack
             none == <<>>
  <2>3. Row(row, h) /\ Row(none, 0) /\ c <= h
    BY <1>3, <2>2, NoPromise
  <2>4. r.to.stack = Onto(row, c, none)
    BY <2>1, <2>2
  <2> HIDE DEF row, none, end, r, c, h, es
  <2>5. Onto(row, c, none) = Join(row, c, none, 0)
    BY <1>3, <2>3, Joined
  <2>6. r.to.stack = [j \in 1 .. c + 0 |-> IF j <= c THEN row[j] ELSE none[j - c]]
    BY <2>4, <2>5 DEF Join
  <2>7. DOMAIN (r.to.stack) = 1 .. c
    BY <1>3, <2>6
  <2>8. c # 0 => 1 \in 1 .. c
    BY <1>3
  <2>9. c = 0 => r.to.stack = <<>>
    BY <2>6
  <2>10. r.to.stack = <<>> => 1 .. c = {}
    BY <2>7
  <2> QED
    BY <2>8, <2>9, <2>10
<1>6. \A top \in Tops(t) :
        Under(Reading(t.epsilon, top), results) =
          IF Agree(t.epsilon, h, top, results) THEN {Reading(t.epsilon, Rest(top, c))} ELSE {}
  <2>1. \A top \in Tops(t) : top \in [1 .. h -> ValueTypes]
    BY DEF Tops
  <2> QED
    BY <1>1, <1>3, <2>1, UnderAgrees
<1>7. Readings(t) = {Reading(t.epsilon, top) : top \in Tops(t)}
  BY <1>1, ReadingsAreTops
<1>8. \A top : top \in Agreeing(t, results) <=> top \in Tops(t) /\ Agree(t.epsilon, h, top, results)
  BY DEF Agreeing
<1>9. \A top : Rest(top, c) = <<>> <=> c = 0
  <2> TAKE top
  <2>1. DOMAIN Rest(top, c) = 1 .. c
    BY DEF Rest
  <2>2. c # 0 => 1 \in 1 .. c
    BY <1>3
  <2>3. c = 0 => Rest(top, c) = <<>>
    BY DEF Rest
  <2>4. Rest(top, c) = <<>> => 1 .. c = {}
    BY <2>1
  <2> QED
    BY <2>2, <2>3, <2>4
<1>10. \A top : Reading(t.epsilon, Rest(top, c)).top = Rest(top, c)
  BY DEF Reading
<1> HIDE DEF c, h, r
<1>11. Concludes(Readings(t), results) <=> Agreeing(t, results) # {} /\ c = 0
  <2>1. Concludes(Readings(t), results)
          <=> \E top \in Tops(t) : \E u \in Under(Reading(t.epsilon, top), results) : u.top = <<>>
    BY <1>7 DEF Concludes
  <2>2. ASSUME NEW top \in Tops(t)
        PROVE  (\E u \in Under(Reading(t.epsilon, top), results) : u.top = <<>>)
                 <=> Agree(t.epsilon, h, top, results) /\ c = 0
    <3> DEFINE left == Reading(t.epsilon, Rest(top, c))
    <3>1. Under(Reading(t.epsilon, top), results) =
            IF Agree(t.epsilon, h, top, results) THEN {left} ELSE {}
      BY <1>6
    <3>2. left.top = <<>> <=> c = 0
      BY <1>9, <1>10
    <3> HIDE DEF left
    <3> QED
      BY <3>1, <3>2
  <2>3. Concludes(Readings(t), results)
          <=> \E top \in Tops(t) : Agree(t.epsilon, h, top, results) /\ c = 0
    BY <2>1, <2>2
  <2> QED
    BY <1>8, <2>3
<1>12. Concludes(Readings(t), results) <=> EndsProperly
  BY <1>2, <1>4, <1>5, <1>11
<1> QED
  BY <1>1, <1>12 DEF t, results

\* The end of an expression, as far as its verdict goes.
LEMMA EndVerdict ==
  ASSUME VInv, RInv, EndExpression
  PROVE  /\ status = "running" /\ UNCHANGED <<ctx, undisputed>>
         /\ typable' \in BOOLEAN /\ undisputed' \in BOOLEAN
         /\ undisputed' => undisputed /\ (typable' <=> EndsProperly)
<1>1. /\ status = "running" /\ UNCHANGED <<ctx, undisputed>>
      /\ typable' = (typable /\ Concludes(meaning[Depth], Top.results))
  BY DEF EndExpression, Running
<1>2. typable' \in BOOLEAN /\ undisputed' \in BOOLEAN
  BY <1>1 DEF RInv, Denoted
<1>3. ASSUME undisputed'  PROVE undisputed /\ (typable' <=> EndsProperly)
  <2>1. undisputed
    BY <1>1, <1>3
  <2>2. typable = TRUE
    BY <1>1, <2>1, MeaningAtWork
  <2>3. Concludes(meaning[Depth], Top.results) <=> EndsProperly
    BY <1>1, <2>1, EndsReads
  <2>4. typable' <=> EndsProperly
    BY <1>1, <2>2, <2>3
  <2> QED
    BY <2>1, <2>4
<1> QED
  BY <1>1, <1>2, <1>3

LEMMA EndElseKept ==
  ASSUME VInv, RInv, EndExpression, EndElse, EndsProperly, Top.kind = IfElse
  PROVE  RInv'
<1>1. /\ status = "running" /\ UNCHANGED <<ctx, undisputed>>
      /\ typable' \in BOOLEAN /\ undisputed' \in BOOLEAN
      /\ undisputed' => undisputed /\ typable' = TRUE
  BY EndVerdict
<1>2. PICK n \in Nat : /\ Depth = n + 1 /\ DOMAIN frames = 1 .. n + 1
                       /\ frames = [i \in 1 .. n + 1 |-> frames[i]]
                       /\ \A i \in 1 .. n + 1 : VisitorSound(frames[i])
  BY AtWork
<1> DEFINE type == [params |-> Top.params, results |-> Top.results]
           other == Frame("else", type)
<1>3. /\ Clean(other.operands) /\ Readings(other.operands) = FreshMeaning(type)
      /\ Expects(other) = Expects(Top)
  <2>1. Signed(type)
    BY StackAtWork DEF Signed
  <2>2. Clean(other.operands) /\ Readings(other.operands) = FreshMeaning(type)
    BY <2>1, FreshReads
  <2>3. Expects(other) = Expects(Top)
    <3>1. IfElse # "loop"
      BY DEF IfElse
    <3> QED
      BY <3>1 DEF Expects, Frame
  <2> QED
    BY <2>2, <2>3
<1>4. /\ frames' = [frames EXCEPT ![n + 1] = other] /\ UNCHANGED <<labels, status>>
      /\ meaning' = [meaning EXCEPT ![n + 1] = FreshMeaning(type)]
      /\ Top = frames[n + 1]
  <2>1. /\ frames' = [frames EXCEPT ![Depth] = other] /\ UNCHANGED <<labels, status>>
        /\ meaning' = [meaning EXCEPT ![Depth] = FreshMeaning(type)]
    BY DEF EndElse, Top, FreshMeaning
  <2> HIDE DEF other, type
  <2> QED
    BY <1>2, <2>1 DEF Top
<1> HIDE DEF other, type
<1>5. /\ frames' = [i \in 1 .. n + 1 |-> IF i = n + 1 THEN other ELSE frames[i]]
      /\ Len(frames) = n + 1
  BY <1>2, <1>4
<1>6. Len(frames') = n + 1 /\ DOMAIN frames' = 1 .. n + 1
  BY <1>5
<1>7. CleanStacks'
  BY <1>2, <1>3, <1>5, <1>6 DEF RInv, CleanStacks
<1>8. LabelsNest'
  <2>1. LabelsOf(labels, ctx.labels, frames)
    BY <1>1 DEF RInv, LabelsNest
  <2>2. \A i \in 1 .. n + 1 : Expects(frames'[i]) = Expects(frames[i])
    BY <1>3, <1>4, <1>5
  <2>3. \A i \in 1 .. (n + 1) - 1 : i + 1 \in 1 .. n + 1
    OBVIOUS
  <2>4. LabelsOf(labels', ctx.labels', frames')
    BY <1>1, <1>4, <1>5, <1>6, <2>1, <2>2, <2>3 DEF LabelsOf
  <2> QED
    BY <2>4 DEF LabelsNest
<1>9. ASSUME undisputed'  PROVE meaning' = MeaningOf(frames')
  <2>1. meaning = [i \in 1 .. n + 1 |-> Readings(frames[i].operands)]
    BY <1>1, <1>5, <1>9 DEF RInv, Denoted, MeaningOf
  <2>2. meaning' = [i \in 1 .. n + 1 |->
                      IF i = n + 1 THEN FreshMeaning(type) ELSE Readings(frames[i].operands)]
    BY <1>4, <2>1
  <2>3. \A i \in 1 .. n + 1 :
          (IF i = n + 1 THEN FreshMeaning(type) ELSE Readings(frames[i].operands))
            = Readings(frames'[i].operands)
    BY <1>3, <1>5
  <2> QED
    BY <1>6, <2>2, <2>3 DEF MeaningOf
<1>10. Denoted'
  <2>1. status' \notin {"rejected", "aborted"}
    BY <1>1, <1>4
  <2> QED
    BY <1>1, <1>9, <2>1 DEF Denoted
<1> QED
  BY <1>7, <1>8, <1>10 DEF RInv

LEMMA EndBlockKept ==
  ASSUME VInv, RInv, EndExpression, EndBlock, EndsProperly, Depth > 1
  PROVE  RInv'
<1>1. /\ status = "running" /\ UNCHANGED <<ctx, undisputed>>
      /\ typable' \in BOOLEAN /\ undisputed' \in BOOLEAN
      /\ undisputed' => undisputed /\ typable' = TRUE
  BY EndVerdict
<1>2. PICK n \in Nat : /\ Depth = n + 1 /\ DOMAIN frames = 1 .. n + 1
                       /\ frames = [i \in 1 .. n + 1 |-> frames[i]]
  BY AtWork
<1>3. PICK m \in Nat : n = m + 1
  <2>1. n > 0 /\ n - 1 \in Nat
    BY <1>2
  <2> QED
    BY <2>1
<1>4. /\ frames' = SubSeq(frames, 1, n) /\ meaning' = SubSeq(meaning, 1, n)
      /\ labels' = SubSeq(labels, 1, Len(labels) - 1) /\ UNCHANGED status
  BY <1>2 DEF EndBlock
<1>5. frames' = [i \in 1 .. n |-> frames[i]] /\ Len(frames) = n + 1
  BY <1>2, <1>4, Shortened
<1>6. Len(frames') = n /\ DOMAIN frames' = 1 .. n /\ \A i \in 1 .. n : frames'[i] = frames[i]
  BY <1>5
<1>7. CleanStacks'
  <2>1. \A i \in 1 .. n : i \in DOMAIN frames
    BY <1>2
  <2>2. \A i \in 1 .. n : Clean(frames[i].operands)
    BY <2>1 DEF RInv, CleanStacks
  <2>3. \A i \in DOMAIN frames' : Clean(frames'[i].operands)
    BY <1>6, <2>2
  <2> QED
    BY <2>3 DEF CleanStacks
<1>8. LabelsNest'
  <2> DEFINE outer == ctx.labels
             o == Len(outer)
  <2>1. /\ LabelsOf(labels, outer, frames) /\ labels \in Seq(Seq(ValueTypes)) /\ o \in Nat
        /\ outer' = outer
    <3>1. LabelsOf(labels, outer, frames) /\ labels \in Seq(Seq(ValueTypes)) /\ outer' = outer
      BY <1>1 DEF RInv, LabelsNest, VInv
    <3>2. o \in Nat
      BY TypesAssumption DEF VInv
    <3> QED
      BY <3>1, <3>2
  <2>2. /\ Len(labels) = o + n
        /\ \A i \in 1 .. o : labels[i] = outer[i]
        /\ \A i \in 1 .. n : labels[o + i] = Expects(frames[i + 1])
    BY <1>5, <2>1 DEF LabelsOf
  <2>3. o + n = (o + m) + 1 /\ o + m \in Nat
    <3>1. o \in Nat /\ m \in Nat /\ n = m + 1
      BY <1>3, <2>1
    <3> HIDE DEF o
    <3> QED
      BY <3>1
  <2>4. labels = [i \in 1 .. (o + m) + 1 |-> labels[i]]
    <3>1. labels = [i \in 1 .. Len(labels) |-> labels[i]]
      BY <2>1
    <3> QED
      BY <2>2, <2>3, <3>1
  <2> HIDE DEF outer, o
  <2>5. labels' = [i \in 1 .. o + m |-> labels[i]]
    <3>1. labels' = SubSeq(labels, 1, o + m)
      BY <1>4, <2>2, <2>3
    <3> QED
      BY <2>3, <2>4, <3>1, Shortened
  <2>6. Len(labels') = o + m
    BY <2>3, <2>5
  <2>7. \A i \in 1 .. o : labels'[i] = outer[i]
    BY <1>3, <2>1, <2>2, <2>5
  <2>8. ASSUME NEW i \in 1 .. n - 1  PROVE labels'[o + i] = Expects(frames'[i + 1])
    <3>1. o + i \in 1 .. o + m /\ i \in 1 .. n /\ i + 1 \in 1 .. n
      BY <1>3, <2>1
    <3> QED
      BY <1>6, <2>2, <2>5, <3>1
  <2>9. Len(labels') = o + (Len(frames') - 1)
    BY <1>3, <1>6, <2>1, <2>6
  <2>10. LabelsOf(labels', outer, frames')
    BY <1>6, <2>7, <2>8, <2>9 DEF LabelsOf, o
  <2> QED
    BY <2>1, <2>10 DEF LabelsNest, outer
<1>9. ASSUME undisputed'  PROVE meaning' = MeaningOf(frames')
  <2>1. meaning = [i \in 1 .. n + 1 |-> Readings(frames[i].operands)]
    BY <1>1, <1>5, <1>9 DEF RInv, Denoted, MeaningOf
  <2>2. meaning = [i \in 1 .. n + 1 |-> meaning[i]]
        /\ \A i \in 1 .. n : meaning[i] = Readings(frames[i].operands)
    BY <2>1
  <2>3. meaning' = [i \in 1 .. n |-> meaning[i]]
    BY <1>4, <2>2, Shortened
  <2>4. meaning' = [i \in 1 .. n |-> Readings(frames'[i].operands)]
    BY <1>6, <2>2, <2>3
  <2> QED
    BY <1>6, <2>4 DEF MeaningOf
<1>10. Denoted'
  <2>1. status' \notin {"rejected", "aborted"}
    BY <1>1, <1>4
  <2> QED
    BY <1>1, <1>9, <2>1 DEF Denoted
<1> QED
  BY <1>7, <1>8, <1>10 DEF RInv

LEMMA EndKept ==
  ASSUME VInv, RInv, EndExpression  PROVE RInv'
<1>1. /\ status = "running" /\ UNCHANGED <<ctx, undisputed>>
      /\ typable' \in BOOLEAN /\ undisputed' \in BOOLEAN
      /\ undisputed' => undisputed /\ (typable' <=> EndsProperly)
  BY EndVerdict
<1>2. CASE EndsProperly /\ Top.kind = IfElse /\ EndElse
  BY <1>2, EndElseKept
<1>3. CASE EndsProperly /\ Depth > 1 /\ EndBlock
  BY <1>3, EndBlockKept
<1>4. CASE /\ \/ ~EndsProperly /\ status' = "rejected"
              \/ EndsProperly /\ status' = "accepted"
           /\ UNCHANGED frames
  <2>1. CleanStacks' /\ LabelsNest'
    BY <1>4 DEF RInv, CleanStacks, LabelsNest
  <2>2. Denoted'
    BY <1>1, <1>4 DEF Denoted
  <2> QED
    BY <2>1, <2>2 DEF RInv
<1> QED
  BY <1>2, <1>3, <1>4 DEF EndExpression, IfElse

-----------------------------------------------------------------------------
(* Every step, and the theorems.                                           *)

LEMMA StepKept == VInv /\ RInv /\ [Next]_vars => RInv'
<1> SUFFICES ASSUME VInv, RInv, [Next]_vars  PROVE RInv'
  OBVIOUS
<1>1. CASE UNCHANGED vars
  BY <1>1 DEF vars, RInv, CleanStacks, LabelsNest, Denoted
<1> QED
  BY <1>1, PlainKept, UnreachableKept, ReturnKept, DropKept, SelectKept, BlocksKept, BrKept,
     BrIfKept, BrTableKept, CallsKept, VariablesKept, EndKept DEF Next

LEMMA InitKept == Init => RInv
<1> SUFFICES ASSUME Init  PROVE RInv
  OBVIOUS
<1> DEFINE type == Typing(<<>>, ctx.results)
           body == Frame("body", type)
<1>1. /\ ctx \in Contexts /\ frames = <<body>> /\ labels = ctx.labels /\ status = "running"
      /\ meaning = <<FreshMeaning(type)>> /\ typable = TRUE /\ undisputed = TRUE
  BY DEF Init
<1>2. Clean(body.operands) /\ Readings(body.operands) = FreshMeaning(type)
  <2>1. ctx.results \in Seq(ValueTypes)
    BY <1>1, TypesAssumption
  <2>2. Signed(type)
    BY <2>1, Shorts, TypingSigned
  <2> HIDE DEF type
  <2> QED
    BY <2>2, FreshReads
<1> HIDE DEF body, type
<1>3. Len(frames) = 1 /\ DOMAIN frames = 1 .. 1 /\ frames[1] = body
  BY <1>1
<1>4. CleanStacks
  <2>1. \A i \in 1 .. 1 : i = 1
    OBVIOUS
  <2> QED
    BY <1>2, <1>3, <2>1 DEF CleanStacks
<1>5. LabelsNest
  <2>1. Len(ctx.labels) \in Nat
    BY <1>1, TypesAssumption
  <2>2. 1 .. 1 - 1 = {} /\ Len(ctx.labels) + (1 - 1) = Len(ctx.labels)
    BY <2>1
  <2>3. LabelsOf(labels, ctx.labels, frames)
    BY <1>1, <1>3, <2>2 DEF LabelsOf
  <2> QED
    BY <2>3 DEF LabelsNest
<1>6. meaning = MeaningOf(frames)
  <2>1. meaning = [i \in 1 .. 1 |-> FreshMeaning(type)]
    BY <1>1
  <2>2. \A i \in 1 .. 1 : FreshMeaning(type) = Readings(frames[i].operands)
    BY <1>2, <1>3
  <2> QED
    BY <1>3, <2>1, <2>2 DEF MeaningOf
<1>7. Denoted
  BY <1>1, <1>6 DEF Denoted
<1> QED
  BY <1>4, <1>5, <1>7 DEF RInv

LEMMA RulesKept == Spec => [](VInv /\ RInv)
<1>1. Init => VInv /\ RInv
  BY InitSound, InitKept
<1>2. VInv /\ RInv /\ [Next]_vars => VInv' /\ RInv'
  BY StepSound, StepKept
<1> QED
  BY <1>1, <1>2, PTL DEF Spec

(* While an expression is validated, the operand stack of every open block,  *)
(* with its epsilon and its variable, stands for exactly the stacks of types  *)
(* that the rules allow there, whatever the contexts, types and instructions.  *)
THEOREM StacksAlwaysDenote == Spec => []StacksDenote
<1>1. VInv /\ RInv => StacksDenote
  <2> SUFFICES ASSUME VInv, RInv, undisputed, status = "running", NEW i \in DOMAIN frames
               PROVE  Readings(frames[i].operands) = meaning[i]
    BY DEF StacksDenote
  <2>1. PICK n \in Nat : Depth = n + 1 /\ DOMAIN frames = 1 .. n + 1
    BY AtWork
  <2>2. i \in 1 .. Len(frames)
    BY <2>1 DEF Depth
  <2> QED
    BY <2>2 DEF RInv, Denoted, MeaningOf
<1> QED
  BY <1>1, RulesKept, PTL

(* Validation refuses an expression at exactly the instruction where the     *)
(* rules stop giving it a type, and accepts it only if they give it one,      *)
(* unless a br_table compared labels that its inverted comparison gets wrong. *)
THEOREM VerdictAlwaysFollowsRules == Spec => []VerdictFollowsRules
<1>1. RInv => VerdictFollowsRules
  BY DEF RInv, Denoted, VerdictFollowsRules
<1> QED
  BY <1>1, RulesKept, PTL
=============================================================================
