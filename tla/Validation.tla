------------------------------ MODULE Validation ------------------------------
(***************************************************************************)
(* The validation of one expression: the LabelStack, the OperandStack of     *)
(* each visitor, and an action for every handler of ExprValidationVisitor.   *)
(* A nested block is validated by a duplicate of the visitor, which is a     *)
(* frame on top of the one that opened the block.                            *)
(*                                                                         *)
(* Beside it the same instructions are typed as the rules over the handlers  *)
(* read, "C |- select: [t t i32] -> [t]": `meaning` holds, for each frame,   *)
(* every operand stack the instructions so far can be given a type with.     *)
(***************************************************************************)
EXTENDS OperandStack, FiniteSets

CONSTANTS
  Contexts,      \* the contexts an expression is validated in (a set of records)
  BlockTypes,    \* the types a block may declare
  FunctionTypes, \* Module.Types: a sequence of function types
  Callees,       \* the types of the functions, by index
  PlainOps,      \* the instructions of the typing table an expression may use
  MaxDepth,      \* bound: blocks opened inside each other
  MaxHeight,     \* bound: operands on the stack of one frame
  MaxRequired,   \* bound: operands one frame takes from under an epsilon
  MaxTargets     \* bound: targets of a br_table beside the default

ASSUME OpsAssumption == PlainOps \subseteq Opcode
ASSUME MaxDepth \in Nat /\ MaxHeight \in Nat /\ MaxRequired \in Nat /\ MaxTargets \in Nat

(* What the module and its contexts declare are value types: no operand is a
   type variable but those validation makes. *)
FunctionType == [params : Seq(ValueTypes), results : Seq(ValueTypes)]
ASSUME TypesAssumption ==
  /\ BlockTypes \subseteq FunctionType
  /\ \A i \in DOMAIN FunctionTypes : FunctionTypes[i] \in FunctionType
  /\ \A i \in DOMAIN Callees : Callees[i] \in FunctionType
  /\ \A c \in Contexts :
       /\ {c.locals, c.returns, c.results} \subseteq Seq(ValueTypes)
       /\ c.labels \in Seq(Seq(ValueTypes))
       /\ \A x \in DOMAIN c.globals : c.globals[x].type \in ValueTypes

(* A function body has one label around it, a constant expression none. *)
ASSUME LabelsAssumption == \A c \in Contexts : Len(c.labels) <= 1

VARIABLES
  ctx,        \* the ExprValidationContext
  frames,     \* the visitors at work, the innermost last
  labels,     \* LabelStack: the types each label expects, the innermost last
  trace,      \* TraceCollector::ISites: the instructions being visited
  status,     \* "running", "accepted", "rejected", or "aborted": an assert failed
  meaning,    \* per frame, the operand stacks the rules allow
  typable,    \* whether the rules still give the expression a type
  undisputed  \* whether every br_table so far compared its labels as its rule does
vars == <<ctx, frames, labels, trace, status, meaning, typable, undisputed>>

(******************************** LabelStack ********************************)

(* LabelStack::operator[]: the innermost label is 0; a set of at most one. *)
Label(l) == IF l < Len(labels) THEN {labels[Len(labels) - l]} ELSE {}

(***************************** the typing rules *****************************)

Rule(params, results) == [params |-> params, results |-> results, open |-> FALSE]
StuckRule(params) == [params |-> params, results |-> <<>>, open |-> TRUE]

EndsWith(s, e) == Len(e) <= Len(s) /\ SubSeq(s, Len(s) - Len(e) + 1, Len(s)) = e

(* A possible stack is its top and whether anything at all may lie below. *)
Under(s, params) ==
  IF EndsWith(s.top, params) THEN {[s EXCEPT !.top = SubSeq(@, 1, Len(@) - Len(params))]}
  ELSE IF s.open /\ EndsWith(params, s.top) THEN {[s EXCEPT !.top = <<>>]}
  ELSE {}

After(s, rule) ==
  { IF rule.open THEN [open |-> TRUE, top |-> <<>>] ELSE [u EXCEPT !.top = @ \o rule.results] :
      u \in Under(s, rule.params) }

Derive(stacks, rules) == UNION { After(s, r) : s \in stacks, r \in rules }
Concludes(stacks, results) ==
  \E s \in stacks : \E u \in Under(s, results) : u.top = <<>>

(* C.labels[l] of the rules, read off the blocks that are open. *)
RuleLabel(l) ==
  LET open == Len(frames) IN
  IF l >= open THEN {}
  ELSE IF l = open - 1 THEN { ctx.labels[i] : i \in DOMAIN ctx.labels }
  ELSE { IF frames[open - l].kind = "loop" THEN frames[open - l].params
                                           ELSE frames[open - l].results }

BrTableRules(targets, default) ==
  { StuckRule(Append(types, "I32")) :
      types \in { ts \in RuleLabel(default) : \A i \in DOMAIN targets : RuleLabel(targets[i]) = {ts} } }

(* What an OperandStack says: every reading of its type variables. *)
Readings(t) ==
  LET variables == { e \in {t.stack[i] : i \in DOMAIN t.stack} : IsVar(e) } IN
  { [open |-> t.epsilon,
     top |-> [i \in DOMAIN t.stack |->
                IF IsVar(t.stack[i]) THEN reading[t.stack[i]] ELSE t.stack[i].type]] :
      reading \in [variables -> ValueTypes] }

(******************************** the visitor *******************************)

Depth == Len(frames)
Top == frames[Depth]
Stack == Top.operands

WithinBounds == Len(Stack.stack) <= MaxHeight /\ Stack.required <= MaxRequired

(* An instruction is visited: the trace grows by it and shrinks again when it
   is accepted; r is what the stack answers and rules what the rules allow. *)
Accept(to, rules) ==
  /\ frames' = [frames EXCEPT ![Depth].operands = to]
  /\ meaning' = [meaning EXCEPT ![Depth] = Derive(@, rules)]
  /\ typable' = (typable /\ meaning'[Depth] # {})
  /\ UNCHANGED <<labels, trace, status>>

RefuseAs(verdict, site, rules) ==
  /\ status' = verdict
  /\ trace' = Append(trace, site)
  /\ typable' = (typable /\ Derive(meaning[Depth], rules) # {})
  /\ UNCHANGED <<frames, labels, meaning>>
Refuse(site, rules) == RefuseAs("rejected", site, rules)

Visit(site, r, rules) == IF r.ok THEN Accept(r.to, rules) ELSE Refuse(site, rules)
VisitAsserted(site, r, rules) ==
  IF r.ok THEN Accept(r.to, rules) ELSE RefuseAs("aborted", site, rules)

Typed(site, params, results) ==
  Visit(site, TypeStack(Stack, Vals(params), Vals(results)), {Rule(params, results)})

(* The instruction ends the code that can be reached. *)
Stuck(site, params, rules) ==
  LET r == TypeStack(Stack, Vals(params), <<>>) IN Visit(site, [r EXCEPT !.to = Cleared], rules)

Running == status = "running" /\ WithinBounds /\ UNCHANGED ctx

(* ON(Name, ParamTypes, ResultTypes), and the ON of the memory accesses, which
   first asks for memory 0 and a bounded alignment, and of the lane accesses,
   which first ask for a lane that exists. *)
Plain(op, align, lane) ==
  LET sig == Signature(op)
      laneOK == op \in ExtractLane \cup ReplaceLane \cup LaneAccess => lane < LaneCount(op)
      memoryOK == op \in MemoryOps => ctx.memories > 0 /\ align <= MaximumAlign(op)
  IN  /\ Running
      /\ IF laneOK /\ memoryOK THEN Typed(op[2], sig.params, sig.results)
         ELSE Refuse(op[2], {})
      /\ UNCHANGED undisputed

Unreachable ==
  Running /\ Visit("unreachable", [ok |-> TRUE, to |-> Cleared], {StuckRule(<<>>)})
          /\ UNCHANGED undisputed

Return ==
  /\ Running
  /\ IF ctx.hasReturn THEN Stuck("return", ctx.returns, {StuckRule(ctx.returns)}) ELSE Refuse("return", {})
  /\ UNCHANGED undisputed

DropRules == { Rule(<<t>>, <<>>) : t \in ValueTypes }
Drop ==
  /\ Running
  /\ IF Peek(Stack, 0) = {} THEN Refuse("drop", DropRules)
     ELSE \E t \in Peek(Stack, 0) :
            VisitAsserted("drop", TypeStack(Stack, <<t>>, <<>>), DropRules)
  /\ UNCHANGED undisputed

SelectRules == { Rule(<<t, t, "I32">>, <<t>>) : t \in ValueTypes }
Select ==
  /\ Running
  /\ IF Peek(Stack, 1) = {} THEN Refuse("select", SelectRules)
     ELSE \E t \in Peek(Stack, 1) :
            Visit("select", TypeStack(Stack, <<t, t, Val("I32")>>, <<t>>), SelectRules)
  /\ UNCHANGED undisputed

(* A block: its label, its type on the stack, and a fresh visitor on its body. *)
Frame(kind, type) ==
  [kind |-> kind, params |-> type.params, results |-> type.results,
   operands |-> [EmptyStack EXCEPT !.stack = Vals(type.params)]]
FreshMeaning(type) == { [open |-> FALSE, top |-> type.params] }

Enter(kind, params, type, label) ==
  LET r == TypeStack(Stack, Vals(params), Vals(type.results))
      derived == Derive(meaning[Depth], {Rule(params, type.results)})
  IN  /\ labels' = Append(labels, label)
      /\ trace' = Append(trace, kind)
      /\ typable' = (typable /\ derived # {})
      /\ IF r.ok
         THEN /\ frames' = Append([frames EXCEPT ![Depth].operands = r.to], Frame(kind, type))
              /\ meaning' = Append([meaning EXCEPT ![Depth] = derived], FreshMeaning(type))
              /\ UNCHANGED status
         ELSE status' = "rejected" /\ UNCHANGED <<frames, meaning>>

Block(type) ==
  /\ Running /\ Depth < MaxDepth
  /\ Enter("block", type.params, type, type.results)
  /\ UNCHANGED undisputed

\* A plausible slip, for the mutants: a branch to a loop carries the loop's results.
LoopLabelledByResults(type) ==
  /\ Running /\ Depth < MaxDepth
  /\ Enter("loop", type.params, type, type.results)
  /\ UNCHANGED undisputed

Loop(type) ==
  /\ Running /\ Depth < MaxDepth
  /\ Enter("loop", type.params, type, type.params)
  /\ UNCHANGED undisputed

If(type, hasElse) ==
  /\ Running /\ Depth < MaxDepth
  /\ IF ~hasElse /\ type # Typing(<<>>, <<>>)
     THEN Refuse("if", {})
     ELSE Enter(IF hasElse THEN "if else" ELSE "if", Append(type.params, "I32"), type,
                type.results)
  /\ UNCHANGED undisputed

(* A block type whose index is out of range. *)
UnknownBlockType == Running /\ Refuse("block", {}) /\ UNCHANGED undisputed

Br(l) ==
  LET rules == { StuckRule(types) : types \in RuleLabel(l) } IN
  /\ Running
  /\ IF Label(l) = {} THEN Refuse("br", rules)
     ELSE \E types \in Label(l) : Stuck("br", types, rules)
  /\ UNCHANGED undisputed

BrIf(l) ==
  LET rules == { Rule(Append(types, "I32"), types) : types \in RuleLabel(l) } IN
  /\ Running
  /\ IF Label(l) = {} THEN Refuse("br_if", rules)
     ELSE \E types \in Label(l) :
            Visit("br_if", TypeStack(Stack, Vals(Append(types, "I32")), Vals(types)), rules)
  /\ UNCHANGED undisputed

(* rangeEqual: of two ranges of one length, every pair of elements differs. *)
RangeEqual(l, r) == Len(l) = Len(r) /\ \A i \in DOMAIN l : l[i] # r[i]

BrTable(targets, default) ==
  LET rules == BrTableRules(targets, default)
      others == { Label(targets[i]) : i \in DOMAIN targets }
      Agrees(Equal(_, _)) ==
        \A types \in Label(default) : \A other \in others : \A ts \in other : Equal(ts, types)
      Same(ts, types) == ts = types
  IN  /\ Running
      /\ IF {} \in others \cup {Label(default)} \/ ~Agrees(RangeEqual)
         THEN Refuse("br_table", rules)
         ELSE \E types \in Label(default) : Stuck("br_table", Append(types, "I32"), rules)
      /\ undisputed' = (undisputed /\ Agrees(RangeEqual) = Agrees(Same))

Call(f) ==
  /\ Running
  /\ IF f \in DOMAIN Callees THEN Typed("call", Callees[f].params, Callees[f].results)
     ELSE Refuse("call", {})
  /\ UNCHANGED undisputed

CallIndirect(t) ==
  /\ Running
  /\ IF ctx.tables > 0 /\ t \in DOMAIN FunctionTypes
     THEN Typed("call_indirect", Append(FunctionTypes[t].params, "I32"), FunctionTypes[t].results)
     ELSE Refuse("call_indirect", {})
  /\ UNCHANGED undisputed

LocalGet(x) ==
  /\ Running
  /\ IF x \in DOMAIN ctx.locals
     THEN VisitAsserted("local.get", TypeStack(Stack, <<>>, <<Val(ctx.locals[x])>>),
                        {Rule(<<>>, <<ctx.locals[x]>>)})
     ELSE Refuse("local.get", {})
  /\ UNCHANGED undisputed

LocalSet(x) ==
  /\ Running
  /\ IF x \in DOMAIN ctx.locals THEN Typed("local.set", <<ctx.locals[x]>>, <<>>)
     ELSE Refuse("local.set", {})
  /\ UNCHANGED undisputed

LocalTee(x) ==
  /\ Running
  /\ IF x \in DOMAIN ctx.locals THEN Typed("local.tee", <<ctx.locals[x]>>, <<ctx.locals[x]>>)
     ELSE Refuse("local.tee", {})
  /\ UNCHANGED undisputed

(* The initializer of a global sees only the imported globals. *)
VisibleGlobal(x) == x \in DOMAIN ctx.globals /\ (ctx.importedOnly => ctx.globals[x].imported)

GlobalGet(x) ==
  /\ Running
  /\ IF VisibleGlobal(x)
     THEN VisitAsserted("global.get", TypeStack(Stack, <<>>, <<Val(ctx.globals[x].type)>>),
                        {Rule(<<>>, <<ctx.globals[x].type>>)})
     ELSE Refuse("global.get", {})
  /\ UNCHANGED undisputed

GlobalSet(x) ==
  /\ Running
  /\ IF VisibleGlobal(x) /\ ctx.globals[x].var THEN Typed("global.set", <<ctx.globals[x].type>>, <<>>)
     ELSE Refuse("global.set", {})
  /\ UNCHANGED undisputed

(* The end of the visitor's expression: its results, and nothing else, must be
   left.  The visitor that opened the block goes on, with the other branch of
   an if first. *)
EndsProperly ==
  LET r == TypeStack(Stack, Vals(Top.results), <<>>) IN r.ok /\ r.to.stack = <<>>

EndElse ==
  /\ frames' = [frames EXCEPT ![Depth] = Frame("else", [params |-> @.params, results |-> @.results])]
  /\ meaning' = [meaning EXCEPT ![Depth] = { [open |-> FALSE, top |-> Top.params] }]
  /\ UNCHANGED <<labels, trace, status>>

\* A plausible slip, for the mutants: the site of the block is not popped.
EndBlockKeepingSite ==
  /\ frames' = SubSeq(frames, 1, Depth - 1)
  /\ meaning' = SubSeq(meaning, 1, Depth - 1)
  /\ labels' = SubSeq(labels, 1, Len(labels) - 1)
  /\ UNCHANGED <<trace, status>>

EndBlock ==
  /\ frames' = SubSeq(frames, 1, Depth - 1)
  /\ meaning' = SubSeq(meaning, 1, Depth - 1)
  /\ labels' = SubSeq(labels, 1, Len(labels) - 1)
  /\ trace' = SubSeq(trace, 1, Len(trace) - 1)
  /\ UNCHANGED status

EndExpression ==
  Running
  /\ typable' = (typable /\ Concludes(meaning[Depth], Top.results))
  /\ UNCHANGED undisputed
  /\ IF ~EndsProperly
     THEN status' = "rejected" /\ UNCHANGED <<frames, labels, trace, meaning>>
     ELSE IF Top.kind = "if else" THEN EndElse
     ELSE IF Depth > 1 THEN EndBlock
     ELSE status' = "accepted" /\ UNCHANGED <<frames, labels, trace, meaning>>

Init ==
  /\ ctx \in Contexts
  /\ frames = << Frame("body", Typing(<<>>, ctx.results)) >>
  /\ labels = ctx.labels
  /\ trace = <<>>
  /\ status = "running"
  /\ meaning = << FreshMeaning(Typing(<<>>, ctx.results)) >>
  /\ typable = TRUE
  /\ undisputed = TRUE

LabelIndex == 0 .. MaxDepth
Next ==
  \/ \E op \in PlainOps, align \in {0, 9}, lane \in {0, 16} : Plain(op, align, lane)
  \/ Unreachable \/ Return \/ Drop \/ Select \/ UnknownBlockType
  \/ \E type \in BlockTypes : Block(type)
  \/ \E type \in BlockTypes : Loop(type)
  \/ \E type \in BlockTypes, hasElse \in BOOLEAN : If(type, hasElse)
  \/ \E l \in LabelIndex : Br(l)
  \/ \E l \in LabelIndex : BrIf(l)
  \/ \E n \in 0 .. MaxTargets : \E targets \in [1..n -> LabelIndex], l \in LabelIndex :
       BrTable(targets, l)
  \/ \E f \in 1 .. Len(Callees) + 1 : Call(f)
  \/ \E t \in 1 .. Len(FunctionTypes) + 1 : CallIndirect(t)
  \/ \E x \in 1 .. Len(ctx.locals) + 1 : LocalGet(x)
  \/ \E x \in 1 .. Len(ctx.locals) + 1 : LocalSet(x)
  \/ \E x \in 1 .. Len(ctx.locals) + 1 : LocalTee(x)
  \/ \E x \in 1 .. Len(ctx.globals) + 1 : GlobalGet(x)
  \/ \E x \in 1 .. Len(ctx.globals) + 1 : GlobalSet(x)
  \/ EndExpression

Spec == Init /\ [][Next]_vars

(******************************** properties ********************************)

(* As long as an expression is being validated, the operand stack with its
   epsilon and type variables says of every open block exactly which stacks the
   rules allow there: unreachable code, select and drop included. *)
StacksDenote ==
  undisputed /\ status = "running" =>
    \A i \in DOMAIN frames : Readings(frames[i].operands) = meaning[i]

(* An expression is refused at exactly the instruction where the rules stop
   giving it a type, and accepted only if they give it one.  br_table between
   labels whose comparison is inverted is left out. *)
VerdictFollowsRules ==
  undisputed => (typable <=> status \notin {"rejected", "aborted"})

(* The same of every br_table, as its rule reads: each label expects [t*]. *)
BranchTablesFollowRules == typable <=> status # "rejected"

(* assert(AlwaysSuccessful) of drop, local.get and global.get never fails. *)
NeverAborts == status # "aborted"

(* A type variable is only ever the lowest operand, in unreachable code, and its
   number is below the one the next variable gets.  ensure() relies on it: it
   refuses a variable against a value type. *)
VariablesAtBottom ==
  \A i \in DOMAIN frames : LET t == frames[i].operands IN
    \A j \in DOMAIN t.stack :
      IsVar(t.stack[j]) => j = 1 /\ t.epsilon /\ t.stack[j].id < t.required

(* The sites of an error are the blocks open around it, the outermost first, and
   then the instruction refused, unless what is refused is the end of the block. *)
SitesNest ==
  LET open == [i \in 1 .. Len(frames) - 1 |->
                 IF frames[i + 1].kind = "else" THEN "if else" ELSE frames[i + 1].kind]
  IN  IF status = "running" THEN trace = open
      ELSE Len(trace) \in {Len(open), Len(open) + 1} /\ SubSeq(trace, 1, Len(open)) = open
=============================================================================
