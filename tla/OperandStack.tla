----------------------------- MODULE OperandStack -----------------------------
(***************************************************************************)
(* The operand stack of the validator: value types, type variables for the   *)
(* operands of code that is never reached, and the epsilon that says so.      *)
(***************************************************************************)
EXTENDS Opcodes

(* An OperandStackElement: a value type or a TypeVariable. *)
Val(t) == [type |-> t, id |-> 0]
TypeVariable(n) == [type |-> "variable", id |-> n]
IsVar(e) == e.type = "variable"
Vals(ts) == [i \in DOMAIN ts |-> Val(ts[i])]

EmptyStack == [stack |-> <<>>, required |-> 0, epsilon |-> FALSE]

(* One expected operand against the element under the cursor: a variable is
   replaced by it everywhere, a value type must be equal, and under an epsilon
   the operands below the stack are whatever is required. *)
Ensure(s, e) ==
  IF ~s.ok THEN s
  ELSE IF s.cursor > 0
  THEN LET x == s.stack[s.cursor] IN
       IF IsVar(x)
       THEN [s EXCEPT !.cursor = @ - 1,
                      !.stack = [j \in DOMAIN @ |-> IF @[j] = x THEN e ELSE @[j]]]
       ELSE IF IsVar(e) \/ x # e THEN [s EXCEPT !.ok = FALSE] ELSE [s EXCEPT !.cursor = @ - 1]
  ELSE IF s.epsilon THEN [s EXCEPT !.required = @ + 1] ELSE [s EXCEPT !.ok = FALSE]

(* OperandStack::operator(): the expected operands from the last to the first,
   then what is left of the stack with the promised ones on top. *)
Ensured(t, ensures) ==
  LET n == Len(ensures)
      start == [stack |-> t.stack, cursor |-> Len(t.stack), required |-> t.required,
                epsilon |-> t.epsilon, ok |-> TRUE]
      f[i \in 0..n] == IF i = 0 THEN start ELSE Ensure(f[i - 1], ensures[n - i + 1])
  IN  f[n]

\* A plausible slip, for the mutants: a stack consumed to its end is not cleared.
TypeStackUncleared(t, ensures, promises) ==
  LET end == Ensured(t, ensures)
      rest == IF end.cursor = 0 THEN end.stack ELSE SubSeq(end.stack, 1, end.cursor)
  IN  [ok |-> end.ok, to |-> [stack |-> rest \o promises, required |-> end.required,
                              epsilon |-> end.epsilon]]

TypeStack(t, ensures, promises) ==
  LET end == Ensured(t, ensures) IN
  [ok |-> end.ok,
   to |-> [stack |-> SubSeq(end.stack, 1, end.cursor) \o promises,
           required |-> end.required, epsilon |-> end.epsilon]]

\* A plausible slip, for the mutants: a missing operand is a variable even without an epsilon.
PeekAlways(t, offset) ==
  IF offset < Len(t.stack) THEN {t.stack[Len(t.stack) - offset]} ELSE {TypeVariable(t.required)}

(* The element `offset` below the top, if there is one: a set of at most one. *)
Peek(t, offset) ==
  IF offset < Len(t.stack) THEN {t.stack[Len(t.stack) - offset]}
  ELSE IF t.epsilon THEN {TypeVariable(t.required)} ELSE {}

\* A plausible slip, for the mutants: the epsilon is not set.
ClearedOnly == EmptyStack

(* clear() and setEpsilon() after an instruction that never falls through. *)
Cleared == [stack |-> <<>>, required |-> 0, epsilon |-> TRUE]
=============================================================================
