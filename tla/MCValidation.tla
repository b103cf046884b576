---------------------------- MODULE MCValidation ----------------------------
(* Two value types on the stack, blocks that take and leave operands, and the
   contexts of a function body and of a global's initializer. *)
EXTENDS Validation

FunctionContext ==
  [locals |-> <<"I32", "I64">>, hasReturn |-> TRUE, returns |-> <<"I64">>, results |-> <<"I64">>,
   labels |-> << <<"I64">> >>, importedOnly |-> FALSE, tables |-> 1, memories |-> 1,
   globals |-> << [type |-> "I32", var |-> TRUE, imported |-> FALSE] >>]
InitializerContext ==
  [locals |-> <<>>, hasReturn |-> FALSE, returns |-> <<>>, results |-> <<"I32">>,
   labels |-> <<>>, importedOnly |-> TRUE, tables |-> 0, memories |-> 0,
   globals |-> << [type |-> "I32", var |-> FALSE, imported |-> TRUE],
                  [type |-> "I32", var |-> FALSE, imported |-> FALSE] >>]

MCContexts == {FunctionContext, InitializerContext}
MCBlockTypes == { Typing(<<>>, <<>>), Typing(<<>>, <<"I32">>), Typing(<<"I32">>, <<"I64">>) }
MCFunctionTypes == << Typing(<<"I64">>, <<"I32">>) >>
MCCallees == << Typing(<<"I32", "I64">>, <<"I64">>) >>
MCPlainOps == { <<"I32", "Const">>, <<"I64", "Const">>, <<"I64", "Eqz">>, <<"I32", "Add">>,
                <<"I64", "Store", 32>>, <<"I8x16", "ExtractLaneU">> }
=============================================================================
