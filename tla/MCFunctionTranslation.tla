------------------------ MODULE MCFunctionTranslation ------------------------
(* Small instances of FunctionTranslation for TLC.                         *)
EXTENDS FunctionTranslation

MCVoid   == << <<>>, <<>> >>
MCGives  == << <<>>, <<"i32">> >>
MCTakes  == << <<"i32">>, <<>> >>
MCPasses == << <<"i32">>, <<"i32">> >>
MCPair   == << <<"i32", "i32">>, <<"i32", "i32">> >>

(* Bodies of four instructions that start with a value.  No loop has more  *)
(* parameters than results: the visitor has no values for the others.      *)
MCAll ==
    [results |-> <<"i32">>,
     blockTypes |-> {MCVoid, MCGives, MCTakes, MCPasses},
     loopTypes  |-> {MCVoid, MCGives, MCPasses},
     bytecodes  |-> {"const", "call", "drop", "block", "loop", "if_else", "if",
                     "br", "br_if", "br_table", "return"},
     prefix |-> <<"const">>, fuel |-> 4]

(* Bodies with a loop inside or after a block, which may be dead.          *)
MCDead ==
    [results |-> <<>>, blockTypes |-> {MCVoid}, loopTypes |-> {MCVoid},
     bytecodes |-> {"const", "call", "block", "loop", "if_else", "if", "br", "br_if"},
     prefix |-> <<"block", "loop", "const">>, fuel |-> 5]

(* Bodies with two values, for blocks, loops and a function of two         *)
(* parameters and two results.                                             *)
MCMulti ==
    [results |-> <<"i32", "i32">>, blockTypes |-> {MCPair}, loopTypes |-> {MCPair},
     bytecodes |-> {"const", "unary", "drop", "block", "loop", "if_else", "br",
                    "br_if", "return"},
     prefix |-> <<"const", "const">>, fuel |-> 5]

MCScopes         == {MCAll, MCDead, MCMulti}
MCTeardownScopes == {MCDead}

=============================================================================
