SPECIFICATION Spec
CONSTANTS
  Contexts <- MCContexts
  BlockTypes <- MCBlockTypes
  FunctionTypes <- MCFunctionTypes
  Callees <- MCCallees
  PlainOps <- MCPlainOps
  MaxDepth = 2
  MaxHeight = 2
  MaxRequired = 2
  MaxTargets = 1
INVARIANTS
  StacksDenote
  VerdictFollowsRules
  NeverAborts
  VariablesAtBottom
  SitesNest
CHECK_DEADLOCK FALSE
