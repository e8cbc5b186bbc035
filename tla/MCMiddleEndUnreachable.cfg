CONSTANTS
  Locals <- MCLocals
  Globals <- MCGlobals
  Programs <- MCPrograms
  HashOrders <- MCHashOrders
  MAX_PIPELINE_ITERATIONS = 8
  Source = "unreachable"
SPECIFICATION Spec
INVARIANT
  UnreachableBlocksHarmless
