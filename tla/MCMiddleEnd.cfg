CONSTANTS
  Locals <- MCLocals
  Globals <- MCGlobals
  Programs <- MCPrograms
  HashOrders <- MCHashOrders
  MAX_PIPELINE_ITERATIONS = 8
  Source = "sound"
SPECIFICATION Spec
INVARIANTS
  TypeOK
  DefsDominateUses
  TreeMatchesGraph
  LegacyTreeSound
  EdgesPlaceable
  DominatorsFirst
  ValuesPreserved
  PassesComplete
